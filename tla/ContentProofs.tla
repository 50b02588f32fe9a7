--------------------------- MODULE ContentProofs ----------------------------
(***************************************************************************)
(* Proofs about the services that write content: the steps of recipes and  *)
(* the dish planned from them (RecipeSteps), the files of rules            *)
(* (RuleDocuments) and the recipes of the content sync (Remediation).      *)
(***************************************************************************)
EXTENDS RecipeSteps, RuleDocuments, Remediation, TLAPS, SequenceTheorems, FiniteSetTheorems

-----------------------------------------------------------------------------
(* Recipes.                                                                *)

(* Versions are of the contracts in the code; they only grow, so that a    *)
(* round's ingredients are never newer than those that are active.         *)
VersionsGrow ==
  /\ shipped \in [Kinds -> Nat] /\ active \in [Kinds -> Nat]
  /\ dishwasher.ids \in [Kinds -> Nat]
  /\ \A k \in Kinds : dishwasher.ids[k] <= active[k] /\ active[k] <= shipped[k]

RecipesTyped ==
  /\ owner \in {"template", "managed", "nobody"}
  /\ wanted \in {{"act1"}, {"act1", "act2"}}
  /\ recipe \in [RecipeNames -> {"absent", "disabled", "enabled"}]
  /\ calm \in BOOLEAN
  /\ named \in [RecipeNames -> [StepKeys -> Nat]]
  /\ on \in [RecipeNames -> [Routes -> BOOLEAN]]
  /\ dishwasher \in [at : {"idle", "registered", "looking", "patching"},
                     ids : [Kinds -> Nat], clean : BOOLEAN]
  /\ rows \in [RecipeNames -> [StepKeys -> [planned : Nat, linked : BOOLEAN]]]

(* Only the Dishwasher of a template's recipe looks it up and writes it;   *)
(* a recipe that is enabled has its first step.                            *)
RecipeWritten ==
  /\ dishwasher.at \in {"looking", "patching"} => owner = "template"
  /\ recipe["flow"] = "enabled" => named["flow"]["act1"] # 0

(* A row that is linked was planned.  While nothing is changed a row stays *)
(* linked, the policy has every route, and the template's recipe is as the *)
(* Dishwasher would write it.                                              *)
RowsLinked == \A n \in RecipeNames, k \in StepKeys : rows[n][k].linked => rows[n][k].planned > 0
CalmRows ==
  calm => \A n \in RecipeNames, k \in StepKeys :
            rows[n][k].planned <= 1 /\ (rows[n][k].planned = 1 => rows[n][k].linked)
CalmPolicy == calm => Enabled("policy") = Routes
AsShipped ==
  /\ recipe["flow"] = "enabled" /\ OwnRoutes("flow") = {}
  /\ \A k \in ActKeys : named["flow"][k] = (IF k = "act1" THEN active["act"] ELSE 0)
CalmRecipe ==
  calm /\ owner = "template" =>
    /\ AsShipped /\ dishwasher.at # "patching"
    /\ dishwasher.at \in {"registered", "looking"} => dishwasher.ids["act"] = active["act"]

(* What a clean round has been through names what it has registered.       *)
CleanRound ==
  dishwasher.clean /\ owner = "template" /\ active = dishwasher.ids =>
    /\ dishwasher.at = "idle" => \A k \in ActKeys : named["flow"][k] \in {0, active["act"]}
    /\ dishwasher.at # "registered" => \A r \in Routes : named["policy"][r] \in {0, active["talk"]}

RecipesInv ==
  /\ RecipesTyped /\ VersionsGrow /\ RecipeWritten /\ RowsLinked
  /\ CalmRows /\ CalmPolicy /\ CalmRecipe /\ CleanRound

LEMMA RecipesInitInv == RecipesInit => RecipesInv
<1> SUFFICES ASSUME RecipesInit PROVE RecipesInv
  OBVIOUS
<1> USE DEF RecipesInit, NoSteps
<1>1. RecipesTyped
  BY DEF RecipesTyped, Kinds
<1>2. VersionsGrow
  BY DEF VersionsGrow, Kinds
<1>3. RecipeWritten
  BY DEF RecipeWritten, RecipeNames
<1>4. RowsLinked
  BY DEF RowsLinked, RecipeNames
<1>5. CalmRows /\ CalmPolicy /\ CalmRecipe /\ CleanRound
  BY DEF CalmRows, CalmPolicy, CalmRecipe, CleanRound
<1> QED
  BY <1>1, <1>2, <1>3, <1>4, <1>5 DEF RecipesInv

(* register_ingredient_templates: what is calm stays so only if no contract*)
(* changed.                                                                *)
LEMMA Registered ==
  ASSUME Register, calm \in BOOLEAN
  PROVE  /\ calm' \in BOOLEAN
         /\ calm' => calm /\ active' = active
  BY DEF Register

LEMMA BootstrapKeeps == RecipesInv /\ BootstrapIngredients => RecipesInv'
<1> SUFFICES ASSUME RecipesInv, BootstrapIngredients PROVE RecipesInv'
  OBVIOUS
<1> USE DEF RecipesInv, BootstrapIngredients
<1>1. calm' \in BOOLEAN /\ (calm' => calm /\ active' = active)
  BY Registered DEF RecipesTyped
<1>2. UNCHANGED << owner, shipped, wanted, recipe, managed, named, on, rows, dishwasher >>
      /\ active' = shipped
  BY DEF Register
<1> HIDE DEF BootstrapIngredients
<1>3. RecipesTyped'
  BY <1>1, <1>2 DEF RecipesTyped
<1>4. VersionsGrow'
  BY <1>2 DEF VersionsGrow
<1>5. RecipeWritten' /\ RowsLinked' /\ CalmRows' /\ CalmPolicy'
  BY <1>1, <1>2 DEF RecipeWritten, RowsLinked, CalmRows, CalmPolicy, Enabled, OwnRoutes
<1>6. CalmRecipe'
  BY <1>1, <1>2 DEF CalmRecipe, AsShipped, OwnRoutes
<1>7. active' = dishwasher'.ids => active = dishwasher.ids
  BY <1>2 DEF VersionsGrow
<1>8. CleanRound'
  BY <1>2, <1>7 DEF CleanRound
<1> QED
  BY <1>3, <1>4, <1>5, <1>6, <1>8

LEMMA StartSyncKeeps == RecipesInv /\ StartSync => RecipesInv'
<1> SUFFICES ASSUME RecipesInv, StartSync PROVE RecipesInv'
  OBVIOUS
<1> USE DEF RecipesInv, StartSync
<1>1. calm' \in BOOLEAN /\ (calm' => calm /\ active' = active)
  BY Registered DEF RecipesTyped
<1>2. UNCHANGED << owner, shipped, wanted, recipe, managed, named, on, rows >>
      /\ active' = shipped
      /\ dishwasher' = [at |-> "registered", ids |-> shipped, clean |-> TRUE]
  BY DEF Register
<1> HIDE DEF StartSync
<1>3. RecipesTyped'
  BY <1>1, <1>2 DEF RecipesTyped, VersionsGrow
<1>4. VersionsGrow'
  BY <1>2 DEF VersionsGrow
<1>5. RecipeWritten' /\ RowsLinked' /\ CalmRows' /\ CalmPolicy'
  BY <1>1, <1>2 DEF RecipeWritten, RowsLinked, CalmRows, CalmPolicy, Enabled, OwnRoutes
<1>6. CalmRecipe'
  BY <1>1, <1>2 DEF CalmRecipe, AsShipped, OwnRoutes
<1>7. CleanRound'
  BY <1>2 DEF CleanRound
<1> QED
  BY <1>3, <1>4, <1>5, <1>6, <1>7

LEMMA UpgradeKeeps == ASSUME RecipesInv, NEW k \in Kinds, Upgrade(k) PROVE RecipesInv'
<1> USE DEF RecipesInv, Upgrade
<1>1. RecipesTyped'
  BY DEF RecipesTyped
<1>2. VersionsGrow'
  BY DEF VersionsGrow
<1>3. RecipeWritten' /\ RowsLinked' /\ CalmRows' /\ CalmPolicy'
  BY DEF RecipeWritten, RowsLinked, CalmRows, CalmPolicy, Enabled, OwnRoutes
<1>4. CalmRecipe' /\ CleanRound'
  BY DEF CalmRecipe, CleanRound, AsShipped, OwnRoutes
<1> QED
  BY <1>1, <1>2, <1>3, <1>4

(* A round that fails, or whose policy is refused, is not clean; looking a *)
(* recipe up ends the round or is followed by a write.                     *)
LEMMA RoundKeeps ==
  ASSUME RecipesInv, SyncFails \/ SyncPolicyRefused \/ LookUpRecipe
  PROVE  RecipesInv'
<1> USE DEF RecipesInv
<1>1. UNCHANGED << owner, shipped, active, wanted, recipe, managed, named, on, rows, calm >>
  BY DEF SyncFails, SyncPolicyRefused, LookUpRecipe
<1>2. /\ dishwasher' \in [at : {"idle", "registered", "looking", "patching"},
                          ids : [Kinds -> Nat], clean : BOOLEAN]
      /\ dishwasher'.ids = dishwasher.ids /\ (dishwasher'.clean => dishwasher.clean)
      /\ dishwasher'.at # "registered"
      /\ dishwasher'.at = "looking" => dishwasher.at = "registered" /\ owner = "template"
      /\ dishwasher'.at = "patching" => dishwasher.at = "looking" /\ ~Matches
      /\ dishwasher'.clean => dishwasher.at = "looking" /\ (dishwasher'.at = "idle" => Matches)
  BY DEF SyncFails, SyncPolicyRefused, LookUpRecipe, AfterPolicy, RecipesTyped
<1>3. RecipesTyped'
  BY <1>1, <1>2 DEF RecipesTyped
<1>4. VersionsGrow'
  BY <1>1, <1>2 DEF VersionsGrow
<1>5. RecipeWritten' /\ RowsLinked' /\ CalmRows' /\ CalmPolicy'
  BY <1>1, <1>2 DEF RecipeWritten, RowsLinked, CalmRows, CalmPolicy, Enabled, OwnRoutes
<1>6. CalmRecipe'
  <2>1. calm /\ owner = "template" /\ dishwasher.at = "looking" => Matches
    BY DEF CalmRecipe, AsShipped, Matches
  <2> QED
    BY <1>1, <1>2, <2>1 DEF CalmRecipe, AsShipped, OwnRoutes
<1>7. CleanRound'
  BY <1>1, <1>2 DEF CleanRound, Matches
<1> QED
  BY <1>3, <1>4, <1>5, <1>6, <1>7

-----------------------------------------------------------------------------
(* Detached, Kept, Seeded: what becomes of the rows of a recipe.           *)

StepRowsTyped == [StepKeys -> [planned : Nat, linked : BOOLEAN]]

LEMMA DetachedRows ==
  ASSUME RecipesTyped, RowsLinked, NEW n \in RecipeNames, NEW keys
  PROVE  /\ Detached(n, keys) \in StepRowsTyped
         /\ \A k \in StepKeys :
              /\ Detached(n, keys)[k].linked => Detached(n, keys)[k].planned > 0
              /\ k \notin keys => Detached(n, keys)[k] = rows[n][k]
<1>1. rows[n] \in StepRowsTyped
  BY DEF RecipesTyped, StepRowsTyped
<1> QED
  BY <1>1 DEF Detached, RowsLinked, StepRowsTyped

LEMMA KeptRows ==
  ASSUME RecipesTyped, RowsLinked, NEW n \in RecipeNames
  PROVE  Kept(n, Routes) = rows[n]
<1>1. OwnRoutes(n) \ Routes = {}
  BY DEF OwnRoutes
<1>2. rows[n] \in StepRowsTyped
  BY DEF RecipesTyped, StepRowsTyped
<1> QED
  BY <1>1, <1>2 DEF Kept, Detached, StepRowsTyped

LEMMA SeededRows ==
  ASSUME NEW was \in StepRowsTyped, NEW steps,
         \A k \in StepKeys : was[k].linked => was[k].planned > 0
  PROVE  /\ Seeded(was, steps) \in StepRowsTyped
         /\ \A k \in StepKeys :
              /\ Seeded(was, steps)[k].linked => Seeded(was, steps)[k].planned > 0
              /\ was[k].planned <= 1 /\ (was[k].planned = 1 => was[k].linked) =>
                   /\ Seeded(was, steps)[k].planned <= 1
                   /\ Seeded(was, steps)[k].planned = 1 => Seeded(was, steps)[k].linked
  BY DEF Seeded, StepRowsTyped

(* put_communications_policy: the routes of the policy and the fallback.   *)
LEMMA PolicyPut ==
  ASSUME RecipesInv, NEW routes \in SUBSET Routes, NEW enabled \in SUBSET routes,
         PutPolicy(routes, enabled), calm' \in BOOLEAN,
         dishwasher' \in [at : {"idle", "registered", "looking", "patching"},
                          ids : [Kinds -> Nat], clean : BOOLEAN]
  PROVE  /\ RecipesTyped' /\ RowsLinked'
         /\ named'["flow"] = named["flow"] /\ recipe'["flow"] = recipe["flow"]
         /\ rows'["flow"] = rows["flow"]
         /\ \A r \in Routes : named'["policy"][r] \in {0, active["talk"]}
<1> USE DEF RecipesInv
<1>1. \A n \in RecipeNames : WithRoutes(n, routes) \in [StepKeys -> Nat]
                             /\ WithRoutes(n, enabled) \in [StepKeys -> Nat]
  BY DEF WithRoutes, RecipesTyped, VersionsGrow, StepKeys, Kinds
<1>2. \A r \in Routes : WithRoutes("policy", routes)[r] \in {0, active["talk"]}
  BY RecipeAssumption DEF WithRoutes, StepKeys, ActKeys
<1>3. \A n \in RecipeNames :
         /\ Kept(n, routes) \in StepRowsTyped /\ Kept(n, enabled) \in StepRowsTyped
         /\ \A k \in StepKeys : /\ Kept(n, routes)[k].linked => Kept(n, routes)[k].planned > 0
                                /\ Kept(n, enabled)[k].linked => Kept(n, enabled)[k].planned > 0
  BY DetachedRows DEF Kept
<1>4. {"policy", "fallback", "flow"} = RecipeNames
  BY DEF RecipeNames
<1>5. named' \in [RecipeNames -> [StepKeys -> Nat]]
      /\ named'["flow"] = named["flow"] /\ named'["policy"] = WithRoutes("policy", routes)
  BY <1>1, <1>4 DEF PutPolicy, RecipesTyped
<1>6. on' \in [RecipeNames -> [Routes -> BOOLEAN]]
  <2> DEFINE chosen == [r \in Routes |-> r \in enabled]
  <2>1. chosen \in [Routes -> BOOLEAN]
    OBVIOUS
  <2>2. on' = [on EXCEPT !["policy"] = chosen, !["fallback"] = chosen]
    BY DEF PutPolicy
  <2> HIDE DEF chosen
  <2> QED
    BY <1>4, <2>1, <2>2 DEF RecipesTyped
<1>7. recipe' \in [RecipeNames -> {"absent", "disabled", "enabled"}]
      /\ recipe'["flow"] = recipe["flow"]
  BY <1>4 DEF PutPolicy, RecipesTyped
<1>8. rows' \in [RecipeNames -> StepRowsTyped] /\ rows'["flow"] = rows["flow"]
      /\ rows'["policy"] = Kept("policy", routes) /\ rows'["fallback"] = Kept("fallback", enabled)
  BY <1>3, <1>4 DEF PutPolicy, RecipesTyped, StepRowsTyped
<1>9. RowsLinked'
  BY <1>3, <1>4, <1>8 DEF RowsLinked
<1>10. RecipesTyped'
  BY <1>5, <1>6, <1>7, <1>8 DEF RecipesTyped, StepRowsTyped, PutPolicy
<1> QED
  BY <1>2, <1>5, <1>7, <1>8, <1>9, <1>10

LEMMA AdminPutsPolicyKeeps == RecipesInv /\ AdminPutsPolicy => RecipesInv'
<1> SUFFICES ASSUME RecipesInv, NEW routes \in SUBSET Routes, NEW enabled \in SUBSET routes,
                    PutPolicy(routes, enabled), calm' = FALSE, UNCHANGED dishwasher
             PROVE  RecipesInv'
  BY DEF AdminPutsPolicy
<1> USE DEF RecipesInv
<1>1. UNCHANGED << owner, shipped, active, wanted, managed, dishwasher >> /\ ~calm'
  BY DEF PutPolicy
<1>2. dishwasher' \in [at : {"idle", "registered", "looking", "patching"},
                       ids : [Kinds -> Nat], clean : BOOLEAN]
  BY DEF RecipesTyped
<1>3. /\ RecipesTyped' /\ RowsLinked'
      /\ named'["flow"] = named["flow"] /\ recipe'["flow"] = recipe["flow"]
      /\ \A r \in Routes : named'["policy"][r] \in {0, active["talk"]}
  BY <1>2, PolicyPut
<1>4. VersionsGrow' /\ RecipeWritten'
  BY <1>1, <1>3 DEF VersionsGrow, RecipeWritten
<1>5. CalmRows' /\ CalmPolicy' /\ CalmRecipe'
  BY <1>1 DEF CalmRows, CalmPolicy, CalmRecipe
<1>6. CleanRound'
  BY <1>1, <1>3 DEF CleanRound
<1> QED
  BY <1>3, <1>4, <1>5, <1>6

LEMMA SyncPolicyKeeps == RecipesInv /\ SyncPolicy => RecipesInv'
<1> SUFFICES ASSUME RecipesInv, SyncPolicy PROVE RecipesInv'
  OBVIOUS
<1> USE DEF RecipesInv
<1>1. /\ UNCHANGED << owner, shipped, active, wanted, managed, calm >>
      /\ PutPolicy(Routes, Routes) /\ dishwasher.at = "registered"
      /\ dishwasher' = [dishwasher EXCEPT !.at = AfterPolicy]
  BY DEF SyncPolicy, PutPolicy
<1>2. /\ dishwasher' \in [at : {"idle", "registered", "looking", "patching"},
                          ids : [Kinds -> Nat], clean : BOOLEAN]
      /\ dishwasher'.at = IF owner = "template" THEN "looking" ELSE "idle"
      /\ dishwasher'.ids = dishwasher.ids
  BY <1>1 DEF RecipesTyped, AfterPolicy
<1>3. calm' \in BOOLEAN
  BY <1>1 DEF RecipesTyped
<1>4. /\ RecipesTyped' /\ RowsLinked'
      /\ named'["flow"] = named["flow"] /\ recipe'["flow"] = recipe["flow"]
      /\ \A r \in Routes : named'["policy"][r] \in {0, active["talk"]}
  BY <1>1, <1>2, <1>3, PolicyPut
<1>5. VersionsGrow' /\ RecipeWritten'
  BY <1>1, <1>2, <1>4 DEF VersionsGrow, RecipeWritten
<1>6. rows' = rows
  <2>1. rows \in [RecipeNames -> StepRowsTyped]
    BY DEF RecipesTyped, StepRowsTyped
  <2> QED
    BY <1>1, <2>1, KeptRows DEF PutPolicy, RecipeNames
<1>7. CalmRows'
  BY <1>1, <1>6 DEF CalmRows
<1>8. CalmPolicy'
  <2>1. Routes # {} => active["talk"] # 0
    BY <1>1 DEF PutPolicy
  <2>2. \A r \in Routes : named'["policy"][r] = active["talk"] /\ on'["policy"][r]
    BY <1>1, RecipeAssumption DEF PutPolicy, WithRoutes, StepKeys, ActKeys, RecipeNames, RecipesTyped
  <2> QED
    BY <2>1, <2>2 DEF CalmPolicy, Enabled, OwnRoutes
<1>9. CalmRecipe'
  BY <1>1, <1>2, <1>4 DEF CalmRecipe, AsShipped, OwnRoutes
<1>10. CleanRound'
  BY <1>1, <1>2, <1>4 DEF CleanRound
<1> QED
  BY <1>4, <1>5, <1>7, <1>8, <1>9, <1>10

(* update_recipe, create_recipe: the steps are deleted and made again.     *)
LEMMA StepsWritten ==
  ASSUME RecipesInv, NEW keys, "act1" \in keys, NEW state \in {"disabled", "enabled"},
         WriteSteps(keys, state), calm' \in BOOLEAN,
         dishwasher' \in [at : {"idle", "registered", "looking", "patching"},
                          ids : [Kinds -> Nat], clean : BOOLEAN]
  PROVE  /\ RecipesTyped' /\ RowsLinked'
         /\ named'["policy"] = named["policy"] /\ named'["flow"]["act1"] # 0
         /\ \A k \in ActKeys : named'["flow"][k] \in {0, active["act"]}
<1> USE DEF RecipesInv
<1>1. /\ Ships(keys) \in [StepKeys -> Nat] /\ Ships(keys)["act1"] = active["act"]
      /\ \A k \in ActKeys : Ships(keys)[k] \in {0, active["act"]}
      /\ active["act"] # 0
  BY DEF WriteSteps, Ships, VersionsGrow, Kinds, StepKeys, ActKeys
<1>2. /\ named' \in [RecipeNames -> [StepKeys -> Nat]]
      /\ named'["policy"] = named["policy"]
      /\ \A k \in ActKeys : named'["flow"][k] = Ships(keys)[k]
  BY <1>1, RecipeAssumption DEF WriteSteps, RecipesTyped, RecipeNames, StepKeys, ActKeys
<1>3. /\ Detached("flow", StepKeys) \in StepRowsTyped
      /\ \A k \in StepKeys : Detached("flow", StepKeys)[k].linked => Detached("flow", StepKeys)[k].planned > 0
  BY DetachedRows DEF RecipeNames
<1>4. rows' \in [RecipeNames -> StepRowsTyped] /\ rows' = [rows EXCEPT !["flow"] = Detached("flow", StepKeys)]
  BY <1>3 DEF WriteSteps, RecipesTyped, RecipeNames, StepRowsTyped
<1>5. RowsLinked'
  BY <1>3, <1>4 DEF RowsLinked, RecipesTyped, RecipeNames
<1>6. RecipesTyped'
  BY <1>2, <1>4 DEF WriteSteps, RecipesTyped, RecipeNames, StepRowsTyped
<1>7. "act1" \in ActKeys
  BY DEF ActKeys
<1> QED
  BY <1>1, <1>2, <1>5, <1>6, <1>7

LEMMA EditStepsKeeps == RecipesInv /\ EditSteps => RecipesInv'
<1> SUFFICES ASSUME RecipesInv, NEW keys \in {{"act1"}, {"act1", "own"}},
                    NEW state \in {"disabled", "enabled"}, WriteSteps(keys, state),
                    calm' = FALSE, UNCHANGED dishwasher
             PROVE  RecipesInv'
  BY DEF EditSteps
<1> USE DEF RecipesInv
<1>1. UNCHANGED << owner, shipped, active, dishwasher >> /\ ~calm' /\ calm' \in BOOLEAN
  BY DEF WriteSteps
<1>2. dishwasher' \in [at : {"idle", "registered", "looking", "patching"},
                       ids : [Kinds -> Nat], clean : BOOLEAN]
  BY DEF RecipesTyped
<1>3. /\ RecipesTyped' /\ RowsLinked'
      /\ named'["policy"] = named["policy"] /\ named'["flow"]["act1"] # 0
      /\ \A k \in ActKeys : named'["flow"][k] \in {0, active["act"]}
  BY <1>1, <1>2, StepsWritten
<1>4. VersionsGrow' /\ RecipeWritten'
  BY <1>1, <1>3 DEF VersionsGrow, RecipeWritten
<1>5. CalmRows' /\ CalmPolicy' /\ CalmRecipe'
  BY <1>1 DEF CalmRows, CalmPolicy, CalmRecipe
<1>6. CleanRound'
  BY <1>1, <1>3 DEF CleanRound
<1> QED
  BY <1>3, <1>4, <1>5, <1>6

(* The Dishwasher writes only a recipe that it found to differ: not one    *)
(* that is calm.                                                           *)
LEMMA PatchRecipeKeeps == RecipesInv /\ PatchRecipe => RecipesInv'
<1> SUFFICES ASSUME RecipesInv, PatchRecipe PROVE RecipesInv'
  OBVIOUS
<1> USE DEF RecipesInv
<1>1. /\ UNCHANGED << owner, shipped, active, calm >>
      /\ WriteSteps({"act1"}, "enabled") /\ dishwasher.at = "patching"
      /\ dishwasher' = [dishwasher EXCEPT !.at = "idle"]
  BY DEF PatchRecipe, WriteSteps
<1>2. /\ dishwasher' \in [at : {"idle", "registered", "looking", "patching"},
                          ids : [Kinds -> Nat], clean : BOOLEAN]
      /\ dishwasher'.at = "idle"
      /\ dishwasher'.ids = dishwasher.ids /\ dishwasher'.clean = dishwasher.clean
  BY <1>1 DEF RecipesTyped
<1>3. ~calm /\ calm' \in BOOLEAN
  BY <1>1 DEF RecipesTyped, CalmRecipe, RecipeWritten
<1>4. /\ RecipesTyped' /\ RowsLinked'
      /\ named'["policy"] = named["policy"] /\ named'["flow"]["act1"] # 0
      /\ \A k \in ActKeys : named'["flow"][k] \in {0, active["act"]}
  BY <1>1, <1>2, <1>3, StepsWritten
<1>5. VersionsGrow' /\ RecipeWritten'
  BY <1>1, <1>2, <1>4 DEF VersionsGrow, RecipeWritten
<1>6. CalmRows' /\ CalmPolicy' /\ CalmRecipe'
  BY <1>1, <1>3 DEF CalmRows, CalmPolicy, CalmRecipe
<1>7. CleanRound'
  BY <1>1, <1>2, <1>4 DEF CleanRound
<1> QED
  BY <1>4, <1>5, <1>6, <1>7

LEMMA EditCommunicationsKeeps == RecipesInv /\ EditCommunications => RecipesInv'
<1> SUFFICES ASSUME RecipesInv, NEW routes \in SUBSET Routes, NEW enabled \in SUBSET routes,
                    named' = [named EXCEPT !["flow"] = WithRoutes("flow", routes)],
                    on' = [on EXCEPT !["flow"] = [r \in Routes |-> r \in enabled]],
                    rows' = [rows EXCEPT !["flow"] = Detached("flow", StepKeys)],
                    calm' = FALSE,
                    UNCHANGED << owner, shipped, active, wanted, recipe, managed, dishwasher >>
             PROVE  RecipesInv'
  BY DEF EditCommunications
<1> USE DEF RecipesInv
<1>1. /\ WithRoutes("flow", routes) \in [StepKeys -> Nat]
      /\ \A k \in ActKeys : WithRoutes("flow", routes)[k] = named["flow"][k]
  BY DEF WithRoutes, RecipesTyped, RecipeNames, VersionsGrow, StepKeys, Kinds
<1>2. /\ named' \in [RecipeNames -> [StepKeys -> Nat]]
      /\ named'["policy"] = named["policy"]
      /\ \A k \in ActKeys : named'["flow"][k] = named["flow"][k]
  BY <1>1 DEF RecipesTyped, RecipeNames
<1>3. on' \in [RecipeNames -> [Routes -> BOOLEAN]]
  <2> DEFINE chosen == [r \in Routes |-> r \in enabled]
  <2>1. chosen \in [Routes -> BOOLEAN]
    OBVIOUS
  <2>2. on' = [on EXCEPT !["flow"] = chosen]
    OBVIOUS
  <2> HIDE DEF chosen
  <2> QED
    BY <2>1, <2>2 DEF RecipesTyped
<1>4. /\ Detached("flow", StepKeys) \in StepRowsTyped
      /\ \A k \in StepKeys : Detached("flow", StepKeys)[k].linked => Detached("flow", StepKeys)[k].planned > 0
  BY DetachedRows DEF RecipeNames
<1>5. rows' \in [RecipeNames -> StepRowsTyped]
  BY <1>4 DEF RecipesTyped, RecipeNames, StepRowsTyped
<1>6. RowsLinked'
  BY <1>4 DEF RowsLinked, RecipesTyped, RecipeNames
<1>7. RecipesTyped'
  BY <1>2, <1>3, <1>5 DEF RecipesTyped, StepRowsTyped
<1>8. VersionsGrow' /\ RecipeWritten'
  BY <1>2 DEF VersionsGrow, RecipeWritten, ActKeys
<1>9. CalmRows' /\ CalmPolicy' /\ CalmRecipe'
  BY DEF CalmRows, CalmPolicy, CalmRecipe
<1>10. CleanRound'
  BY <1>2 DEF CleanRound
<1> QED
  BY <1>6, <1>7, <1>8, <1>9, <1>10

LEMMA OperatorsKeep ==
  ASSUME RecipesInv, DisableRecipe \/ RepositoryChanges
  PROVE  RecipesInv'
<1> USE DEF RecipesInv
<1>1. /\ UNCHANGED << owner, shipped, active, named, on, dishwasher, rows >> /\ calm' = FALSE
      /\ wanted' \in {{"act1"}, {"act1", "act2"}}
      /\ recipe' \in [RecipeNames -> {"absent", "disabled", "enabled"}]
      /\ recipe'["flow"] = "enabled" => recipe["flow"] = "enabled"
  BY DEF DisableRecipe, RepositoryChanges, RecipesTyped, RecipeNames
<1>2. RecipesTyped' /\ VersionsGrow'
  BY <1>1 DEF RecipesTyped, VersionsGrow
<1>3. RecipeWritten' /\ RowsLinked' /\ CalmRows' /\ CalmPolicy' /\ CalmRecipe'
  BY <1>1 DEF RecipeWritten, RowsLinked, CalmRows, CalmPolicy, CalmRecipe
<1>4. CleanRound'
  BY <1>1 DEF CleanRound
<1> QED
  BY <1>2, <1>3, <1>4

(* upsert_recipes: it leaves the rows alone. *)
LEMMA SyncContentKeeps == RecipesInv /\ SyncContent => RecipesInv'
<1> SUFFICES ASSUME RecipesInv, SyncContent PROVE RecipesInv'
  OBVIOUS
<1> USE DEF RecipesInv
<1>1. /\ UNCHANGED << owner, shipped, active, wanted, on, dishwasher, rows, calm >>
      /\ owner = "managed" /\ active["act"] # 0
      /\ recipe' = [recipe EXCEPT !["flow"] = "enabled"]
      /\ named' = [named EXCEPT !["flow"] =
           [k \in StepKeys |-> IF k \in {"act1", "act2"} THEN Ships(wanted)[k] ELSE @[k]]]
  BY DEF SyncContent
<1>2. Ships(wanted) \in [StepKeys -> Nat] /\ Ships(wanted)["act1"] = active["act"]
  BY DEF Ships, RecipesTyped, VersionsGrow, Kinds, StepKeys, ActKeys
<1>3. /\ named' \in [RecipeNames -> [StepKeys -> Nat]]
      /\ named'["policy"] = named["policy"] /\ named'["flow"]["act1"] = active["act"]
  BY <1>1, <1>2 DEF RecipesTyped, RecipeNames, StepKeys, ActKeys
<1>4. RecipesTyped' /\ VersionsGrow'
  BY <1>1, <1>3 DEF RecipesTyped, VersionsGrow, RecipeNames
<1>5. RecipeWritten' /\ RowsLinked' /\ CalmRows'
  BY <1>1, <1>3 DEF RecipeWritten, RowsLinked, CalmRows
<1>6. CalmPolicy' /\ CalmRecipe' /\ CleanRound'
  BY <1>1, <1>3 DEF CalmPolicy, CalmRecipe, CleanRound, Enabled, OwnRoutes
<1> QED
  BY <1>4, <1>5, <1>6

(* build_dish_plan: rows are added where none is linked.  The dish is calm *)
(* afterwards if it was, or if nothing was planned and all is settled.     *)
LEMMA PlanKeepsRows ==
  ASSUME RecipesInv, NEW n \in {"fallback", "flow"}, NEW was \in StepRowsTyped, NEW own,
         PlanWith(n, was, own),
         \A k \in StepKeys : /\ was[k].linked => was[k].planned > 0
                             /\ was[k].planned = rows[n][k].planned
                             /\ calm => was[k] = rows[n][k]
  PROVE  /\ rows' \in [RecipeNames -> StepRowsTyped] /\ RowsLinked' /\ CalmRows'
         /\ calm' \in BOOLEAN /\ (calm' => calm \/ Settled)
<1> USE DEF RecipesInv
<1>1. rows \in [RecipeNames -> StepRowsTyped]
  BY DEF RecipesTyped, StepRowsTyped
<1>2. "policy" \in RecipeNames /\ n \in RecipeNames /\ n # "policy"
  BY DEF RecipeNames
<1> DEFINE first == Seeded(was, own)
           inherited == Seeded(rows["policy"], named["policy"])
<1>3. rows' = [rows EXCEPT ![n] = first, !["policy"] = IF Inherits(own) THEN inherited ELSE @]
  BY DEF PlanWith
<1>4. \A k \in StepKeys : rows["policy"][k].linked => rows["policy"][k].planned > 0
  BY <1>2 DEF RowsLinked
<1>5. rows["policy"] \in StepRowsTyped
  BY <1>1, <1>2
<1>6. /\ first \in StepRowsTyped
      /\ \A k \in StepKeys :
           /\ first[k].linked => first[k].planned > 0
           /\ was[k].planned <= 1 /\ (was[k].planned = 1 => was[k].linked) =>
                first[k].planned <= 1 /\ (first[k].planned = 1 => first[k].linked)
  BY SeededRows
<1>7. /\ inherited \in StepRowsTyped
      /\ \A k \in StepKeys :
           /\ inherited[k].linked => inherited[k].planned > 0
           /\ rows["policy"][k].planned <= 1
                /\ (rows["policy"][k].planned = 1 => rows["policy"][k].linked) =>
                inherited[k].planned <= 1 /\ (inherited[k].planned = 1 => inherited[k].linked)
  BY <1>4, <1>5, SeededRows
<1> HIDE DEF first, inherited
<1>8. rows' \in [RecipeNames -> StepRowsTyped]
  BY <1>1, <1>2, <1>3, <1>6, <1>7
<1>9. RowsLinked'
  BY <1>1, <1>2, <1>3, <1>4, <1>6, <1>7 DEF RowsLinked
<1>10. calm' = IF NothingPlanned THEN Settled ELSE calm
  BY DEF PlanWith
<1>11. calm' \in BOOLEAN
  <2>1. Settled \in BOOLEAN
    BY DEF Settled
  <2> QED
    BY <1>10, <2>1 DEF RecipesTyped
<1>12. calm' => calm \/ (NothingPlanned /\ Settled)
  BY <1>10
<1>13. calm' => \A m \in RecipeNames, k \in StepKeys :
                  rows[m][k].planned <= 1 /\ (rows[m][k].planned = 1 => rows[m][k].linked)
  BY <1>12 DEF CalmRows, NothingPlanned
<1>14. calm' => \A k \in StepKeys : was[k].planned <= 1 /\ (was[k].planned = 1 => was[k].linked)
  BY <1>2, <1>12 DEF CalmRows, NothingPlanned
<1>15. CalmRows'
  <2> SUFFICES ASSUME calm', NEW m \in RecipeNames, NEW k \in StepKeys
               PROVE  rows'[m][k].planned <= 1 /\ (rows'[m][k].planned = 1 => rows'[m][k].linked)
    BY DEF CalmRows
  <2>1. CASE m = n
    BY <1>1, <1>2, <1>3, <1>6, <1>14, <2>1
  <2>2. CASE m = "policy"
    BY <1>1, <1>2, <1>3, <1>7, <1>13, <2>2
  <2>3. CASE m # n /\ m # "policy"
    BY <1>1, <1>3, <1>13, <2>3
  <2> QED
    BY <2>1, <2>2, <2>3
<1> QED
  BY <1>8, <1>9, <1>11, <1>12, <1>15

LEMMA DispatchRecipeKeeps == RecipesInv /\ DispatchRecipe => RecipesInv'
<1> SUFFICES ASSUME RecipesInv, DispatchRecipe PROVE RecipesInv'
  OBVIOUS
<1> USE DEF RecipesInv
<1>1. /\ UNCHANGED << owner, shipped, active, wanted, recipe, managed, named, on, dishwasher >>
      /\ recipe["flow"] = "enabled" /\ PlanWith("flow", rows["flow"], named["flow"])
  BY DEF DispatchRecipe
<1>2. rows["flow"] \in StepRowsTyped /\ \A k \in StepKeys : rows["flow"][k].linked => rows["flow"][k].planned > 0
  BY DEF RecipesTyped, StepRowsTyped, RowsLinked, RecipeNames
<1>3. /\ rows' \in [RecipeNames -> StepRowsTyped] /\ RowsLinked' /\ CalmRows'
      /\ calm' \in BOOLEAN /\ (calm' => calm \/ Settled)
  BY <1>1, <1>2, PlanKeepsRows
<1>4. RecipesTyped' /\ VersionsGrow' /\ RecipeWritten'
  BY <1>1, <1>3 DEF RecipesTyped, VersionsGrow, RecipeWritten, StepRowsTyped
<1>5. CalmPolicy'
  BY <1>1, <1>3 DEF CalmPolicy, Enabled, OwnRoutes, Settled
<1>6. CalmRecipe'
  <2>1. ASSUME Settled, owner = "template"
        PROVE  /\ AsShipped /\ dishwasher.at # "patching"
               /\ dishwasher.ids["act"] = active["act"]
    <3>1. Matches /\ OwnRoutes("flow") = {} /\ dishwasher.at # "patching"
      BY <2>1 DEF Settled
    <3>2. "act1" \in ActKeys /\ "act1" \in StepKeys /\ "act1" \notin Routes
      BY RecipeAssumption DEF ActKeys, StepKeys
    <3>3. named["flow"]["act1"] # 0 /\ named["flow"]["act1"] \in {0, active["act"]}
      BY <1>1, <3>2 DEF PlanWith, Executable, RecipeWritten
    <3>4. dishwasher.ids["act"] = active["act"]
      BY <3>1, <3>2, <3>3 DEF Matches
    <3> QED
      BY <1>1, <3>1, <3>4 DEF Matches, AsShipped
  <2> QED
    BY <1>1, <1>3, <2>1 DEF CalmRecipe, AsShipped, OwnRoutes
<1>7. CleanRound'
  BY <1>1 DEF CleanRound
<1> QED
  BY <1>3, <1>4, <1>5, <1>6, <1>7

(* Without a recipe of the template's nothing of it is calm; while it is   *)
(* calm the fallback keeps its routes.                                     *)
LEMMA DispatchFallbackKeeps == RecipesInv /\ DispatchFallback => RecipesInv'
<1> SUFFICES ASSUME RecipesInv, DispatchFallback PROVE RecipesInv'
  OBVIOUS
<1> USE DEF RecipesInv
<1> DEFINE routes == Enabled("policy")
<1>1. /\ UNCHANGED << owner, shipped, active, wanted, managed, dishwasher >>
      /\ recipe["flow"] # "enabled"
      /\ named' = [named EXCEPT !["fallback"] = WithRoutes("fallback", routes)]
      /\ on' = [on EXCEPT !["fallback"] = [r \in Routes |-> r \in routes]]
      /\ recipe' = [recipe EXCEPT !["fallback"] = IF routes = {} THEN "disabled" ELSE "enabled"]
  BY DEF DispatchFallback
<1>2. \/ routes = {} /\ rows' = [rows EXCEPT !["fallback"] = Kept("fallback", {})] /\ calm' = calm
      \/ routes # {} /\ PlanWith("fallback", Kept("fallback", routes), named'["fallback"])
  BY DEF DispatchFallback
<1>3. WithRoutes("fallback", routes) \in [StepKeys -> Nat]
  BY DEF WithRoutes, RecipesTyped, RecipeNames, VersionsGrow, StepKeys, Kinds
<1>4. /\ named' \in [RecipeNames -> [StepKeys -> Nat]]
      /\ named'["policy"] = named["policy"] /\ named'["flow"] = named["flow"]
  BY <1>1, <1>3 DEF RecipesTyped, RecipeNames
<1>5. on' \in [RecipeNames -> [Routes -> BOOLEAN]] /\ on'["policy"] = on["policy"]
  <2> DEFINE chosen == [r \in Routes |-> r \in routes]
  <2>1. chosen \in [Routes -> BOOLEAN]
    OBVIOUS
  <2>2. on' = [on EXCEPT !["fallback"] = chosen]
    BY <1>1
  <2> HIDE DEF chosen
  <2> QED
    BY <2>1, <2>2 DEF RecipesTyped, RecipeNames
<1>6. recipe' \in [RecipeNames -> {"absent", "disabled", "enabled"}] /\ recipe'["flow"] # "enabled"
  BY <1>1 DEF RecipesTyped, RecipeNames
<1>7. /\ Kept("fallback", {}) \in StepRowsTyped /\ Kept("fallback", routes) \in StepRowsTyped
      /\ \A k \in StepKeys :
           /\ Kept("fallback", {})[k].linked => Kept("fallback", {})[k].planned > 0
           /\ Kept("fallback", routes)[k].linked => Kept("fallback", routes)[k].planned > 0
           /\ Kept("fallback", routes)[k].planned = rows["fallback"][k].planned
  <2>1. "fallback" \in RecipeNames /\ rows["fallback"] \in StepRowsTyped
    BY DEF RecipeNames, RecipesTyped, StepRowsTyped
  <2>2. \A k \in StepKeys : Kept("fallback", routes)[k].planned = rows["fallback"][k].planned
    BY <2>1 DEF Kept, Detached, StepRowsTyped
  <2> QED
    BY <2>1, <2>2, DetachedRows DEF Kept
<1>8. calm => routes = Routes /\ routes # {}
  BY RecipeAssumption DEF CalmPolicy
<1>9. calm => Kept("fallback", routes) = rows["fallback"]
  BY <1>8, KeptRows DEF RecipeNames
<1> HIDE DEF routes
<1>10. /\ rows' \in [RecipeNames -> StepRowsTyped] /\ RowsLinked' /\ CalmRows'
       /\ calm' \in BOOLEAN /\ (calm' => calm \/ Settled)
  <2>1. CASE routes = {}
    <3>1. rows' = [rows EXCEPT !["fallback"] = Kept("fallback", {})] /\ calm' = FALSE /\ calm' = calm
      BY <1>2, <1>8, <2>1 DEF RecipesTyped
    <3> QED
      BY <1>7, <3>1 DEF RecipesTyped, StepRowsTyped, RowsLinked, CalmRows, RecipeNames
  <2>2. CASE routes # {}
    BY <1>2, <1>7, <1>9, <2>2, PlanKeepsRows
  <2> QED
    BY <2>1, <2>2
<1>11. RecipesTyped' /\ VersionsGrow' /\ RecipeWritten'
  BY <1>1, <1>4, <1>5, <1>6, <1>10 DEF RecipesTyped, VersionsGrow, RecipeWritten, StepRowsTyped
<1>12. CalmPolicy'
  BY <1>4, <1>5, <1>10 DEF CalmPolicy, Enabled, OwnRoutes, Settled
<1>13. CalmRecipe'
  <2>1. calm' => owner # "template"
    BY <1>1, <1>10 DEF CalmRecipe, AsShipped, Settled, Matches
  <2> QED
    BY <1>1, <2>1 DEF CalmRecipe
<1>14. CleanRound'
  BY <1>1, <1>4 DEF CleanRound
<1> QED
  BY <1>10, <1>11, <1>12, <1>13, <1>14

LEMMA RecipesStep == RecipesInv /\ [RecipesNext]_recipeVars => RecipesInv'
<1> SUFFICES ASSUME RecipesInv, [RecipesNext]_recipeVars PROVE RecipesInv'
  OBVIOUS
<1>1. CASE UNCHANGED recipeVars
  BY <1>1 DEF recipeVars, RecipesInv, RecipesTyped, VersionsGrow, RecipeWritten, RowsLinked,
              CalmRows, CalmPolicy, CalmRecipe, CleanRound, AsShipped, Enabled, OwnRoutes
<1>2. CASE \E k \in Kinds : Upgrade(k)
  BY <1>2, UpgradeKeeps
<1>3. CASE BootstrapIngredients \/ StartSync
  BY <1>3, BootstrapKeeps, StartSyncKeeps
<1>4. CASE SyncFails \/ SyncPolicyRefused \/ LookUpRecipe
  BY <1>4, RoundKeeps
<1>5. CASE AdminPutsPolicy \/ SyncPolicy
  BY <1>5, AdminPutsPolicyKeeps, SyncPolicyKeeps
<1>6. CASE EditSteps \/ PatchRecipe \/ EditCommunications
  BY <1>6, EditStepsKeeps, PatchRecipeKeeps, EditCommunicationsKeeps
<1>7. CASE DisableRecipe \/ RepositoryChanges
  BY <1>7, OperatorsKeep
<1>8. CASE SyncContent
  BY <1>8, SyncContentKeeps
<1>9. CASE DispatchRecipe \/ DispatchFallback
  BY <1>9, DispatchRecipeKeeps, DispatchFallbackKeeps
<1> QED
  BY <1>1, <1>2, <1>3, <1>4, <1>5, <1>6, <1>7, <1>8, <1>9 DEF RecipesNext

(* Recipes again: what they are typed with has bounds, because a contract  *)
(* changes so often only and a dish has so many rows only.                 *)
RecipesBounded ==
  /\ managed \in BOOLEAN
  /\ \A k \in Kinds : shipped[k] >= 1
  /\ shipped["act"] + shipped["talk"] <= 2 + MaxUpgrades
  /\ \A n \in RecipeNames, k \in StepKeys :
       named[n][k] <= MaxUpgrades + 1 /\ rows[n][k].planned <= MaxRows

LEMMA RecipesHaveTypes == RecipesInv /\ RecipesBounded => RecipesTypeOK
<1> SUFFICES ASSUME RecipesInv, RecipesBounded PROVE RecipesTypeOK
  OBVIOUS
<1> USE DEF RecipesInv
<1>1. \A v \in Nat : v <= MaxUpgrades + 1 => v \in Versions
  BY RecipeAssumption DEF Versions
<1>2. \A k \in Kinds : shipped[k] <= MaxUpgrades + 1
  BY RecipeAssumption DEF RecipesBounded, VersionsGrow, Kinds
<1>3. shipped \in Contracts
  BY <1>1, <1>2 DEF VersionsGrow, Contracts
<1>4. active \in Contracts /\ dishwasher.ids \in Contracts
  BY <1>1, <1>2, RecipeAssumption DEF VersionsGrow, Contracts
<1>5. dishwasher \in Round
  BY <1>4 DEF RecipesTyped, Round
<1>6. named \in [RecipeNames -> [StepKeys -> Versions]]
  BY <1>1 DEF RecipesTyped, RecipesBounded
<1>7. rows \in [RecipeNames -> [StepKeys -> StepRows]]
  <2>1. \A p \in Nat : p <= MaxRows => p \in 0 .. MaxRows
    BY RecipeAssumption
  <2>2. \A n \in RecipeNames, k \in StepKeys : rows[n][k] \in StepRows
    BY <2>1 DEF RecipesTyped, RecipesBounded, StepRows
  <2> QED
    BY <2>2 DEF RecipesTyped
<1> QED
  BY <1>3, <1>4, <1>5, <1>6, <1>7 DEF RecipesTyped, RecipesBounded, RecipesTypeOK

(* A step names what it named, nothing, or an active ingredient.           *)
LEMMA NamesActive ==
  ASSUME RecipesInv, RecipesNext
  PROVE  \A n \in RecipeNames, k \in StepKeys :
           named'[n][k] \in {named[n][k], 0, active["act"], active["talk"]}
<1> USE DEF RecipesInv, RecipeNames
<1>1. ASSUME UNCHANGED named
      PROVE  \A n \in RecipeNames, k \in StepKeys : named'[n][k] = named[n][k]
  BY <1>1
<1>2. ASSUME NEW n \in RecipeNames, NEW routes, NEW k \in StepKeys
      PROVE  WithRoutes(n, routes)[k] \in {named[n][k], 0, active["talk"]}
  BY DEF WithRoutes
<1>3. ASSUME NEW keys, NEW k \in StepKeys PROVE Ships(keys)[k] \in {0, active["act"]}
  BY DEF Ships
<1>4. ASSUME NEW routes \in SUBSET Routes, NEW enabled \in SUBSET routes, PutPolicy(routes, enabled),
             NEW n \in RecipeNames, NEW k \in StepKeys
      PROVE  named'[n][k] \in {named[n][k], 0, active["talk"]}
  <2>1. named' = [named EXCEPT !["policy"] = WithRoutes("policy", routes),
                               !["fallback"] = WithRoutes("fallback", enabled)]
    BY <1>4 DEF PutPolicy
  <2>2. named'[n] \in {named[n], WithRoutes(n, routes), WithRoutes(n, enabled)}
    BY <2>1 DEF RecipesTyped
  <2> QED
    BY <1>2, <2>2
<1>5. ASSUME NEW keys, NEW state, WriteSteps(keys, state), NEW n \in RecipeNames, NEW k \in StepKeys
      PROVE  named'[n][k] \in {named[n][k], 0, active["act"]}
  <2>1. named' = [named EXCEPT !["flow"] =
                    [x \in StepKeys |-> IF x \in Routes THEN @[x] ELSE Ships(keys)[x]]]
    BY <1>5 DEF WriteSteps
  <2>2. named'[n] = named[n] \/ named'[n][k] \in {named[n][k], Ships(keys)[k]}
    BY <2>1 DEF RecipesTyped
  <2> QED
    BY <1>3, <2>2
<1>6. ASSUME EditCommunications, NEW n \in RecipeNames, NEW k \in StepKeys
      PROVE  named'[n][k] \in {named[n][k], 0, active["talk"]}
  <2>1. PICK routes : named' = [named EXCEPT !["flow"] = WithRoutes("flow", routes)]
    BY <1>6 DEF EditCommunications
  <2>2. named'[n] \in {named[n], WithRoutes(n, routes)}
    BY <2>1 DEF RecipesTyped
  <2> QED
    BY <1>2, <2>2
<1>7. ASSUME SyncContent, NEW n \in RecipeNames, NEW k \in StepKeys
      PROVE  named'[n][k] \in {named[n][k], 0, active["act"]}
  <2>1. named' = [named EXCEPT !["flow"] =
                    [x \in StepKeys |-> IF x \in {"act1", "act2"} THEN Ships(wanted)[x] ELSE @[x]]]
    BY <1>7 DEF SyncContent
  <2>2. named'[n] = named[n] \/ named'[n][k] \in {named[n][k], Ships(wanted)[k]}
    BY <2>1 DEF RecipesTyped
  <2> QED
    BY <1>3, <2>2
<1>8. ASSUME DispatchFallback, NEW n \in RecipeNames, NEW k \in StepKeys
      PROVE  named'[n][k] \in {named[n][k], 0, active["talk"]}
  <2>1. named' = [named EXCEPT !["fallback"] = WithRoutes("fallback", Enabled("policy"))]
    BY <1>8 DEF DispatchFallback
  <2>2. named'[n] \in {named[n], WithRoutes(n, Enabled("policy"))}
    BY <2>1 DEF RecipesTyped
  <2> QED
    BY <1>2, <2>2
<1>9. CASE \/ \E k \in Kinds : Upgrade(k)
           \/ BootstrapIngredients \/ StartSync \/ SyncFails \/ SyncPolicyRefused
           \/ DisableRecipe \/ LookUpRecipe \/ RepositoryChanges \/ DispatchRecipe
  <2>1. UNCHANGED named
    BY <1>9 DEF Upgrade, BootstrapIngredients, Register, StartSync, SyncFails, SyncPolicyRefused,
                DisableRecipe, LookUpRecipe, RepositoryChanges, DispatchRecipe
  <2> QED
    BY <1>1, <2>1
<1>10. CASE AdminPutsPolicy \/ SyncPolicy
  <2>1. PICK routes \in SUBSET Routes : \E enabled \in SUBSET routes : PutPolicy(routes, enabled)
    BY <1>10 DEF AdminPutsPolicy, SyncPolicy
  <2> QED
    BY <1>4, <2>1
<1>11. CASE EditSteps \/ PatchRecipe
  <2>1. PICK keys, state : WriteSteps(keys, state)
    BY <1>11 DEF EditSteps, PatchRecipe
  <2> QED
    BY <1>5, <2>1
<1> QED
  BY <1>6, <1>7, <1>8, <1>9, <1>10, <1>11 DEF RecipesNext

(* The triples of finite sets are finitely many.                           *)
LEMMA Triples ==
  ASSUME NEW X, NEW Y, NEW Z, IsFiniteSet(X), IsFiniteSet(Y), IsFiniteSet(Z)
  PROVE  IsFiniteSet(X \X Y \X Z)
<1> DEFINE pairs == (X \X Y) \X Z
           flat == [p \in pairs |-> << p[1][1], p[1][2], p[2] >>]
<1>1. IsFiniteSet(pairs)
  BY FS_Product
<1>2. flat \in [pairs -> X \X Y \X Z]
  OBVIOUS
<1>3. \A t \in X \X Y \X Z : \E p \in pairs : flat[p] = t
  <2> TAKE t \in X \X Y \X Z
  <2> WITNESS << << t[1], t[2] >>, t[3] >> \in pairs
  <2> QED
    OBVIOUS
<1>4. flat \in Surjection(pairs, X \X Y \X Z)
  <2> HIDE DEF flat, pairs
  <2> QED
    BY <1>2, <1>3 DEF Surjection
<1> QED
  <2> HIDE DEF flat, pairs
  <2> QED
    BY <1>1, <1>4, FS_Surjection

(* What RowCount counts is finite, so that a bound on it bounds each count. *)
LEMMA CountedRows ==
  ASSUME NEW given \in [RecipeNames -> StepRowsTyped], NEW counted,
         counted = {x \in RecipeNames \X StepKeys \X (0 .. MaxRows) :
                      given[x[1]][x[2]].planned > x[3]},
         Cardinality(counted) <= MaxRows,
         NEW n \in RecipeNames, NEW k \in StepKeys
  PROVE  given[n][k].planned <= MaxRows
<1>1. IsFiniteSet(counted)
  <2>1. IsFiniteSet({"act1"} \cup {"act2"} \cup {"own"})
    BY FS_Singleton, FS_Union, Zenon
  <2>2. IsFiniteSet({"policy"} \cup {"fallback"} \cup {"flow"})
    BY FS_Singleton, FS_Union, Zenon
  <2>3. /\ RecipeNames = {"policy"} \cup {"fallback"} \cup {"flow"}
        /\ ActKeys = {"act1"} \cup {"act2"} \cup {"own"}
    BY DEF RecipeNames, ActKeys
  <2>4. IsFiniteSet(RecipeNames) /\ IsFiniteSet(StepKeys)
    BY <2>1, <2>2, <2>3, RecipeAssumption, FS_Union, Zenon DEF StepKeys
  <2>5. IsFiniteSet(0 .. MaxRows)
    BY RecipeAssumption, FS_Interval
  <2>6. IsFiniteSet(RecipeNames \X StepKeys \X (0 .. MaxRows))
    BY <2>4, <2>5, Triples
  <2>7. counted \in SUBSET (RecipeNames \X StepKeys \X (0 .. MaxRows))
    OBVIOUS
  <2> QED
    BY <2>6, <2>7, FS_Subset
<1>2. Cardinality(counted) \in Nat
  BY <1>1, FS_CardinalityType
<1>3. given[n][k].planned \in Nat
  BY DEF StepRowsTyped
<1> SUFFICES ASSUME ~(given[n][k].planned <= MaxRows) PROVE FALSE
  OBVIOUS
<1> DEFINE of == [i \in 0 .. MaxRows |-> << n, k, i >>]
<1>4. of \in Injection(0 .. MaxRows, counted)
  <2>1. \A i \in 0 .. MaxRows : of[i] \in counted
    BY <1>3, RecipeAssumption
  <2>2. \A i, j \in 0 .. MaxRows : of[i] = of[j] => i = j
    OBVIOUS
  <2>3. of \in [0 .. MaxRows -> counted]
    BY <2>1
  <2> HIDE DEF of
  <2> QED
    BY <2>2, <2>3 DEF Injection, IsInjective
<1>5. Cardinality(0 .. MaxRows) <= Cardinality(counted)
  BY <1>1, <1>4, FS_Injection
<1>6. Cardinality(0 .. MaxRows) = IF 0 > MaxRows THEN 0 ELSE MaxRows - 0 + 1
  <2>1. 0 \in Int /\ MaxRows \in Int
    BY RecipeAssumption
  <2> QED
    BY <2>1, FS_Interval, Zenon
<1>7. MaxRows \in Nat
  BY RecipeAssumption
<1> HIDE DEF of
<1> QED
  BY <1>2, <1>5, <1>6, <1>7

(* A dispatch adds no more rows than the dish may have; nobody else adds   *)
(* any.                                                                    *)
LEMMA RowsBounded ==
  ASSUME RecipesInv, RecipesInv', RecipesNext,
         \A n \in RecipeNames, k \in StepKeys : rows[n][k].planned <= MaxRows
  PROVE  \A n \in RecipeNames, k \in StepKeys : rows'[n][k].planned <= MaxRows
<1> USE DEF RecipesInv
<1>1. rows' \in [RecipeNames -> StepRowsTyped]
  BY DEF RecipesTyped, StepRowsTyped
<1>2. ASSUME RowCount' <= MaxRows
      PROVE  \A n \in RecipeNames, k \in StepKeys : rows'[n][k].planned <= MaxRows
  BY <1>1, <1>2, CountedRows DEF RowCount
<1>3. ASSUME NEW n \in RecipeNames, NEW keys, NEW k \in StepKeys
      PROVE  Detached(n, keys)[k].planned = rows[n][k].planned
  <2>1. rows[n][k] \in [planned : Nat, linked : BOOLEAN]
    BY DEF RecipesTyped
  <2>2. Detached(n, keys)[k] = [rows[n][k] EXCEPT !.linked = @ /\ k \notin keys]
    BY DEF Detached
  <2> QED
    BY <2>1, <2>2
<1>4. ASSUME NEW m \in RecipeNames, NEW keys, rows' = [rows EXCEPT ![m] = Detached(m, keys)]
      PROVE  \A n \in RecipeNames, k \in StepKeys : rows'[n][k].planned <= MaxRows
  <2>1. \A n \in RecipeNames : rows'[n] \in {rows[n], Detached(n, keys)}
    BY <1>4 DEF RecipesTyped
  <2> QED
    BY <1>3, <2>1
<1>5. ASSUME NEW routes, NEW enabled,
             rows' = [rows EXCEPT !["policy"] = Kept("policy", routes),
                                  !["fallback"] = Kept("fallback", enabled)]
      PROVE  \A n \in RecipeNames, k \in StepKeys : rows'[n][k].planned <= MaxRows
  <2>1. \A n \in RecipeNames : \E keys : rows'[n] = rows[n] \/ rows'[n] = Detached(n, keys)
    BY <1>5 DEF RecipesTyped, Kept
  <2> SUFFICES ASSUME NEW n \in RecipeNames, NEW k \in StepKeys PROVE rows'[n][k].planned <= MaxRows
    OBVIOUS
  <2>2. PICK keys : rows'[n] = rows[n] \/ rows'[n] = Detached(n, keys)
    BY <2>1
  <2> QED
    BY <1>3, <2>2
<1>6. CASE \/ \E k \in Kinds : Upgrade(k)
           \/ BootstrapIngredients \/ StartSync \/ SyncFails \/ SyncPolicyRefused
           \/ DisableRecipe \/ LookUpRecipe \/ RepositoryChanges \/ SyncContent
  <2>1. UNCHANGED rows
    BY <1>6 DEF Upgrade, BootstrapIngredients, Register, StartSync, SyncFails, SyncPolicyRefused,
                DisableRecipe, LookUpRecipe, RepositoryChanges, SyncContent
  <2> QED
    BY <2>1
<1>7. CASE AdminPutsPolicy \/ SyncPolicy
  <2>1. PICK routes, enabled : PutPolicy(routes, enabled)
    BY <1>7 DEF AdminPutsPolicy, SyncPolicy
  <2> QED
    BY <1>5, <2>1 DEF PutPolicy
<1>8. CASE EditSteps \/ PatchRecipe \/ EditCommunications
  <2>1. rows' = [rows EXCEPT !["flow"] = Detached("flow", StepKeys)]
    BY <1>8 DEF EditSteps, PatchRecipe, EditCommunications, WriteSteps
  <2> QED
    BY <1>4, <2>1 DEF RecipeNames
<1>9. CASE DispatchRecipe
  <2>1. PlanWith("flow", rows["flow"], named["flow"])
    BY <1>9 DEF DispatchRecipe
  <2> QED
    BY <1>2, <2>1 DEF PlanWith
<1>10. CASE DispatchFallback
  <2>1. \/ rows' = [rows EXCEPT !["fallback"] = Kept("fallback", {})]
        \/ RowCount' <= MaxRows
    BY <1>10 DEF DispatchFallback, PlanWith
  <2> QED
    BY <1>2, <1>4, <2>1 DEF Kept, RecipeNames
<1> QED
  BY <1>6, <1>7, <1>8, <1>9, <1>10 DEF RecipesNext

LEMMA RecipesBoundedInit == RecipesInit => RecipesBounded
<1> SUFFICES ASSUME RecipesInit PROVE RecipesBounded
  OBVIOUS
<1>1. \A k \in Kinds : shipped[k] = 1
  BY DEF RecipesInit
<1>2. \A n \in RecipeNames, k \in StepKeys : named[n][k] = 0 /\ rows[n][k].planned = 0
  BY DEF RecipesInit, NoSteps
<1>3. shipped["act"] = 1 /\ shipped["talk"] = 1 /\ managed = FALSE
  BY <1>1 DEF RecipesInit, Kinds
<1>4. MaxUpgrades \in Nat /\ MaxRows \in Nat
  BY RecipeAssumption
<1>5. \A n \in RecipeNames, k \in StepKeys :
        named[n][k] <= MaxUpgrades + 1 /\ rows[n][k].planned <= MaxRows
  <2> TAKE n \in RecipeNames, k \in StepKeys
  <2>1. named[n][k] = 0 /\ rows[n][k].planned = 0
    BY <1>2
  <2> QED
    BY <1>4, <2>1
<1>6. shipped["act"] + shipped["talk"] <= 2 + MaxUpgrades
  <2>1. 1 + 1 <= 2 + MaxUpgrades
    BY <1>4
  <2> QED
    BY <1>3, <2>1, Zenon
<1>7. managed \in BOOLEAN /\ \A k \in Kinds : shipped[k] >= 1
  <2>1. 1 >= 1
    OBVIOUS
  <2> QED
    BY <1>1, <1>3, <2>1, Zenon
<1> QED
  BY <1>5, <1>6, <1>7 DEF RecipesBounded

LEMMA RecipesBoundedStep ==
  RecipesInv /\ RecipesInv' /\ RecipesBounded /\ [RecipesNext]_recipeVars => RecipesBounded'
<1> SUFFICES ASSUME RecipesInv, RecipesInv', RecipesBounded, RecipesNext PROVE RecipesBounded'
  BY DEF recipeVars, RecipesBounded
<1> USE DEF RecipesInv
<1>1. managed' \in BOOLEAN
  BY DEF RecipesBounded, RecipesNext, Upgrade, BootstrapIngredients, Register, StartSync, SyncFails,
         AdminPutsPolicy, SyncPolicy, PutPolicy, SyncPolicyRefused, EditSteps, EditCommunications,
         DisableRecipe, LookUpRecipe, PatchRecipe, WriteSteps, RepositoryChanges, SyncContent,
         DispatchRecipe, DispatchFallback
<1>2. /\ \A k \in Kinds : shipped'[k] >= 1
      /\ shipped'["act"] + shipped'["talk"] <= 2 + MaxUpgrades
  <2>1. CASE \E k \in Kinds : Upgrade(k)
    <3>1. PICK k \in Kinds : /\ shipped["act"] + shipped["talk"] < 2 + MaxUpgrades
                             /\ shipped' = [shipped EXCEPT ![k] = @ + 1]
      BY <2>1 DEF Upgrade
    <3> QED
      BY <3>1, RecipeAssumption DEF RecipesBounded, VersionsGrow, Kinds
  <2>2. CASE ~\E k \in Kinds : Upgrade(k)
    <3>1. UNCHANGED shipped
      BY <2>2 DEF RecipesNext, BootstrapIngredients, Register, StartSync, SyncFails,
         AdminPutsPolicy, SyncPolicy, PutPolicy, SyncPolicyRefused, EditSteps, EditCommunications,
         DisableRecipe, LookUpRecipe, PatchRecipe, WriteSteps, RepositoryChanges, SyncContent,
         DispatchRecipe, DispatchFallback
    <3> QED
      BY <3>1 DEF RecipesBounded
  <2> QED
    BY <2>1, <2>2
<1>3. \A n \in RecipeNames, k \in StepKeys : named'[n][k] <= MaxUpgrades + 1
  <2>1. \A k \in Kinds : active[k] <= MaxUpgrades + 1
    BY RecipeAssumption DEF RecipesBounded, VersionsGrow, Kinds
  <2>2. active["act"] <= MaxUpgrades + 1 /\ active["talk"] <= MaxUpgrades + 1 /\ 0 <= MaxUpgrades + 1
    BY <2>1, RecipeAssumption DEF Kinds
  <2> QED
    BY <2>2, NamesActive DEF RecipesBounded
<1>4. \A n \in RecipeNames, k \in StepKeys : rows'[n][k].planned <= MaxRows
  BY RowsBounded DEF RecipesBounded
<1> QED
  BY <1>1, <1>2, <1>3, <1>4 DEF RecipesBounded

(* recipes.py, dish_planner.py, dishwasher.py: for any routes, number of   *)
(* changed contracts and rows, a step is planned once while nobody changes *)
(* what is to be planned, and a clean round leaves no retired ingredient   *)
(* in the template's recipe or the policy.                                 *)
THEOREM StepsPlannedOnce == RecipesSpec => []RecipesKept
<1>1. RecipesInv => PlannedOnce /\ SyncedExecutable
  BY DEF RecipesInv, PlannedOnce, SyncedExecutable, CalmRows, CleanRound
<1>2. RecipesInv /\ RecipesBounded => RecipesKept
  BY <1>1, RecipesHaveTypes DEF RecipesKept
<1> QED
  BY <1>2, RecipesInitInv, RecipesStep, RecipesBoundedInit, RecipesBoundedStep, PTL DEF RecipesSpec

-----------------------------------------------------------------------------
(* The recipes of the content sync.                                        *)

Offered ==
  K8sCapabilities \cup AlertmanagerCapabilities \cup PrometheusCapabilities \cup GitHubCapabilities
  \cup GitCapabilities \cup BakeryCapabilities \cup DummyCapabilities \cup StackStormCapabilities

Tasks ==
  [role : {"guard", "evidence", "action", "recovery", "communicate"}, service : Providers,
   does : {c.does : c \in Offered}
          \cup {"verify_firing", "list_alerts", "alert_evidence", "read_rule", "diagnose", "review", "open"}]

Firing == Task("guard", "alertmanager", "verify_firing")
Switchable == K8sCapabilities \cup StackStormCapabilities
Without == {c \in turnedOff : Disregarded(c)}

(* A published recipe is safe: RecipesSafe, of any steps.                  *)
StepsWith(steps, role) == {i \in DOMAIN steps : steps[i].role = role}
SafeSteps(a, steps, without) ==
  /\ steps[1] = Firing
  /\ \A i \in StepsWith(steps, "action") :
       /\ steps[i - 1] = Firing
       /\ LeftToOperators(a) => steps[i] = ReviewByOperator
       /\ (a \in NativeGroups /\ \A c \in without : c.does # a) =>
            steps[i] = Task("action", "k8s", a)
  /\ StepsWith(steps, "communicate") = {Len(steps)}
  /\ steps[Len(steps)].does = "open"
  /\ Cardinality(without) < 3 => \A i \in DOMAIN steps : steps[i].does # "delete_job"

(* The form of every recipe: guard, evidence, guard, action, recovery and  *)
(* the word to the operators.                                              *)
InForm(evidence, action, recovery, word) ==
  ((((<< Firing >> \o evidence) \o << Firing >>) \o << action >>) \o recovery) \o << word >>

LEMMA Joined ==
  ASSUME NEW S, NEW u \in Seq(S), NEW v \in Seq(S)
  PROVE  /\ u \o v \in Seq(S) /\ Len(u \o v) = Len(u) + Len(v)
         /\ \A i \in 1 .. Len(u) : (u \o v)[i] = u[i]
         /\ \A i \in 1 .. Len(v) : (u \o v)[Len(u) + i] = v[i]
<1>1. /\ u \o v \in Seq(S) /\ Len(u \o v) = Len(u) + Len(v)
      /\ \A i \in 1 .. Len(u) + Len(v) : (u \o v)[i] = IF i <= Len(u) THEN u[i] ELSE v[i - Len(u)]
      /\ Len(u) \in Nat /\ Len(v) \in Nat
  BY ConcatProperties
<1>2. \A i \in 1 .. Len(v) :
        Len(u) + i \in 1 .. Len(u) + Len(v) /\ ~(Len(u) + i <= Len(u)) /\ (Len(u) + i) - Len(u) = i
  BY <1>1
<1>3. \A i \in 1 .. Len(u) : i \in 1 .. Len(u) + Len(v) /\ i <= Len(u)
  BY <1>1
<1> QED
  BY <1>1, <1>2, <1>3

(* A sequence and one more. *)
LEMMA JoinedOne ==
  ASSUME NEW S, NEW u \in Seq(S), NEW x \in S
  PROVE  /\ u \o << x >> \in Seq(S) /\ Len(u \o << x >>) = Len(u) + 1
         /\ (u \o << x >>)[Len(u) + 1] = x
         /\ \A i \in 1 .. Len(u) : (u \o << x >>)[i] = u[i]
<1>1. << x >> \in Seq(S) /\ Len(<< x >>) = 1 /\ << x >>[1] = x /\ 1 \in 1 .. 1
  OBVIOUS
<1> QED
  BY <1>1, Joined

(* Where the parts of a recipe are. *)
Parts(steps, evidence, action, recovery, word) ==
  LET n == Len(evidence)
      m == Len(recovery)
  IN /\ steps \in Seq(Tasks) /\ Len(steps) = n + m + 4
     /\ steps[1] = Firing /\ steps[n + 2] = Firing /\ steps[n + 3] = action /\ steps[n + m + 4] = word
     /\ \A i \in 1 .. n : steps[1 + i] = evidence[i]
     /\ \A i \in 1 .. m : steps[n + 3 + i] = recovery[i]

LEMMA FormIndexed ==
  ASSUME NEW E \in Seq(Tasks), NEW R \in Seq(Tasks), NEW act \in Tasks, NEW word \in Tasks
  PROVE  Parts(InForm(E, act, R, word), E, act, R, word)
<1> DEFINE s1 == << Firing >> \o E
           s2 == s1 \o << Firing >>
           s3 == s2 \o << act >>
           s4 == s3 \o R
           s5 == s4 \o << word >>
           n == Len(E)
           m == Len(R)
<1>1. Firing \in Tasks
  BY DEF Firing, Tasks, Task, Providers
<1>2. << Firing >> \in Seq(Tasks) /\ Len(<< Firing >>) = 1 /\ << Firing >>[1] = Firing
  BY <1>1
<1>3. n \in Nat /\ m \in Nat
  OBVIOUS
<1>4. s1 \in Seq(Tasks) /\ Len(s1) = 1 + n
  BY <1>2, Joined
<1>5. s1[1] = Firing /\ \A i \in 1 .. n : s1[1 + i] = E[i]
  <2>1. /\ \A i \in 1 .. Len(<< Firing >>) : s1[i] = << Firing >>[i]
        /\ \A i \in 1 .. Len(E) : s1[Len(<< Firing >>) + i] = E[i]
    BY <1>2, Joined
  <2> HIDE DEF s1
  <2> QED
    BY <1>2, <2>1
<1> HIDE DEF s1
<1>6. /\ s2 \in Seq(Tasks) /\ Len(s2) = Len(s1) + 1 /\ s2[Len(s1) + 1] = Firing
      /\ \A i \in 1 .. Len(s1) : s2[i] = s1[i]
  BY <1>1, <1>4, JoinedOne
<1> HIDE DEF s2
<1>7. /\ s3 \in Seq(Tasks) /\ Len(s3) = Len(s2) + 1 /\ s3[Len(s2) + 1] = act
      /\ \A i \in 1 .. Len(s2) : s3[i] = s2[i]
  BY <1>6, JoinedOne
<1> HIDE DEF s3
<1>8. /\ s4 \in Seq(Tasks) /\ Len(s4) = Len(s3) + m
      /\ \A i \in 1 .. Len(s3) : s4[i] = s3[i]
      /\ \A i \in 1 .. m : s4[Len(s3) + i] = R[i]
  <2>1. s3 \in Seq(Tasks)
    BY <1>7
  <2> QED
    BY <2>1, Joined
<1> HIDE DEF s4
<1>9. /\ s5 \in Seq(Tasks) /\ Len(s5) = Len(s4) + 1 /\ s5[Len(s4) + 1] = word
      /\ \A i \in 1 .. Len(s4) : s5[i] = s4[i]
  BY <1>8, JoinedOne
<1> HIDE DEF s5, n, m
<1>10. Len(s1) = n + 1 /\ Len(s2) = n + 2 /\ Len(s3) = n + 3 /\ Len(s4) = n + m + 3
       /\ Len(s5) = n + m + 4
  BY <1>3, <1>4, <1>6, <1>7, <1>8, <1>9
<1>11. \A i \in 1 .. n + 3 : s5[i] = s3[i]
  <2> SUFFICES ASSUME NEW i \in 1 .. n + 3 PROVE s5[i] = s3[i]
    OBVIOUS
  <2>1. i \in 1 .. n + m + 3
    BY <1>3
  <2> QED
    BY <2>1, <1>8, <1>9, <1>10
<1>12. \A i \in 1 .. n + 1 : s5[i] = s1[i]
  <2> SUFFICES ASSUME NEW i \in 1 .. n + 1 PROVE s5[i] = s1[i]
    OBVIOUS
  <2>1. i \in 1 .. n + 2 /\ i \in 1 .. n + 3
    BY <1>3
  <2> QED
    BY <2>1, <1>6, <1>7, <1>10, <1>11
<1>13. s5[1] = Firing
  <2>1. 1 \in 1 .. n + 1
    BY <1>3
  <2> QED
    BY <2>1, <1>5, <1>12
<1>14. s5[n + 2] = Firing /\ s5[n + 3] = act
  <2>1. n + 2 \in 1 .. n + 3 /\ n + 3 \in 1 .. n + 3 /\ n + 2 \in 1 .. n + 2
        /\ (n + 1) + 1 = n + 2 /\ (n + 2) + 1 = n + 3
    BY <1>3
  <2>2. s5[n + 2] = s3[n + 2] /\ s5[n + 3] = s3[n + 3] /\ s3[n + 2] = s2[n + 2]
    BY <2>1, <1>7, <1>10, <1>11
  <2> QED
    BY <2>1, <2>2, <1>6, <1>7, <1>10
<1>15. s5[n + m + 4] = word
  <2>1. (n + m + 3) + 1 = n + m + 4
    BY <1>3
  <2> QED
    BY <2>1, <1>9, <1>10
<1>16. \A i \in 1 .. n : s5[1 + i] = E[i]
  <2> SUFFICES ASSUME NEW i \in 1 .. n PROVE s5[1 + i] = E[i]
    OBVIOUS
  <2>1. 1 + i \in 1 .. n + 1
    BY <1>3
  <2> QED
    BY <2>1, <1>5, <1>12
<1>17. \A i \in 1 .. m : s5[n + 3 + i] = R[i]
  <2> SUFFICES ASSUME NEW i \in 1 .. m PROVE s5[n + 3 + i] = R[i]
    OBVIOUS
  <2>1. n + 3 + i \in 1 .. n + m + 3
    BY <1>3
  <2> QED
    BY <2>1, <1>8, <1>9, <1>10
<1>18. InForm(E, act, R, word) = s5
  BY DEF s1, s2, s3, s4, s5, InForm
<1> QED
  BY <1>9, <1>10, <1>13, <1>14, <1>15, <1>16, <1>17, <1>18 DEF n, m, Parts

LEMMA FormSafe ==
  ASSUME NEW a, NEW without,
         NEW E \in Seq(Tasks), NEW R \in Seq(Tasks), NEW act \in Tasks, NEW word \in Tasks,
         \A i \in 1 .. Len(E) : E[i].role = "evidence",
         \A i \in 1 .. Len(R) : R[i].role = "recovery",
         act.role = "action", word.role = "communicate", word.does = "open",
         LeftToOperators(a) => act = ReviewByOperator,
         (a \in NativeGroups /\ \A c \in without : c.does # a) => act = Task("action", "k8s", a),
         Cardinality(without) < 3 =>
           /\ act.does # "delete_job"
           /\ \A i \in 1 .. Len(E) : E[i].does # "delete_job"
           /\ \A i \in 1 .. Len(R) : R[i].does # "delete_job"
  PROVE  InForm(E, act, R, word) \in Seq(Tasks) /\ SafeSteps(a, InForm(E, act, R, word), without)
<1> DEFINE s == InForm(E, act, R, word)
           n == Len(E)
           m == Len(R)
<1> HIDE DEF s, n, m
<1>1. /\ s \in Seq(Tasks) /\ Len(s) = n + m + 4 /\ n \in Nat /\ m \in Nat
      /\ s[1] = Firing /\ s[n + 2] = Firing /\ s[n + 3] = act /\ s[n + m + 4] = word
      /\ \A i \in 1 .. n : s[1 + i] = E[i]
      /\ \A i \in 1 .. m : s[n + 3 + i] = R[i]
  <2>1. s = InForm(E, act, R, word) /\ n = Len(E) /\ m = Len(R)
    BY DEF s, n, m
  <2>2. Len(E) \in Nat /\ Len(R) \in Nat
    OBVIOUS
  <2>3. Parts(InForm(E, act, R, word), E, act, R, word)
    BY FormIndexed
  <2> QED
    BY <2>1, <2>2, <2>3 DEF Parts
<1>2. DOMAIN s = 1 .. n + m + 4
  BY <1>1
<1>3. \A i \in DOMAIN s :
        \/ i \in {1, n + 2} /\ s[i] = Firing
        \/ i = n + 3 /\ s[i] = act
        \/ i = n + m + 4 /\ s[i] = word
        \/ i - 1 \in 1 .. n /\ s[i] = E[i - 1]
        \/ i - (n + 3) \in 1 .. m /\ s[i] = R[i - (n + 3)]
  <2> SUFFICES ASSUME NEW i \in 1 .. n + m + 4, i \notin {1, n + 2}, i # n + 3, i # n + m + 4
               PROVE  \/ i - 1 \in 1 .. n /\ s[i] = E[i - 1]
                      \/ i - (n + 3) \in 1 .. m /\ s[i] = R[i - (n + 3)]
    BY <1>1, <1>2
  <2>1. 1 + (i - 1) = i /\ n + 3 + (i - (n + 3)) = i
    BY <1>1
  <2>2. i - 1 \in 1 .. n \/ i - (n + 3) \in 1 .. m
    BY <1>1
  <2> QED
    BY <1>1, <2>1, <2>2
<1>4. Firing.role = "guard" /\ Firing.does = "verify_firing"
  BY DEF Firing, Task
<1>5. \A i \in DOMAIN s : /\ s[i].role = "action" => i = n + 3
                          /\ s[i].role = "communicate" => i = n + m + 4
  BY <1>3, <1>4 DEF n, m
<1>6. Cardinality(without) < 3 => \A i \in DOMAIN s : s[i].does # "delete_job"
  BY <1>3, <1>4 DEF n, m
<1>7. StepsWith(s, "action") = {n + 3} /\ StepsWith(s, "communicate") = {Len(s)}
  BY <1>1, <1>2, <1>5 DEF StepsWith
<1>8. s[(n + 3) - 1] = Firing /\ s[Len(s)].does = "open"
  BY <1>1
<1>9. s \in Seq(Tasks) /\ SafeSteps(a, s, without)
  BY <1>1, <1>6, <1>7, <1>8 DEF SafeSteps
<1> QED
  BY <1>9 DEF s

(* The capabilities that decide the choices below. *)
FiringAt(role) == Capability("alertmanager", "verify_firing", Anything, {}, role, Observe, 500, 0)
ListFiles == AnyTrigger("github", "list_files", Observe, 100, 0)
DeleteJob == AnyTrigger("k8s", "delete_job", Destructive, 0, 0)
PatchHpa == AnyTrigger("k8s", "patch_hpa", BoundedScale, 0, 1)
Scale == AnyTrigger("k8s", "scale", BoundedScale, 0, 2)
Own(a) == Capability("k8s", a, "kubernetes", {a}, "remediation", SafeRestart, 200, 0)

LEMMA Weights ==
  /\ Weight(ListFiles) = 48990 /\ Weight(DeleteJob) = 329990
  /\ Weight(PatchHpa) = 169991 /\ Weight(Scale) = 169992
  /\ \A role : Weight(FiringAt(role)) = 24990
  /\ \A a : Weight(Own(a)) = 87990
  /\ Weight(AnyTrigger("alertmanager", "silence", Guidance, 250, 1)) = 267491
  /\ Weight(AnyTrigger("alertmanager", "expire", Guidance, 250, 2)) = 267492
BY DEF Weight, Precedence, ListFiles, DeleteJob, PatchHpa, Scale, FiringAt, Own, AnyTrigger, Capability,
       Observe, SafeRestart, BoundedScale, Guidance, Destructive

LEMMA Fields ==
  /\ \A service, does, domain, groups, phase, safety, priority, rank :
       LET c == Capability(service, does, domain, groups, phase, safety, priority, rank)
       IN c.service = service /\ c.does = does /\ c.domain = domain /\ c.groups = groups /\ c.phase = phase
  /\ \A service, does, safety, priority, rank :
       LET c == AnyTrigger(service, does, safety, priority, rank)
       IN c.service = service /\ c.does = does /\ c.domain = Anything /\ c.groups = {} /\ c.phase = Anything
BY DEF Capability, AnyTrigger

(* What a service offers. *)
LEMMA ServicesOfSwitchable ==
  /\ \A c \in K8sCapabilities : c.service = "k8s"
  /\ \A c \in StackStormCapabilities :
       c.service = "stackstorm" /\ c.does \in WorkflowGroups \cup {"host_down"}
<1>1. \A c \in K8sCapabilities : c.service = "k8s"
  <2> SUFFICES ASSUME NEW c \in K8sCapabilities PROVE c.service = "k8s"
    OBVIOUS
  <2>1. CASE c \in {Capability("k8s", g, "kubernetes", {g}, "remediation", SafeRestart, 200, 0) :
                       g \in NativeGroups}
    <3>1. PICK g \in NativeGroups :
            c = Capability("k8s", g, "kubernetes", {g}, "remediation", SafeRestart, 200, 0)
      BY <2>1
    <3> QED
      BY <3>1, Fields
  <2>2. CASE c \in {DeleteJob, PatchHpa, Scale}
    BY <2>2, Fields DEF DeleteJob, PatchHpa, Scale
  <2> QED
    BY <2>1, <2>2, Zenon DEF K8sCapabilities, DeleteJob, PatchHpa, Scale
<1>2. \A c \in StackStormCapabilities :
        c.service = "stackstorm" /\ c.does \in WorkflowGroups \cup {"host_down"}
  <2> SUFFICES ASSUME NEW c \in StackStormCapabilities
               PROVE  c.service = "stackstorm" /\ c.does \in WorkflowGroups \cup {"host_down"}
    OBVIOUS
  <2> DEFINE Pack == {Capability("stackstorm", g, "workflow", {g}, p,
                                 IF p = "remediation" THEN Guidance ELSE Observe, 0, 0) :
                        g \in WorkflowGroups, p \in workflows}
             HostDown == {Capability("stackstorm", "host_down", "kubernetes", GuidanceGroups,
                                     "remediation", Guidance, 100, 0) :
                            p \in workflows \cap {"remediation"}}
             MadeOf(does) == \E domain, groups, phase, safety, priority, rank :
                               c = Capability("stackstorm", does, domain, groups, phase, safety, priority, rank)
  <2>1. ASSUME NEW does, MadeOf(does) PROVE c.service = "stackstorm" /\ c.does = does
    <3>1. PICK domain, groups, phase, safety, priority, rank :
            c = Capability("stackstorm", does, domain, groups, phase, safety, priority, rank)
      BY <2>1
    <3> QED
      BY <3>1, Fields
  <2>2. StackStormCapabilities = Pack \cup HostDown
    BY DEF StackStormCapabilities
  <2>3. c \in HostDown => MadeOf("host_down")
    BY Zenon
  <2>4. ASSUME c \in Pack PROVE \E g \in WorkflowGroups : MadeOf(g)
    <3>1. PICK g \in WorkflowGroups, p \in workflows :
            c = Capability("stackstorm", g, "workflow", {g}, p,
                           IF p = "remediation" THEN Guidance ELSE Observe, 0, 0)
      BY <2>4
    <3>2. MadeOf(g)
      BY <3>1, Zenon
    <3> QED
      BY <3>2
  <2> HIDE DEF Pack, HostDown, MadeOf
  <2> QED
    BY <2>1, <2>2, <2>3, <2>4
<1> QED
  BY <1>1, <1>2

LEMMA OfferedBy ==
  /\ \A c \in Offered : c.service \in Providers
  /\ \A c \in Offered : c.service = "k8s" => c \in K8sCapabilities
  /\ \A c \in Offered : c.service = "alertmanager" => c \in AlertmanagerCapabilities
  /\ \A c \in Offered : c.service = "prometheus" => c \in PrometheusCapabilities
  /\ \A c \in Offered : c.service = "github" => c \in GitHubCapabilities
  /\ \A c \in Offered : c.service \in Communicators => c \in BakeryCapabilities \cup DummyCapabilities
<1>1. \A c \in AlertmanagerCapabilities : c.service = "alertmanager"
  BY Fields DEF AlertmanagerCapabilities
<1>2. \A c \in PrometheusCapabilities : c.service = "prometheus"
  BY Fields DEF PrometheusCapabilities
<1>3. \A c \in GitHubCapabilities : c.service = "github"
  BY Fields DEF GitHubCapabilities
<1>4. \A c \in GitCapabilities : c.service = "git"
  BY Fields DEF GitCapabilities
<1>5. \A c \in BakeryCapabilities : c.service = "bakery"
  BY Fields DEF BakeryCapabilities
<1>6. \A c \in DummyCapabilities : c.service = "dummy"
  BY Fields DEF DummyCapabilities
<1> QED
  BY ServicesOfSwitchable, <1>1, <1>2, <1>3, <1>4, <1>5, <1>6 DEF Offered, Providers, Communicators

(* _best_capability. *)
LEMMA BestIs ==
  ASSUME NEW phase, NEW group, NEW domain, NEW services, NEW c \in Best(phase, group, domain, services)
  PROVE  /\ c \in Catalogue /\ c \in Offered /\ c.service \in services
         /\ Triggered(c, phase, group, domain)
         /\ \A d \in Catalogue :
              d.service \in services /\ Triggered(d, phase, group, domain) => Weight(c) <= Weight(d)
BY DEF Best, Catalogue, Offered

(* _capability_step *)
LEMMA FilledIs ==
  ASSUME NEW role, NEW best, NEW otherwise
  PROVE  \E t : /\ Filled(role, best, otherwise) = << t >>
                /\ \/ best = {} /\ t = otherwise
                   \/ \E c \in best : t = Task(role, c.service, c.does)
<1>1. CASE best = {}
  BY <1>1 DEF Filled
<1>2. CASE best # {}
  <2>1. (CHOOSE c \in best : TRUE) \in best
    BY <1>2
  <2> QED
    BY <1>2, <2>1 DEF Filled, Chosen
<1> QED
  BY <1>1, <1>2

(* The recipes that the content sync holds between two calls. *)
Prepared(recipes, without) ==
  /\ DOMAIN recipes \subseteq RecipeAlerts /\ recipes \in [DOMAIN recipes -> Seq(Tasks)]
  /\ without \subseteq Switchable
  /\ \A a \in DOMAIN recipes : SafeSteps(a, recipes[a], without)

RemediationInv ==
  /\ plugins \in Deployments /\ workflows \subseteq PackPhases
  /\ turnedOff \subseteq Switchable /\ IsFiniteSet(turnedOff)
  /\ syncing = [at |-> syncing.at, recipes |-> syncing.recipes, without |-> syncing.without]
  /\ Prepared(syncing.recipes, syncing.without)
  /\ published \in [RecipeAlerts ->
                     [steps : Seq(Tasks), managed : BOOLEAN, without : SUBSET Switchable]]
  /\ \A a \in RecipeAlerts :
       published[a].steps # << >> => SafeSteps(a, published[a].steps, published[a].without)

(* A capability that is not turned off is in the catalogue. *)
LEMMA InCatalogue ==
  ASSUME RemediationInv, NEW c \in Offered, c.service \in plugins, c \notin turnedOff
  PROVE  c \in Catalogue
BY DEF Catalogue, Disregarded, Offered

LEMMA Helpers == RemediationInv => {"github", "k8s", "prometheus"} \subseteq plugins
<1>1. HelperPlugins \subseteq CorePlugins
  BY RemediationAssumption
<1> QED
  BY <1>1 DEF RemediationInv, Deployments, HelperPlugins

LEMMA SwitchableServices == \A c \in Switchable : c.service \in {"k8s", "stackstorm"}
BY ServicesOfSwitchable DEF Switchable

(* alert_guard_step: whatever is enabled, the guard asks Alertmanager. *)
LEMMA GuardIs ==
  ASSUME RemediationInv, NEW role \in {"verify_before_evidence", "verify_before_action"}
  PROVE  Guard(role) = << Firing >>
<1> DEFINE best == Best(role, Anything, Anything, {"alertmanager"})
<1>1. \A c \in best : c.does = "verify_firing" /\ c.service = "alertmanager"
  <2> SUFFICES ASSUME NEW c \in best PROVE c.does = "verify_firing" /\ c.service = "alertmanager"
    OBVIOUS
  <2>1. /\ c \in Catalogue /\ c \in Offered /\ c.service = "alertmanager"
        /\ Triggered(c, role, Anything, Anything)
        /\ \A d \in Catalogue :
             d.service = "alertmanager" /\ Triggered(d, role, Anything, Anything) => Weight(c) <= Weight(d)
    BY BestIs
  <2>2. c \in AlertmanagerCapabilities
    BY <2>1, OfferedBy
  <2>3. FiringAt(role) \in Offered /\ FiringAt(role).service = "alertmanager"
        /\ FiringAt(role).domain = Anything /\ FiringAt(role).groups = {} /\ FiringAt(role).phase = role
    BY Fields DEF FiringAt, Offered, AlertmanagerCapabilities
  <2>4. FiringAt(role) \notin turnedOff
    BY <2>3, SwitchableServices DEF RemediationInv
  <2>5. "alertmanager" \in plugins
    BY <2>1 DEF Catalogue
  <2>6. FiringAt(role) \in Catalogue
    BY <2>3, <2>4, <2>5, InCatalogue
  <2>7. Weight(c) <= 24990
    BY <2>1, <2>3, <2>6, Weights DEF Triggered
  <2>8. c # AnyTrigger("alertmanager", "silence", Guidance, 250, 1)
        /\ c # AnyTrigger("alertmanager", "expire", Guidance, 250, 2)
    BY <2>7, Weights
  <2>9. c.phase \in {Anything, role}
    BY <2>1 DEF Triggered
  <2>10. c # Capability("alertmanager", "list_alerts", Anything, {}, "evidence", Observe, 400, 0)
    BY <2>9, Fields DEF Anything
  <2> QED
    BY <2>1, <2>2, <2>8, <2>10, Fields DEF AlertmanagerCapabilities
<1>2. \E t : /\ Guard(role) = << t >>
             /\ \/ t = Task("guard", "alertmanager", "verify_firing")
                \/ \E c \in best : t = Task("guard", c.service, c.does)
  BY FilledIs DEF Guard
<1> QED
  BY <1>1, <1>2 DEF Firing

(* A step of what is offered. *)
LEMMA PickedTask ==
  ASSUME NEW role \in {"guard", "evidence", "action", "recovery", "communicate"}, NEW c \in Offered
  PROVE  /\ Task(role, c.service, c.does) \in Tasks
         /\ Task(role, c.service, c.does).role = role
         /\ Task(role, c.service, c.does).does = c.does
BY OfferedBy DEF Task, Tasks

(* The word to the operators is a ticket that is opened. *)
LEMMA WordIs == \E t \in Tasks : TellOperators = << t >> /\ t.role = "communicate" /\ t.does = "open"
<1> DEFINE best == Best("communicate", Anything, Anything, Communicators)
<1>1. \A c \in best : c \in Offered /\ c.does = "open"
  <2> SUFFICES ASSUME NEW c \in best PROVE c \in Offered /\ c.does = "open"
    OBVIOUS
  <2>1. c \in Offered /\ c.service \in Communicators /\ c.phase \in {Anything, "communicate"}
    BY BestIs DEF Triggered
  <2>2. c \in BakeryCapabilities \cup DummyCapabilities
    BY <2>1, OfferedBy
  <2>3. CASE c \in DummyCapabilities
    BY <2>1, <2>3, Fields DEF DummyCapabilities
  <2>4. CASE c \in BakeryCapabilities
    <3>1. \A d : Capability("bakery", d, Anything, {}, "both", Observe, 100, 0).phase = "both"
      BY Fields
    <3> QED
      BY <2>1, <2>4, <3>1, Fields DEF BakeryCapabilities, Anything
  <2> QED
    BY <2>2, <2>3, <2>4
<1>2. PICK t : /\ TellOperators = << t >>
               /\ \/ t = Task("communicate", "bakery", "open")
                  \/ \E c \in best : t = Task("communicate", c.service, c.does)
  BY FilledIs DEF TellOperators
<1>3. CASE t = Task("communicate", "bakery", "open")
  BY <1>2, <1>3 DEF Task, Tasks, Providers
<1>4. CASE \E c \in best : t = Task("communicate", c.service, c.does)
  BY <1>1, <1>2, <1>4, PickedTask
<1> QED
  BY <1>2, <1>3, <1>4

(* One capability destroys what it acts on. *)
LEMMA DestroysOne == \A c \in Offered : c.does = "delete_job" => c = DeleteJob
<1> SUFFICES ASSUME NEW c \in Offered, c.does = "delete_job" PROVE c = DeleteJob
  OBVIOUS
<1>1. c \notin AlertmanagerCapabilities \cup PrometheusCapabilities
  BY Fields DEF AlertmanagerCapabilities, PrometheusCapabilities
<1>2. c \notin GitHubCapabilities \cup GitCapabilities
  BY Fields DEF GitHubCapabilities, GitCapabilities
<1>3. c \notin BakeryCapabilities \cup DummyCapabilities
  BY Fields DEF BakeryCapabilities, DummyCapabilities
<1>4. c \notin StackStormCapabilities
  BY ServicesOfSwitchable, RemediationAssumption
<1>5. \A g \in NativeGroups : c # Own(g)
  BY Fields, RemediationAssumption DEF Own
<1>6. c # PatchHpa /\ c # Scale
  BY Fields DEF PatchHpa, Scale
<1>7. K8sCapabilities = {Own(g) : g \in NativeGroups} \cup {DeleteJob, PatchHpa, Scale}
  BY DEF K8sCapabilities, Own, DeleteJob, PatchHpa, Scale
<1> QED
  BY <1>1, <1>2, <1>3, <1>4, <1>5, <1>6, <1>7 DEF Offered

(* The evidence that every recipe asks for. *)
LEMMA EvidenceIs ==
  ASSUME NEW service \in {"alertmanager", "prometheus", "github"},
         NEW does \in {"list_alerts", "alert_evidence", "read_rule"}
  PROVE  \E t \in Tasks :
           EvidenceFrom(service, does) = << t >> /\ t.role = "evidence" /\ t.does # "delete_job"
<1> DEFINE best == Best("evidence", Anything, Anything, {service})
<1>1. \A c \in best : c \in Offered /\ c.does # "delete_job"
  <2>1. DeleteJob.service = "k8s"
    BY Fields DEF DeleteJob
  <2> QED
    BY <2>1, BestIs, DestroysOne
<1>2. PICK t : /\ EvidenceFrom(service, does) = << t >>
               /\ \/ t = Task("evidence", service, does)
                  \/ \E c \in best : t = Task("evidence", c.service, c.does)
  BY FilledIs DEF EvidenceFrom
<1>3. CASE t = Task("evidence", service, does)
  BY <1>2, <1>3 DEF Task, Tasks, Providers
<1>4. CASE \E c \in best : t = Task("evidence", c.service, c.does)
  BY <1>1, <1>2, <1>4, PickedTask
<1> QED
  BY <1>2, <1>3, <1>4

(* Of all providers, one that only looks is preferred to one that destroys.*)
LEMMA LooksFirst ==
  ASSUME RemediationInv, NEW phase, NEW group, NEW domain,
         NEW c \in Best(phase, group, domain, Providers)
  PROVE  c \in Offered /\ c.does # "delete_job"
<1>1. c \in Offered
  BY BestIs
<1>2. ListFiles \in Offered /\ ListFiles.service = "github" /\ Triggered(ListFiles, phase, group, domain)
  BY Fields DEF ListFiles, Offered, GitHubCapabilities, Triggered
<1>3. ListFiles \in Catalogue
  <2>1. ListFiles \notin turnedOff
    BY <1>2, SwitchableServices DEF RemediationInv
  <2> QED
    BY <1>2, <2>1, Helpers, InCatalogue
<1>4. Weight(c) <= 48990
  <2>1. "github" \in Providers
    BY DEF Providers
  <2> QED
    BY <1>2, <1>3, <2>1, BestIs, Weights
<1>5. c # DeleteJob
  BY <1>4, Weights
<1> QED
  BY <1>1, <1>5, DestroysOne

(* What the cluster can always do about an alert, if it is not turned off. *)
LEMMA K8sOffered ==
  /\ \A x \in {DeleteJob, PatchHpa, Scale} :
       x \in Offered /\ x.service = "k8s" /\ x.domain = Anything /\ x.groups = {} /\ x.phase = Anything
  /\ \A a \in NativeGroups :
       /\ Own(a) \in Offered /\ Own(a).service = "k8s" /\ Own(a).does = a
       /\ Own(a).domain = "kubernetes" /\ Own(a).groups = {a} /\ Own(a).phase = "remediation"
  /\ K8sCapabilities = {Own(a) : a \in NativeGroups} \cup {DeleteJob, PatchHpa, Scale}
<1>1. K8sCapabilities = {Own(a) : a \in NativeGroups} \cup {DeleteJob, PatchHpa, Scale}
  BY DEF K8sCapabilities, Own, DeleteJob, PatchHpa, Scale
<1>2. K8sCapabilities \subseteq Offered
  BY DEF Offered
<1>3. \A x \in {DeleteJob, PatchHpa, Scale} :
        x.service = "k8s" /\ x.domain = Anything /\ x.groups = {} /\ x.phase = Anything
  BY Fields DEF DeleteJob, PatchHpa, Scale
<1>4. \A a \in NativeGroups :
        /\ Own(a).service = "k8s" /\ Own(a).does = a
        /\ Own(a).domain = "kubernetes" /\ Own(a).groups = {a} /\ Own(a).phase = "remediation"
  BY Fields DEF Own
<1>5. \A a \in NativeGroups : Own(a) \in Offered
  BY <1>1, <1>2
<1>6. \A x \in {DeleteJob, PatchHpa, Scale} : x \in Offered
  BY <1>1, <1>2
<1> QED
  BY <1>1, <1>3, <1>4, <1>5, <1>6

(* What is not in the catalogue of the cluster was turned off. *)
LEMMA K8sLeftOut ==
  ASSUME RemediationInv, NEW c \in Offered, c.service = "k8s", c \notin Catalogue
  PROVE  c \in Without
<1>1. c.service \in plugins
  BY Helpers
<1> QED
  BY <1>1 DEF Catalogue, Offered, Without, Disregarded

(* The action on an alert of the cluster that has one of its own. *)
LEMMA NativeBest ==
  ASSUME RemediationInv, NEW a \in NativeGroups,
         NEW c \in Best("remediation", a, "kubernetes", {"k8s"})
  PROVE  /\ (\A d \in Without : d.does # a) => c = Own(a)
         /\ Cardinality(Without) < 3 => c # DeleteJob
<1>1. /\ c \in Offered /\ c.service = "k8s" /\ Triggered(c, "remediation", a, "kubernetes")
      /\ \A d \in Catalogue :
           d.service = "k8s" /\ Triggered(d, "remediation", a, "kubernetes") => Weight(c) <= Weight(d)
  BY BestIs
<1>2. c \in {Own(b) : b \in NativeGroups} \cup {DeleteJob, PatchHpa, Scale}
  BY <1>1, OfferedBy, K8sOffered
<1>3. \A b \in NativeGroups : c = Own(b) => b = a
  BY <1>1, K8sOffered DEF Triggered
<1>4. \A x \in {Own(a), PatchHpa, Scale} :
        x \in Offered /\ x.service = "k8s" /\ Triggered(x, "remediation", a, "kubernetes")
  BY K8sOffered DEF Triggered
<1>5. ASSUME \A d \in Without : d.does # a PROVE c = Own(a)
  <2>1. Own(a) \in Catalogue
    BY <1>4, <1>5, K8sLeftOut, K8sOffered
  <2>2. Weight(c) <= 87990
    BY <1>1, <1>4, <2>1, Weights
  <2>3. c \notin {DeleteJob, PatchHpa, Scale}
    BY <2>2, Weights
  <2> QED
    BY <1>2, <1>3, <2>3
<1>6. ASSUME Cardinality(Without) < 3 PROVE c # DeleteJob
  <2> SUFFICES ASSUME c = DeleteJob PROVE FALSE
    OBVIOUS
  <2>1. \A x \in {Own(a), PatchHpa, Scale} : x \notin Catalogue
    <3>1. Weight(c) = 329990
      BY Weights
    <3>2. \A x \in {Own(a), PatchHpa, Scale} : Weight(x) \in {87990, 169991, 169992}
      BY Weights
    <3>3. \A x \in {Own(a), PatchHpa, Scale} : ~(Weight(c) <= Weight(x))
      BY <3>1, <3>2
    <3> QED
      BY <1>1, <1>4, <3>3
  <2>2. {Own(a), PatchHpa, Scale} \subseteq Without
    BY <1>4, <2>1, K8sLeftOut
  <2>3. Cardinality({Own(a), PatchHpa, Scale}) = 3 /\ IsFiniteSet({Own(a), PatchHpa, Scale})
    <3>1. Own(a) # PatchHpa /\ Own(a) # Scale /\ PatchHpa # Scale
      BY Weights
    <3>2. IsFiniteSet({Scale}) /\ Cardinality({Scale}) = 1
      BY FS_Singleton
    <3>3. IsFiniteSet({Scale} \cup {PatchHpa}) /\ Cardinality({Scale} \cup {PatchHpa}) = 2
      BY <3>1, <3>2, FS_AddElement
    <3>4. /\ IsFiniteSet(({Scale} \cup {PatchHpa}) \cup {Own(a)})
          /\ Cardinality(({Scale} \cup {PatchHpa}) \cup {Own(a)}) = 3
      BY <3>1, <3>3, FS_AddElement
    <3>5. ({Scale} \cup {PatchHpa}) \cup {Own(a)} = {Own(a), PatchHpa, Scale}
      OBVIOUS
    <3> QED
      BY <3>4, <3>5
  <2>4. IsFiniteSet(Without) /\ Cardinality(Without) \in Nat
    <3>1. Without \subseteq turnedOff
      BY DEF Without
    <3> QED
      BY <3>1, FS_Subset, FS_CardinalityType DEF RemediationInv
  <2>5. 3 <= Cardinality(Without)
    BY <2>2, <2>3, <2>4, FS_Subset
  <2> QED
    BY <1>6, <2>4, <2>5
<1> QED
  BY <1>5, <1>6

(* An action of its own that is not turned off is the best one. *)
LEMMA NativeIsBest ==
  ASSUME RemediationInv, NEW a \in NativeGroups, \A d \in Without : d.does # a
  PROVE  Own(a) \in Best("remediation", a, "kubernetes", {"k8s"})
<1>1. /\ Own(a) \in Catalogue /\ Own(a).service = "k8s"
      /\ Triggered(Own(a), "remediation", a, "kubernetes")
  BY K8sLeftOut, K8sOffered DEF Triggered
<1>2. ASSUME NEW d \in Catalogue, d.service = "k8s", Triggered(d, "remediation", a, "kubernetes")
      PROVE  Weight(Own(a)) <= Weight(d)
  <2>1. d \in {Own(b) : b \in NativeGroups} \cup {DeleteJob, PatchHpa, Scale}
    <3>1. d \in Offered
      BY DEF Catalogue, Offered
    <3> QED
      BY <1>2, <3>1, OfferedBy, K8sOffered
  <2>2. \A b \in NativeGroups : d = Own(b) => b = a
    BY <1>2, K8sOffered DEF Triggered
  <2>3. d \in {Own(a), DeleteJob, PatchHpa, Scale}
    BY <2>1, <2>2
  <2> QED
    BY <2>3, Weights
<1> QED
  BY <1>1, <1>2 DEF Best

(* ... and on any other. *)
LEMMA KubernetesAction ==
  ASSUME RemediationInv, NEW a \in KubernetesGroups
  PROVE  \E t \in Tasks :
           /\ Filled("action",
                     IF LeftToOperators(a) THEN {}
                     ELSE Best("remediation", a, "kubernetes", PreferredServices(a)),
                     ReviewByOperator) = << t >>
           /\ t.role = "action"
           /\ LeftToOperators(a) => t = ReviewByOperator
           /\ (a \in NativeGroups /\ \A c \in Without : c.does # a) => t = Task("action", "k8s", a)
           /\ Cardinality(Without) < 3 => t.does # "delete_job"
<1> DEFINE best == IF LeftToOperators(a) THEN {}
                   ELSE Best("remediation", a, "kubernetes", PreferredServices(a))
<1>1. PICK t : /\ Filled("action", best, ReviewByOperator) = << t >>
               /\ \/ best = {} /\ t = ReviewByOperator
                  \/ \E c \in best : t = Task("action", c.service, c.does)
  BY FilledIs
<1>2. ReviewByOperator \in Tasks /\ ReviewByOperator.role = "action" /\ ReviewByOperator.does # "delete_job"
  BY DEF ReviewByOperator, Task, Tasks, Providers
<1>3. CASE LeftToOperators(a)
  <2>1. a \notin NativeGroups
    BY <1>3, RemediationAssumption DEF LeftToOperators
  <2> QED
    BY <1>1, <1>2, <1>3, <2>1
<1>4. CASE ~LeftToOperators(a) /\ best = {}
  <2>1. ~(a \in NativeGroups /\ \A c \in Without : c.does # a)
    BY <1>4, NativeIsBest DEF PreferredServices
  <2> QED
    BY <1>1, <1>2, <1>4, <2>1
<1>5. CASE ~LeftToOperators(a) /\ \E c \in best : t = Task("action", c.service, c.does)
  <2>1. PICK c \in best : t = Task("action", c.service, c.does)
    BY <1>5
  <2>2. CASE a \in NativeGroups
    <3>1. c \in Best("remediation", a, "kubernetes", {"k8s"})
      BY <1>5, <2>2 DEF PreferredServices
    <3>2. c \in Offered
      BY <3>1, BestIs
    <3>3. (\A d \in Without : d.does # a) => t = Task("action", "k8s", a)
      BY <2>1, <2>2, <3>1, NativeBest, K8sOffered
    <3>4. Cardinality(Without) < 3 => t.does # "delete_job"
      BY <2>1, <2>2, <3>1, <3>2, NativeBest, DestroysOne, PickedTask
    <3>5. t \in Tasks /\ t.role = "action"
      BY <2>1, <3>2, PickedTask
    <3> QED
      BY <1>1, <1>5, <3>3, <3>4, <3>5
  <2>3. CASE a \notin NativeGroups
    <3>1. c \in Best("remediation", a, "kubernetes", Providers)
      BY <1>5, <2>3 DEF PreferredServices
    <3>2. c \in Offered /\ c.does # "delete_job"
      BY <3>1, LooksFirst
    <3>3. t \in Tasks /\ t.role = "action" /\ t.does # "delete_job"
      BY <2>1, <3>2, PickedTask
    <3> QED
      BY <1>1, <1>5, <2>3, <3>3
  <2> QED
    BY <2>2, <2>3
<1> QED
  BY <1>1, <1>3, <1>4, <1>5

(* At most one step that some enabled plugin may do. *)
LEMMA AnyTask ==
  ASSUME RemediationInv, NEW role \in {"evidence", "action", "recovery"}, NEW phase, NEW group, NEW domain
  PROVE  LET steps == FilledIfAny(role, Best(phase, group, domain, Providers))
         IN /\ steps \in Seq(Tasks)
            /\ \A i \in 1 .. Len(steps) : steps[i].role = role /\ steps[i].does # "delete_job"
<1> DEFINE best == Best(phase, group, domain, Providers)
<1>1. CASE best = {}
  <2>1. FilledIfAny(role, best) = << >>
    BY <1>1 DEF FilledIfAny
  <2> HIDE DEF best
  <2>2. << >> \in Seq(Tasks) /\ \A i \in 1 .. Len(<< >>) : FALSE
    OBVIOUS
  <2> QED
    BY <2>1, <2>2 DEF best
<1>2. CASE best # {}
  <2>1. PICK c \in best : FilledIfAny(role, best) = << Task(role, c.service, c.does) >>
    BY <1>2 DEF FilledIfAny, Chosen
  <2>2. c \in Offered /\ c.does # "delete_job"
    BY LooksFirst
  <2> DEFINE t == Task(role, c.service, c.does)
  <2>3. t \in Tasks /\ t.role = role /\ t.does # "delete_job"
    BY <2>2, PickedTask
  <2> HIDE DEF t
  <2>4. << t >> \in Seq(Tasks) /\ \A i \in 1 .. Len(<< t >>) : << t >>[i] = t
    BY <2>3
  <2> QED
    BY <2>1, <2>3, <2>4 DEF t
<1> QED
  BY <1>1, <1>2

(* Evidence: steps that only look. *)
Looking(steps) ==
  /\ steps \in Seq(Tasks)
  /\ \A i \in 1 .. Len(steps) : steps[i].role = "evidence" /\ steps[i].does # "delete_job"

LEMMA LookingJoined ==
  ASSUME NEW u, NEW v, Looking(u), Looking(v)
  PROVE  Looking(u \o v)
<1>1. u \in Seq(Tasks) /\ v \in Seq(Tasks)
  BY DEF Looking
<1>2. /\ u \o v \in Seq(Tasks) /\ Len(u \o v) = Len(u) + Len(v)
      /\ \A i \in 1 .. Len(u) : (u \o v)[i] = u[i]
      /\ \A i \in 1 .. Len(v) : (u \o v)[Len(u) + i] = v[i]
  BY <1>1, Joined
<1>3. Len(u) \in Nat /\ Len(v) \in Nat
  BY <1>1
<1>4. ASSUME NEW i \in 1 .. Len(u \o v)
      PROVE  (u \o v)[i].role = "evidence" /\ (u \o v)[i].does # "delete_job"
  <2>1. CASE i \in 1 .. Len(u)
    <3>1. (u \o v)[i] = u[i]
      BY <1>2, <2>1
    <3> QED
      BY <2>1, <3>1 DEF Looking
  <2>2. CASE i \notin 1 .. Len(u)
    <3>1. i - Len(u) \in 1 .. Len(v) /\ Len(u) + (i - Len(u)) = i
      BY <1>2, <1>3, <2>2
    <3>2. (u \o v)[i] = v[i - Len(u)]
      BY <1>2, <3>1
    <3> QED
      BY <3>1, <3>2 DEF Looking
  <2> QED
    BY <2>1, <2>2
<1> QED
  BY <1>2, <1>4 DEF Looking

LEMMA LookingOnce ==
  /\ Looking(Diagnosis) /\ Looking(AlertEvidence) /\ Looking(SourceEvidence)
<1>1. \A t \in Tasks : t.role = "evidence" /\ t.does # "delete_job" => Looking(<< t >>)
  <2> SUFFICES ASSUME NEW t \in Tasks, t.role = "evidence", t.does # "delete_job" PROVE Looking(<< t >>)
    OBVIOUS
  <2>1. << t >> \in Seq(Tasks) /\ \A i \in 1 .. Len(<< t >>) : << t >>[i] = t
    OBVIOUS
  <2> QED
    BY <2>1 DEF Looking
<1>2. \A service \in {"alertmanager", "prometheus", "github"},
         does \in {"list_alerts", "alert_evidence", "read_rule"} : Looking(EvidenceFrom(service, does))
  BY <1>1, EvidenceIs
<1>3. Looking(Diagnosis)
  <2>1. LET t == Task("evidence", "k8s", "diagnose")
        IN t \in Tasks /\ t.role = "evidence" /\ t.does # "delete_job"
    BY DEF Task, Tasks, Providers
  <2> QED
    BY <1>1, <2>1 DEF Diagnosis
<1>4. Looking(AlertEvidence)
  BY <1>2 DEF AlertEvidence
<1>5. Looking(EvidenceFrom("prometheus", "alert_evidence")) /\ Looking(EvidenceFrom("github", "read_rule"))
  BY <1>2
<1> QED
  BY <1>3, <1>4, <1>5, LookingJoined DEF SourceEvidence

(* The evidence joined to the guard one by one, or at once. *)
LEMMA Regrouped ==
  ASSUME NEW u \in Seq(Tasks), NEW v \in Seq(Tasks)
  PROVE  (<< Firing >> \o u) \o v = << Firing >> \o (u \o v)
<1>1. << Firing >> \in Seq(Tasks)
  BY DEF Firing, Tasks, Task, Providers
<1> QED
  BY <1>1, ConcatAssociative

Calm(recovery) ==
  /\ recovery \in Seq(Tasks)
  /\ \A i \in 1 .. Len(recovery) : recovery[i].role = "recovery" /\ recovery[i].does # "delete_job"

LEMMA FormFits ==
  ASSUME NEW a, NEW E, NEW R, NEW act \in Tasks, Looking(E), Calm(R),
         act.role = "action",
         LeftToOperators(a) => act = ReviewByOperator,
         (a \in NativeGroups /\ \A c \in Without : c.does # a) => act = Task("action", "k8s", a),
         Cardinality(Without) < 3 => act.does # "delete_job"
  PROVE  LET steps == ((((<< Firing >> \o E) \o << Firing >>) \o << act >>) \o R) \o TellOperators
         IN steps \in Seq(Tasks) /\ SafeSteps(a, steps, Without)
<1>1. PICK word \in Tasks :
        TellOperators = << word >> /\ word.role = "communicate" /\ word.does = "open"
  BY WordIs
<1>2. E \in Seq(Tasks) /\ R \in Seq(Tasks)
      /\ (\A i \in 1 .. Len(E) : E[i].role = "evidence")
      /\ (\A i \in 1 .. Len(E) : E[i].does # "delete_job")
      /\ (\A i \in 1 .. Len(R) : R[i].role = "recovery")
      /\ (\A i \in 1 .. Len(R) : R[i].does # "delete_job")
  BY DEF Looking, Calm
<1>3. InForm(E, act, R, word) \in Seq(Tasks) /\ SafeSteps(a, InForm(E, act, R, word), Without)
  BY <1>1, <1>2, FormSafe
<1> QED
  BY <1>1, <1>3 DEF InForm

(* remediation_step_specs: every recipe that is prepared is safe. *)
LEMMA RecipeIsSafe ==
  ASSUME RemediationInv, NEW a \in RecipeAlerts
  PROVE  RecipeOf(a) \in Seq(Tasks) /\ SafeSteps(a, RecipeOf(a), Without)
<1>1. Guard("verify_before_evidence") = << Firing >> /\ Guard("verify_before_action") = << Firing >>
  BY GuardIs
<1>2. /\ Looking(Diagnosis) /\ Looking(AlertEvidence) /\ Looking(SourceEvidence)
      /\ Diagnosis \in Seq(Tasks) /\ AlertEvidence \in Seq(Tasks) /\ SourceEvidence \in Seq(Tasks)
  BY LookingOnce DEF Looking
<1>3. Calm(<< >>)
  BY DEF Calm
<1>4. ReviewByOperator \in Tasks /\ ReviewByOperator.role = "action" /\ ReviewByOperator.does # "delete_job"
  BY DEF ReviewByOperator, Task, Tasks, Providers
<1>5. CASE a \in WorkflowGroups
  <2>1. a \notin NativeGroups /\ ~LeftToOperators(a)
    BY <1>5, RemediationAssumption DEF KubernetesGroups, LeftToOperators
  <2> DEFINE more == FilledIfAny("evidence", Best("evidence", a, "workflow", Providers))
             best == Best("remediation", a, "workflow", Providers)
             recovery == IF best = {} THEN << >>
                         ELSE FilledIfAny("recovery", Best("verify_recovery", a, "workflow", Providers))
  <2>2. Looking(more) /\ more \in Seq(Tasks)
    BY AnyTask DEF Looking
  <2>3. Calm(recovery)
    <3>1. Calm(FilledIfAny("recovery", Best("verify_recovery", a, "workflow", Providers)))
      BY AnyTask DEF Calm
    <3> QED
      BY <1>3, <3>1
  <2>4. PICK act \in Tasks : /\ Filled("action", best, ReviewByOperator) = << act >>
                             /\ act.role = "action" /\ act.does # "delete_job"
    <3>1. PICK t : /\ Filled("action", best, ReviewByOperator) = << t >>
                   /\ \/ t = ReviewByOperator
                      \/ \E c \in best : t = Task("action", c.service, c.does)
      BY FilledIs
    <3>2. CASE t = ReviewByOperator
      BY <1>4, <3>1, <3>2
    <3>3. CASE \E c \in best : t = Task("action", c.service, c.does)
      <4>1. PICK c \in best : t = Task("action", c.service, c.does)
        BY <3>3
      <4>2. c \in Offered /\ c.does # "delete_job"
        BY LooksFirst
      <4>3. t \in Tasks /\ t.role = "action" /\ t.does # "delete_job"
        BY <4>1, <4>2, PickedTask
      <4> QED
        BY <3>1, <4>3
    <3> QED
      BY <3>1, <3>2, <3>3
  <2>5. Looking(AlertEvidence \o more)
    BY <1>2, <2>2, LookingJoined
  <2>6. RecipeOf(a) =
          ((((<< Firing >> \o (AlertEvidence \o more)) \o << Firing >>) \o << act >>) \o recovery)
            \o TellOperators
    <3>1. (<< Firing >> \o AlertEvidence) \o more = << Firing >> \o (AlertEvidence \o more)
      BY <1>2, <2>2, Regrouped
    <3> HIDE DEF more
    <3>2. RecipeOf(a) = (((((<< Firing >> \o AlertEvidence) \o more) \o << Firing >>) \o << act >>)
                           \o recovery) \o TellOperators
      BY <1>1, <1>5, <2>4 DEF RecipeOf, WorkflowRecipe, more
    <3> QED
      BY <3>1, <3>2
  <2> HIDE DEF more, recovery, best
  <2> QED
    BY <2>1, <2>3, <2>4, <2>5, <2>6, FormFits
<1>6. CASE a \notin WorkflowGroups /\ a \in KubernetesGroups
  <2>1. PICK act \in Tasks :
          /\ Filled("action",
                    IF LeftToOperators(a) THEN {}
                    ELSE Best("remediation", a, "kubernetes", PreferredServices(a)),
                    ReviewByOperator) = << act >>
          /\ act.role = "action"
          /\ LeftToOperators(a) => act = ReviewByOperator
          /\ (a \in NativeGroups /\ \A c \in Without : c.does # a) => act = Task("action", "k8s", a)
          /\ Cardinality(Without) < 3 => act.does # "delete_job"
    BY <1>6, KubernetesAction
  <2>2. RecipeOf(a) =
          (((<< Firing >> \o Diagnosis) \o << Firing >>) \o << act >>) \o TellOperators
    BY <1>1, <1>6, <2>1 DEF RecipeOf, KubernetesRecipe
  <2>3. (((<< Firing >> \o Diagnosis) \o << Firing >>) \o << act >>) \o << >>
          = ((<< Firing >> \o Diagnosis) \o << Firing >>) \o << act >>
    <3>1. << Firing >> \in Seq(Tasks) /\ << act >> \in Seq(Tasks)
      BY DEF Firing, Tasks, Task, Providers
    <3>2. ((<< Firing >> \o Diagnosis) \o << Firing >>) \o << act >> \in Seq(Tasks)
      BY <1>2, <3>1, ConcatProperties
    <3> QED
      BY <3>2, ConcatEmptySeq
  <2>4. RecipeOf(a) =
          ((((<< Firing >> \o Diagnosis) \o << Firing >>) \o << act >>) \o << >>) \o TellOperators
    BY <2>2, <2>3
  <2> QED
    BY <1>2, <1>3, <2>1, <2>4, FormFits
<1>7. CASE a \notin WorkflowGroups /\ a \notin KubernetesGroups
  <2>1. a \notin NativeGroups /\ ~LeftToOperators(a)
    BY <1>7 DEF KubernetesGroups, LeftToOperators
  <2> DEFINE before == (<< Firing >> \o (AlertEvidence \o SourceEvidence)) \o << Firing >>
  <2>2. RecipeOf(a) = (before \o << ReviewByOperator >>) \o TellOperators
    <3>1. (<< Firing >> \o AlertEvidence) \o SourceEvidence
            = << Firing >> \o (AlertEvidence \o SourceEvidence)
      BY <1>2, Regrouped
    <3> QED
      BY <1>1, <1>7, <3>1 DEF RecipeOf, GenericRecipe
  <2>3. Looking(AlertEvidence \o SourceEvidence)
    BY <1>2, LookingJoined
  <2>4. (before \o << ReviewByOperator >>) \o << >> = before \o << ReviewByOperator >>
    <3>1. << Firing >> \in Seq(Tasks) /\ << ReviewByOperator >> \in Seq(Tasks)
      BY <1>4 DEF Firing, Tasks, Task, Providers
    <3>2. AlertEvidence \o SourceEvidence \in Seq(Tasks)
      BY <2>3 DEF Looking
    <3>3. before \o << ReviewByOperator >> \in Seq(Tasks)
      BY <3>1, <3>2, ConcatProperties
    <3> QED
      BY <3>3, ConcatEmptySeq
  <2>5. RecipeOf(a) = ((before \o << ReviewByOperator >>) \o << >>) \o TellOperators
    BY <2>2, <2>4
  <2> QED
    BY <1>3, <1>4, <2>1, <2>3, <2>5, FormFits
<1> QED
  BY <1>5, <1>6, <1>7

LEMMA RemediationInitInv == RemediationInit => RemediationInv
<1> SUFFICES ASSUME RemediationInit PROVE RemediationInv
  OBVIOUS
<1>1. Prepared(<< >>, {})
  BY DEF Prepared
<1>2. syncing = [at |-> syncing.at, recipes |-> syncing.recipes, without |-> syncing.without]
      /\ Prepared(syncing.recipes, syncing.without)
  BY <1>1 DEF RemediationInit, NotSyncing
<1>3. /\ published \in [RecipeAlerts -> [steps : Seq(Tasks), managed : BOOLEAN, without : SUBSET Switchable]]
      /\ \A a \in RecipeAlerts : published[a].steps = << >>
  BY DEF RemediationInit, Unpublished
<1>4. turnedOff = {} /\ IsFiniteSet({})
  BY FS_EmptySet DEF RemediationInit
<1>5. plugins \in Deployments /\ workflows \subseteq PackPhases
  BY DEF RemediationInit
<1> QED
  BY <1>2, <1>3, <1>4, <1>5 DEF RemediationInv

(* What is switchable depends on the workflows, which stay. *)
LEMMA SwitchableStays == workflows' = workflows => Switchable' = Switchable
BY DEF Switchable, K8sCapabilities, StackStormCapabilities

(* The steps of a recipe depend on nothing that changes but workflows. *)
LEMMA TasksStay == workflows' = workflows => Tasks' = Tasks
BY DEF Tasks, Offered, StackStormCapabilities

LEMMA OperatorsKeepRecipes ==
  ASSUME RemediationInv,
         \/ \E with \in Deployments : Redeploy(with)
         \/ \E c \in Switchable : TurnOff(c) \/ TurnOn(c)
         \/ StopPlugin("k8s")
         \/ ContentSyncFails
  PROVE  RemediationInv'
<1>1. workflows' = workflows /\ published' = published
  BY DEF Redeploy, TurnOff, TurnOn, StopPlugin, ContentSyncFails
<1>2. Switchable' = Switchable /\ Tasks' = Tasks
  BY <1>1, SwitchableStays, TasksStay
<1>3. plugins' \in Deployments
  BY DEF RemediationInv, Redeploy, TurnOff, TurnOn, StopPlugin, ContentSyncFails
<1>4. turnedOff' \subseteq Switchable /\ IsFiniteSet(turnedOff')
  <2>1. ASSUME NEW c \in Switchable, turnedOff' = turnedOff \cup {c}
        PROVE  turnedOff' \subseteq Switchable /\ IsFiniteSet(turnedOff')
    BY <2>1, FS_AddElement DEF RemediationInv
  <2>2. ASSUME NEW c \in Switchable, turnedOff' = turnedOff \ {c}
        PROVE  turnedOff' \subseteq Switchable /\ IsFiniteSet(turnedOff')
    BY <2>2, FS_RemoveElement DEF RemediationInv
  <2>3. turnedOff' = turnedOff \/ \E c \in Switchable : turnedOff' \in {turnedOff \cup {c}, turnedOff \ {c}}
    BY DEF Redeploy, TurnOff, TurnOn, StopPlugin, ContentSyncFails
  <2> QED
    BY <2>1, <2>2, <2>3 DEF RemediationInv
<1>5. syncing' = syncing \/ syncing' = NotSyncing
  BY DEF Redeploy, TurnOff, TurnOn, StopPlugin, ContentSyncFails
<1>6. /\ syncing' = [at |-> syncing'.at, recipes |-> syncing'.recipes, without |-> syncing'.without]
      /\ Prepared(syncing'.recipes, syncing'.without)
  <2>1. CASE syncing' = syncing
    BY <2>1 DEF RemediationInv
  <2>2. CASE syncing' = NotSyncing
    BY <2>2 DEF NotSyncing, Prepared
  <2> QED
    BY <1>5, <2>1, <2>2
<1> QED
  BY <1>1, <1>2, <1>3, <1>4, <1>6 DEF RemediationInv, Prepared

LEMMA TakeOverKeeps ==
  ASSUME RemediationInv, NEW a \in RecipeAlerts, TakeOver(a) PROVE RemediationInv'
<1>1. workflows' = workflows /\ plugins' = plugins /\ turnedOff' = turnedOff /\ syncing' = syncing
  BY DEF TakeOver
<1>2. Switchable' = Switchable /\ Tasks' = Tasks
  BY <1>1, SwitchableStays, TasksStay
<1>3. published' = [published EXCEPT ![a].managed = FALSE]
  BY DEF TakeOver
<1>4. /\ published' \in [RecipeAlerts -> [steps : Seq(Tasks), managed : BOOLEAN, without : SUBSET Switchable]]
      /\ \A b \in RecipeAlerts : /\ published'[b].steps = published[b].steps
                                 /\ published'[b].without = published[b].without
  BY <1>3 DEF RemediationInv
<1>5. Prepared(syncing.recipes, syncing.without)'
  BY <1>1, <1>2 DEF RemediationInv, Prepared
<1> QED
  BY <1>1, <1>2, <1>4, <1>5 DEF RemediationInv

LEMMA PrepareKeeps == RemediationInv /\ PrepareRecipes => RemediationInv'
<1> SUFFICES ASSUME RemediationInv, PrepareRecipes PROVE RemediationInv'
  OBVIOUS
<1>1. /\ workflows' = workflows /\ plugins' = plugins /\ turnedOff' = turnedOff /\ published' = published
      /\ syncing' = [at |-> "prepared", recipes |-> [a \in RecipeAlerts |-> RecipeOf(a)], without |-> Without]
  BY DEF PrepareRecipes, Without
<1>2. Switchable' = Switchable /\ Tasks' = Tasks
  BY <1>1, SwitchableStays, TasksStay
<1>3. Without \subseteq Switchable
  BY DEF RemediationInv, Without
<1> DEFINE recipes == [a \in RecipeAlerts |-> RecipeOf(a)]
<1>4. Prepared(recipes, Without)
  <2>1. \A a \in RecipeAlerts : RecipeOf(a) \in Seq(Tasks) /\ SafeSteps(a, RecipeOf(a), Without)
    BY RecipeIsSafe
  <2>2. DOMAIN recipes = RecipeAlerts /\ recipes \in [RecipeAlerts -> Seq(Tasks)]
        /\ \A a \in RecipeAlerts : SafeSteps(a, recipes[a], Without)
    BY <2>1
  <2> HIDE DEF recipes
  <2> QED
    BY <1>3, <2>2 DEF Prepared
<1>5. syncing'.recipes = recipes /\ syncing'.without = Without
  BY <1>1
<1> HIDE DEF recipes
<1>6. Prepared(syncing.recipes, syncing.without)'
  BY <1>2, <1>4, <1>5 DEF Prepared
<1>7. syncing' = [at |-> syncing'.at, recipes |-> syncing'.recipes, without |-> syncing'.without]
  BY <1>1
<1> QED
  BY <1>1, <1>2, <1>6, <1>7 DEF RemediationInv

LEMMA ValidateKeeps == RemediationInv /\ ValidateRecipes => RemediationInv'
<1> SUFFICES ASSUME RemediationInv, ValidateRecipes PROVE RemediationInv'
  OBVIOUS
<1>1. workflows' = workflows /\ plugins' = plugins /\ turnedOff' = turnedOff /\ published' = published
  BY DEF ValidateRecipes
<1>2. Switchable' = Switchable /\ Tasks' = Tasks
  BY <1>1, SwitchableStays, TasksStay
<1> DEFINE kept == {a \in DOMAIN syncing.recipes :
                      published[a].managed /\ Needs(syncing.recipes[a]) \subseteq ingredients}
<1>3. /\ syncing' = [at |-> "validated", recipes |-> [a \in kept |-> syncing.recipes[a]],
                     without |-> syncing.without]
  <2>1. syncing' = [syncing EXCEPT !.at = "validated", !.recipes = [a \in kept |-> syncing.recipes[a]]]
    BY DEF ValidateRecipes
  <2> HIDE DEF kept
  <2>2. syncing = [at |-> syncing.at, recipes |-> syncing.recipes, without |-> syncing.without]
    BY DEF RemediationInv
  <2> QED
    BY <2>1, <2>2
<1>4. kept \subseteq DOMAIN syncing.recipes
  OBVIOUS
<1> HIDE DEF kept
<1>5. Prepared([a \in kept |-> syncing.recipes[a]], syncing.without)
  BY <1>4 DEF RemediationInv, Prepared
<1>6. Prepared(syncing.recipes, syncing.without)'
  BY <1>2, <1>3, <1>5 DEF Prepared
<1> QED
  BY <1>1, <1>2, <1>3, <1>6 DEF RemediationInv

LEMMA PublishKeeps == RemediationInv /\ PublishRecipes => RemediationInv'
<1> SUFFICES ASSUME RemediationInv, PublishRecipes PROVE RemediationInv'
  OBVIOUS
<1>1. /\ workflows' = workflows /\ plugins' = plugins /\ turnedOff' = turnedOff
      /\ syncing' = NotSyncing
      /\ published' = [a \in RecipeAlerts |->
            IF Writes(a)
            THEN [published[a] EXCEPT !.steps = syncing.recipes[a], !.without = syncing.without]
            ELSE published[a]]
  BY DEF PublishRecipes
<1>2. Switchable' = Switchable /\ Tasks' = Tasks
  BY <1>1, SwitchableStays, TasksStay
<1>3. ASSUME NEW a \in RecipeAlerts
      PROVE  /\ published'[a] \in [steps : Seq(Tasks), managed : BOOLEAN, without : SUBSET Switchable]
             /\ published'[a].steps # << >> => SafeSteps(a, published'[a].steps, published'[a].without)
  <2>1. published[a] \in [steps : Seq(Tasks), managed : BOOLEAN, without : SUBSET Switchable]
    BY DEF RemediationInv
  <2>2. CASE Writes(a)
    <3>1. syncing.recipes[a] \in Seq(Tasks) /\ syncing.without \subseteq Switchable
          /\ SafeSteps(a, syncing.recipes[a], syncing.without)
      BY <2>2 DEF RemediationInv, Prepared, Writes
    <3>2. published'[a] = [published[a] EXCEPT !.steps = syncing.recipes[a], !.without = syncing.without]
      BY <1>1, <2>2
    <3> QED
      BY <2>1, <3>1, <3>2
  <2>3. CASE ~Writes(a)
    BY <1>1, <2>1, <2>3 DEF RemediationInv
  <2> QED
    BY <2>2, <2>3
<1>4. published' \in [RecipeAlerts -> [steps : Seq(Tasks), managed : BOOLEAN, without : SUBSET Switchable]]
  BY <1>1, <1>3
<1>5. Prepared(syncing.recipes, syncing.without)'
      /\ syncing' = [at |-> syncing'.at, recipes |-> syncing'.recipes, without |-> syncing'.without]
  <2>1. syncing' = [at |-> "idle", recipes |-> << >>, without |-> {}]
    BY <1>1 DEF NotSyncing
  <2>2. syncing'.recipes = << >> /\ syncing'.without = {}
        /\ syncing' = [at |-> syncing'.at, recipes |-> syncing'.recipes, without |-> syncing'.without]
    BY <2>1
  <2>3. Prepared(syncing.recipes, syncing.without)'
    BY <2>2 DEF Prepared
  <2> QED
    BY <2>2, <2>3
<1> QED
  BY <1>1, <1>2, <1>3, <1>4, <1>5 DEF RemediationInv

LEMMA RemediationStep == RemediationInv /\ [RemediationNext]_remediationVars => RemediationInv'
<1> SUFFICES ASSUME RemediationInv, [RemediationNext]_remediationVars PROVE RemediationInv'
  OBVIOUS
<1>1. CASE UNCHANGED remediationVars
  <2>1. workflows' = workflows /\ plugins' = plugins /\ turnedOff' = turnedOff /\ syncing' = syncing
        /\ published' = published
    BY <1>1 DEF remediationVars
  <2>2. Switchable' = Switchable /\ Tasks' = Tasks
    BY <2>1, SwitchableStays, TasksStay
  <2> QED
    BY <2>1, <2>2 DEF RemediationInv, Prepared
<1>2. CASE \E with \in Deployments : Redeploy(with)
  BY <1>2, OperatorsKeepRecipes
<1>3. CASE \E c \in Switchable : TurnOff(c) \/ TurnOn(c)
  BY <1>3, OperatorsKeepRecipes
<1>4. CASE StopPlugin("k8s") \/ ContentSyncFails
  BY <1>4, OperatorsKeepRecipes
<1>5. CASE \E a \in RecipeAlerts : TakeOver(a)
  BY <1>5, TakeOverKeeps
<1> QED
  BY <1>1, <1>2, <1>3, <1>4, <1>5, PrepareKeeps, ValidateKeeps, PublishKeeps DEF RemediationNext, Switchable

(* Every published recipe looks before it acts, right before the action    *)
(* too, acts as the policy of the alert says and tells the operators last, *)
(* whatever is enabled, turned off or disabled (remediation_step_specs,    *)
(* _best_capability, build_enabled_plugin_capability_catalog).             *)
THEOREM RecipesAreSafe == RemediationSpec => []RecipesSafe
<1>1. RemediationInv => RecipesSafe
  BY DEF RemediationInv, RecipesSafe, Published, StepsOf, StepsWith, SafeSteps, Guarded, OwnAction,
         NothingDestroyed, Firing
<1> QED
  BY <1>1, RemediationInitInv, RemediationStep, PTL DEF RemediationSpec

(* A recipe that an operator took over is not written by the content sync, *)
(* even one that ran at the time (upsert_recipes).                         *)
THEOREM TakenOverStays == RemediationSpec => TakenOverKept
<1>1. RemediationInv /\ [RemediationNext]_remediationVars => TakenOverIsLeft
  <2> SUFFICES ASSUME RemediationInv, [RemediationNext]_remediationVars,
                      NEW a \in RecipeAlerts, ~published[a].managed
               PROVE  published'[a].steps = published[a].steps
    BY DEF TakenOverIsLeft
  <2>1. CASE \E b \in RecipeAlerts : TakeOver(b)
    <3>1. PICK b \in RecipeAlerts : published' = [published EXCEPT ![b].managed = FALSE]
      BY <2>1 DEF TakeOver
    <3> QED
      BY <3>1 DEF RemediationInv
  <2>2. CASE PublishRecipes
    BY <2>2 DEF PublishRecipes, Writes
  <2>3. CASE published' = published
    BY <2>3
  <2>4. \/ published' = published \/ PublishRecipes \/ \E b \in RecipeAlerts : TakeOver(b)
    BY DEF RemediationNext, remediationVars, Redeploy, TurnOff, TurnOn, StopPlugin, PrepareRecipes,
           ValidateRecipes, ContentSyncFails
  <2> QED
    BY <2>1, <2>2, <2>3, <2>4
<1> QED
  BY <1>1, RemediationInitInv, RemediationStep, PTL DEF RemediationSpec, TakenOverKept

(* What the recipes need is there to be asked for, and only the sync moves *)
(* its own state.                                                          *)
RemediationTyped ==
  /\ ingredients \subseteq Providers /\ disabledPlugins \subseteq {"k8s"}
  /\ syncing.at \in {"idle", "prepared", "validated"}

LEMMA RemediationHasTypes == RemediationInv /\ RemediationTyped => RemediationTypeOK
<1> SUFFICES ASSUME RemediationInv, RemediationTyped PROVE RemediationTypeOK
  OBVIOUS
<1>1. DOMAIN syncing.recipes \subseteq RecipeAlerts
  BY DEF RemediationInv, Prepared
<1>2. DOMAIN published = RecipeAlerts
  BY DEF RemediationInv
<1>3. ASSUME NEW a \in RecipeAlerts
      PROVE  published[a].managed \in BOOLEAN /\ Needs(published[a].steps) \subseteq Providers
  <2>1. published[a].steps \in Seq(Tasks) /\ published[a].managed \in BOOLEAN
    BY DEF RemediationInv
  <2>2. \A i \in DOMAIN published[a].steps : published[a].steps[i] \in Tasks
    BY <2>1
  <2>3. \A t \in Tasks : t.service \in Providers
    BY DEF Tasks
  <2> QED
    BY <2>1, <2>2, <2>3 DEF Needs
<1> QED
  BY <1>1, <1>2, <1>3 DEF RemediationInv, RemediationTyped, RemediationTypeOK, Switchable

LEMMA RemediationTypedInit == RemediationInit => RemediationTyped
<1> SUFFICES ASSUME RemediationInit PROVE RemediationTyped
  OBVIOUS
<1>1. plugins \subseteq Providers
  BY RemediationAssumption DEF RemediationInit, Deployments
<1> QED
  BY <1>1 DEF RemediationInit, RemediationTyped, NotSyncing

LEMMA RemediationTypedStep ==
  RemediationInv /\ RemediationTyped /\ [RemediationNext]_remediationVars => RemediationTyped'
<1> SUFFICES ASSUME RemediationInv, RemediationTyped, [RemediationNext]_remediationVars
             PROVE  RemediationTyped'
  OBVIOUS
<1>1. ingredients' \subseteq Providers
  <2>1. CASE \E with \in Deployments : Redeploy(with)
    <3>1. PICK with \in Deployments : ingredients' = ingredients \cup with
      BY <2>1 DEF Redeploy
    <3>2. with \subseteq Providers
      BY RemediationAssumption DEF Deployments
    <3> QED
      BY <3>1, <3>2 DEF RemediationTyped
  <2>2. CASE UNCHANGED ingredients
    BY <2>2 DEF RemediationTyped
  <2>3. UNCHANGED ingredients \/ \E with \in Deployments : Redeploy(with)
    BY DEF RemediationNext, remediationVars, TurnOff, TurnOn, StopPlugin, TakeOver, PrepareRecipes,
           ValidateRecipes, PublishRecipes, ContentSyncFails
  <2> QED
    BY <2>1, <2>2, <2>3
<1>2. disabledPlugins' \subseteq {"k8s"}
  <2>1. UNCHANGED disabledPlugins \/ StopPlugin("k8s")
    BY DEF RemediationNext, remediationVars, Redeploy, TurnOff, TurnOn, TakeOver, PrepareRecipes,
           ValidateRecipes, PublishRecipes, ContentSyncFails
  <2> QED
    BY <2>1 DEF RemediationTyped, StopPlugin
<1>3. syncing'.at \in {"idle", "prepared", "validated"}
  <2>1. CASE UNCHANGED syncing
    BY <2>1 DEF RemediationTyped
  <2>2. CASE syncing' = NotSyncing
    BY <2>2 DEF NotSyncing
  <2>3. CASE PrepareRecipes
    BY <2>3 DEF PrepareRecipes
  <2>4. CASE ValidateRecipes
    <3>1. syncing = [at |-> syncing.at, recipes |-> syncing.recipes, without |-> syncing.without]
      BY DEF RemediationInv
    <3>2. \E recipes : syncing' = [syncing EXCEPT !.at = "validated", !.recipes = recipes]
      BY <2>4 DEF ValidateRecipes
    <3> QED
      BY <3>1, <3>2
  <2>5. \/ UNCHANGED syncing \/ syncing' = NotSyncing
        \/ PrepareRecipes \/ ValidateRecipes
    BY DEF RemediationNext, remediationVars, Redeploy, TurnOff, TurnOn, StopPlugin, TakeOver,
           PublishRecipes, ContentSyncFails
  <2> QED
    BY <2>1, <2>2, <2>3, <2>4, <2>5
<1> QED
  BY <1>1, <1>2, <1>3 DEF RemediationTyped

(* Both, with the types: what the content sync publishes and what it       *)
(* leaves alone.                                                           *)
THEOREM RemediationStaysRight == RemediationSpec => RemediationKept
<1>1. RemediationSpec => []RemediationTypeOK
  BY RemediationInitInv, RemediationStep, RemediationTypedInit, RemediationTypedStep,
     RemediationHasTypes, PTL DEF RemediationSpec
<1> QED
  BY <1>1, RecipesAreSafe, TakenOverStays, PTL DEF RemediationKept

-----------------------------------------------------------------------------
(* The files of rules.                                                     *)

(* What a list of rules, or a list of groups, says.                        *)
Says(rules, r, body) == \E j \in DOMAIN rules : rules[j].name = r /\ rules[j].body = body
Has(groups, g, r, body) ==
  \E i \in DOMAIN groups : groups[i].name = g /\ Says(groups[i].rules, r, body)
InOrder(groups, place) ==
  /\ NoneTwice(groups)
  /\ \A i \in DOMAIN groups :
       NoneTwice(groups[i].rules) /\ (place # SinglePlace => groups[i].rules # << >>)

(* Each place of the file is in order and has exactly what is expected.    *)
DocumentsInv ==
  /\ document \in [Places -> Seq(GroupEntries)]
  /\ expected \in [Slots -> Bodies \cup {Nothing}]
  /\ \A p \in Places : InOrder(document[p], p)
  /\ \A p \in Places, g \in RuleGroups, r \in RuleNames, body \in Bodies :
       Has(document[p], g, r, body) <=> expected[<< p, g, r >>] = body

LEMMA NatMin ==
  ASSUME NEW T \in SUBSET Nat, T # {}
  PROVE  Min(T) \in T
<1>1. T \in SUBSET Nat /\ T # {}
  OBVIOUS
<1>2. PICK x \in T : \A y \in T : ~(<< y, x >> \in OpToRel(<, Nat))
  BY <1>1, WFMin, NatLessThanWellFounded
<1>3. ASSUME NEW y \in T PROVE x <= y
  <2>1. x \in Nat /\ y \in Nat /\ << y, x >> \notin OpToRel(<, Nat)
    BY <1>1, <1>2, Zenon
  <2>2. ASSUME y < x PROVE << y, x >> \in OpToRel(<, Nat)
    <3> DEFINE pair == << y, x >>
    <3>1. pair \in Nat \X Nat /\ pair[1] = y /\ pair[2] = x
      BY <2>1
    <3> HIDE DEF pair
    <3>2. pair \in OpToRel(<, Nat)
      BY <2>2, <3>1 DEF OpToRel
    <3> QED
      BY <3>2 DEF pair
  <2>3. x \in Nat /\ y \in Nat /\ ~(y < x)
    BY <2>1, <2>2, Zenon
  <2> QED
    BY <2>3
<1> QED
  BY <1>3 DEF Min

(* The index that a name is found at. *)
LEMMA NamedIndex ==
  ASSUME NEW S, NEW seq \in Seq(S), NEW name
  PROVE  \/ Named(seq, name) = 0 /\ \A i \in DOMAIN seq : seq[i].name # name
         \/ Named(seq, name) \in DOMAIN seq /\ seq[Named(seq, name)].name = name /\ Named(seq, name) # 0
<1> DEFINE I == {i \in 1 .. Len(seq) : seq[i].name = name}
<1>1. Named(seq, name) = IF I # {} THEN Min(I) ELSE 0
  BY DEF Named, SelectInSeq
<1>2. DOMAIN seq = 1 .. Len(seq) /\ I \subseteq Nat
  OBVIOUS
<1>3. I # {} => Min(I) \in I
  BY <1>2, NatMin
<1> QED
  BY <1>1, <1>2, <1>3

LEMMA Removed ==
  ASSUME NEW S, NEW seq \in Seq(S), NEW i \in DOMAIN seq
  PROVE  /\ RemoveAt(seq, i) \in Seq(S) /\ Len(RemoveAt(seq, i)) = Len(seq) - 1
         /\ \A k \in DOMAIN RemoveAt(seq, i) : \E m \in DOMAIN seq : m # i /\ RemoveAt(seq, i)[k] = seq[m]
         /\ \A m \in DOMAIN seq : m # i => \E k \in DOMAIN RemoveAt(seq, i) : RemoveAt(seq, i)[k] = seq[m]
         /\ NoneTwice(seq) => NoneTwice(RemoveAt(seq, i))
<1> DEFINE u == SubSeq(seq, 1, i - 1)
           v == SubSeq(seq, i + 1, Len(seq))
           n == Len(seq)
           s == RemoveAt(seq, i)
<1>1. DOMAIN seq = 1 .. n /\ n \in Nat /\ i \in 1 .. n
  OBVIOUS
<1>2. /\ u \in Seq(S) /\ Len(u) = i - 1
      /\ \A k \in 1 .. i - 1 : u[k] = seq[k]
  <2>1. \A k \in 1 .. i - 1 : seq[k] \in S
    BY <1>1
  <2>2. /\ u \in Seq(S) /\ Len(u) = IF 1 <= i - 1 THEN (i - 1) - 1 + 1 ELSE 0
        /\ \A k \in 1 .. (i - 1) - 1 + 1 : u[k] = seq[1 + k - 1]
    BY <1>1, <2>1, SubSeqProperties
  <2> HIDE DEF u
  <2> QED
    BY <1>1, <2>2
<1>3. /\ v \in Seq(S) /\ Len(v) = n - i
      /\ \A k \in 1 .. n - i : v[k] = seq[i + k]
  <2>1. \A k \in i + 1 .. n : seq[k] \in S
    BY <1>1
  <2>2. /\ v \in Seq(S) /\ Len(v) = IF i + 1 <= n THEN n - (i + 1) + 1 ELSE 0
        /\ \A k \in 1 .. n - (i + 1) + 1 : v[k] = seq[(i + 1) + k - 1]
    BY <1>1, <2>1, SubSeqProperties
  <2> HIDE DEF v
  <2>3. n - (i + 1) + 1 = n - i /\ \A k \in 1 .. n - i : (i + 1) + k - 1 = i + k
    BY <1>1
  <2> QED
    BY <1>1, <2>2, <2>3
<1>4. s = u \o v
  BY DEF RemoveAt
<1> HIDE DEF u, v, n, s
<1>5. /\ s \in Seq(S) /\ Len(s) = (i - 1) + (n - i)
      /\ \A k \in 1 .. i - 1 : s[k] = u[k]
      /\ \A k \in 1 .. n - i : s[(i - 1) + k] = v[k]
  <2>1. u \in Seq(S) /\ v \in Seq(S)
    BY <1>2, <1>3
  <2>2. /\ u \o v \in Seq(S) /\ Len(u \o v) = Len(u) + Len(v)
        /\ \A k \in 1 .. Len(u) : (u \o v)[k] = u[k]
        /\ \A k \in 1 .. Len(v) : (u \o v)[Len(u) + k] = v[k]
    BY <2>1, Joined
  <2> QED
    BY <1>2, <1>3, <1>4, <2>2
<1>6. Len(s) = n - 1 /\ DOMAIN s = 1 .. n - 1
  BY <1>1, <1>5
<1>7. \A k \in 1 .. i - 1 : s[k] = seq[k]
  BY <1>2, <1>5
<1>8. \A k \in i .. n - 1 : s[k] = seq[k + 1]
  <2> SUFFICES ASSUME NEW k \in i .. n - 1 PROVE s[k] = seq[k + 1]
    OBVIOUS
  <2>1. k - i + 1 \in 1 .. n - i /\ (i - 1) + (k - i + 1) = k /\ i + (k - i + 1) = k + 1
    BY <1>1
  <2> QED
    BY <1>3, <1>5, <2>1
<1>9. ASSUME NEW k \in DOMAIN s PROVE \E m \in DOMAIN seq : m # i /\ s[k] = seq[m]
  <2>1. CASE k \in 1 .. i - 1
    <3>1. k \in DOMAIN seq /\ k # i
      BY <1>1, <2>1
    <3> QED
      BY <1>7, <2>1, <3>1
  <2>2. CASE k \in i .. n - 1
    <3>1. k + 1 \in DOMAIN seq /\ k + 1 # i
      BY <1>1, <2>2
    <3> QED
      BY <1>8, <2>2, <3>1
  <2>3. k \in 1 .. i - 1 \/ k \in i .. n - 1
    BY <1>1, <1>6
  <2> QED
    BY <2>1, <2>2, <2>3
<1>10. ASSUME NEW m \in DOMAIN seq, m # i PROVE \E k \in DOMAIN s : s[k] = seq[m]
  <2>1. CASE m < i
    <3>1. m \in 1 .. i - 1 /\ m \in DOMAIN s
      BY <1>1, <1>6, <2>1
    <3> QED
      BY <1>7, <3>1
  <2>2. CASE i < m
    <3>1. m - 1 \in i .. n - 1 /\ m - 1 \in DOMAIN s /\ (m - 1) + 1 = m
      BY <1>1, <1>6, <2>2
    <3> QED
      BY <1>8, <3>1
  <2> QED
    BY <1>1, <1>10, <2>1, <2>2
<1>11. ASSUME NoneTwice(seq) PROVE NoneTwice(s)
  <2> SUFFICES ASSUME NEW k \in DOMAIN s, NEW l \in DOMAIN s, s[k].name = s[l].name PROVE k = l
    BY DEF NoneTwice
  <2> DEFINE at(x) == IF x < i THEN x ELSE x + 1
  <2>1. \A x \in DOMAIN s : at(x) \in DOMAIN seq /\ s[x] = seq[at(x)]
    <3> SUFFICES ASSUME NEW x \in DOMAIN s PROVE at(x) \in DOMAIN seq /\ s[x] = seq[at(x)]
      OBVIOUS
    <3>1. CASE x < i
      <4>1. x \in 1 .. i - 1 /\ x \in DOMAIN seq
        BY <1>1, <1>6, <3>1
      <4> QED
        BY <1>7, <3>1, <4>1
    <3>2. CASE ~(x < i)
      <4>1. x \in i .. n - 1 /\ x + 1 \in DOMAIN seq
        BY <1>1, <1>6, <3>2
      <4> QED
        BY <1>8, <3>2, <4>1
    <3> QED
      BY <3>1, <3>2
  <2>2. at(k) = at(l)
    <3> HIDE DEF at
    <3> QED
      BY <1>11, <2>1 DEF NoneTwice
  <2> QED
    BY <1>1, <1>6, <2>2
<1> QED
  BY <1>5, <1>6, <1>9, <1>10, <1>11 DEF s, n

(* A rule is put: the rules say it, and what they said of the others. *)
LEMMA RulePut ==
  ASSUME NEW rules \in Seq(RuleEntries), NoneTwice(rules), NEW r \in RuleNames, NEW body \in Bodies
  PROVE  LET put == PutRule(rules, r, body)
         IN /\ put \in Seq(RuleEntries) /\ put # << >> /\ NoneTwice(put)
            /\ \A q, b : Says(put, q, b) <=> IF q = r THEN b = body ELSE Says(rules, q, b)
<1> DEFINE rule == [name |-> r, body |-> body]
           i == Named(rules, r)
           put == PutRule(rules, r, body)
<1> SUFFICES /\ put \in Seq(RuleEntries) /\ put # << >> /\ NoneTwice(put)
             /\ \A q, b : Says(put, q, b) <=> IF q = r THEN b = body ELSE Says(rules, q, b)
  OBVIOUS
<1>1. rule \in RuleEntries /\ rule.name = r /\ rule.body = body
  BY DEF RuleEntries
<1>2. DOMAIN rules = 1 .. Len(rules) /\ Len(rules) \in Nat
  OBVIOUS
<1>3. CASE i = 0 /\ \A k \in DOMAIN rules : rules[k].name # r
  <2>1. put = rules \o << rule >>
    <3>1. put = Append(rules, rule)
      BY <1>3 DEF PutRule
    <3> QED
      BY <3>1, <1>1, AppendIsConcat
  <2>2. /\ put \in Seq(RuleEntries) /\ Len(put) = Len(rules) + 1 /\ put[Len(rules) + 1] = rule
        /\ \A k \in 1 .. Len(rules) : put[k] = rules[k]
    BY <1>1, <2>1, JoinedOne
  <2> HIDE DEF put, rule
  <2>3. DOMAIN put = 1 .. Len(rules) + 1 /\ put # << >>
    BY <2>2, <1>2
  <2>4. NoneTwice(put)
    BY <1>1, <1>2, <1>3, <2>2, <2>3 DEF NoneTwice
  <2>5. ASSUME NEW q, NEW b PROVE Says(put, q, b) <=> IF q = r THEN b = body ELSE Says(rules, q, b)
    <3>1. Says(put, q, b) <=> (q = r /\ b = body) \/ Says(rules, q, b)
      BY <1>1, <1>2, <2>2, <2>3 DEF Says
    <3>2. ~Says(rules, r, b)
      BY <1>3 DEF Says
    <3> QED
      BY <3>1, <3>2
  <2> QED
    BY <2>2, <2>3, <2>4, <2>5
<1>4. CASE i \in DOMAIN rules /\ rules[i].name = r /\ i # 0
  <2>1. put = [rules EXCEPT ![i] = rule]
    BY <1>4 DEF PutRule
  <2> HIDE DEF i
  <2>2. /\ put \in Seq(RuleEntries) /\ DOMAIN put = DOMAIN rules /\ put[i] = rule
        /\ \A k \in DOMAIN rules : k # i => put[k] = rules[k]
    BY <1>1, <1>4, <2>1
  <2> HIDE DEF put, rule
  <2>3. put # << >>
    BY <1>4, <2>2
  <2>4. NoneTwice(put)
    BY <1>1, <1>4, <2>2 DEF NoneTwice
  <2>5. ASSUME NEW q, NEW b PROVE Says(put, q, b) <=> IF q = r THEN b = body ELSE Says(rules, q, b)
    <3>1. CASE q = r
      <4>1. \A k \in DOMAIN put : put[k].name = r => k = i
        BY <1>1, <1>4, <2>2, <2>4 DEF NoneTwice
      <4> QED
        BY <1>1, <1>4, <2>2, <3>1, <4>1 DEF Says
    <3>2. CASE q # r
      BY <1>1, <1>4, <2>2, <3>2 DEF Says
    <3> QED
      BY <3>1, <3>2
  <2> QED
    BY <2>2, <2>3, <2>4, <2>5
<1> QED
  BY <1>3, <1>4, NamedIndex

(* ... and in its group. *)
LEMMA GroupPut ==
  ASSUME NEW place, NEW groups \in Seq(GroupEntries), InOrder(groups, place),
         NEW g \in RuleGroups, NEW r \in RuleNames, NEW body \in Bodies
  PROVE  LET put == PutInGroup(groups, g, r, body)
         IN /\ put \in Seq(GroupEntries) /\ InOrder(put, place)
            /\ \A h, q, b : Has(put, h, q, b) <=> IF h = g /\ q = r THEN b = body ELSE Has(groups, h, q, b)
<1> DEFINE i == Named(groups, g)
           put == PutInGroup(groups, g, r, body)
<1> SUFFICES /\ put \in Seq(GroupEntries) /\ InOrder(put, place)
             /\ \A h, q, b :
                  Has(put, h, q, b) <=> IF h = g /\ q = r THEN b = body ELSE Has(groups, h, q, b)
  OBVIOUS
<1>1. DOMAIN groups = 1 .. Len(groups) /\ Len(groups) \in Nat
  OBVIOUS
<1>2. \A k \in DOMAIN groups :
        groups[k].rules \in Seq(RuleEntries) /\ NoneTwice(groups[k].rules) /\ groups[k].name \in RuleGroups
  <2> SUFFICES ASSUME NEW k \in DOMAIN groups
               PROVE  /\ groups[k].rules \in Seq(RuleEntries) /\ NoneTwice(groups[k].rules)
                      /\ groups[k].name \in RuleGroups
    OBVIOUS
  <2>1. groups[k] \in GroupEntries
    BY ElementOfSeq, <1>1
  <2>2. NoneTwice(groups[k].rules)
    BY DEF InOrder
  <2> QED
    BY <2>1, <2>2 DEF GroupEntries
<1>3. CASE i = 0 /\ \A k \in DOMAIN groups : groups[k].name # g
  <2> DEFINE rules == PutRule(<< >>, r, body)
             group == Group(g, rules)
  <2>1. /\ rules \in Seq(RuleEntries) /\ rules # << >> /\ NoneTwice(rules)
        /\ \A q, b : Says(rules, q, b) <=> q = r /\ b = body
    <3>1. << >> \in Seq(RuleEntries) /\ NoneTwice(<< >>) /\ \A q, b : ~Says(<< >>, q, b)
      BY DEF NoneTwice, Says
    <3>2. /\ rules \in Seq(RuleEntries) /\ rules # << >> /\ NoneTwice(rules)
          /\ \A q, b : Says(rules, q, b) <=> IF q = r THEN b = body ELSE Says(<< >>, q, b)
      BY <3>1, RulePut
    <3> HIDE DEF rules
    <3> QED
      BY <3>1, <3>2
  <2> HIDE DEF rules
  <2>2. group \in GroupEntries /\ group.name = g /\ group.rules = rules
    BY <2>1 DEF Group, GroupEntries
  <2>3. put = groups \o << group >>
    <3>1. put = Append(groups, group)
      BY <1>3 DEF PutInGroup, rules
    <3> QED
      BY <3>1, <2>2, AppendIsConcat
  <2>4. /\ put \in Seq(GroupEntries) /\ Len(put) = Len(groups) + 1 /\ put[Len(groups) + 1] = group
        /\ \A k \in 1 .. Len(groups) : put[k] = groups[k]
    BY <2>2, <2>3, JoinedOne
  <2> HIDE DEF put, group
  <2>5. DOMAIN put = 1 .. Len(groups) + 1
    BY <2>4, <1>1
  <2>6. NoneTwice(put)
    BY <1>1, <1>3, <2>2, <2>4, <2>5 DEF NoneTwice, InOrder
  <2>7. InOrder(put, place)
    BY <1>1, <2>1, <2>2, <2>4, <2>5, <2>6 DEF InOrder
  <2>8. ASSUME NEW h, NEW q, NEW b
        PROVE  Has(put, h, q, b) <=> IF h = g /\ q = r THEN b = body ELSE Has(groups, h, q, b)
    <3>1. Has(put, h, q, b) <=> (h = g /\ Says(rules, q, b)) \/ Has(groups, h, q, b)
      BY <1>1, <2>2, <2>4, <2>5 DEF Has
    <3>2. ~Has(groups, g, q, b)
      BY <1>3 DEF Has
    <3> QED
      BY <2>1, <3>1, <3>2
  <2> QED
    BY <2>4, <2>7, <2>8
<1>4. CASE i \in DOMAIN groups /\ groups[i].name = g /\ i # 0
  <2> DEFINE rules == PutRule(groups[i].rules, r, body)
  <2>1. put = [groups EXCEPT ![i].rules = rules]
    BY <1>4 DEF PutInGroup
  <2>2. /\ rules \in Seq(RuleEntries) /\ rules # << >> /\ NoneTwice(rules)
        /\ \A q, b : Says(rules, q, b) <=> IF q = r THEN b = body ELSE Says(groups[i].rules, q, b)
    BY <1>2, <1>4, RulePut
  <2> HIDE DEF rules, i
  <2>3. /\ DOMAIN put = DOMAIN groups
        /\ put[i].name = g /\ put[i].rules = rules /\ put[i] \in GroupEntries
        /\ \A k \in DOMAIN groups : k # i => put[k] = groups[k]
    <3>1. put[i] = [groups[i] EXCEPT !.rules = rules] /\ groups[i] \in GroupEntries
      BY <1>4, <2>1
    <3> QED
      BY <1>4, <2>1, <2>2, <3>1 DEF GroupEntries
  <2>4. put \in Seq(GroupEntries)
    <3>1. \A k \in DOMAIN groups : put[k] \in GroupEntries
      BY <1>1, <2>3
    <3>2. put \in [1 .. Len(groups) -> GroupEntries]
      BY <1>1, <2>1, <2>3, <3>1
    <3> QED
      BY <1>1, <3>2, SeqDef
  <2> HIDE DEF put
  <2>5. NoneTwice(put)
    BY <1>4, <2>3 DEF NoneTwice, InOrder
  <2>6. InOrder(put, place)
    BY <2>2, <2>3, <2>5 DEF InOrder
  <2>7. ASSUME NEW h, NEW q, NEW b
        PROVE  Has(put, h, q, b) <=> IF h = g /\ q = r THEN b = body ELSE Has(groups, h, q, b)
    <3>1. CASE h # g
      BY <1>4, <2>3, <3>1 DEF Has
    <3>2. CASE h = g
      <4>1. \A k \in DOMAIN groups : groups[k].name = g => k = i
        BY <1>4 DEF NoneTwice, InOrder
      <4>2. \A k \in DOMAIN put : put[k].name = g => k = i
        BY <2>3, <4>1
      <4>3. Has(put, g, q, b) <=> Says(rules, q, b)
        BY <1>4, <2>3, <4>2 DEF Has
      <4>4. Has(groups, g, q, b) <=> Says(groups[i].rules, q, b)
        BY <1>4, <4>1 DEF Has
      <4> QED
        BY <2>2, <3>2, <4>3, <4>4
    <3> QED
      BY <3>1, <3>2
  <2> QED
    BY <2>4, <2>6, <2>7
<1> QED
  BY <1>3, <1>4, NamedIndex

(* A rule is dropped, and its group with the last one. *)
LEMMA RuleDropped ==
  ASSUME NEW place, NEW groups \in Seq(GroupEntries), InOrder(groups, place),
         NEW i \in DOMAIN groups, NEW j \in DOMAIN groups[i].rules
  PROVE  /\ DropRule(groups, i, j, place) \in Seq(GroupEntries)
         /\ InOrder(DropRule(groups, i, j, place), place)
         /\ \A h, q, b :
              Has(DropRule(groups, i, j, place), h, q, b)
                <=> ~(h = groups[i].name /\ q = groups[i].rules[j].name) /\ Has(groups, h, q, b)
<1> DEFINE rules == groups[i].rules
           rest == RemoveAt(rules, j)
           g == groups[i].name
           r == rules[j].name
<1> SUFFICES ASSUME NEW left, left = DropRule(groups, i, j, place)
             PROVE  /\ left \in Seq(GroupEntries) /\ InOrder(left, place)
                    /\ \A h, q, b : Has(left, h, q, b) <=> ~(h = g /\ q = r) /\ Has(groups, h, q, b)
  OBVIOUS
<1>1. DOMAIN groups = 1 .. Len(groups) /\ Len(groups) \in Nat
  OBVIOUS
<1>2. rules \in Seq(RuleEntries) /\ NoneTwice(rules) /\ groups[i] \in GroupEntries
  <2>1. groups[i] \in GroupEntries
    BY <1>1
  <2>2. rules \in Seq(RuleEntries)
    BY <2>1 DEF GroupEntries
  <2>3. NoneTwice(rules)
    BY DEF InOrder
  <2> QED
    BY <2>1, <2>2, <2>3
<1>3. \A k \in DOMAIN groups : groups[k].name = g => k = i
  BY DEF InOrder, NoneTwice
<1>4. /\ rest \in Seq(RuleEntries) /\ NoneTwice(rest)
      /\ \A k \in DOMAIN rest : \E m \in DOMAIN rules : m # j /\ rest[k] = rules[m]
      /\ \A m \in DOMAIN rules : m # j => \E k \in DOMAIN rest : rest[k] = rules[m]
  BY <1>2, Removed
<1>5. \A m \in DOMAIN rules : rules[m].name = r <=> m = j
  BY <1>2 DEF NoneTwice
<1> groups[i].name = g /\ rules[j].name = r
  OBVIOUS
<1> HIDE DEF rest, g, r
<1>6. \A q, b : Says(rest, q, b) <=> q # r /\ Says(rules, q, b)
  BY <1>4, <1>5 DEF Says
<1>7. \A q, b : Has(groups, g, q, b) <=> Says(rules, q, b)
  BY <1>3 DEF Has
<1>8. CASE rest = << >> /\ place # SinglePlace
  <2>1. left = RemoveAt(groups, i)
    BY <1>8 DEF DropRule, rest
  <2>2. /\ left \in Seq(GroupEntries) /\ NoneTwice(left)
        /\ \A k \in DOMAIN left : \E m \in DOMAIN groups : m # i /\ left[k] = groups[m]
        /\ \A m \in DOMAIN groups : m # i => \E k \in DOMAIN left : left[k] = groups[m]
    BY <2>1, Removed DEF InOrder
  <2> HIDE DEF rules
  <2>3. InOrder(left, place)
    BY <2>2 DEF InOrder
  <2>4. ASSUME NEW h, NEW q, NEW b
        PROVE  Has(left, h, q, b) <=> ~(h = g /\ q = r) /\ Has(groups, h, q, b)
    <3>1. CASE h # g
      <4>1. ASSUME Has(left, h, q, b) PROVE Has(groups, h, q, b)
        BY <2>2, <4>1 DEF Has
      <4>2. ASSUME Has(groups, h, q, b) PROVE Has(left, h, q, b)
        <5>1. PICK m \in DOMAIN groups : groups[m].name = h /\ Says(groups[m].rules, q, b)
          BY <4>2 DEF Has
        <5>2. PICK k \in DOMAIN left : left[k] = groups[m]
          BY <2>2, <3>1, <5>1
        <5> QED
          BY <5>1, <5>2 DEF Has
      <4> QED
        BY <3>1, <4>1, <4>2
    <3>2. CASE h = g
      <4>1. ~Has(left, g, q, b)
        BY <1>3, <2>2 DEF Has
      <4>2. ~Says(rest, q, b)
        BY <1>8 DEF Says
      <4> QED
        BY <1>6, <1>7, <3>2, <4>1, <4>2
    <3> QED
      BY <3>1, <3>2
  <2> QED
    BY <2>2, <2>3, <2>4
<1>9. CASE ~(rest = << >> /\ place # SinglePlace)
  <2>1. left = [groups EXCEPT ![i].rules = rest]
    BY <1>9 DEF DropRule, rest
  <2>2. /\ DOMAIN left = DOMAIN groups
        /\ left[i].name = g /\ left[i].rules = rest /\ left[i] \in GroupEntries
        /\ \A k \in DOMAIN groups : k # i => left[k] = groups[k]
    <3>1. left[i] = [groups[i] EXCEPT !.rules = rest]
      BY <2>1
    <3> QED
      BY <1>2, <1>4, <2>1, <3>1 DEF GroupEntries
  <2>3. left \in Seq(GroupEntries)
    <3>1. \A k \in DOMAIN groups : left[k] \in GroupEntries
      BY <1>1, <2>2
    <3>2. left \in [1 .. Len(groups) -> GroupEntries]
      BY <1>1, <2>1, <2>2, <3>1
    <3> QED
      BY <1>1, <3>2, SeqDef
  <2> HIDE DEF rules
  <2>4. NoneTwice(left)
    BY <2>2 DEF NoneTwice, InOrder
  <2>5. InOrder(left, place)
    <3> SUFFICES ASSUME NEW k \in DOMAIN groups
                 PROVE  NoneTwice(left[k].rules) /\ (place # SinglePlace => left[k].rules # << >>)
      BY <2>2, <2>4 DEF InOrder
    <3>1. CASE k = i
      BY <1>4, <1>9, <2>2, <3>1
    <3>2. CASE k # i
      BY <2>2, <3>2 DEF InOrder
    <3> QED
      BY <3>1, <3>2
  <2>6. ASSUME NEW h, NEW q, NEW b
        PROVE  Has(left, h, q, b) <=> ~(h = g /\ q = r) /\ Has(groups, h, q, b)
    <3>1. CASE h # g
      BY <2>2, <3>1 DEF Has
    <3>2. CASE h = g
      <4>1. \A k \in DOMAIN left : left[k].name = g => k = i
        BY <1>3, <2>2
      <4>2. Has(left, g, q, b) <=> Says(rest, q, b)
        BY <2>2, <4>1 DEF Has
      <4> QED
        BY <1>6, <1>7, <3>2, <4>2
    <3> QED
      BY <3>1, <3>2
  <2> QED
    BY <2>3, <2>5, <2>6
<1> QED
  BY <1>8, <1>9

(* An empty list of groups is in order and has nothing. *)
LEMMA EmptyPlace ==
  ASSUME NEW p \in Places
  PROVE  /\ Empty[p] = << >> /\ << >> \in Seq(GroupEntries) /\ InOrder(<< >>, p)
         /\ \A h, q, b : ~Has(<< >>, h, q, b)
BY DEF Empty, InOrder, NoneTwice, Has

LEMMA DocumentsInitInv == DocumentsInit => DocumentsInv
<1> SUFFICES ASSUME DocumentsInit PROVE DocumentsInv
  OBVIOUS
<1>1. document \in [Places -> Seq(GroupEntries)] /\ \A p \in Places : document[p] = << >>
  BY EmptyPlace DEF DocumentsInit, Empty
<1>2. \A p \in Places : InOrder(document[p], p) /\ \A h, q, b : ~Has(document[p], h, q, b)
  BY <1>1, EmptyPlace
<1>3. expected \in [Slots -> Bodies \cup {Nothing}] /\ \A s \in Slots : expected[s] = Nothing
  BY DEF DocumentsInit
<1>4. \A p \in Places, g \in RuleGroups, r \in RuleNames : << p, g, r >> \in Slots
  BY DEF Slots
<1> QED
  BY <1>1, <1>2, <1>3, <1>4, DocumentsAssumption DEF DocumentsInv

LEMMA UpsertKeeps ==
  ASSUME DocumentsInv, NEW place \in Places, NEW g \in RuleGroups, NEW r \in RuleNames,
         NEW body \in Bodies, UpsertRule(place, g, r, body)
  PROVE  DocumentsInv'
<1> DEFINE kept == IF SameShape(place) THEN document ELSE Empty
           left(s) == IF SameShape(place) THEN expected[s] ELSE Nothing
           put == PutInGroup(kept[place], g, r, body)
<1>1. /\ document' = [kept EXCEPT ![place] = put]
      /\ expected' = [s \in Slots |-> IF s = << place, g, r >> THEN body ELSE left(s)]
  BY DEF UpsertRule
<1>2. /\ kept \in [Places -> Seq(GroupEntries)]
      /\ \A p \in Places : InOrder(kept[p], p)
      /\ \A p \in Places, h \in RuleGroups, q \in RuleNames, b \in Bodies :
           Has(kept[p], h, q, b) <=> left(<< p, h, q >>) = b
      /\ \A s \in Slots : left(s) \in Bodies \cup {Nothing}
  <2>1. CASE SameShape(place)
    BY <2>1 DEF DocumentsInv
  <2>2. CASE ~SameShape(place)
    <3>1. kept = Empty /\ \A s : left(s) = Nothing
      BY <2>2
    <3>2. Empty \in [Places -> Seq(GroupEntries)]
      BY EmptyPlace DEF Empty
    <3>3. \A p \in Places : InOrder(Empty[p], p) /\ \A h, q, b : ~Has(Empty[p], h, q, b)
      BY EmptyPlace
    <3> HIDE DEF kept, left
    <3> QED
      BY <3>1, <3>2, <3>3, DocumentsAssumption
  <2> QED
    BY <2>1, <2>2
<1> HIDE DEF kept, left
<1>3. /\ put \in Seq(GroupEntries) /\ InOrder(put, place)
      /\ \A h, q, b :
           Has(put, h, q, b) <=> IF h = g /\ q = r THEN b = body ELSE Has(kept[place], h, q, b)
  <2>1. kept[place] \in Seq(GroupEntries) /\ InOrder(kept[place], place)
    BY <1>2
  <2> QED
    BY <2>1, GroupPut
<1> HIDE DEF put
<1>4. /\ document' \in [Places -> Seq(GroupEntries)] /\ document'[place] = put
      /\ \A p \in Places : p # place => document'[p] = kept[p]
  BY <1>1, <1>2, <1>3
<1>5. expected' \in [Slots -> Bodies \cup {Nothing}]
  BY <1>1, <1>2
<1>6. \A p \in Places : InOrder(document'[p], p)
  BY <1>2, <1>3, <1>4
<1>7. ASSUME NEW p \in Places, NEW h \in RuleGroups, NEW q \in RuleNames, NEW b \in Bodies
      PROVE  Has(document'[p], h, q, b) <=> expected'[<< p, h, q >>] = b
  <2>1. << p, h, q >> \in Slots /\ (<< p, h, q >> = << place, g, r >> <=> p = place /\ h = g /\ q = r)
    BY DEF Slots
  <2>2. expected'[<< p, h, q >>] = IF p = place /\ h = g /\ q = r THEN body ELSE left(<< p, h, q >>)
    BY <1>1, <2>1
  <2>3. CASE p = place
    BY <1>2, <1>3, <1>4, <2>2, <2>3
  <2>4. CASE p # place
    BY <1>2, <1>4, <2>2, <2>4
  <2> QED
    BY <2>3, <2>4
<1> QED
  BY <1>4, <1>5, <1>6, <1>7 DEF DocumentsInv, InOrder, NoneTwice, Has, Says

LEMMA DeleteKeeps ==
  ASSUME DocumentsInv, NEW place \in Places, NEW g \in RuleGroups, NEW r \in RuleNames,
         DeleteRule(place, g, r)
  PROVE  DocumentsInv'
<1> DEFINE groups == document[place]
           i == Named(groups, g)
           j == Named(groups[i].rules, r)
           left == DropRule(groups, i, j, place)
<1>1. /\ i # 0 /\ j # 0
      /\ document' = [document EXCEPT ![place] = left]
      /\ expected' = [expected EXCEPT ![<< place, g, r >>] = Nothing]
  BY DEF DeleteRule
<1>2. groups \in Seq(GroupEntries) /\ InOrder(groups, place)
  BY DEF DocumentsInv
<1>3. i \in DOMAIN groups /\ groups[i].name = g
  BY <1>1, <1>2, NamedIndex
<1>4. j \in DOMAIN groups[i].rules /\ groups[i].rules[j].name = r
  <2>1. groups[i] \in GroupEntries
    BY <1>2, <1>3
  <2>2. groups[i].rules \in Seq(RuleEntries)
    BY <2>1 DEF GroupEntries
  <2> QED
    BY <1>1, <2>2, NamedIndex
<1> HIDE DEF groups, i, j
<1> left = DropRule(groups, i, j, place)
  OBVIOUS
<1> HIDE DEF left
<1>5. /\ left \in Seq(GroupEntries) /\ InOrder(left, place)
      /\ \A h, q, b : Has(left, h, q, b) <=> ~(h = g /\ q = r) /\ Has(groups, h, q, b)
  BY <1>2, <1>3, <1>4, RuleDropped
<1>6. /\ document' \in [Places -> Seq(GroupEntries)] /\ document'[place] = left
      /\ \A p \in Places : p # place => document'[p] = document[p]
  BY <1>1, <1>5 DEF DocumentsInv
<1>7. << place, g, r >> \in Slots /\ expected' \in [Slots -> Bodies \cup {Nothing}]
  <2>1. << place, g, r >> \in Slots
    BY DEF Slots
  <2> QED
    BY <1>1, <2>1 DEF DocumentsInv
<1>8. \A p \in Places : InOrder(document'[p], p)
  BY <1>5, <1>6 DEF DocumentsInv
<1>9. ASSUME NEW p \in Places, NEW h \in RuleGroups, NEW q \in RuleNames, NEW b \in Bodies
      PROVE  Has(document'[p], h, q, b) <=> expected'[<< p, h, q >>] = b
  <2>1. << p, h, q >> \in Slots /\ (<< p, h, q >> = << place, g, r >> <=> p = place /\ h = g /\ q = r)
    BY DEF Slots
  <2>2. expected'[<< p, h, q >>]
          = IF p = place /\ h = g /\ q = r THEN Nothing ELSE expected[<< p, h, q >>]
    BY <1>1, <1>7, <2>1 DEF DocumentsInv
  <2>3. Has(document[p], h, q, b) <=> expected[<< p, h, q >>] = b
    BY DEF DocumentsInv
  <2>4. CASE p = place
    BY <1>5, <1>6, <2>2, <2>3, <2>4, DocumentsAssumption DEF groups
  <2>5. CASE p # place
    BY <1>6, <2>2, <2>3, <2>5
  <2> QED
    BY <2>4, <2>5
<1> QED
  BY <1>6, <1>7, <1>8, <1>9 DEF DocumentsInv, InOrder, NoneTwice, Has, Says

(* What a function of finitely many indices takes on is finite. *)
LEMMA FiniteImage ==
  ASSUME NEW n \in Nat, NEW f, DOMAIN f = 1 .. n, f = [i \in DOMAIN f |-> f[i]]
  PROVE  IsFiniteSet({f[i] : i \in 1 .. n})
<1> DEFINE R == {f[i] : i \in 1 .. n}
<1>1. f \in [1 .. n -> R] /\ \A t \in R : \E i \in 1 .. n : f[i] = t
  OBVIOUS
<1> HIDE DEF R
<1>2. f \in Surjection(1 .. n, R)
  BY <1>1 DEF Surjection
<1>3. IsFiniteSet(1 .. n)
  BY FS_Interval
<1>4. IsFiniteSet(R)
  BY <1>2, <1>3, FS_Surjection
<1> QED
  BY <1>4 DEF R

(* SetToSeqs lists every element once. *)
LEMMA ListedOnce ==
  ASSUME NEW S, IsFiniteSet(S), NEW f \in SetToSeqs(S)
  PROVE  /\ f \in Seq(S)
         /\ \A x \in S : \E i \in DOMAIN f : f[i] = x
         /\ \A i, k \in DOMAIN f : f[i] = f[k] => i = k
<1> DEFINE n == Cardinality(S)
<1>1. n \in Nat
  BY FS_CardinalityType
<1>2. f \in [1 .. n -> S] /\ \A i, k \in 1 .. n : f[i] = f[k] => i = k
  BY DEF SetToSeqs
<1>3. f \in Injection(1 .. n, S)
  BY <1>2 DEF Injection, IsInjective
<1>4. Cardinality(1 .. n) = n
  <2> HIDE DEF n
  <2>1. Cardinality(1 .. n) = IF 1 > n THEN 0 ELSE n - 1 + 1
    BY <1>1, FS_Interval
  <2> QED
    BY <1>1, <2>1
<1>5. f \in Surjection(1 .. n, S)
  BY <1>3, <1>4, FS_Injection
<1> HIDE DEF n
<1>6. \A x \in S : \E i \in 1 .. n : f[i] = x
  BY <1>5 DEF Surjection
<1>7. f \in Seq(S)
  BY <1>1, <1>2, SeqDef
<1> QED
  BY <1>2, <1>6, <1>7

(* The records of a place are what its groups have. *)
LEMMA RecordsHas ==
  ASSUME NEW p \in Places, NEW doc, doc[p] \in Seq(GroupEntries)
  PROVE  /\ \A x \in RecordsIn(doc, p) :
              /\ Has(doc[p], x.group, x.name, x.body)
              /\ x.group \in RuleGroups /\ x.name \in RuleNames /\ x.body \in Bodies
              /\ x = [place |-> p, group |-> x.group, name |-> x.name, body |-> x.body]
         /\ \A h, q, b : Has(doc[p], h, q, b) =>
              [place |-> p, group |-> h, name |-> q, body |-> b] \in RecordsIn(doc, p)
<1>1. \A i \in DOMAIN doc[p] :
        doc[p][i].name \in RuleGroups /\ doc[p][i].rules \in Seq(RuleEntries)
  <2>1. \A i \in DOMAIN doc[p] : doc[p][i] \in GroupEntries
    OBVIOUS
  <2> QED
    BY <2>1 DEF GroupEntries
<1>2. \A i \in DOMAIN doc[p] : \A j \in DOMAIN doc[p][i].rules :
        doc[p][i].rules[j].name \in RuleNames /\ doc[p][i].rules[j].body \in Bodies
  <2>1. \A i \in DOMAIN doc[p] : \A j \in DOMAIN doc[p][i].rules : doc[p][i].rules[j] \in RuleEntries
    BY <1>1
  <2> QED
    BY <2>1 DEF RuleEntries
<1>3. ASSUME NEW x \in RecordsIn(doc, p)
      PROVE  /\ Has(doc[p], x.group, x.name, x.body)
             /\ x.group \in RuleGroups /\ x.name \in RuleNames /\ x.body \in Bodies
             /\ x = [place |-> p, group |-> x.group, name |-> x.name, body |-> x.body]
  <2>1. PICK i \in DOMAIN doc[p] : \E rule \in ToSet(doc[p][i].rules) :
          x = [place |-> p, group |-> doc[p][i].name, name |-> rule.name, body |-> rule.body]
    BY DEF RecordsIn
  <2>2. PICK j \in DOMAIN doc[p][i].rules :
          x = [place |-> p, group |-> doc[p][i].name,
               name |-> doc[p][i].rules[j].name, body |-> doc[p][i].rules[j].body]
    BY <2>1 DEF ToSet
  <2>3. /\ x.group = doc[p][i].name /\ x.name = doc[p][i].rules[j].name
        /\ x.body = doc[p][i].rules[j].body
    BY <2>2
  <2> QED
    BY <1>1, <1>2, <2>2, <2>3 DEF Has, Says
<1>4. ASSUME NEW h, NEW q, NEW b, Has(doc[p], h, q, b)
      PROVE  [place |-> p, group |-> h, name |-> q, body |-> b] \in RecordsIn(doc, p)
  <2>1. PICK i \in DOMAIN doc[p] : doc[p][i].name = h /\ Says(doc[p][i].rules, q, b)
    BY <1>4 DEF Has
  <2>2. PICK j \in DOMAIN doc[p][i].rules :
          doc[p][i].rules[j].name = q /\ doc[p][i].rules[j].body = b
    BY <2>1 DEF Says
  <2>3. doc[p][i].rules[j] \in ToSet(doc[p][i].rules)
    BY <2>2 DEF ToSet
  <2> QED
    BY <2>1, <2>2, <2>3 DEF RecordsIn
<1> QED
  BY <1>3, <1>4

(* The rules that an export lists for a group are those that it has. *)
LEMMA ListedIs ==
  ASSUME DocumentsInv, NEW p \in Places, NEW g
  PROVE  /\ \A y \in Listed(p, g) : y \in RuleEntries /\ Has(document[p], g, y.name, y.body)
         /\ \A q, b : Has(document[p], g, q, b) => [name |-> q, body |-> b] \in Listed(p, g)
<1>1. document[p] \in Seq(GroupEntries)
  BY DEF DocumentsInv
<1>2. /\ \A x \in RecordsIn(document, p) :
           /\ Has(document[p], x.group, x.name, x.body)
           /\ x.name \in RuleNames /\ x.body \in Bodies
      /\ \A h, q, b : Has(document[p], h, q, b) =>
           [place |-> p, group |-> h, name |-> q, body |-> b] \in RecordsIn(document, p)
  BY <1>1, RecordsHas
<1>3. ASSUME NEW y \in Listed(p, g) PROVE y \in RuleEntries /\ Has(document[p], g, y.name, y.body)
  <2>1. PICK x \in RecordsIn(document, p) : x.group = g /\ y = [name |-> x.name, body |-> x.body]
    BY DEF Listed
  <2> QED
    BY <1>2, <2>1 DEF RuleEntries
<1>4. ASSUME NEW q, NEW b, Has(document[p], g, q, b) PROVE [name |-> q, body |-> b] \in Listed(p, g)
  <2> DEFINE x == [place |-> p, group |-> g, name |-> q, body |-> b]
  <2>1. x \in RecordsIn(document, p) /\ x.group = g /\ x.name = q /\ x.body = b
    BY <1>2, <1>4
  <2> HIDE DEF x
  <2> QED
    BY <2>1 DEF Listed
<1> QED
  BY <1>3, <1>4

(* A group is written with its rules, each once. *)
LEMMA GroupRendered ==
  ASSUME DocumentsInv, NEW p \in Places, NEW x \in RecordsIn(document, p),
         NEW rules \in SetToSeqs(Listed(p, x.group))
  PROVE  /\ rules \in Seq(RuleEntries) /\ rules # << >> /\ NoneTwice(rules)
         /\ \A q, b : Says(rules, q, b) <=> Has(document[p], x.group, q, b)
<1> DEFINE g == x.group
           L == Listed(p, g)
           groups == document[p]
<1>1. groups \in Seq(GroupEntries) /\ NoneTwice(groups) /\ \A i \in DOMAIN groups : NoneTwice(groups[i].rules)
  BY DEF DocumentsInv, InOrder
<1>2. Has(groups, g, x.name, x.body)
  BY <1>1, RecordsHas
<1>3. /\ \A y \in L : y \in RuleEntries /\ Has(groups, g, y.name, y.body)
      /\ \A q, b : Has(groups, g, q, b) => [name |-> q, body |-> b] \in L
  BY ListedIs
<1> HIDE DEF g, L, groups
<1>4. PICK i \in DOMAIN groups : groups[i].name = g
  BY <1>2 DEF Has
<1> DEFINE old == groups[i].rules
<1>5. old \in Seq(RuleEntries) /\ NoneTwice(old)
  <2>1. groups[i] \in GroupEntries
    BY <1>1, <1>4
  <2> QED
    BY <1>1, <1>4, <2>1 DEF GroupEntries
<1>6. \A q, b : Has(groups, g, q, b) <=> Says(old, q, b)
  BY <1>1, <1>4 DEF Has, NoneTwice
<1> HIDE DEF old
<1>7. \A y \in L : \E j \in DOMAIN old : old[j] = y
  <2> SUFFICES ASSUME NEW y \in L PROVE \E j \in DOMAIN old : old[j] = y
    OBVIOUS
  <2>1. PICK j \in DOMAIN old : old[j].name = y.name /\ old[j].body = y.body
    BY <1>3, <1>6 DEF Says
  <2>2. y \in RuleEntries /\ old[j] \in RuleEntries
    BY <1>3, <1>5
  <2>3. y = [name |-> y.name, body |-> y.body] /\ old[j] = [name |-> old[j].name, body |-> old[j].body]
    BY <2>2 DEF RuleEntries
  <2> QED
    BY <2>1, <2>3
<1>8. IsFiniteSet(L)
  <2>1. Len(old) \in Nat /\ DOMAIN old = 1 .. Len(old) /\ old = [j \in DOMAIN old |-> old[j]]
    BY <1>5
  <2>2. IsFiniteSet({old[j] : j \in 1 .. Len(old)})
    BY <2>1, FiniteImage
  <2>3. L \subseteq {old[j] : j \in 1 .. Len(old)}
    BY <1>7, <2>1
  <2> QED
    BY <2>2, <2>3, FS_Subset
<1>9. /\ rules \in Seq(L)
      /\ \A y \in L : \E k \in DOMAIN rules : rules[k] = y
      /\ \A k, m \in DOMAIN rules : rules[k] = rules[m] => k = m
  <2>1. rules \in SetToSeqs(L)
    BY DEF L, g
  <2> QED
    BY <1>8, <2>1, ListedOnce
<1>10. \A k \in DOMAIN rules : rules[k] \in L
  BY <1>9
<1>11. rules \in Seq(RuleEntries)
  <2>1. L \subseteq RuleEntries
    BY <1>3
  <2> QED
    BY <1>9, <2>1, SeqMonotonic
<1>12. NoneTwice(rules)
  <2> SUFFICES ASSUME NEW k \in DOMAIN rules, NEW m \in DOMAIN rules, rules[k].name = rules[m].name
               PROVE  k = m
    BY DEF NoneTwice
  <2>1. PICK a \in DOMAIN old : old[a] = rules[k]
    BY <1>7, <1>10
  <2>2. PICK c \in DOMAIN old : old[c] = rules[m]
    BY <1>7, <1>10
  <2>3. a = c
    BY <1>5, <2>1, <2>2 DEF NoneTwice
  <2> QED
    BY <1>9, <2>1, <2>2, <2>3
<1>13. ASSUME NEW q, NEW b PROVE Says(rules, q, b) <=> Has(groups, g, q, b)
  <2>1. ASSUME Says(rules, q, b) PROVE Has(groups, g, q, b)
    <3>1. PICK k \in DOMAIN rules : rules[k].name = q /\ rules[k].body = b
      BY <2>1 DEF Says
    <3> QED
      BY <1>3, <1>10, <3>1
  <2>2. ASSUME Has(groups, g, q, b) PROVE Says(rules, q, b)
    <3> DEFINE y == [name |-> q, body |-> b]
    <3>1. y \in L /\ y.name = q /\ y.body = b
      BY <1>3, <2>2
    <3> HIDE DEF y
    <3>2. PICK k \in DOMAIN rules : rules[k] = y
      BY <1>9, <3>1
    <3> QED
      BY <3>1, <3>2 DEF Says
  <2> QED
    BY <2>1, <2>2
<1>14. rules # << >>
  <2>1. Says(rules, x.name, x.body)
    BY <1>2, <1>13
  <2> QED
    BY <2>1 DEF Says
<1> QED
  BY <1>11, <1>12, <1>13, <1>14 DEF g, groups

(* A place is written with its groups, each once, and says what it said. *)
LEMMA PlaceRendered ==
  ASSUME DocumentsInv, NEW p \in Places, NEW groups \in Rendered(p)
  PROVE  /\ groups \in Seq(GroupEntries) /\ InOrder(groups, p)
         /\ \A h, q, b : Has(groups, h, q, b) <=> Has(document[p], h, q, b)
<1> DEFINE old == document[p]
           names == {x.group : x \in RecordsIn(document, p)}
           n == Cardinality(names)
<1>1. old \in Seq(GroupEntries)
  BY DEF DocumentsInv
<1>2. /\ \A x \in RecordsIn(document, p) : Has(old, x.group, x.name, x.body) /\ x.group \in RuleGroups
      /\ \A h, q, b : Has(old, h, q, b) => h \in names
  <2>1. /\ \A x \in RecordsIn(document, p) : Has(old, x.group, x.name, x.body) /\ x.group \in RuleGroups
        /\ \A h, q, b : Has(old, h, q, b) =>
             [place |-> p, group |-> h, name |-> q, body |-> b] \in RecordsIn(document, p)
    BY <1>1, RecordsHas
  <2>2. ASSUME NEW h, NEW q, NEW b, Has(old, h, q, b) PROVE h \in names
    <3> DEFINE x == [place |-> p, group |-> h, name |-> q, body |-> b]
    <3>1. x \in RecordsIn(document, p) /\ x.group = h
      BY <2>1, <2>2
    <3> HIDE DEF x
    <3> QED
      BY <3>1
  <2> QED
    BY <2>1, <2>2
<1>3. n \in Nat
  <2> DEFINE f == [i \in 1 .. Len(old) |-> old[i].name]
  <2>1. Len(old) \in Nat /\ DOMAIN old = 1 .. Len(old)
    BY <1>1
  <2>2. IsFiniteSet({f[i] : i \in 1 .. Len(old)})
    <3>1. DOMAIN f = 1 .. Len(old) /\ f = [i \in DOMAIN f |-> f[i]]
      OBVIOUS
    <3> HIDE DEF f
    <3> QED
      BY <2>1, <3>1, FiniteImage
  <2>3. names \subseteq {f[i] : i \in 1 .. Len(old)}
    BY <1>2, <2>1 DEF Has
  <2> QED
    BY <2>2, <2>3, FS_Subset, FS_CardinalityType
<1>4. \A k \in 1 .. n : \E x \in RecordsIn(document, p) : \E rules \in SetToSeqs(Listed(p, x.group)) :
        groups[k] = Group(x.group, rules)
  BY DEF Rendered
<1>5. /\ DOMAIN groups = 1 .. n /\ groups = [k \in 1 .. n |-> groups[k]]
      /\ \A g \in names : \E i \in 1 .. n : \A k \in 1 .. n : groups[k].name = g <=> k = i
  <2> DEFINE choices == UNION {{Group(g, rules) : rules \in SetToSeqs(Listed(p, g))} : g \in names}
  <2>1. groups \in [1 .. n -> choices]
        /\ \A g \in names : \E i \in DOMAIN groups : \A k \in DOMAIN groups : groups[k].name = g <=> k = i
    BY Zenon DEF Rendered
  <2> HIDE DEF choices, names, n
  <2>2. DOMAIN groups = 1 .. n /\ groups = [k \in 1 .. n |-> groups[k]]
    BY <2>1
  <2> QED
    BY <2>1, <2>2
<1> HIDE DEF old, names, n
<1>6. ASSUME NEW k \in 1 .. n
      PROVE  /\ groups[k].name \in names /\ groups[k] \in GroupEntries
             /\ groups[k].rules # << >> /\ NoneTwice(groups[k].rules)
             /\ \A q, b : Says(groups[k].rules, q, b) <=> Has(old, groups[k].name, q, b)
  <2>1. PICK x \in RecordsIn(document, p) : \E rules \in SetToSeqs(Listed(p, x.group)) :
          groups[k] = Group(x.group, rules)
    BY <1>4
  <2>2. PICK rules \in SetToSeqs(Listed(p, x.group)) : groups[k] = Group(x.group, rules)
    BY <2>1
  <2>3. /\ rules \in Seq(RuleEntries) /\ rules # << >> /\ NoneTwice(rules)
        /\ \A q, b : Says(rules, q, b) <=> Has(old, x.group, q, b)
    BY <2>2, GroupRendered DEF old
  <2>4. groups[k].name = x.group /\ groups[k].rules = rules /\ x.group \in names /\ x.group \in RuleGroups
    BY <1>2, <2>2 DEF Group, names
  <2>5. groups[k] \in GroupEntries
    BY <2>2, <2>3, <2>4 DEF Group, GroupEntries
  <2> QED
    BY <2>3, <2>4, <2>5
<1>7. groups \in Seq(GroupEntries)
  <2>1. groups \in [1 .. n -> GroupEntries]
    BY <1>5, <1>6
  <2> QED
    BY <1>3, <2>1, SeqDef
<1>8. InOrder(groups, p)
  <2>1. NoneTwice(groups)
    BY <1>5, <1>6 DEF NoneTwice
  <2> QED
    BY <1>5, <1>6, <2>1 DEF InOrder
<1>9. ASSUME NEW h, NEW q, NEW b PROVE Has(groups, h, q, b) <=> Has(old, h, q, b)
  <2>1. ASSUME Has(groups, h, q, b) PROVE Has(old, h, q, b)
    <3>1. PICK i \in 1 .. n : groups[i].name = h /\ Says(groups[i].rules, q, b)
      BY <1>5, <2>1 DEF Has
    <3> QED
      BY <1>6, <3>1
  <2>2. ASSUME Has(old, h, q, b) PROVE Has(groups, h, q, b)
    <3>1. PICK i \in 1 .. n : groups[i].name = h
      BY <1>2, <1>5, <2>2
    <3>2. Says(groups[i].rules, q, b)
      BY <1>6, <2>2, <3>1
    <3> QED
      BY <1>5, <3>1, <3>2 DEF Has
  <2> QED
    BY <2>1, <2>2
<1> QED
  BY <1>7, <1>8, <1>9 DEF old

LEMMA ExportKeeps == DocumentsInv /\ ExportFile => DocumentsInv'
<1> SUFFICES ASSUME DocumentsInv, ExportFile PROVE DocumentsInv'
  OBVIOUS
<1>1. PICK p \in Places :
        /\ \A o \in Places \ {p} : RecordsIn(document, o) = {}
        /\ \E groups \in Rendered(p) : document' = [Empty EXCEPT ![p] = groups]
  BY DEF ExportFile
<1>2. PICK groups \in Rendered(p) : document' = [Empty EXCEPT ![p] = groups]
  BY <1>1
<1>3. /\ groups \in Seq(GroupEntries) /\ InOrder(groups, p)
      /\ \A h, q, b : Has(groups, h, q, b) <=> Has(document[p], h, q, b)
  BY PlaceRendered
<1>4. expected' = expected
  BY DEF ExportFile
<1>5. /\ document' \in [Places -> Seq(GroupEntries)] /\ document'[p] = groups
      /\ \A o \in Places : o # p => document'[o] = << >>
  <2>1. Empty \in [Places -> Seq(GroupEntries)] /\ \A o \in Places : Empty[o] = << >>
    BY EmptyPlace DEF Empty
  <2> QED
    BY <1>2, <1>3, <2>1
<1>6. \A o \in Places : InOrder(document'[o], o)
  BY <1>3, <1>5, EmptyPlace
<1>7. \A o \in Places : \A h, q, b : Has(document'[o], h, q, b) <=> Has(document[o], h, q, b)
  <2> SUFFICES ASSUME NEW o \in Places, NEW h, NEW q, NEW b
               PROVE  Has(document'[o], h, q, b) <=> Has(document[o], h, q, b)
    OBVIOUS
  <2>1. CASE o = p
    BY <1>3, <1>5, <2>1
  <2>2. CASE o # p
    <3>1. ~Has(document'[o], h, q, b)
      BY <1>5, <2>2, EmptyPlace
    <3>2. RecordsIn(document, o) = {} /\ document[o] \in Seq(GroupEntries)
      BY <1>1, <2>2 DEF DocumentsInv
    <3>3. ~Has(document[o], h, q, b)
      BY <3>2, RecordsHas
    <3> QED
      BY <3>1, <3>3
  <2> QED
    BY <2>1, <2>2
<1>8. \A o \in Places, h \in RuleGroups, q \in RuleNames, b \in Bodies :
        Has(document'[o], h, q, b) <=> expected'[<< o, h, q >>] = b
  <2> SUFFICES ASSUME NEW o \in Places, NEW h \in RuleGroups, NEW q \in RuleNames, NEW b \in Bodies
               PROVE  Has(document'[o], h, q, b) <=> expected'[<< o, h, q >>] = b
    OBVIOUS
  <2>1. Has(document[o], h, q, b) <=> expected[<< o, h, q >>] = b
    BY DEF DocumentsInv
  <2>2. Has(document'[o], h, q, b) <=> Has(document[o], h, q, b)
    BY <1>7
  <2> QED
    BY <1>4, <2>1, <2>2
<1> QED
  BY <1>4, <1>5, <1>6, <1>8 DEF DocumentsInv, InOrder, NoneTwice, Has, Says

LEMMA DocumentsStep == DocumentsInv /\ [DocumentsNext]_documentVars => DocumentsInv'
<1> SUFFICES ASSUME DocumentsInv, [DocumentsNext]_documentVars PROVE DocumentsInv'
  OBVIOUS
<1>1. CASE UNCHANGED documentVars
  BY <1>1 DEF documentVars, DocumentsInv, InOrder, NoneTwice, Has, Says
<1>2. CASE \E place \in Places, g \in RuleGroups, r \in RuleNames, body \in Bodies :
             UpsertRule(place, g, r, body)
  BY <1>2, UpsertKeeps
<1>3. CASE \E place \in Places, g \in RuleGroups, r \in RuleNames : DeleteRule(place, g, r)
  BY <1>3, DeleteKeeps
<1>4. CASE ExportFile
  BY <1>4, ExportKeeps
<1> QED
  BY <1>1, <1>2, <1>3, <1>4 DEF DocumentsNext

LEMMA DocumentsSay == DocumentsInv => FileKept
<1> SUFFICES ASSUME DocumentsInv PROVE FileKept
  OBVIOUS
<1>1. GroupsInOrder
  BY DEF DocumentsInv, InOrder, GroupsInOrder
<1> DEFINE Left == {[place |-> s[1], group |-> s[2], name |-> s[3], body |-> expected[s]] :
                      s \in {t \in Slots : expected[t] # Nothing}}
<1>2. ASSUME NEW x \in Records(document) PROVE x \in Left
  <2>1. PICK p \in Places : x \in RecordsIn(document, p)
    BY DEF Records
  <2>2. /\ Has(document[p], x.group, x.name, x.body)
        /\ x.group \in RuleGroups /\ x.name \in RuleNames /\ x.body \in Bodies
        /\ x = [place |-> p, group |-> x.group, name |-> x.name, body |-> x.body]
    <3>1. document[p] \in Seq(GroupEntries)
      BY DEF DocumentsInv
    <3> QED
      BY <2>1, <3>1, RecordsHas
  <2> DEFINE s == << p, x.group, x.name >>
  <2>3. s \in Slots /\ s[1] = p /\ s[2] = x.group /\ s[3] = x.name
    BY <2>2 DEF Slots
  <2>4. expected[s] = x.body /\ x.body # Nothing
    BY <2>2, DocumentsAssumption DEF DocumentsInv
  <2> HIDE DEF s
  <2>5. x = [place |-> s[1], group |-> s[2], name |-> s[3], body |-> expected[s]]
    BY <2>2, <2>3, <2>4
  <2> QED
    BY <2>3, <2>4, <2>5
<1>3. ASSUME NEW x \in Left PROVE x \in Records(document)
  <2>1. PICK s \in Slots :
          /\ expected[s] # Nothing
          /\ x = [place |-> s[1], group |-> s[2], name |-> s[3], body |-> expected[s]]
    OBVIOUS
  <2>2. PICK p \in Places, g \in RuleGroups, r \in RuleNames : s = << p, g, r >>
    BY DEF Slots
  <2>3. expected[s] \in Bodies
    BY <2>1 DEF DocumentsInv
  <2>4. Has(document[p], g, r, expected[s])
    BY <2>2, <2>3 DEF DocumentsInv
  <2>5. [place |-> p, group |-> g, name |-> r, body |-> expected[s]] \in RecordsIn(document, p)
    <3>1. document[p] \in Seq(GroupEntries)
      BY DEF DocumentsInv
    <3> QED
      BY <2>4, <3>1, RecordsHas
  <2>6. x = [place |-> p, group |-> g, name |-> r, body |-> expected[s]]
    BY <2>1, <2>2
  <2> QED
    BY <2>5, <2>6 DEF Records
<1> HIDE DEF Left
<1>4. Records(document) = Left
  BY <1>2, <1>3
<1> QED
  BY <1>1, <1>4 DEF Left, FileKept, FileSaysWhatEditsLeft, DocumentsTypeOK, DocumentsInv

(* Reading a file gives exactly the rules that the edits leave, and no     *)
(* group or rule is there twice, through any insertions, updates, deletions*)
(* and exports that write it anew (alert_rule_repo.py: upsert, delete and  *)
(* render of a rule document).                                             *)
THEOREM FilesSayWhatEditsLeave == DocumentsSpec => []FileKept
BY DocumentsInitInv, DocumentsStep, DocumentsSay, PTL DEF DocumentsSpec
=============================================================================
