---------------------------- MODULE Remediation ----------------------------
(***************************************************************************)
(* The recipes that the Genestack content sync publishes: the capabilities *)
(* that the enabled plugins advertise, what the operators turned off, the  *)
(* choice of a capability for each step of an alert's recipe               *)
(* (src/api/plugins/genestack_monitoring/remediation_profiles.py) and the  *)
(* publication in three calls, with the operators in between.              *)
(*                                                                         *)
(* A capability that names no domain, group or phase in its trigger        *)
(* matches all of them.  A capability is identified by its service and by  *)
(* what it does; "rank" is its place in the alphabet among those that are  *)
(* otherwise equal.  Payloads and outcomes of the steps are left out, and  *)
(* so is the diagnosis that the evidence step of a Kubernetes group asks.  *)
(***************************************************************************)
EXTENDS Naturals, FiniteSets, Sequences

CONSTANTS
  NativeGroups,    \* Kubernetes alerts that the k8s plugin acts on itself
  GuidanceGroups,  \* Kubernetes alerts left to the operators for good
  DeferredGroups,  \* Kubernetes alerts left to the operators for now
  ReviewGroups,    \* the other Kubernetes alerts
  WorkflowGroups,  \* the etcd and blackbox alerts
  GenericAlerts,   \* the alerts of the other domains
  CorePlugins,     \* the plugins that every deployment enables
  OptionalPlugins, \* those that a deployment may leave out
  PackPhases,      \* the phases that a StackStorm pack may have workflows for
  MaxTurnedOff,    \* bound: capabilities turned off at a time
  MaxTakenOver     \* bound: recipes that the operators take over

KubernetesGroups == NativeGroups \cup GuidanceGroups \cup DeferredGroups \cup ReviewGroups
RecipeAlerts == KubernetesGroups \cup WorkflowGroups \cup GenericAlerts

Providers ==
  {"k8s", "stackstorm", "alertmanager", "prometheus", "github", "git", "bakery", "dummy"}
\* genestack_monitoring requires the helpers of these
HelperPlugins == {"github", "k8s", "prometheus"}

ASSUME RemediationAssumption ==
  /\ HelperPlugins \subseteq CorePlugins /\ CorePlugins \cup OptionalPlugins \subseteq Providers
  /\ PackPhases \subseteq {"evidence", "remediation", "verify_recovery"}
  \* each alert is of one domain and has one policy, and none is named like an action
  /\ KubernetesGroups \cap WorkflowGroups = {}
  /\ NativeGroups \cap (GuidanceGroups \cup DeferredGroups) = {}
  /\ "delete_job" \notin NativeGroups \cup WorkflowGroups
  /\ MaxTurnedOff \in Nat /\ MaxTakenOver \in Nat

VARIABLES
  plugins,      \* the plugins that the deployment enables
  ingredients,  \* the services with active ingredients
  workflows,    \* the phases that the StackStorm pack has workflows for
  turnedOff,    \* the capabilities that the operators turned off
  disabledPlugins,      \* the plugins that the operators disabled
  syncing,      \* the content sync: its recipes between two calls
  published     \* of each alert: its recipe, and if the content sync owns it

remediationVars ==
  << plugins, ingredients, workflows, turnedOff, disabledPlugins, syncing, published >>

-----------------------------------------------------------------------------
(* The catalogue.                                                          *)

Anything == "any"   \* of a trigger, or of a search: no domain, no group, no phase
Capability(service, does, domain, groups, phase, safety, priority, rank) ==
  [service |-> service, does |-> does, domain |-> domain, groups |-> groups,
   phase |-> phase, safety |-> safety, priority |-> priority, rank |-> rank]
AnyTrigger(service, does, safety, priority, rank) ==
  Capability(service, does, Anything, {}, Anything, safety, priority, rank)

(* _safety_rank *)
Observe == 0   SafeRestart == 1   BoundedScale == 2   Guidance == 3   Destructive == 4

K8sCapabilities ==
  {Capability("k8s", g, "kubernetes", {g}, "remediation", SafeRestart, 200, 0) : g \in NativeGroups}
  \cup {AnyTrigger("k8s", "delete_job", Destructive, 0, 0),
        AnyTrigger("k8s", "patch_hpa", BoundedScale, 0, 1),
        AnyTrigger("k8s", "scale", BoundedScale, 0, 2)}

AlertmanagerCapabilities ==
  {Capability("alertmanager", "verify_firing", Anything, {}, "verify_before_evidence", Observe, 500, 0),
   Capability("alertmanager", "verify_firing", Anything, {}, "verify_before_action", Observe, 500, 0),
   Capability("alertmanager", "list_alerts", Anything, {}, "evidence", Observe, 400, 0),
   AnyTrigger("alertmanager", "silence", Guidance, 250, 1),
   AnyTrigger("alertmanager", "expire", Guidance, 250, 2)}

PrometheusCapabilities ==
  {Capability("prometheus", "alert_evidence", Anything, {}, "evidence", Observe, 400, 0),
   AnyTrigger("prometheus", "reload", Guidance, 300, 0)}

GitHubCapabilities ==
  {Capability("github", "read_rule", Anything, {}, "evidence", Observe, 350, 0),
   AnyTrigger("github", "list_files", Observe, 100, 0),
   AnyTrigger("github", "propose", Guidance, 100, 0)}

GitCapabilities ==
  {AnyTrigger("git", "read_file", Observe, 100, 1), AnyTrigger("git", "list_files", Observe, 100, 2),
   AnyTrigger("git", "propose", Guidance, 100, 1), AnyTrigger("git", "commit", Guidance, 100, 2)}

BakeryCapabilities ==
  {Capability("bakery", "open", Anything, {}, "communicate", Guidance, 200, 0)}
  \cup {Capability("bakery", d, Anything, {}, "both", Observe, 100, 0) : d \in {"reconcile", "collect"}}

DummyCapabilities == {Capability("dummy", "open", Anything, {}, "communicate", Guidance, 100, 0)}

StackStormCapabilities ==
  {Capability("stackstorm", g, "workflow", {g}, p,
              IF p = "remediation" THEN Guidance ELSE Observe, 0, 0) :
     g \in WorkflowGroups, p \in workflows}
  \cup {Capability("stackstorm", "host_down", "kubernetes", GuidanceGroups, "remediation",
                   Guidance, 100, 0) : p \in workflows \cap {"remediation"}}

(* build_enabled_plugin_capability_catalog, list_service_plugin_configs:   *)
(* the configuration of a plugin that is disabled is not read.             *)
Disregarded(c) == c \in turnedOff /\ c.service \notin disabledPlugins
Catalogue ==
  {c \in K8sCapabilities \cup AlertmanagerCapabilities \cup PrometheusCapabilities
         \cup GitHubCapabilities \cup GitCapabilities \cup BakeryCapabilities
         \cup DummyCapabilities \cup StackStormCapabilities : c.service \in plugins /\ ~Disregarded(c)}

-----------------------------------------------------------------------------
(* The choice.                                                             *)

(* alert_group_provider_policy, _preferred_service_type_for_policy;        *)
(* AnyService forgets that some alerts are the cluster's own.              *)
LeftToOperators(a) == a \in GuidanceGroups \cup DeferredGroups
AnyService(a) == Providers
PreferredServices(a) == IF a \in NativeGroups THEN {"k8s"} ELSE Providers

(* PROVIDER_SELECTION_PRECEDENCE *)
Precedence == [k8s |-> 0, stackstorm |-> 1, alertmanager |-> 2, prometheus |-> 3,
               github |-> 4, git |-> 5, bakery |-> 6, dummy |-> 7]

(* _capability_matches *)
Triggered(c, phase, group, domain) ==
  /\ c.domain \in {Anything, domain}
  /\ c.groups # {} => group \in c.groups
  /\ c.phase \in {Anything, phase}

Weight(c) == ((c.safety * 8 + Precedence[c.service]) * 1000 + (999 - c.priority)) * 10 + c.rank

(* _best_capability: a set of at most one. *)
Best(phase, group, domain, services) ==
  LET matches == {c \in Catalogue : c.service \in services /\ Triggered(c, phase, group, domain)}
  IN {c \in matches : \A d \in matches : Weight(c) <= Weight(d)}

-----------------------------------------------------------------------------
(* The recipe of an alert.                                                 *)

Task(role, service, does) == [role |-> role, service |-> service, does |-> does]

(* _capability_step, or what is written when there is none. *)
Chosen(role, best) == LET c == CHOOSE c \in best : TRUE IN Task(role, c.service, c.does)
Filled(role, best, otherwise) == << IF best = {} THEN otherwise ELSE Chosen(role, best) >>
FilledIfAny(role, best) == IF best = {} THEN << >> ELSE << Chosen(role, best) >>

Guard(role) ==
  Filled("guard", Best(role, Anything, Anything, {"alertmanager"}), Task("guard", "alertmanager", "verify_firing"))
EvidenceFrom(service, does) ==
  Filled("evidence", Best("evidence", Anything, Anything, {service}), Task("evidence", service, does))
AlertEvidence == EvidenceFrom("alertmanager", "list_alerts")
SourceEvidence == EvidenceFrom("prometheus", "alert_evidence") \o EvidenceFrom("github", "read_rule")
Diagnosis == << Task("evidence", "k8s", "diagnose") >>
ReviewByOperator == Task("action", "bakery", "review")

(* required_mode: the plugins whose capability of the phase communicate is *)
(* a communication.                                                        *)
Communicators == {"bakery", "dummy"}
TellOperators ==
  Filled("communicate", Best("communicate", Anything, Anything, Communicators),
         Task("communicate", "bakery", "open"))

KubernetesRecipe(a) ==
  Guard("verify_before_evidence") \o Diagnosis \o Guard("verify_before_action")
  \o Filled("action",
            IF LeftToOperators(a) THEN {}
            ELSE Best("remediation", a, "kubernetes", PreferredServices(a)),
            ReviewByOperator)
  \o TellOperators

WorkflowRecipe(a) ==
  LET action == Best("remediation", a, "workflow", Providers)
  IN Guard("verify_before_evidence") \o AlertEvidence
     \o FilledIfAny("evidence", Best("evidence", a, "workflow", Providers))
     \o Guard("verify_before_action") \o Filled("action", action, ReviewByOperator)
     \o (IF action = {} THEN << >>
         ELSE FilledIfAny("recovery", Best("verify_recovery", a, "workflow", Providers)))
     \o TellOperators

GenericRecipe(a) ==
  Guard("verify_before_evidence") \o AlertEvidence \o SourceEvidence
  \o Guard("verify_before_action") \o << ReviewByOperator >> \o TellOperators

(* remediation_step_specs *)
RecipeOf(a) ==
  IF a \in WorkflowGroups THEN WorkflowRecipe(a)
  ELSE IF a \in KubernetesGroups THEN KubernetesRecipe(a) ELSE GenericRecipe(a)

Needs(steps) == {steps[i].service : i \in DOMAIN steps}

-----------------------------------------------------------------------------
(* The deployment and the operators.                                       *)

NotSyncing == [at |-> "idle", recipes |-> << >>, without |-> {}]
Unpublished == [steps |-> << >>, managed |-> TRUE, without |-> {}]

\* _enabled_plugin_names: bakery takes the place of dummy
Deployments ==
  {p \in {CorePlugins \cup extra : extra \in SUBSET OptionalPlugins} : ~({"bakery", "dummy"} \subseteq p)}

RemediationTypeOK ==
  /\ plugins \in Deployments /\ ingredients \subseteq Providers
  /\ workflows \subseteq PackPhases
  /\ \A c \in turnedOff : c \in K8sCapabilities \cup StackStormCapabilities
  /\ disabledPlugins \subseteq {"k8s"}
  /\ syncing.at \in {"idle", "prepared", "validated"}
  /\ DOMAIN syncing.recipes \subseteq RecipeAlerts
  /\ DOMAIN published = RecipeAlerts
  /\ \A a \in RecipeAlerts : published[a].managed \in BOOLEAN /\ Needs(published[a].steps) \subseteq Providers

RemediationInit ==
  /\ plugins \in Deployments /\ ingredients = plugins
  /\ workflows \in SUBSET PackPhases
  /\ turnedOff = {} /\ disabledPlugins = {} /\ syncing = NotSyncing
  /\ published = [a \in RecipeAlerts |-> Unpublished]

(* The API starts anew with other plugins: ingredients of a plugin that is *)
(* no longer enabled stay active, a content sync that runs is lost.        *)
Redeploy(with) ==
  /\ with # plugins
  /\ plugins' = with /\ ingredients' = ingredients \cup with
  /\ syncing' = NotSyncing
  /\ UNCHANGED << workflows, turnedOff, disabledPlugins, published >>

TurnOff(c) ==
  /\ Cardinality(turnedOff) < MaxTurnedOff
  /\ turnedOff' = turnedOff \cup {c}
  /\ UNCHANGED << plugins, ingredients, workflows, disabledPlugins, syncing, published >>

TurnOn(c) ==
  /\ c \in turnedOff
  /\ turnedOff' = turnedOff \ {c}
  /\ UNCHANGED << plugins, ingredients, workflows, disabledPlugins, syncing, published >>

StopPlugin(s) ==
  /\ s \in plugins
  /\ disabledPlugins' = (IF s \in disabledPlugins THEN disabledPlugins \ {s} ELSE disabledPlugins \cup {s})
  /\ UNCHANGED << plugins, ingredients, workflows, turnedOff, syncing, published >>

(* An operator writes the recipe: its description loses the marker. *)
TakeOver(a) ==
  /\ published[a].managed
  /\ Cardinality({b \in RecipeAlerts : ~published[b].managed}) < MaxTakenOver
  /\ published' = [published EXCEPT ![a].managed = FALSE]
  /\ UNCHANGED << plugins, ingredients, workflows, turnedOff, disabledPlugins, syncing >>

-----------------------------------------------------------------------------
(* The content sync.                                                       *)

PrepareRecipes ==
  /\ syncing.at = "idle"
  /\ syncing' = [at |-> "prepared", recipes |-> [a \in RecipeAlerts |-> RecipeOf(a)],
                 without |-> {c \in turnedOff : Disregarded(c)}]
  /\ UNCHANGED << plugins, ingredients, workflows, turnedOff, disabledPlugins, published >>

(* _apply_recipe_publication_validation *)
ValidateRecipes ==
  /\ syncing.at = "prepared"
  /\ LET kept == {a \in DOMAIN syncing.recipes :
                    published[a].managed /\ Needs(syncing.recipes[a]) \subseteq ingredients}
     IN syncing' = [syncing EXCEPT !.at = "validated", !.recipes = [a \in kept |-> @[a]]]
  /\ UNCHANGED << plugins, ingredients, workflows, turnedOff, disabledPlugins, published >>

(* upsert_recipes *)
MayWrite(a) == a \in DOMAIN syncing.recipes
Writes(a) == a \in DOMAIN syncing.recipes /\ published[a].managed
PublishRecipes ==
  /\ syncing.at = "validated"
  /\ published' = [a \in RecipeAlerts |->
       IF Writes(a)
       THEN [published[a] EXCEPT !.steps = syncing.recipes[a], !.without = syncing.without]
       ELSE published[a]]
  /\ syncing' = NotSyncing
  /\ UNCHANGED << plugins, ingredients, workflows, turnedOff, disabledPlugins >>

ContentSyncFails ==
  /\ syncing.at # "idle"
  /\ syncing' = NotSyncing
  /\ UNCHANGED << plugins, ingredients, workflows, turnedOff, disabledPlugins, published >>

RemediationNext ==
  \/ \E with \in Deployments : Redeploy(with)
  \/ \E c \in K8sCapabilities \cup StackStormCapabilities : TurnOff(c) \/ TurnOn(c)
  \/ StopPlugin("k8s")
  \/ \E a \in RecipeAlerts : TakeOver(a)
  \/ PrepareRecipes \/ ValidateRecipes \/ PublishRecipes \/ ContentSyncFails

RemediationSpec == RemediationInit /\ [][RemediationNext]_remediationVars

-----------------------------------------------------------------------------
(* What must hold of a published recipe.                                   *)

Published(a) == published[a].steps # << >>
StepsOf(a, role) == {i \in DOMAIN published[a].steps : published[a].steps[i].role = role}

(* The alert is looked at again, in Alertmanager, before anything is done  *)
(* and right before the action; what follows the action is a check of the  *)
(* recovery and the word to the operators, which always ends the recipe.   *)
Guarded(a) ==
  LET steps == published[a].steps
      firing == Task("guard", "alertmanager", "verify_firing")
  IN /\ steps[1] = firing
     /\ \A i \in StepsOf(a, "action") : steps[i - 1] = firing
     /\ StepsOf(a, "communicate") = {Len(steps)}
     /\ steps[Len(steps)].does = "open"

(* What the policy leaves to the operators is not acted on, and an alert   *)
(* that has an action of its own gets no other unless the operators had    *)
(* turned that one off when the catalogue was read.                        *)
OwnAction(a) ==
  \A i \in StepsOf(a, "action") :
    /\ LeftToOperators(a) => published[a].steps[i] = ReviewByOperator
    /\ (a \in NativeGroups /\ \A c \in published[a].without : c.does # a) =>
         published[a].steps[i] = Task("action", "k8s", a)

(* ... and nothing is destroyed that a person did not ask for, as long as  *)
(* one of the bounded capabilities of the cluster is left on.              *)
NothingDestroyed(a) ==
  Cardinality(published[a].without) < 3 =>
    \A i \in DOMAIN published[a].steps : published[a].steps[i].does # "delete_job"

(* remediation_step_specs, _best_capability: whatever plugins are enabled  *)
(* and capabilities are turned off, a published recipe looks before it     *)
(* acts, acts as the policy says and tells the operators.                  *)
RecipesSafe ==
  \A a \in RecipeAlerts : Published(a) => Guarded(a) /\ OwnAction(a) /\ NothingDestroyed(a)

(* upsert_recipes, _apply_recipe_publication_validation: the content sync  *)
(* never writes a recipe that an operator took over, even while it ran.    *)
TakenOverIsLeft ==
  \A a \in RecipeAlerts :
    (~published[a].managed) => published'[a].steps = published[a].steps

TakenOverKept == [][TakenOverIsLeft]_remediationVars

(* remediation_profiles.py, plugin_operations.py: all of it, with the      *)
(* types.                                                                  *)
RemediationKept == [](RemediationTypeOK /\ RecipesSafe) /\ TakenOverKept

(* docs/plugins/genestack_monitoring.md:21: "ambiguous/node-style alerts   *)
(* stay in evidence plus manual-review mode until a safer provider policy  *)
(* is defined".                                                            *)
ReviewedByHand ==
  \A a \in ReviewGroups : \A i \in StepsOf(a, "action") : published[a].steps[i] = ReviewByOperator
=============================================================================
