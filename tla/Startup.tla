------------------------------ MODULE Startup ------------------------------
(***************************************************************************)
(* The startup of a deployment: the three bootstrap jobs that run one      *)
(* after the other at an install and at an upgrade                         *)
(* (src/api/services/plugin_bootstrap.py, src/api/scripts), the manifests  *)
(* they judge (src/api/plugins/manifest.py, catalog.py) and, all the while,*)
(* the health checks and the content sync of the API and the Dishwasher    *)
(* that already run.                                                       *)
(*                                                                         *)
(* A manifest is what the validator tells apart; its templates are sound   *)
(* or not.  A helper provides one capability.                              *)
(***************************************************************************)
EXTENDS Naturals, FiniteSets

CONSTANTS
  Addons,            \* the plugins that a deployment may enable
  AddonManifests,    \* the manifests that they may come with
  InternalServices,  \* Timer, Prep Chef, ...: the internal plugins
  MaxCrashes,        \* backoffLimit: times that a job is started anew
  MaxDeployments     \* bound: installs and upgrades

ASSUME StartupAssumption == MaxCrashes \in Nat /\ MaxDeployments \in Nat \ {0}

VARIABLES
  manifests,   \* of each enabled plugin: its manifest
  job,         \* the bootstrap job that runs, and what is left of it
  crashes,     \* times that this job died
  deployments, \* installs and upgrades so far
  registry,    \* of each plugin: its row, or Unregistered
  internals,   \* the internal services that have a row
  identities,  \* the internal services that have a credential
  checked,     \* history: plugins whose health was checked since their
               \* bootstrap ended
  broken       \* history: plugins whose hook failed in this deployment

startupVars ==
  << manifests, job, crashes, deployments, registry, internals, identities, checked, broken >>

Manifest(found, reserved, adapter, templates, helper, requires, hook, watched) ==
  [found |-> found, reserved |-> reserved, adapter |-> adapter, templates |-> templates,
   helper |-> helper, requires |-> requires, hook |-> hook, watched |-> watched]

Unregistered == [health |-> "absent", credential |-> "unknown"]
Stages == {"registry", "hooks", "identities", "discovery", "credentials", "ended", "abandoned"}

StartupTypeOK ==
  /\ DOMAIN manifests \subseteq Addons
  /\ job.stage \in Stages /\ job.left \subseteq Addons
  /\ crashes \in 0 .. MaxCrashes /\ deployments \in 1 .. MaxDeployments
  /\ registry \in [Addons -> [health : {"absent", "initializing", "healthy", "failed"},
                              credential : {"unknown", "error"}]]
  /\ internals \subseteq InternalServices /\ identities \subseteq InternalServices
  /\ checked \subseteq Addons /\ broken \subseteq Addons

-----------------------------------------------------------------------------
(* Discovery.                                                              *)

EnabledAddons == DOMAIN manifests

(* validate_service_plugin *)
OwnHelper(p) == p \in manifests[p].requires => manifests[p].helper
HookOfAnyKind(p) == TRUE
HookOnItsOwn(p) == manifests[p].hook => manifests[p].requires \subseteq {p}
TemplatesSound(p) == manifests[p].templates
HealthIsWatched(p) == manifests[p].watched
Valid(p) ==
  /\ ~manifests[p].reserved /\ manifests[p].adapter
  /\ OwnHelper(p) /\ HookOnItsOwn(p)
  /\ TemplatesSound(p) /\ HealthIsWatched(p)

(* get_enabled_plugins_for_bootstrap *)
Loads(p) == manifests[p].found /\ Valid(p)
Loaded == {p \in EnabledAddons : Loads(p)}

(* missing_helper_capabilities_for: a helper counts if its plugin loads,   *)
(* although that plugin may lack a helper itself.                          *)
Helped(p) == \A q \in manifests[p].requires : q \in Loaded /\ manifests[q].helper
Usable == {p \in Loaded : Helped(p)}

(* get_enabled_plugins: one manifest that does not load and nobody has any *)
AllLoad == Loaded = EnabledAddons

-----------------------------------------------------------------------------
(* The jobs.                                                               *)

MarkFailed(row, credential) ==
  [health |-> "failed",
   credential |-> IF credential THEN "error" ELSE row.credential]

(* _discover_healthy_plugins *)
DiscoveredLoads(credential) ==
  [p \in Addons |->
     IF p \in EnabledAddons \ Loaded THEN MarkFailed(registry[p], credential) ELSE registry[p]]
Discovered(credential) ==
  [p \in Addons |->
     IF p \in EnabledAddons \ Usable THEN MarkFailed(registry[p], credential) ELSE registry[p]]

(* _register_service_plugins: the probe may tell nothing. *)
RegisteredAs(p, probe) ==
  [registry[p] EXCEPT
     !.health = IF probe # "incomplete" THEN probe
                ELSE IF @ = "absent" THEN "initializing" ELSE @]

(* _register_internal_service_plugins *)
RegisterInternals == internals' = InternalServices

(* The internal services and the plugins, in one transaction. *)
RegistryJob ==
  /\ job.stage = "registry"
  /\ \E probe \in [Usable -> {"healthy", "failed", "incomplete"}] :
       registry' = [p \in Addons |->
         IF p \in Usable THEN RegisteredAs(p, probe[p]) ELSE Discovered(FALSE)[p]]
  /\ RegisterInternals
  /\ job' = [stage |-> "hooks", left |-> {p \in Usable : manifests[p].hook}]
  /\ checked' = {} /\ broken' = {}
  /\ UNCHANGED << manifests, crashes, deployments, identities >>

(* _run_plugin_bootstrap_hooks: each in a transaction of its own; the hook *)
(* is handed the helper of its plugin and no other.                        *)
RunHook(p) ==
  /\ job.stage = "hooks" /\ p \in job.left
  /\ job' = [job EXCEPT !.left = @ \ {p}]
  /\ \/ UNCHANGED << registry, broken >>
     \/ /\ registry' = [registry EXCEPT ![p] = MarkFailed(@, FALSE)]
        /\ broken' = broken \cup {p}
  /\ checked' = checked \ {p}
  /\ UNCHANGED << manifests, crashes, deployments, internals, identities >>

NextJob(stage, left) == job' = [stage |-> stage, left |-> left] /\ crashes' = 0

RegistryJobEnds ==
  /\ job.stage = "hooks" /\ job.left = {}
  /\ NextJob("identities", {})
  /\ UNCHANGED << manifests, deployments, registry, internals, identities, checked, broken >>

(* bootstrap_service_identities gives up if an internal service has no     *)
(* row; a secret that cannot be stored is counted and no more.             *)
IdentitiesJob ==
  /\ job.stage = "identities" /\ internals = InternalServices
  /\ \E stored \in SUBSET InternalServices : identities' = identities \cup stored
  /\ NextJob("discovery", {})
  /\ UNCHANGED << manifests, deployments, registry, internals, checked, broken >>

(* bootstrap_adapter_credentials discovers the plugins anew ... *)
CredentialsJob ==
  /\ job.stage = "discovery"
  /\ registry' = Discovered(TRUE)
  /\ job' = [stage |-> "credentials", left |-> Usable]
  /\ checked' = checked \ (EnabledAddons \ Usable)
  /\ UNCHANGED << manifests, crashes, deployments, internals, identities, broken >>

(* ... and asks each for its credential; none sets the status of a plugin  *)
(* right again that stores no credential itself.                           *)
AskCredential(p) ==
  /\ job.stage = "credentials" /\ p \in job.left
  /\ job' = [job EXCEPT !.left = @ \ {p}]
  /\ \/ UNCHANGED registry
     \/ /\ registry[p] # Unregistered
        /\ registry' = [registry EXCEPT ![p].credential = "error"]
  /\ UNCHANGED << manifests, crashes, deployments, internals, identities, checked, broken >>

(* mark_plugin_bootstrap_ready *)
JobsEnd ==
  /\ job.stage = "credentials" /\ job.left = {}
  /\ NextJob("ended", {})
  /\ UNCHANGED << manifests, deployments, registry, internals, identities, checked, broken >>

(* A job that dies is started anew, from its beginning, and after that the *)
(* deployment is abandoned.                                                *)
Beginning(stage) ==
  IF stage \in {"registry", "hooks"} THEN "registry"
  ELSE IF stage = "identities" THEN stage ELSE "discovery"
JobDies ==
  /\ job.stage \notin {"ended", "abandoned"}
  /\ IF crashes < MaxCrashes
     THEN /\ job' = [stage |-> Beginning(job.stage), left |-> {}]
          /\ crashes' = crashes + 1
     ELSE NextJob("abandoned", {})
  /\ UNCHANGED << manifests, deployments, registry, internals, identities, checked, broken >>

Deploy(chosen) ==
  /\ job.stage \in {"ended", "abandoned"} /\ deployments < MaxDeployments
  /\ manifests' = chosen /\ deployments' = deployments + 1
  /\ NextJob("registry", {})
  /\ checked' = {} /\ broken' = {}
  /\ UNCHANGED << registry, internals, identities >>

(* A scheduled health check: build_enabled_plugin_registry has no adapter  *)
(* for anyone unless every manifest loads, and does not ask for helpers.   *)
HealthCheck(p) ==
  /\ registry[p] # Unregistered
  /\ \E result \in IF AllLoad /\ p \in EnabledAddons THEN {"healthy", "failed"} ELSE {"failed"} :
       registry' = [registry EXCEPT ![p].health = result]
  /\ checked' = checked \cup {p}
  /\ UNCHANGED << manifests, job, crashes, deployments, internals, identities, broken >>

PluginChoices == UNION {[chosen -> AddonManifests] : chosen \in SUBSET Addons}

StartupInit ==
  /\ manifests \in PluginChoices /\ deployments = 1
  /\ job = [stage |-> "registry", left |-> {}] /\ crashes = 0
  /\ registry = [p \in Addons |-> Unregistered]
  /\ internals = {} /\ identities = {} /\ checked = {} /\ broken = {}

StartupNext ==
  \/ RegistryJob \/ RegistryJobEnds \/ IdentitiesJob \/ CredentialsJob \/ JobsEnd \/ JobDies
  \/ \E p \in Addons : RunHook(p) \/ AskCredential(p) \/ HealthCheck(p)
  \/ \E chosen \in PluginChoices : Deploy(chosen)

StartupSpec == StartupInit /\ [][StartupNext]_startupVars

-----------------------------------------------------------------------------
(* _run_plugin_bootstrap_hooks, validate_service_plugin: a hook is handed  *)
(* every helper that its manifest requires, although it is handed its own  *)
(* only and the validator ran long before.                                 *)
Handed(p) == IF manifests[p].helper THEN {p} ELSE {}
HooksAreHelped ==
  job.stage = "hooks" => \A p \in job.left : manifests[p].requires \subseteq Handed(p)

(* _discover_healthy_plugins, _mark_service_plugin_failed: from the end of *)
(* the first job on, a plugin whose manifest does not load is shown as     *)
(* failed, and so is one that lacks a helper or whose hook failed until a  *)
(* health check says otherwise, whatever died and was started anew.        *)
FailuresAreShown ==
  job.stage \in {"identities", "discovery", "credentials", "ended"} =>
    \A p \in EnabledAddons :
      (~Loads(p) \/ ((p \notin Usable \/ p \in broken) /\ p \notin checked)) =>
        registry[p].health = "failed"

(* plugin_bootstrap, with the types: hooks are handed the helpers they     *)
(* name, and a plugin that does not load, or whose hook failed, is shown   *)
(* failed.                                                                 *)
StartupKept == StartupTypeOK /\ HooksAreHelped /\ FailuresAreShown
=============================================================================
