----------------------------- MODULE MCServices -----------------------------
(***************************************************************************)
(* One instance of the services around the order pipeline.  They share no  *)
(* variable, so each behaviour is a behaviour of one of them, in the focus,*)
(* while the others keep their first state: what is checked of the whole   *)
(* is what would be checked of each alone.                                 *)
(***************************************************************************)
EXTENDS Intake, PluginHealth, Sessions, ControlCall, Suppressions, Incidents, Tickets,
  Monitor, AlertRules, Startup

CONSTANTS r1, r2   \* the rules of the catalogue

VARIABLE focus   \* the service that runs

Services ==
  { "intake", "plugin health", "sessions", "control calls", "suppressions",
    "incidents", "tickets", "monitor", "alert rules", "startup" }

MCCatalog == << r1, r2 >>

Sound == Manifest(TRUE, FALSE, TRUE, TRUE, TRUE, {}, FALSE, TRUE)
MCAddonManifests ==
  { Sound,
    [Sound EXCEPT !.found = FALSE],
    [Sound EXCEPT !.hook = TRUE],
    [Sound EXCEPT !.hook = TRUE, !.requires = {"a1"}],
    [Sound EXCEPT !.helper = FALSE, !.requires = {"a2"}] }

platformSide == << healthVars, startupVars, sessionVars, controlVars >>
alertSide == << intakeVars, suppressionVars, incidentVars, ticketVars >>
pluginSide == << monitorVars, ruleVars >>

Only(service, others) == focus = service /\ UNCHANGED focus /\ UNCHANGED others

(* A service out of the focus stays in a first state, one of them.         *)
Pinned(service, first) == focus # service => first

ServicesInit ==
  /\ focus \in Services
  /\ IntakeInit /\ HealthInit /\ SessionsInit /\ ControlInit /\ SuppressionsInit
  /\ IncidentInit /\ TicketsInit /\ RulesInit
  /\ MonitorInit /\ Pinned("monitor", ~ bootstrapKeys)
  /\ StartupInit /\ Pinned("startup", manifests = << >>)

ServicesNext ==
  \/ Only("plugin health", << startupVars, sessionVars, controlVars, alertSide, pluginSide >>) /\ HealthNext
  \/ Only("startup", << healthVars, sessionVars, controlVars, alertSide, pluginSide >>) /\ StartupNext
  \/ Only("sessions", << healthVars, startupVars, controlVars, alertSide, pluginSide >>) /\ SessionsNext
  \/ Only("control calls", << healthVars, startupVars, sessionVars, alertSide, pluginSide >>) /\ ControlNext
  \/ Only("intake", << suppressionVars, incidentVars, ticketVars, platformSide, pluginSide >>) /\ IntakeNext
  \/ Only("suppressions", << intakeVars, incidentVars, ticketVars, platformSide, pluginSide >>) /\ SuppressionsNext
  \/ Only("incidents", << intakeVars, suppressionVars, ticketVars, platformSide, pluginSide >>) /\ IncidentNext
  \/ Only("tickets", << intakeVars, suppressionVars, incidentVars, platformSide, pluginSide >>) /\ TicketsNext
  \/ Only("monitor", << ruleVars, platformSide, alertSide >>) /\ MonitorNext
  \/ Only("alert rules", << monitorVars, platformSide, alertSide >>) /\ RulesNext

serviceVars == << focus, platformSide, alertSide, pluginSide >>

ServicesSpec == ServicesInit /\ [][ServicesNext]_serviceVars
=============================================================================
