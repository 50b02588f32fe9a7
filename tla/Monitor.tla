------------------------------ MODULE Monitor ------------------------------
(***************************************************************************)
(* The credential with which one replica of the API signs its requests to  *)
(* Bakery: registration of the monitor (api/plugins/bakery/client.py), the *)
(* heartbeat that repairs it (heartbeat.py), the plugin's health check     *)
(* (adapter.py) and the stored credential (credential_manager.py).         *)
(*                                                                         *)
(* Tasks of the event loop interleave at every await; _REGISTER_LOCK is    *)
(* what keeps them apart.  Bakery accepts the credential it issued last.   *)
(***************************************************************************)
EXTENDS Naturals

CONSTANTS
  MonitorTasks,    \* tasks of the replica that call Bakery
  MaxCredentials   \* bound: credentials Bakery ever issues

VARIABLES
  stored,          \* adapter_credentials: the credential, 0 for none
  credentialStatus,\* service_plugins.credential_status
  issued,          \* Bakery: the credential it accepts, 0 for none
  issues,          \* Bakery: credentials issued so far
  bootstrapKeys,   \* the bootstrap HMAC key is configured
  holder,          \* the task in _REGISTER_LOCK
  tasks,           \* what each task of the replica does
  disturbed        \* history: Bakery dropped or lost what it issued

monitorVars ==
  << stored, credentialStatus, issued, issues, bootstrapKeys, holder, tasks, disturbed >>

Nobody == "nobody"

ASSUME MonitorAssumption == MaxCredentials \in Nat \ {0} /\ Nobody \notin MonitorTasks

NoCredential == 0
Credentials == 0 .. MaxCredentials

(* heartbeat: may force one registration; call and probe never do.         *)
MonitorTask ==
  [ kind : {"heartbeat", "call", "probe"},
    at : {"idle", "wants", "holds", "registering", "signed", "done", "failed"},
    force : BOOLEAN, read : Credentials, answer : Credentials, with : Credentials ]

MonitorTypeOK ==
  /\ stored \in Credentials
  /\ credentialStatus \in {"pending", "ready", "error"}
  /\ issued \in Credentials
  /\ issues \in Credentials
  /\ bootstrapKeys \in BOOLEAN
  /\ holder \in MonitorTasks \cup {Nobody}
  /\ tasks \in [MonitorTasks -> MonitorTask]
  /\ disturbed \in BOOLEAN

Resting == [ kind |-> "call", at |-> "idle", force |-> FALSE, read |-> NoCredential,
             answer |-> NoCredential, with |-> NoCredential ]

MonitorInit ==
  /\ stored = NoCredential
  /\ credentialStatus = "pending"
  /\ issued = NoCredential
  /\ issues = 0
  /\ bootstrapKeys \in BOOLEAN
  /\ holder = Nobody
  /\ tasks = [t \in MonitorTasks |-> Resting]
  /\ disturbed = FALSE

Moves(t, to) == tasks' = [tasks EXCEPT ![t] = to]

-----------------------------------------------------------------------------
(* A task begins: heartbeat_once, a communication call or a health check.  *)
BeginTask(t) ==
  /\ tasks[t].at \in {"idle", "done", "failed"}
  /\ \E kind \in {"heartbeat", "call", "probe"} :
       Moves(t, [Resting EXCEPT !.kind = kind, !.at = "wants"])
  /\ UNCHANGED << stored, credentialStatus, issued, issues, bootstrapKeys, holder, disturbed >>

(* bootstrap_monitor_credential takes the lock and then reads the stored   *)
(* credential.  EnterAnyway is the function without its lock.              *)
EnterAnyway(t) == holder' = t
EnterAlone(t) == holder = Nobody /\ holder' = t

ReadCredential(t) ==
  /\ tasks[t].at = "wants"
  /\ EnterAlone(t)
  /\ Moves(t, [tasks[t] EXCEPT !.at = "holds", !.read = stored])
  /\ UNCHANGED << stored, credentialStatus, issued, issues, bootstrapKeys, disturbed >>

Leave(t) == holder' = IF holder = t THEN Nobody ELSE holder

(* A credential that is there is used, unless a registration is forced     *)
(* and could be made.                                                      *)
UseStored(t) ==
  /\ tasks[t].at = "holds"
  /\ tasks[t].read # NoCredential
  /\ tasks[t].force => ~ bootstrapKeys
  /\ Leave(t)
  /\ Moves(t, [tasks[t] EXCEPT !.at = "signed", !.with = tasks[t].read])
  /\ UNCHANGED << stored, credentialStatus, issued, issues, bootstrapKeys, disturbed >>

NeedsRegistration(t) ==
  /\ tasks[t].at = "holds"
  /\ tasks[t].read = NoCredential \/ (tasks[t].force /\ bootstrapKeys)

(* _register_monitor_with_bootstrap: Bakery issues a new credential ...    *)
SendRegistration(t) ==
  /\ NeedsRegistration(t)
  /\ bootstrapKeys
  /\ issues < MaxCredentials
  /\ issues' = issues + 1
  /\ issued' = issues + 1
  /\ Moves(t, [tasks[t] EXCEPT !.at = "registering", !.answer = issues + 1])
  /\ UNCHANGED << stored, credentialStatus, bootstrapKeys, holder, disturbed >>

(* ... which write_adapter_credential stores.                              *)
StoreCredential(t) ==
  /\ tasks[t].at = "registering"
  /\ stored' = tasks[t].answer
  /\ credentialStatus' = "ready"
  /\ Leave(t)
  /\ Moves(t, [tasks[t] EXCEPT !.at = "signed", !.with = tasks[t].answer])
  /\ UNCHANGED << issued, issues, bootstrapKeys, disturbed >>

(* No bootstrap key, no answer, or a failed write: the status says error,  *)
(* and the caller's request is not sent.                                   *)
RegistrationFails(t) ==
  /\ NeedsRegistration(t) \/ tasks[t].at = "registering"
  /\ disturbed' = (disturbed \/ tasks[t].at = "registering")
  /\ credentialStatus' = "error"
  /\ Leave(t)
  /\ Moves(t, [tasks[t] EXCEPT !.at = "failed"])
  /\ UNCHANGED << stored, issued, issues, bootstrapKeys >>

-----------------------------------------------------------------------------
(* The signed request: accepted, refused as unauthorized, or failed.  A    *)
(* heartbeat that is unauthorized registers anew and is sent once more.    *)
BakeryAccepts(t) ==
  /\ tasks[t].at = "signed"
  /\ tasks[t].with = issued
  /\ Moves(t, [tasks[t] EXCEPT !.at = "done"])
  /\ UNCHANGED << stored, credentialStatus, issued, issues, bootstrapKeys, holder, disturbed >>

BakeryRefuses(t) ==
  /\ tasks[t].at = "signed"
  /\ tasks[t].with # issued
  /\ IF tasks[t].kind = "heartbeat" /\ ~ tasks[t].force
     THEN Moves(t, [tasks[t] EXCEPT !.at = "wants", !.force = TRUE])
     ELSE Moves(t, [tasks[t] EXCEPT !.at = "failed"])
  /\ UNCHANGED << stored, credentialStatus, issued, issues, bootstrapKeys, holder, disturbed >>

BakeryUnreachable(t) ==
  /\ tasks[t].at = "signed"
  /\ Moves(t, [tasks[t] EXCEPT !.at = "failed"])
  /\ UNCHANGED << stored, credentialStatus, issued, issues, bootstrapKeys, holder, disturbed >>

(* Bakery forgets the monitor.                                             *)
BakeryDrops ==
  /\ issued # NoCredential
  /\ issued' = NoCredential
  /\ disturbed' = TRUE
  /\ UNCHANGED << stored, credentialStatus, issues, bootstrapKeys, holder, tasks >>

(* The replica restarts: its tasks and their lock are gone.                *)
RestartMonitor ==
  /\ tasks' = [t \in MonitorTasks |-> Resting]
  /\ holder' = Nobody
  /\ disturbed' = (disturbed \/ \E t \in MonitorTasks : tasks[t].at = "registering")
  /\ bootstrapKeys' \in BOOLEAN
  /\ UNCHANGED << stored, credentialStatus, issued, issues >>

MonitorNext ==
  \/ \E t \in MonitorTasks :
       \/ BeginTask(t)
       \/ ReadCredential(t)
       \/ UseStored(t)
       \/ SendRegistration(t)
       \/ StoreCredential(t)
       \/ RegistrationFails(t)
       \/ BakeryAccepts(t)
       \/ BakeryRefuses(t)
       \/ BakeryUnreachable(t)
  \/ BakeryDrops
  \/ RestartMonitor

MonitorSpec == MonitorInit /\ [][MonitorNext]_monitorVars

-----------------------------------------------------------------------------
(* As long as Bakery keeps what it issues and every answer arrives, what   *)
(* is stored is what Bakery accepts whenever no registration is under way: *)
(* tasks that start together register the monitor once, and none of them   *)
(* overwrites a newer credential with an older one.                        *)
CredentialsAgree ==
  ~ disturbed /\ (\A t \in MonitorTasks : tasks[t].at # "registering")
    => stored = issued

(* The heartbeats and calls of api/plugins/bakery/client.py, with the      *)
(* types: the credential they store is the one that Bakery accepts.        *)
MonitorKept == MonitorTypeOK /\ CredentialsAgree
=============================================================================
