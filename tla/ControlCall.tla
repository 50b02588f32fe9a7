---------------------------- MODULE ControlCall ----------------------------
(***************************************************************************)
(* A worker's signed request to the control plane: its HMAC identity       *)
(* (plugin_bootstrap.py, service_identity.py), how it is signed and        *)
(* repeated (kitchen/service_helpers.py, api/core/http_client.py), and how *)
(* a replica of the API verifies it (api/api/auth.py).                     *)
(*                                                                         *)
(* The request is signed once and repeated as it is, nonce and all.  Each  *)
(* replica keeps the nonces it has seen in its memory.  Requests and       *)
(* answers get lost, and a replica may handle a request after the worker   *)
(* has stopped waiting for it.  Two calls never meet: their nonces differ. *)
(* Clocks agree, and a call ends within the clock skew that is allowed.    *)
(***************************************************************************)
EXTENDS Naturals

CONSTANTS
  Replicas,     \* replicas of the API
  MaxRetries    \* httpx_retries

ASSUME ControlAssumption == MaxRetries \in Nat

VARIABLES
  identity,     \* the worker's registry row and its stored secret (0: none)
  cached,       \* the secret the worker has read (0: the worker is down)
  call,         \* what the worker does: idle, sending, waiting, an outcome
  attempt,      \* which attempt of the call
  inbox,        \* the attempts on their way: number, replica, signing secret
  seen,         \* the replicas that know the nonce of the call
  executed,     \* history: how often each replica executed the call
  forgot,       \* history: the replicas that lost their memory during the call
  toggled       \* history: the identity changed during the call

controlVars == << identity, cached, call, attempt, inbox, seen, executed, forgot, toggled >>

Attempts == 1 .. MaxRetries + 1

ControlTypeOK ==
  /\ identity \in [enabled : BOOLEAN, secret : 0 .. 2]
  /\ cached \in 0 .. 2
  /\ call \in {"idle", "sending", "waiting", "done", "refused", "failed"}
  /\ attempt \in Attempts
  /\ inbox \subseteq Attempts \X Replicas \X (1 .. 2)
  /\ seen \subseteq Replicas
  /\ executed \in [Replicas -> 0 .. MaxRetries + 1]
  /\ forgot \subseteq Replicas
  /\ toggled \in BOOLEAN

ControlInit ==
  /\ identity = [enabled |-> TRUE, secret |-> 0]
  /\ cached = 0
  /\ call = "idle"
  /\ attempt = 1
  /\ inbox = {}
  /\ seen = {}
  /\ executed = [r \in Replicas |-> 0]
  /\ forgot = {}
  /\ toggled = FALSE

-----------------------------------------------------------------------------
(* The identity.  Every start of the deployment runs                       *)
(* _upsert_internal_hmac_credential: a secret that is there is kept, since *)
(* workers read theirs once.                                               *)
FreshSecret == IF identity.secret = 1 THEN 2 ELSE 1
StoredSecret == IF identity.secret = 0 THEN 1 ELSE identity.secret

BootstrapIdentity ==
  /\ identity' = [identity EXCEPT !.secret = StoredSecret]
  /\ UNCHANGED << cached, call, attempt, inbox, seen, executed, forgot, toggled >>

(* An operator pauses or resumes the worker: update_service_plugin.        *)
Pause ==
  /\ identity' = [identity EXCEPT !.enabled = ~ @]
  /\ toggled' = TRUE
  /\ UNCHANGED << cached, call, attempt, inbox, seen, executed, forgot >>

(* internal_hmac_credential_for_key, _internal_hmac_context *)
Verifies(secret) == identity.enabled /\ secret = identity.secret

-----------------------------------------------------------------------------
(* The worker. *)

StartWorker ==
  /\ cached = 0
  /\ cached' = identity.secret
  /\ UNCHANGED << identity, call, attempt, inbox, seen, executed, forgot, toggled >>

(* Each round starts with get_worker_runtime_config, a signed GET.  When   *)
(* it is refused the worker dies: a paused one is refused too, and never   *)
(* gets to read that it is paused.                                         *)
StartRound ==
  /\ cached # 0
  /\ call = "idle"
  /\ inbox = {}
  /\ \/ /\ Verifies(cached)
        /\ call' = "sending"
        /\ attempt' = 1
        /\ seen' = {}
        /\ executed' = [r \in Replicas |-> 0]
        /\ forgot' = {}
        /\ toggled' = FALSE
        /\ UNCHANGED cached
     \/ /\ ~ Verifies(cached)
        /\ cached' = 0
        /\ UNCHANGED << call, attempt, seen, executed, forgot, toggled >>
  /\ UNCHANGED << identity, inbox >>

WorkerDies ==
  /\ cached # 0
  /\ cached' = 0
  /\ call' = "idle"
  /\ UNCHANGED << identity, attempt, inbox, seen, executed, forgot, toggled >>

Send ==
  /\ call = "sending"
  /\ call' = "waiting"
  /\ \E r \in Replicas : inbox' = inbox \cup {<< attempt, r, cached >>}
  /\ UNCHANGED << identity, cached, attempt, seen, executed, forgot, toggled >>

(* request_with_retry: an exception or a retryable status is tried again,  *)
(* until the retries are used up; every other answer is the outcome.       *)
Answered(outcome) ==
  IF outcome = "failed" /\ attempt <= MaxRetries
  THEN call' = "sending" /\ attempt' = attempt + 1
  ELSE call' = outcome /\ UNCHANGED attempt

GiveUpWaiting ==
  /\ call = "waiting"
  /\ Answered("failed")
  /\ UNCHANGED << identity, cached, inbox, seen, executed, forgot, toggled >>

EndRound ==
  /\ call \in {"done", "refused", "failed"}
  /\ call' = "idle"
  /\ UNCHANGED << identity, cached, attempt, inbox, seen, executed, forgot, toggled >>

-----------------------------------------------------------------------------
(* A replica handles an attempt.  put_if_absent records the nonce before   *)
(* the handler runs, and whatever the handler then answers.                *)

NonceUnchecked(r) == TRUE
NonceFresh(r) == r \notin seen

Execute(m) ==
  /\ Verifies(m[3])
  /\ NonceFresh(m[2])
  /\ seen' = seen \cup {m[2]}
  /\ executed' = [executed EXCEPT ![m[2]] = @ + 1]

Refuse(m) ==
  /\ ~ (Verifies(m[3]) /\ NonceFresh(m[2]))
  /\ UNCHANGED << seen, executed >>

(* The answer reaches the worker if it still waits for it.                 *)
Handle(m) ==
  /\ m \in inbox
  /\ inbox' = inbox \ {m}
  /\ \/ /\ Execute(m)
        /\ \/ call = "waiting" /\ m[1] = attempt /\ \E o \in {"done", "failed"} : Answered(o)
           \/ UNCHANGED << call, attempt >>
     \/ /\ Refuse(m)
        /\ \/ call = "waiting" /\ m[1] = attempt /\ Answered("refused")
           \/ UNCHANGED << call, attempt >>
  /\ UNCHANGED << identity, cached, forgot, toggled >>

LoseRequest(m) ==
  /\ m \in inbox
  /\ inbox' = inbox \ {m}
  /\ UNCHANGED << identity, cached, call, attempt, seen, executed, forgot, toggled >>

RestartReplica(r) ==
  /\ seen' = seen \ {r}
  /\ forgot' = forgot \cup {r}
  /\ UNCHANGED << identity, cached, call, attempt, inbox, executed, toggled >>

ControlNext ==
  \/ BootstrapIdentity \/ Pause
  \/ StartWorker \/ StartRound \/ WorkerDies
  \/ Send \/ GiveUpWaiting \/ EndRound
  \/ \E m \in inbox : Handle(m) \/ LoseRequest(m)
  \/ \E r \in Replicas : RestartReplica(r)

ControlSpec == ControlInit /\ [][ControlNext]_controlVars

-----------------------------------------------------------------------------
(* A running worker holds the stored secret, however often bootstrap runs. *)
(* A replica that keeps its memory executes a call once, however often it  *)
(* is repeated; a retry that is refused was executed before, although the  *)
(* worker is told it was not.                                              *)
ControlKept ==
  /\ ControlTypeOK
  /\ cached # 0 => cached = identity.secret
  /\ \A r \in Replicas \ forgot : executed[r] <= 1
  /\ call = "refused" /\ ~ toggled => \E r \in Replicas : executed[r] > 0
=============================================================================
