------------------------------ MODULE Sessions ------------------------------
(***************************************************************************)
(* Logging in, and what a session is worth later (api/api/auth.py and      *)
(* api/services/auth_service.py), for one user of an external provider.    *)
(*                                                                         *)
(* Sessions and login states live in the memory of one API process.  A     *)
(* request reads its session, awaits the database for the bindings of the  *)
(* user, and only then writes the session back with a new lifetime: two    *)
(* steps, with everything else in between.                                 *)
(*                                                                         *)
(* Left out: the local superuser, whose role needs no binding; what a role *)
(* may do on which route; the absolute lifetime of a session.              *)
(***************************************************************************)
EXTENDS Naturals, FiniteSets, FiniteSetsExt

CONSTANTS
  SessionIds,   \* session tokens that may be made
  Requests,     \* requests that may be under way at a time
  LoginStates,  \* states of browser logins that may be made
  NoSession     \* a request that is not under way

VARIABLES
  userRole,     \* the user's own binding, or "none"
  groupRoles,   \* the bindings of the user's groups
  principal,    \* whether the user has been recorded
  live,         \* the sessions in the store
  made,         \* the tokens that were ever issued
  login,        \* the browser logins
  device,       \* the device login
  request,      \* which session a request has read from the store
  served,       \* history: the role of the last request, until a binding changes
  refused,      \* history: the user was refused for want of a role
  entered,      \* history: how often a browser login let the user in
  ended         \* history: sessions logged out while no other request used them

bindingVars == << userRole, groupRoles >>
storeVars == << live, made >>
flowVars == << login, device >>
sessionHistory == << served, refused, entered, ended >>
sessionVars == << bindingVars, principal, storeVars, flowVars, request, sessionHistory >>

Roles == {"reader", "operator", "admin"}

SessionsTypeOK ==
  /\ userRole \in Roles \cup {"none"}
  /\ groupRoles \subseteq Roles
  /\ principal \in BOOLEAN
  /\ live \subseteq made
  /\ made \subseteq SessionIds
  /\ login \in [LoginStates -> {"unused", "pending", "spent"}]
  /\ device \in {"unused", "pending", "approved", "spent"}
  /\ request \in [Requests -> SessionIds \cup {NoSession}]
  /\ served \in Roles \cup {"none"}
  /\ refused \in BOOLEAN
  /\ entered \in [LoginStates -> 0 .. 2]
  /\ ended \subseteq SessionIds

SessionsInit ==
  /\ userRole = "none"
  /\ groupRoles = {}
  /\ principal = FALSE
  /\ live = {}
  /\ made = {}
  /\ login = [x \in LoginStates |-> "unused"]
  /\ device = "unused"
  /\ request = [q \in Requests |-> NoSession]
  /\ served = "none"
  /\ refused = FALSE
  /\ entered = [x \in LoginStates |-> 0]
  /\ ended = {}

(* highest_role *)
Rank(role) == CASE role = "reader" -> 1 [] role = "operator" -> 2 [] role = "admin" -> 3
Highest(roles) ==
  IF roles = {} THEN "none"
  ELSE CHOOSE role \in roles : \A other \in roles : Rank(role) >= Rank(other)

(* resolve_role_for_identity: the user's own binding decides alone.        *)
CurrentRole == IF userRole # "none" THEN userRole ELSE Highest(groupRoles)

-----------------------------------------------------------------------------
(* Logging in.                                                             *)

(* build_login_context, _persist_session.  A user without a role is        *)
(* refused, and recorded so that an admin can bind them.                   *)
EnterUnrecorded ==
  \/ /\ CurrentRole # "none"
     /\ \E s \in SessionIds \ made : live' = live \cup {s} /\ made' = made \cup {s}
     /\ principal' = TRUE
     /\ UNCHANGED refused
  \/ /\ CurrentRole = "none"
     /\ refused' = TRUE
     /\ UNCHANGED << principal, storeVars >>

Enter ==
  /\ principal' = TRUE
  /\ \/ /\ CurrentRole # "none"
        /\ \E s \in SessionIds \ made : live' = live \cup {s} /\ made' = made \cup {s}
        /\ UNCHANGED refused
     \/ /\ CurrentRole = "none"
        /\ refused' = TRUE
        /\ UNCHANGED storeVars

(* What a provider makes of a password or of an authorization code: an     *)
(* identity, or credentials that are not accepted.                         *)
ProviderAnswers == {"identity", "invalid"}

PasswordLogin ==
  /\ Enter
  /\ UNCHANGED << bindingVars, flowVars, request, served, entered, ended >>

OidcLogin(x) ==
  /\ login[x] = "unused"
  /\ login' = [login EXCEPT ![x] = "pending"]
  /\ UNCHANGED << bindingVars, principal, storeVars, device, request, sessionHistory >>

(* pop_state takes the state before the code is exchanged: a callback that *)
(* comes twice, or whose exchange fails, finds nothing the second time.    *)
KeptState(x) == login
PoppedState(x) == [login EXCEPT ![x] = "spent"]

OidcCallback(x) ==
  /\ login[x] = "pending"
  /\ login' = PoppedState(x)
  /\ \E answer \in ProviderAnswers :
       \/ /\ answer = "identity"
          /\ Enter
          /\ entered' = [entered EXCEPT ![x] = IF @ < 2 THEN @ + 1 ELSE @]
       \/ /\ answer = "invalid"
          /\ UNCHANGED << principal, storeVars, refused, entered >>
  /\ UNCHANGED << bindingVars, device, request, served, ended >>

(* The device login is kept by the provider, which spends the code.        *)
DeviceStart ==
  /\ device = "unused"
  /\ device' = "pending"
  /\ UNCHANGED << bindingVars, principal, storeVars, login, request, sessionHistory >>

DeviceDecided ==
  /\ device = "pending"
  /\ device' \in {"approved", "spent"}
  /\ UNCHANGED << bindingVars, principal, storeVars, login, request, sessionHistory >>

(* Polling a pending or an expired login changes nothing.                  *)
DevicePoll ==
  /\ device = "approved"
  /\ device' = "spent"
  /\ Enter
  /\ UNCHANGED << bindingVars, login, request, served, entered, ended >>

-----------------------------------------------------------------------------
(* Using a session: rehydrate_session_context.                             *)

Present(q, s) ==
  /\ request[q] = NoSession
  /\ s \in live
  /\ request' = [request EXCEPT ![q] = s]
  /\ UNCHANGED << bindingVars, principal, storeVars, flowVars, sessionHistory >>

Done(q) == request' = [request EXCEPT ![q] = NoSession]

(* The role comes from the bindings of now.  The session is written back,  *)
(* whether or not it is still there; /auth/refresh does the same twice.    *)
Serve(q) ==
  /\ request[q] # NoSession
  /\ CurrentRole # "none"
  /\ live' = live \cup {request[q]}
  /\ served' = CurrentRole
  /\ principal' = TRUE
  /\ Done(q)
  /\ UNCHANGED << bindingVars, made, flowVars, refused, entered, ended >>

(* Without a role the request is refused, a logout too.                    *)
RefuseRequest(q) ==
  /\ request[q] # NoSession
  /\ CurrentRole = "none"
  /\ principal' = TRUE
  /\ Done(q)
  /\ UNCHANGED << bindingVars, storeVars, flowVars, sessionHistory >>

Logout(q) ==
  LET s == request[q] IN
  /\ s # NoSession
  /\ CurrentRole # "none"
  /\ live' = live \ {s}
  /\ ended' = IF \E other \in Requests \ {q} : request[other] = s
              THEN ended ELSE ended \cup {s}
  /\ served' = CurrentRole
  /\ principal' = TRUE
  /\ Done(q)
  /\ UNCHANGED << bindingVars, made, flowVars, refused, entered >>

Expire(s) ==
  /\ s \in live
  /\ live' = live \ {s}
  /\ UNCHANGED << bindingVars, principal, made, flowVars, request, sessionHistory >>

(* The process dies, and its memory with it. *)
RestartApi ==
  /\ live' = {}
  /\ login' = [x \in LoginStates |-> IF login[x] = "pending" THEN "spent" ELSE login[x]]
  /\ request' = [q \in Requests |-> NoSession]
  /\ UNCHANGED << bindingVars, principal, made, device, sessionHistory >>

-----------------------------------------------------------------------------
(* Bindings, changed by an admin: create, update and delete.  A binding of *)
(* a user needs the recorded principal, and there is one at most.          *)

RebindUser ==
  /\ \/ userRole = "none" /\ principal /\ userRole' \in Roles
     \/ userRole # "none" /\ userRole' \in (Roles \cup {"none"}) \ {userRole}
  /\ served' = "none"
  /\ UNCHANGED << groupRoles, principal, storeVars, flowVars, request, refused, entered, ended >>

RebindGroups ==
  /\ groupRoles' \in SUBSET Roles \ {groupRoles}
  /\ served' = "none"
  /\ UNCHANGED << userRole, principal, storeVars, flowVars, request, refused, entered, ended >>

SessionsNext ==
  \/ PasswordLogin
  \/ \E x \in LoginStates : OidcLogin(x) \/ OidcCallback(x)
  \/ DeviceStart \/ DeviceDecided \/ DevicePoll
  \/ \E q \in Requests : \/ \E s \in SessionIds : Present(q, s)
                         \/ Serve(q) \/ RefuseRequest(q) \/ Logout(q)
  \/ \E s \in SessionIds : Expire(s)
  \/ RestartApi
  \/ RebindUser \/ RebindGroups

SessionsSpec == SessionsInit /\ [][SessionsNext]_sessionVars

-----------------------------------------------------------------------------
(* A change of bindings holds from the next request on, whatever role the  *)
(* session was made with; a user who was refused can be bound afterwards;  *)
(* a browser login lets its user in once; a session that was logged out    *)
(* stays out, unless another request had it in hand and writes it back.    *)
SessionsKept ==
  /\ SessionsTypeOK
  /\ served # "none" => served = CurrentRole
  /\ refused => principal
  /\ \A x \in LoginStates : entered[x] <= 1
  /\ ended \cap live = {}
=============================================================================
