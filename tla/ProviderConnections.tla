------------------------ MODULE ProviderConnections ------------------------
(***************************************************************************)
(* The control plane of the provider connections: a merchant connects an   *)
(* account it has at a provider (internal/providerconnections) and may     *)
(* disable the connection later.  The credential is tried at the provider  *)
(* before anything is stored, and it may be revoked there at any time      *)
(* afterwards without the API being told.                                  *)
(***************************************************************************)

CONSTANTS
    Workspaces,
    Environments,   \* test and live: the sandbox and the production API
    Accounts,       \* the credentials (Woovi: app_id) that exist
    Home,           \* the environment whose API knows the account
    Requests,       \* POST /v1/provider_connections; its id is that of its row
    None

ASSUME HomeAssumption == Home \in [Accounts -> Environments]

VARIABLES
    usable,        \* at the provider: the accounts whose credential it accepts
    request,       \* the executions of Connect
    connection     \* provider_connections and provider_credentials, one row each

connectionVars == <<usable, request, connection>>

ConnectRequests ==
    [workspace : Workspaces, environment : Environments, account : Accounts,
     step : {"validate", "save"}]

Rows ==
    [workspace : Workspaces, environment : Environments, account : Accounts,
     enabled : BOOLEAN]

ASSUME NoConnectionAssumption ==
    None \notin Requests \cup Accounts \cup ConnectRequests \cup Rows

ConnectionsTypeOK ==
    /\ usable \subseteq Accounts
    /\ request \in [Requests -> ConnectRequests \cup {None}]
    /\ connection \in [Requests -> Rows \cup {None}]

ConnectionsInit ==
    /\ usable = Accounts
    /\ request = [r \in Requests |-> None]
    /\ connection = [r \in Requests |-> None]

-----------------------------------------------------------------------------
(* The provider, as its API answers a credential.                           *)

Accepts(environment, account) == account \in usable /\ Home[account] = environment

\* GET /api/v1/company.  The API may be rate limited, down or out of reach.
CompanyAnswers(environment, account) ==
    {"unavailable", IF Accepts(environment, account) THEN "ok" ELSE "refused"}

RevokeCredential(a) ==
    /\ usable' = usable \ {a}
    /\ UNCHANGED <<request, connection>>

-----------------------------------------------------------------------------
(* Connect and Disable.                                                     *)

ReceiveConnect(r, w, e, a) ==
    /\ request[r] = None
    /\ connection[r] = None
    /\ request' = [request EXCEPT
          ![r] = [workspace |-> w, environment |-> e, account |-> a, step |-> "validate"]]
    /\ UNCHANGED <<usable, connection>>

Validated(answer) == answer = "ok"

\* ValidateCredentials, at the API of the requested environment.
ValidateCredentials(r) ==
    /\ request[r] # None
    /\ request[r].step = "validate"
    /\ \E answer \in CompanyAnswers(request[r].environment, request[r].account) :
          request' = IF Validated(answer) THEN [request EXCEPT ![r].step = "save"]
                                          ELSE [request EXCEPT ![r] = None]
    /\ UNCHANGED <<usable, connection>>

\* Slip: the credential is not stored with its connection.
RowSlip(req) ==
    [workspace |-> req.workspace, environment |-> req.environment, account |-> None,
     enabled |-> TRUE]

Row(req) ==
    [workspace |-> req.workspace, environment |-> req.environment,
     account |-> req.account, enabled |-> TRUE]

\* CreateProviderConnectionWithCredentials: one transaction for both rows, or none.
SaveConnection(r) ==
    /\ request[r] # None
    /\ request[r].step = "save"
    /\ connection' \in {connection, [connection EXCEPT ![r] = Row(request[r])]}
    /\ request' = [request EXCEPT ![r] = None]
    /\ UNCHANGED usable

\* DELETE: the row of the caller's workspace and environment; the credential stays.
Disable(r) ==
    /\ connection[r] # None
    /\ connection' = [connection EXCEPT ![r].enabled = FALSE]
    /\ UNCHANGED <<usable, request>>

ConnectionStep ==
    \/ \E a \in Accounts : RevokeCredential(a)
    \/ \E r \in Requests :
          \/ \E w \in Workspaces, e \in Environments, a \in Accounts :
                ReceiveConnect(r, w, e, a)
          \/ ValidateCredentials(r) \/ SaveConnection(r) \/ Disable(r)

-----------------------------------------------------------------------------

\* ListProviderConnections: every connection of the workspace, disabled ones as well.
Listed(w) == {r \in Requests : connection[r] # None /\ connection[r].workspace = w}

\* Slip: the environment is not looked at.
RoutableSlip(w, e) == {r \in Listed(w) : connection[r].enabled}

\* Those that Router.Select may leave in, as they were when they were listed; an open
\* circuit or an attempt made before may rule out more.
Routable(w, e) ==
    {r \in Listed(w) : connection[r].enabled /\ connection[r].environment = e}

=============================================================================
