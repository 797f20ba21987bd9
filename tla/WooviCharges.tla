---------------------------- MODULE WooviCharges ----------------------------
(***************************************************************************)
(* The Woovi connector (internal/provider/woovi): the charges made through *)
(* the connections of the control plane, and what CreatePix and Reconcile  *)
(* tell of them.  A POST may still be on its way when its caller has given *)
(* up, answers are lost or incomplete, a lookup may miss a charge, and the *)
(* credential may be revoked in between.  The attempt id is Woovi's        *)
(* correlationID, so there is at most one charge for an attempt.           *)
(***************************************************************************)
EXTENDS ProviderConnections

CONSTANT Attempts

VARIABLES
    job,      \* the payment's workspace and environment, the connections listed
              \* for it, and the one its attempt is sent through
    call,     \* the connector call under way
    reply,    \* the HTTP answer on its way back to it
    post,     \* the POST /api/v1/charge of the attempt
    held,     \* at Woovi: the charge with the attempt's correlationID
    told      \* the outcome reported last

chargeVars == <<job, call, reply, post, held, told>>
vars == <<connectionVars, chargeVars>>

Jobs ==
    [workspace : Workspaces, environment : Environments,
     candidates : SUBSET Requests, via : Requests \cup {None}]

\* HTTP answers as the connector tells them apart: a 2xx with all that is needed,
\* without a Pix code, without an identifier, or of an expired charge; 401 or 403;
\* 404; any other status.
Replies ==
    {"complete", "no_pix", "no_identifier", "expired", "unauthorized", "not_found",
     "error"}

ASSUME NoJobAssumption == None \notin Jobs \cup Replies

\* What CreatePix and then what Reconcile may say.
Outcomes ==
    {"nothing", "succeeded", "failed_terminal", "failed_safe", "unknown",
     "created", "terminal", "not_created"}

TypeOK ==
    /\ ConnectionsTypeOK
    /\ job \in [Attempts -> Jobs \cup {None}]
    /\ call \in [Attempts -> {"idle", "routing", "creating", "looking"}]
    /\ reply \in [Attempts -> Replies \cup {None}]
    /\ post \in [Attempts -> {"unsent", "travelling", "over"}]
    /\ held \in [Attempts -> {"nothing", "active", "expired", "completed"}]
    /\ told \in [Attempts -> Outcomes]

Init ==
    /\ ConnectionsInit
    /\ job = [a \in Attempts |-> None]
    /\ call = [a \in Attempts |-> "idle"]
    /\ reply = [a \in Attempts |-> None]
    /\ post = [a \in Attempts |-> "unsent"]
    /\ held = [a \in Attempts |-> "nothing"]
    /\ told = [a \in Attempts |-> "nothing"]

\* The credential is read again for each call.  No connection is ever deleted or moved
\* to another environment.
Connection(a) == connection[job[a].via]

Granted(a) == Accepts(Connection(a).environment, Connection(a).account)

\* A call returns what it has to tell.
Return(a, outcome) ==
    /\ call' = [call EXCEPT ![a] = "idle"]
    /\ reply' = [reply EXCEPT ![a] = None]
    /\ told' = [told EXCEPT ![a] = outcome]

-----------------------------------------------------------------------------
(* CreatePix.                                                               *)

\* The routing lists the connections once, before it selects and calls one of them.
ListConnections(a, w, e) ==
    /\ call[a] = "idle"
    /\ job[a] = None
    /\ job' = [job EXCEPT
          ![a] = [workspace |-> w, environment |-> e, candidates |-> Routable(w, e),
                  via |-> None]]
    /\ call' = [call EXCEPT ![a] = "routing"]
    /\ UNCHANGED <<connectionVars, reply, post, held, told>>

\* ConnectorFor and the POST.
SendCharge(a) ==
    /\ call[a] = "routing"
    /\ \E r \in job[a].candidates : job' = [job EXCEPT ![a].via = r]
    /\ call' = [call EXCEPT ![a] = "creating"]
    /\ post' = [post EXCEPT ![a] = "travelling"]
    /\ UNCHANGED <<connectionVars, reply, held, told>>

\* The request cannot be built: nothing is sent.
CannotBuild(a) ==
    /\ call[a] = "routing"
    /\ \E r \in job[a].candidates : job' = [job EXCEPT ![a].via = r]
    /\ Return(a, "failed_terminal")
    /\ UNCHANGED <<connectionVars, post, held>>

\* Slip: a status the code does not know is taken as a refusal.
CreateOutcomeSlip(r) ==
    CASE r = "complete" -> "succeeded"
      [] r \in {"unauthorized", "not_found", "error"} -> "failed_terminal"
      [] OTHER -> "unknown"

\* Only a refusal is an outcome without a charge; every other answer leaves it open.
CreateOutcome(r) ==
    CASE r = "complete" -> "succeeded"
      [] r \in {"unauthorized", "not_found"} -> "failed_terminal"
      [] OTHER -> "unknown"

CreateReturns(a) ==
    /\ call[a] = "creating"
    /\ reply[a] # None
    /\ Return(a, CreateOutcome(reply[a]))
    /\ UNCHANGED <<connectionVars, job, post, held>>

\* A timeout, a broken connection, a body that cannot be read.
CreateBreaksOff(a) ==
    /\ call[a] = "creating"
    /\ Return(a, "unknown")
    /\ UNCHANGED <<connectionVars, job, post, held>>

-----------------------------------------------------------------------------
(* Reconcile, which is called only for an unknown outcome.                  *)

LookUp(a) ==
    /\ call[a] = "idle"
    /\ told[a] = "unknown"
    /\ call' = [call EXCEPT ![a] = "looking"]
    /\ UNCHANGED <<connectionVars, job, reply, post, held, told>>

\* The request cannot be built: the attempt is given up without asking.
CannotLookUp(a) ==
    /\ call[a] = "idle"
    /\ told[a] = "unknown"
    /\ Return(a, "terminal")
    /\ UNCHANGED <<connectionVars, job, post, held>>

\* Slip: one negative lookup proves that no charge exists.
LookUpOutcomeSlip(r) ==
    CASE r = "complete" -> "created"
      [] r = "not_found" -> "not_created"
      [] r \in {"expired", "unauthorized"} -> "terminal"
      [] OTHER -> "unknown"

LookUpOutcome(r) ==
    CASE r = "complete" -> "created"
      [] r \in {"expired", "unauthorized"} -> "terminal"
      [] OTHER -> "unknown"

LookUpReturns(a) ==
    /\ call[a] = "looking"
    /\ reply[a] # None
    /\ Return(a, LookUpOutcome(reply[a]))
    /\ UNCHANGED <<connectionVars, job, post, held>>

LookUpBreaksOff(a) ==
    /\ call[a] = "looking"
    /\ Return(a, "unknown")
    /\ UNCHANGED <<connectionVars, job, post, held>>

-----------------------------------------------------------------------------
(* Woovi and the customer.                                                  *)

\* The POST arrives; an answer finds its caller, or nobody.
Arrive(a) ==
    /\ post[a] = "travelling"
    /\ \E created \in {c \in BOOLEAN : c => Granted(a)} :
          /\ held' = [held EXCEPT ![a] = IF created THEN "active" ELSE "nothing"]
          /\ \E r \in IF created THEN {"complete", "no_pix", "no_identifier", "error"}
                                 ELSE {"unauthorized", "not_found", "error"} :
                reply' = IF call[a] = "creating" THEN [reply EXCEPT ![a] = r] ELSE reply
    /\ post' = [post EXCEPT ![a] = "over"]
    /\ UNCHANGED <<connectionVars, job, call, told>>

\* The POST is lost on its way.
LosePost(a) ==
    /\ post[a] = "travelling"
    /\ post' = [post EXCEPT ![a] = "over"]
    /\ UNCHANGED <<connectionVars, job, call, reply, held, told>>

\* What a lookup may find.  It may miss a charge that exists already.
Findable(a) ==
    IF ~Granted(a)
        THEN {"unauthorized"}
        ELSE CASE held[a] = "nothing" -> {"not_found"}
               [] held[a] = "expired" -> {"expired", "no_identifier", "not_found"}
               [] OTHER -> {"complete", "no_pix", "no_identifier", "not_found"}

AnswerLookUp(a) ==
    /\ call[a] = "looking"
    /\ reply[a] = None
    /\ \E r \in Findable(a) \cup {"error"} : reply' = [reply EXCEPT ![a] = r]
    /\ UNCHANGED <<connectionVars, job, call, post, held, told>>

Expire(a) ==
    /\ held[a] = "active"
    /\ held' = [held EXCEPT ![a] = "expired"]
    /\ UNCHANGED <<connectionVars, job, call, reply, post, told>>

CustomerPays(a) ==
    /\ held[a] = "active"
    /\ told[a] \in {"succeeded", "created"}
    /\ held' = [held EXCEPT ![a] = "completed"]
    /\ UNCHANGED <<connectionVars, job, call, reply, post, told>>

-----------------------------------------------------------------------------

ConnectorStep(a) ==
    \/ \E w \in Workspaces, e \in Environments : ListConnections(a, w, e)
    \/ SendCharge(a) \/ CannotBuild(a) \/ CreateReturns(a) \/ CreateBreaksOff(a)
    \/ LookUp(a)     \/ CannotLookUp(a)
    \/ LookUpReturns(a) \/ LookUpBreaksOff(a)

ProviderStep(a) ==
    \/ Arrive(a) \/ LosePost(a) \/ AnswerLookUp(a) \/ Expire(a) \/ CustomerPays(a)

Next ==
    \/ ConnectionStep /\ UNCHANGED chargeVars
    \/ \E a \in Attempts : ConnectorStep(a) \/ ProviderStep(a)

Spec == Init /\ [][Next]_vars

-----------------------------------------------------------------------------
(* Properties.                                                              *)

\* A charge is made only in the environment of its payment and in an account that
\* the payment's own workspace connected there, however the control plane and the
\* routing interleave (Connect, Router.Select, ConnectorFor).
SentAtHome ==
    \A a \in Attempts :
        post[a] # "unsent" =>
            /\ Connection(a).workspace = job[a].workspace
            /\ Connection(a).environment = job[a].environment
            /\ Home[Connection(a).account] = job[a].environment

\* A create that is reported as failed for good leaves no charge at Woovi, and none
\* can still arrive (classifyCreateStatus).
RefusedCreateIsEmpty ==
    \A a \in Attempts :
        told[a] = "failed_terminal" => post[a] # "travelling" /\ held[a] = "nothing"

\* An expired charge stays "live": that it can no longer be paid is more than the
\* port knows.
PortCharge(a) ==
    IF post[a] # "over"
        THEN IF post[a] = "unsent" THEN "unsent" ELSE "inflight"
        ELSE CASE held[a] = "nothing"   -> "none"
               [] held[a] = "completed" -> "paid"
               [] OTHER                 -> "live"

PortTold(a) ==
    CASE told[a] = "created"     -> "succeeded"
      [] told[a] = "terminal"    -> "failed_terminal"
      [] told[a] = "not_created" -> "failed_safe"
      [] OTHER                   -> told[a]

Port ==
    INSTANCE ProviderPort WITH
        charge <- [a \in Attempts |-> PortCharge(a)],
        told   <- [a \in Attempts |-> PortTold(a)]

\* The connector keeps the contract the orchestration relies on: nothing it tells of
\* an attempt claims more than is so, whatever is still on its way (CreatePix,
\* Reconcile).
KeepsPort == Port!Spec

=============================================================================
