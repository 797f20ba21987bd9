------------------------- MODULE WooviChargesProofs -------------------------
(***************************************************************************)
(* What holds of the Woovi connector for any number of workspaces,         *)
(* accounts, connections and attempts: charges are made at home, a refused *)
(* create leaves none, and the connector implements ProviderPort.  The     *)
(* invariant has a part for the control plane and one for each attempt.    *)
(***************************************************************************)
EXTENDS WooviCharges, TLAPS

\* A credential is stored for an environment only after its API accepted it, and a
\* request never writes over a row.
ConnectionInv(r) ==
    /\ request[r] # None =>
          /\ connection[r] = None
          /\ request[r].step = "save" => Home[request[r].account] = request[r].environment
    /\ connection[r] # None => Home[connection[r].account] = connection[r].environment

\* The row of a connection listed for a payment.
Serves(r, w, e) ==
    connection[r] # None /\ connection[r].workspace = w /\ connection[r].environment = e

\* Where the attempt is sent.
JobInv(a) ==
    /\ job[a] = None => call[a] = "idle" /\ post[a] = "unsent" /\ told[a] = "nothing"
    /\ job[a] # None =>
          \A r \in job[a].candidates : Serves(r, job[a].workspace, job[a].environment)
    /\ post[a] # "unsent" => job[a] # None /\ job[a].via \in job[a].candidates

\* What is on its way, and what has been told.
CallInv(a) ==
    /\ call[a] = "routing" => post[a] = "unsent" /\ told[a] = "nothing"
    /\ call[a] \in {"idle", "routing"} => reply[a] = None
    /\ call[a] = "creating" => post[a] # "unsent" /\ told[a] = "nothing"
    /\ call[a] = "looking" => told[a] = "unknown"
    /\ post[a] # "over" => held[a] = "nothing"
    /\ reply[a] = "complete" => held[a] # "nothing"
    /\ call[a] = "creating" /\ reply[a] \in {"unauthorized", "not_found"} =>
          post[a] = "over" /\ held[a] = "nothing"
    /\ told[a] = "failed_terminal" =>
          call[a] = "idle" /\ post[a] # "travelling" /\ held[a] = "nothing"
    /\ told[a] \in {"succeeded", "created"} => held[a] # "nothing"

CInv ==
    /\ TypeOK
    /\ \A r \in Requests : ConnectionInv(r)
    /\ \A a \in Attempts : JobInv(a)
    /\ \A a \in Attempts : CallInv(a)

AttemptUnchanged(a) ==
    /\ job'[a] = job[a]     /\ call'[a] = call[a] /\ reply'[a] = reply[a]
    /\ post'[a] = post[a]   /\ held'[a] = held[a] /\ told'[a] = told[a]

-----------------------------------------------------------------------------
(* The control plane.                                                       *)

LEMMA InitCharges == Init => CInv
<1> SUFFICES ASSUME Init
             PROVE  CInv
  OBVIOUS
<1>1. TypeOK
  BY DEF Init, ConnectionsInit, TypeOK, ConnectionsTypeOK, Outcomes
<1>2. \A r \in Requests : ConnectionInv(r)
  BY DEF Init, ConnectionsInit, ConnectionInv
<1>3. \A a \in Attempts : JobInv(a) /\ CallInv(a)
  BY NoJobAssumption DEF Init, JobInv, CallInv, Replies
<1> QED
  BY <1>1, <1>2, <1>3 DEF CInv

\* A step about request r: rows are kept, and the others are not touched.
LEMMA RequestStepKeeps ==
    ASSUME CInv, NEW r \in Requests, UNCHANGED chargeVars, ConnectionsTypeOK',
           \A q \in Requests \ {r} :
               request'[q] = request[q] /\ connection'[q] = connection[q],
           ConnectionInv(r)',
           \A w, e : Serves(r, w, e) => Serves(r, w, e)'
    PROVE  CInv'
<1>1. TypeOK'
  BY DEF CInv, TypeOK, chargeVars
<1>2. ASSUME NEW q \in Requests
      PROVE  ConnectionInv(q)'
  BY DEF CInv, ConnectionInv
<1>3. ASSUME NEW q \in Requests, NEW w, NEW e, Serves(q, w, e)
      PROVE  Serves(q, w, e)'
  BY <1>3 DEF Serves
<1>4. ASSUME NEW a \in Attempts
      PROVE  JobInv(a)'
  <2>1. job[a] # None => job[a].candidates \subseteq Requests
    BY DEF CInv, TypeOK, Jobs
  <2>2. JobInv(a) /\ UNCHANGED <<job, call, post, told>>
    BY DEF CInv, chargeVars
  <2>3. ASSUME job[a] # None, NEW q \in job[a].candidates
        PROVE  Serves(q, job[a].workspace, job[a].environment)'
    <3>1. PICK w : w = job[a].workspace
      OBVIOUS
    <3>2. PICK e : e = job[a].environment
      OBVIOUS
    <3>3. q \in Requests /\ Serves(q, w, e)
      BY <2>1, <2>2, <2>3, <3>1, <3>2 DEF JobInv
    <3>4. Serves(q, w, e)'
      BY <1>3, <3>3
    <3> QED
      BY <2>2, <3>1, <3>2, <3>4
  <2> QED
    BY <2>2, <2>3 DEF JobInv
<1>5. ASSUME NEW a \in Attempts
      PROVE  CallInv(a)'
  BY DEF CInv, CallInv, chargeVars
<1> QED
  BY <1>1, <1>2, <1>4, <1>5 DEF CInv

LEMMA RevokeCredentialKeeps ==
    ASSUME CInv, NEW c \in Accounts, RevokeCredential(c), UNCHANGED chargeVars
    PROVE  CInv'
<1>1. UNCHANGED <<request, connection>> /\ usable' \subseteq Accounts
  BY DEF RevokeCredential, CInv, TypeOK, ConnectionsTypeOK
<1>2. TypeOK'
  BY <1>1 DEF CInv, TypeOK, ConnectionsTypeOK, chargeVars
<1>3. \A r \in Requests : ConnectionInv(r)'
  BY <1>1 DEF CInv, ConnectionInv
<1>4. \A a \in Attempts : JobInv(a)' /\ CallInv(a)'
  BY <1>1 DEF CInv, JobInv, CallInv, Serves, chargeVars
<1> QED
  BY <1>2, <1>3, <1>4 DEF CInv

LEMMA ReceiveConnectKeeps ==
    ASSUME CInv, NEW r \in Requests, NEW w \in Workspaces, NEW e \in Environments,
           NEW c \in Accounts, ReceiveConnect(r, w, e, c), UNCHANGED chargeVars
    PROVE  CInv'
<1>1. PICK q : q = [workspace |-> w, environment |-> e, account |-> c, step |-> "validate"]
  OBVIOUS
<1>2. q \in ConnectRequests /\ q.step = "validate"
  BY <1>1 DEF ConnectRequests
<1>3. /\ request' = [request EXCEPT ![r] = q]
      /\ connection[r] = None
      /\ UNCHANGED <<usable, connection>>
  BY <1>1 DEF ReceiveConnect
<1>4. ConnectionsTypeOK'
  BY <1>2, <1>3 DEF CInv, TypeOK, ConnectionsTypeOK
<1>5. ConnectionInv(r)'
  BY <1>2, <1>3 DEF CInv, TypeOK, ConnectionsTypeOK, ConnectionInv
<1>6. \A x \in Requests \ {r} : request'[x] = request[x] /\ connection'[x] = connection[x]
  BY <1>3 DEF CInv, TypeOK, ConnectionsTypeOK
<1>7. \A x, y : Serves(r, x, y) => Serves(r, x, y)'
  BY <1>3 DEF Serves
<1> QED
  BY <1>4, <1>5, <1>6, <1>7, RequestStepKeeps

LEMMA ValidateCredentialsKeeps ==
    ASSUME CInv, NEW r \in Requests, ValidateCredentials(r), UNCHANGED chargeVars
    PROVE  CInv'
<1>1. request[r] # None /\ request[r] \in ConnectRequests /\ connection[r] = None
  BY DEF ValidateCredentials, CInv, TypeOK, ConnectionsTypeOK, ConnectionInv
<1>2. PICK q : q = [request[r] EXCEPT !.step = "save"]
  OBVIOUS
<1>3. /\ q \in ConnectRequests
      /\ q.account = request[r].account /\ q.environment = request[r].environment
  BY <1>1, <1>2 DEF ConnectRequests
<1>4. /\ \/ request' = [request EXCEPT ![r] = None]
         \/ /\ request' = [request EXCEPT ![r] = q]
            /\ Accepts(request[r].environment, request[r].account)
      /\ UNCHANGED <<usable, connection>>
  BY <1>2 DEF ValidateCredentials, Validated, CompanyAnswers, CInv, TypeOK, ConnectionsTypeOK
<1>5. ConnectionsTypeOK'
  BY <1>3, <1>4 DEF CInv, TypeOK, ConnectionsTypeOK
<1>6. ConnectionInv(r)'
  BY <1>1, <1>3, <1>4 DEF CInv, TypeOK, ConnectionsTypeOK, ConnectionInv, Accepts
<1>7. \A x \in Requests \ {r} : request'[x] = request[x] /\ connection'[x] = connection[x]
  BY <1>4 DEF CInv, TypeOK, ConnectionsTypeOK
<1>8. \A x, y : Serves(r, x, y) => Serves(r, x, y)'
  BY <1>4 DEF Serves
<1> QED
  BY <1>5, <1>6, <1>7, <1>8, RequestStepKeeps

LEMMA SaveConnectionKeeps ==
    ASSUME CInv, NEW r \in Requests, SaveConnection(r), UNCHANGED chargeVars
    PROVE  CInv'
<1>1. /\ request[r] # None /\ request[r].step = "save" /\ request[r] \in ConnectRequests
      /\ connection[r] = None /\ Home[request[r].account] = request[r].environment
  BY DEF SaveConnection, CInv, TypeOK, ConnectionsTypeOK, ConnectionInv
<1>2. PICK q : q = Row(request[r])
  OBVIOUS
<1>3. q \in Rows /\ q.account = request[r].account /\ q.environment = request[r].environment
  BY <1>1, <1>2 DEF ConnectRequests, Rows, Row
<1>4. /\ request' = [request EXCEPT ![r] = None]
      /\ connection' = connection \/ connection' = [connection EXCEPT ![r] = q]
      /\ UNCHANGED usable
  BY <1>2 DEF SaveConnection
<1>5. ConnectionsTypeOK'
  BY <1>3, <1>4 DEF CInv, TypeOK, ConnectionsTypeOK
<1>6. ConnectionInv(r)'
  BY <1>1, <1>3, <1>4 DEF CInv, TypeOK, ConnectionsTypeOK, ConnectionInv
<1>7. \A x \in Requests \ {r} : request'[x] = request[x] /\ connection'[x] = connection[x]
  BY <1>4 DEF CInv, TypeOK, ConnectionsTypeOK
<1>8. \A x, y : Serves(r, x, y) => Serves(r, x, y)'
  BY <1>1 DEF Serves
<1> QED
  BY <1>5, <1>6, <1>7, <1>8, RequestStepKeeps

LEMMA DisableKeeps ==
    ASSUME CInv, NEW r \in Requests, Disable(r), UNCHANGED chargeVars
    PROVE  CInv'
<1>1. connection[r] # None /\ connection[r] \in Rows /\ ConnectionInv(r)
  BY DEF Disable, CInv, TypeOK, ConnectionsTypeOK
<1>2. PICK q : q = [connection[r] EXCEPT !.enabled = FALSE]
  OBVIOUS
<1>3. /\ q \in Rows
      /\ q.account = connection[r].account /\ q.environment = connection[r].environment
      /\ q.workspace = connection[r].workspace
  BY <1>1, <1>2 DEF Rows
<1>4. connection' = [connection EXCEPT ![r] = q] /\ UNCHANGED <<usable, request>>
  BY <1>2 DEF Disable, CInv, TypeOK, ConnectionsTypeOK
<1>5. connection'[r] = q /\ q # None
  BY <1>3, <1>4, NoConnectionAssumption DEF CInv, TypeOK, ConnectionsTypeOK
<1>6. ConnectionsTypeOK'
  BY <1>3, <1>4 DEF CInv, TypeOK, ConnectionsTypeOK
<1>7. ConnectionInv(r)'
  BY <1>1, <1>3, <1>4, <1>5 DEF ConnectionInv
<1>8. \A x \in Requests \ {r} : request'[x] = request[x] /\ connection'[x] = connection[x]
  BY <1>4 DEF CInv, TypeOK, ConnectionsTypeOK
<1>9. \A x, y : Serves(r, x, y) => Serves(r, x, y)'
  BY <1>3, <1>5 DEF Serves
<1> QED
  BY <1>6, <1>7, <1>8, <1>9, RequestStepKeeps

-----------------------------------------------------------------------------
(* The calls.                                                               *)

\* A step about attempt a does not touch the others.
LEMMA AttemptStepKeeps ==
    ASSUME CInv, NEW a \in Attempts, UNCHANGED connectionVars, TypeOK',
           \A b \in Attempts \ {a} : AttemptUnchanged(b),
           JobInv(a)', CallInv(a)'
    PROVE  CInv'
<1>1. \A r \in Requests : ConnectionInv(r)'
  BY DEF CInv, ConnectionInv, connectionVars
<1>2. ASSUME NEW b \in Attempts \ {a}
      PROVE  JobInv(b)' /\ CallInv(b)'
  BY DEF CInv, JobInv, CallInv, AttemptUnchanged, Serves, connectionVars
<1> QED
  BY <1>1, <1>2 DEF CInv

LEMMA ListConnectionsKeeps ==
    ASSUME CInv, NEW a \in Attempts, NEW w \in Workspaces, NEW e \in Environments,
           ListConnections(a, w, e)
    PROVE  CInv'
<1>1. PICK j : j = [workspace |-> w, environment |-> e, candidates |-> Routable(w, e),
                    via |-> None]
  OBVIOUS
<1>2. /\ j \in Jobs /\ j # None
      /\ j.workspace = w /\ j.environment = e /\ j.candidates = Routable(w, e)
  BY <1>1, NoJobAssumption DEF Jobs, Routable, Listed
<1>3. /\ job' = [job EXCEPT ![a] = j] /\ call' = [call EXCEPT ![a] = "routing"]
      /\ call[a] = "idle" /\ job[a] = None
      /\ UNCHANGED <<connectionVars, reply, post, held, told>>
  BY <1>1 DEF ListConnections
<1>4. TypeOK'
  BY <1>2, <1>3 DEF CInv, TypeOK, ConnectionsTypeOK, connectionVars
<1>5. job'[a] = j /\ call'[a] = "routing" /\ JobInv(a) /\ CallInv(a)
  BY <1>3 DEF CInv, TypeOK
<1>6. \A b \in Attempts \ {a} : AttemptUnchanged(b)
  BY <1>3 DEF CInv, TypeOK, AttemptUnchanged
<1>7. \A r \in Routable(w, e) : Serves(r, w, e)'
  BY <1>3 DEF Routable, Listed, Serves, connectionVars
<1>8. JobInv(a)'
  BY <1>2, <1>3, <1>5, <1>7 DEF JobInv
<1>9. CallInv(a)'
  BY <1>3, <1>5 DEF JobInv, CallInv
<1> QED
  BY <1>3, <1>4, <1>6, <1>8, <1>9, AttemptStepKeeps

\* The selection of a connection for the attempt.
LEMMA ViaFacts ==
    ASSUME CInv, NEW a \in Attempts, call[a] = "routing",
           \E r \in job[a].candidates : job' = [job EXCEPT ![a].via = r],
           UNCHANGED connectionVars
    PROVE  /\ job' \in [Attempts -> Jobs \cup {None}]
           /\ job'[a] # None /\ job'[a].via \in job'[a].candidates
           /\ \A r \in job'[a].candidates :
                 Serves(r, job[a].workspace, job[a].environment)'
           /\ \A b \in Attempts \ {a} : job'[b] = job[b]
<1>1. job[a] # None /\ job[a] \in Jobs /\ JobInv(a)
  BY DEF CInv, TypeOK, JobInv
<1>2. PICK r \in job[a].candidates : job' = [job EXCEPT ![a].via = r]
  OBVIOUS
<1>3. PICK j : j = [job[a] EXCEPT !.via = r]
  OBVIOUS
<1>4. /\ j \in Jobs /\ j.via = r
      /\ j.candidates = job[a].candidates /\ j.workspace = job[a].workspace
      /\ j.environment = job[a].environment
  BY <1>1, <1>3 DEF Jobs
<1>5. job' = [job EXCEPT ![a] = j]
  BY <1>2, <1>3 DEF CInv, TypeOK
<1>6. job'[a] = j /\ j # None /\ \A b \in Attempts \ {a} : job'[b] = job[b]
  BY <1>4, <1>5, NoJobAssumption DEF CInv, TypeOK
<1>7. job' \in [Attempts -> Jobs \cup {None}]
  BY <1>4, <1>5 DEF CInv, TypeOK
<1>8. \A q \in j.candidates : Serves(q, j.workspace, j.environment)
  BY <1>1, <1>4 DEF JobInv
<1>9. \A q \in job'[a].candidates : Serves(q, job[a].workspace, job[a].environment)'
  BY <1>6, <1>8 DEF Serves, connectionVars
<1> QED
  BY <1>2, <1>4, <1>6, <1>7, <1>9

LEMMA SendChargeKeeps ==
    ASSUME CInv, NEW a \in Attempts, SendCharge(a)
    PROVE  CInv'
<1>1. /\ job' \in [Attempts -> Jobs \cup {None}]
      /\ job'[a] # None /\ job'[a].via \in job'[a].candidates
      /\ \A r \in job'[a].candidates :
            Serves(r, job[a].workspace, job[a].environment)'
      /\ \A b \in Attempts \ {a} : job'[b] = job[b]
  BY ViaFacts DEF SendCharge, connectionVars
<1>2. /\ call[a] = "routing"
      /\ call' = [call EXCEPT ![a] = "creating"]
      /\ post' = [post EXCEPT ![a] = "travelling"]
      /\ UNCHANGED <<connectionVars, reply, held, told>>
  BY DEF SendCharge
<1>3. TypeOK'
  BY <1>1, <1>2 DEF CInv, TypeOK, ConnectionsTypeOK, connectionVars
<1>4. \A b \in Attempts \ {a} : AttemptUnchanged(b)
  BY <1>1, <1>2 DEF CInv, TypeOK, AttemptUnchanged
<1>5. call'[a] = "creating" /\ post'[a] = "travelling" /\ CallInv(a)
  BY <1>2 DEF CInv, TypeOK
<1>6. JobInv(a)'
  BY <1>1, <1>5 DEF JobInv
<1>7. CallInv(a)'
  BY <1>2, <1>5, NoJobAssumption DEF CallInv, Replies
<1> QED
  BY <1>2, <1>3, <1>4, <1>6, <1>7, AttemptStepKeeps

LEMMA CannotBuildKeeps ==
    ASSUME CInv, NEW a \in Attempts, CannotBuild(a)
    PROVE  CInv'
<1>1. /\ job' \in [Attempts -> Jobs \cup {None}]
      /\ job'[a] # None /\ job'[a].via \in job'[a].candidates
      /\ \A r \in job'[a].candidates :
            Serves(r, job[a].workspace, job[a].environment)'
      /\ \A b \in Attempts \ {a} : job'[b] = job[b]
  BY ViaFacts DEF CannotBuild, connectionVars
<1>2. /\ call[a] = "routing" /\ Return(a, "failed_terminal")
      /\ UNCHANGED <<connectionVars, post, held>>
  BY DEF CannotBuild
<1>3. TypeOK'
  BY <1>1, <1>2 DEF CInv, TypeOK, ConnectionsTypeOK, connectionVars, Return, Outcomes
<1>4. \A b \in Attempts \ {a} : AttemptUnchanged(b)
  BY <1>1, <1>2 DEF CInv, TypeOK, AttemptUnchanged, Return
<1>5. /\ call'[a] = "idle" /\ reply'[a] = None /\ told'[a] = "failed_terminal"
      /\ post'[a] = post[a] /\ held'[a] = held[a] /\ CallInv(a)
  BY <1>2 DEF CInv, TypeOK, Return
<1>6. JobInv(a)'
  BY <1>1, <1>5 DEF JobInv
<1>7. CallInv(a)'
  BY <1>2, <1>5, NoJobAssumption DEF CallInv, Replies
<1> QED
  BY <1>2, <1>3, <1>4, <1>6, <1>7, AttemptStepKeeps

\* A call may return what the charge at Woovi bears out.
LEMMA ReturnKeeps ==
    ASSUME CInv, NEW a \in Attempts, NEW outcome \in Outcomes,
           call[a] # "idle" \/ told[a] = "unknown", Return(a, outcome),
           UNCHANGED <<connectionVars, job, post, held>>,
           outcome = "failed_terminal" => post[a] # "travelling" /\ held[a] = "nothing",
           outcome \in {"succeeded", "created"} => held[a] # "nothing"
    PROVE  CInv'
<1>1. TypeOK'
  BY DEF CInv, TypeOK, ConnectionsTypeOK, connectionVars, Return
<1>2. \A b \in Attempts \ {a} : AttemptUnchanged(b)
  BY DEF CInv, TypeOK, AttemptUnchanged, Return
<1>3. /\ call'[a] = "idle" /\ reply'[a] = None /\ told'[a] = outcome
      /\ JobInv(a) /\ CallInv(a)
  BY DEF CInv, TypeOK, Return
<1>4. JobInv(a)'
  BY <1>3 DEF JobInv, Serves, connectionVars
<1>5. CallInv(a)'
  BY <1>3, NoJobAssumption DEF CallInv, Replies
<1> QED
  BY <1>1, <1>2, <1>4, <1>5, AttemptStepKeeps

LEMMA CreateEndsKeeps ==
    ASSUME CInv, NEW a \in Attempts, CreateReturns(a) \/ CreateBreaksOff(a)
    PROVE  CInv'
<1>1. CASE CreateReturns(a)
  <2>1. /\ call[a] = "creating" /\ reply[a] \in Replies /\ CallInv(a)
        /\ Return(a, CreateOutcome(reply[a]))
        /\ UNCHANGED <<connectionVars, job, post, held>>
    BY <1>1 DEF CreateReturns, CInv, TypeOK
  <2>2. /\ CreateOutcome(reply[a]) = "failed_terminal" =>
              reply[a] \in {"unauthorized", "not_found"}
        /\ CreateOutcome(reply[a]) = "succeeded" => reply[a] = "complete"
        /\ CreateOutcome(reply[a]) # "created"
        /\ CreateOutcome(reply[a]) \in Outcomes
    BY <2>1 DEF CreateOutcome, Replies, Outcomes
  <2> QED
    BY <2>1, <2>2, ReturnKeeps DEF CallInv
<1>2. CASE CreateBreaksOff(a)
  BY <1>2, ReturnKeeps DEF CreateBreaksOff, Outcomes
<1> QED
  BY <1>1, <1>2

LEMMA LookUpKeeps ==
    ASSUME CInv, NEW a \in Attempts, LookUp(a)
    PROVE  CInv'
<1>1. /\ call[a] = "idle" /\ told[a] = "unknown"
      /\ call' = [call EXCEPT ![a] = "looking"]
      /\ UNCHANGED <<connectionVars, job, reply, post, held, told>>
  BY DEF LookUp
<1>2. TypeOK'
  BY <1>1 DEF CInv, TypeOK, ConnectionsTypeOK, connectionVars
<1>3. \A b \in Attempts \ {a} : AttemptUnchanged(b)
  BY <1>1 DEF CInv, TypeOK, AttemptUnchanged
<1>4. call'[a] = "looking" /\ JobInv(a) /\ CallInv(a)
  BY <1>1 DEF CInv, TypeOK
<1>5. JobInv(a)'
  BY <1>1, <1>4 DEF JobInv, Serves, connectionVars
<1>6. CallInv(a)'
  BY <1>1, <1>4 DEF CallInv
<1> QED
  BY <1>1, <1>2, <1>3, <1>5, <1>6, AttemptStepKeeps

LEMMA LookUpEndsKeeps ==
    ASSUME CInv, NEW a \in Attempts,
           LookUpReturns(a) \/ LookUpBreaksOff(a) \/ CannotLookUp(a)
    PROVE  CInv'
<1>1. CASE LookUpReturns(a)
  <2>1. /\ call[a] = "looking" /\ reply[a] \in Replies /\ CallInv(a)
        /\ Return(a, LookUpOutcome(reply[a]))
        /\ UNCHANGED <<connectionVars, job, post, held>>
    BY <1>1 DEF LookUpReturns, CInv, TypeOK
  <2>2. /\ LookUpOutcome(reply[a]) \in {"created", "terminal", "unknown"}
        /\ LookUpOutcome(reply[a]) = "created" => reply[a] = "complete"
    BY <2>1 DEF LookUpOutcome, Replies
  <2> QED
    BY <2>1, <2>2, ReturnKeeps DEF CallInv, Outcomes
<1>2. CASE LookUpBreaksOff(a)
  BY <1>2, ReturnKeeps DEF LookUpBreaksOff, Outcomes
<1>3. CASE CannotLookUp(a)
  BY <1>3, ReturnKeeps DEF CannotLookUp, Outcomes
<1> QED
  BY <1>1, <1>2, <1>3

-----------------------------------------------------------------------------
(* Woovi and the customer.                                                  *)

\* The POST of an attempt ends, in a charge or not.
LEMMA PostEndsKeeps ==
    ASSUME CInv, NEW a \in Attempts, post[a] = "travelling",
           NEW h \in {"nothing", "active"}, NEW r \in Replies \cup {None},
           post' = [post EXCEPT ![a] = "over"],
           held' = [held EXCEPT ![a] = h],
           reply' = [reply EXCEPT ![a] = r],
           UNCHANGED <<connectionVars, job, call, told>>,
           r # reply[a] => /\ call[a] = "creating"
                           /\ r = "complete" => h = "active"
                           /\ r \in {"unauthorized", "not_found"} => h = "nothing"
    PROVE  CInv'
<1>1. TypeOK'
  BY DEF CInv, TypeOK, ConnectionsTypeOK, connectionVars
<1>2. \A b \in Attempts \ {a} : AttemptUnchanged(b)
  BY DEF CInv, TypeOK, AttemptUnchanged
<1>3. /\ post'[a] = "over" /\ held'[a] = h /\ reply'[a] = r
      /\ JobInv(a) /\ CallInv(a)
  BY DEF CInv, TypeOK
<1>4. JobInv(a)'
  BY <1>3 DEF JobInv, Serves, connectionVars
<1>5. CallInv(a)'
  BY <1>3 DEF CallInv
<1> QED
  BY <1>1, <1>2, <1>4, <1>5, AttemptStepKeeps

LEMMA ArriveKeeps ==
    ASSUME CInv, NEW a \in Attempts, Arrive(a)
    PROVE  CInv'
<1>1. PICK created \in BOOLEAN :
          /\ held' = [held EXCEPT ![a] = IF created THEN "active" ELSE "nothing"]
          /\ \E r \in IF created THEN {"complete", "no_pix", "no_identifier", "error"}
                                 ELSE {"unauthorized", "not_found", "error"} :
                reply' = IF call[a] = "creating" THEN [reply EXCEPT ![a] = r] ELSE reply
  BY DEF Arrive
<1>2. PICK r \in IF created THEN {"complete", "no_pix", "no_identifier", "error"}
                            ELSE {"unauthorized", "not_found", "error"} :
          reply' = IF call[a] = "creating" THEN [reply EXCEPT ![a] = r] ELSE reply
  BY <1>1
<1>3. PICK h : h = IF created THEN "active" ELSE "nothing"
  OBVIOUS
<1>4. PICK q : q = IF call[a] = "creating" THEN r ELSE reply[a]
  OBVIOUS
<1>5. /\ post[a] = "travelling" /\ post' = [post EXCEPT ![a] = "over"]
      /\ UNCHANGED <<connectionVars, job, call, told>>
  BY DEF Arrive
<1>6. /\ held' = [held EXCEPT ![a] = h] /\ h \in {"nothing", "active"}
      /\ reply' = [reply EXCEPT ![a] = q]
  BY <1>1, <1>2, <1>3, <1>4 DEF CInv, TypeOK
<1>7. /\ q \in Replies \cup {None}
      /\ q # reply[a] => /\ call[a] = "creating"
                         /\ q = "complete" => h = "active"
                         /\ q \in {"unauthorized", "not_found"} => h = "nothing"
  BY <1>2, <1>3, <1>4 DEF CInv, TypeOK, Replies
<1> QED
  BY <1>5, <1>6, <1>7, PostEndsKeeps

LEMMA LosePostKeeps ==
    ASSUME CInv, NEW a \in Attempts, LosePost(a)
    PROVE  CInv'
<1>1. held[a] = "nothing" /\ reply[a] \in Replies \cup {None}
  BY DEF LosePost, CInv, TypeOK, CallInv
<1>2. held' = [held EXCEPT ![a] = "nothing"] /\ reply' = [reply EXCEPT ![a] = reply[a]]
  BY <1>1 DEF LosePost, CInv, TypeOK
<1> QED
  BY <1>1, <1>2, PostEndsKeeps DEF LosePost

LEMMA AnswerLookUpKeeps ==
    ASSUME CInv, NEW a \in Attempts, AnswerLookUp(a)
    PROVE  CInv'
<1>1. PICK r \in Findable(a) \cup {"error"} : reply' = [reply EXCEPT ![a] = r]
  BY DEF AnswerLookUp
<1>2. r \in Replies /\ (r = "complete" => held[a] # "nothing")
  BY DEF Findable, Replies
<1>3. call[a] = "looking" /\ UNCHANGED <<connectionVars, job, call, post, held, told>>
  BY DEF AnswerLookUp
<1>4. TypeOK'
  BY <1>1, <1>2, <1>3 DEF CInv, TypeOK, ConnectionsTypeOK, connectionVars
<1>5. \A b \in Attempts \ {a} : AttemptUnchanged(b)
  BY <1>1, <1>3 DEF CInv, TypeOK, AttemptUnchanged
<1>6. reply'[a] = r /\ JobInv(a) /\ CallInv(a)
  BY <1>1 DEF CInv, TypeOK
<1>7. JobInv(a)'
  BY <1>3, <1>6 DEF JobInv, Serves, connectionVars
<1>8. CallInv(a)'
  BY <1>2, <1>3, <1>6 DEF CallInv
<1> QED
  BY <1>3, <1>4, <1>5, <1>7, <1>8, AttemptStepKeeps

\* A charge that exists expires or is paid.
LEMMA HeldChangeKeeps ==
    ASSUME CInv, NEW a \in Attempts, Expire(a) \/ CustomerPays(a)
    PROVE  CInv'
<1>1. PICK h \in {"expired", "completed"} : held' = [held EXCEPT ![a] = h]
  BY DEF Expire, CustomerPays
<1>2. held[a] = "active" /\ UNCHANGED <<connectionVars, job, call, reply, post, told>>
  BY DEF Expire, CustomerPays
<1>3. TypeOK'
  BY <1>1, <1>2 DEF CInv, TypeOK, ConnectionsTypeOK, connectionVars
<1>4. \A b \in Attempts \ {a} : AttemptUnchanged(b)
  BY <1>1, <1>2 DEF CInv, TypeOK, AttemptUnchanged
<1>5. held'[a] = h /\ JobInv(a) /\ CallInv(a)
  BY <1>1 DEF CInv, TypeOK
<1>6. JobInv(a)'
  BY <1>2, <1>5 DEF JobInv, Serves, connectionVars
<1>7. CallInv(a)'
  BY <1>1, <1>2, <1>5 DEF CallInv
<1> QED
  BY <1>2, <1>3, <1>4, <1>6, <1>7, AttemptStepKeeps

LEMMA NextKeeps ==
    ASSUME CInv, [Next]_vars
    PROVE  CInv'
<1>1. CASE UNCHANGED vars
  BY <1>1 DEF vars, connectionVars, chargeVars, CInv, TypeOK, ConnectionsTypeOK,
              ConnectionInv, JobInv, CallInv, Serves
<1>2. CASE ConnectionStep /\ UNCHANGED chargeVars
  BY <1>2, RevokeCredentialKeeps, ReceiveConnectKeeps, ValidateCredentialsKeeps,
     SaveConnectionKeeps, DisableKeeps
     DEF ConnectionStep
<1>3. ASSUME NEW a \in Attempts, ConnectorStep(a)
      PROVE  CInv'
  BY <1>3, ListConnectionsKeeps, SendChargeKeeps, CannotBuildKeeps, CreateEndsKeeps,
     LookUpKeeps, LookUpEndsKeeps
     DEF ConnectorStep
<1>4. ASSUME NEW a \in Attempts, ProviderStep(a)
      PROVE  CInv'
  BY <1>4, ArriveKeeps, LosePostKeeps, AnswerLookUpKeeps, HeldChangeKeeps DEF ProviderStep
<1> QED
  BY <1>1, <1>2, <1>3, <1>4 DEF Next

\* The connections, the calls and the charges agree at every moment.
THEOREM ChargesAgree == Spec => []CInv
<1>1. CInv /\ [Next]_vars => CInv'
  BY NextKeeps
<1> QED
  BY InitCharges, <1>1, PTL DEF Spec

\* The connector and the control plane keep their types.
THEOREM ChargesTyped == Spec => []TypeOK
<1>1. CInv => TypeOK
  BY DEF CInv
<1> QED
  BY ChargesAgree, <1>1, PTL

\* A charge is made in the environment of its payment and in an account that its own
\* workspace connected there (Connect, Router.Select, ConnectorFor).
THEOREM ChargesAtHome == Spec => []SentAtHome
<1>1. ASSUME CInv, NEW a \in Attempts, post[a] # "unsent"
      PROVE  /\ Connection(a).workspace = job[a].workspace
             /\ Connection(a).environment = job[a].environment
             /\ Home[Connection(a).account] = job[a].environment
  <2>1. job[a] # None /\ job[a] \in Jobs /\ job[a].via \in job[a].candidates
    BY <1>1 DEF CInv, TypeOK, JobInv
  <2>2. job[a].via \in Requests /\ Serves(job[a].via, job[a].workspace, job[a].environment)
    BY <1>1, <2>1 DEF CInv, JobInv, Jobs
  <2> QED
    BY <1>1, <2>2 DEF CInv, ConnectionInv, Serves, Connection
<1>2. CInv => SentAtHome
  BY <1>1 DEF SentAtHome
<1> QED
  BY ChargesAgree, <1>2, PTL

\* A create that is reported as failed for good leaves no charge
\* (classifyCreateStatus).
THEOREM RefusedCreateLeavesNone == Spec => []RefusedCreateIsEmpty
<1>1. CInv => RefusedCreateIsEmpty
  BY DEF CInv, CallInv, RefusedCreateIsEmpty
<1> QED
  BY ChargesAgree, <1>1, PTL

-----------------------------------------------------------------------------
(* The connector implements the port.                                       *)

\* What the port sees of an attempt stays.
PortUnchanged(a) == PortCharge(a)' = PortCharge(a) /\ PortTold(a)' = PortTold(a)

LEMMA PortStutters ==
    ASSUME \A a \in Attempts : PortUnchanged(a)
    PROVE  UNCHANGED Port!vars
BY DEF PortUnchanged, Port!vars

LEMMA UnseenStutters ==
    ASSUME UNCHANGED <<post, held, told>>
    PROVE  UNCHANGED Port!vars
<1>1. \A a \in Attempts : PortUnchanged(a)
  BY DEF PortUnchanged, PortCharge, PortTold
<1> QED
  BY <1>1, PortStutters

LEMMA ChargeMoves ==
    ASSUME NEW a \in Attempts, NEW c, PortCharge(a)' = c,
           \A b \in Attempts \ {a} : PortUnchanged(b)
    PROVE  [x \in Attempts |-> PortCharge(x)]'
              = [[x \in Attempts |-> PortCharge(x)] EXCEPT ![a] = c]
BY DEF PortUnchanged

LEMMA ToldMoves ==
    ASSUME NEW a \in Attempts, NEW t, PortTold(a)' = t,
           \A b \in Attempts \ {a} : PortUnchanged(b)
    PROVE  [x \in Attempts |-> PortTold(x)]'
              = [[x \in Attempts |-> PortTold(x)] EXCEPT ![a] = t]
BY DEF PortUnchanged

LEMMA InitIsPort == Init => Port!Init
<1> SUFFICES ASSUME Init
             PROVE  Port!Init
  OBVIOUS
<1>1. \A a \in Attempts : PortCharge(a) = "unsent"
  BY DEF Init, PortCharge
<1>2. \A a \in Attempts : PortTold(a) = "nothing"
  BY DEF Init, PortTold
<1> QED
  BY <1>1, <1>2 DEF Port!Init

LEMMA SendIsPort ==
    ASSUME CInv, NEW a \in Attempts, SendCharge(a)
    PROVE  Port!Next
<1>1. /\ post[a] = "unsent" /\ told[a] = "nothing"
      /\ post' = [post EXCEPT ![a] = "travelling"] /\ UNCHANGED <<held, told>>
  BY DEF SendCharge, CInv, CallInv
<1>2. \A b \in Attempts \ {a} : PortUnchanged(b)
  BY <1>1 DEF PortUnchanged, PortCharge, PortTold, CInv, TypeOK
<1>3. /\ PortCharge(a) = "unsent"
      /\ PortTold(a) = "nothing"
      /\ PortCharge(a)' = "inflight"
  <2>1. post'[a] = "travelling"
    BY <1>1 DEF CInv, TypeOK
  <2>2. PortCharge(a) = "unsent"
    BY <1>1 DEF PortCharge
  <2>3. PortTold(a) = "nothing"
    BY <1>1 DEF PortTold
  <2>4. PortCharge(a)' = "inflight"
    BY <2>1 DEF PortCharge
  <2> QED
    BY <2>2, <2>3, <2>4
<1>4. [x \in Attempts |-> PortCharge(x)]'
         = [[x \in Attempts |-> PortCharge(x)] EXCEPT ![a] = "inflight"]
  BY <1>2, <1>3, ChargeMoves
<1>5. [x \in Attempts |-> PortTold(x)]' = [x \in Attempts |-> PortTold(x)]
  BY <1>1 DEF PortTold
<1> QED
  BY <1>3, <1>4, <1>5 DEF Port!Next, Port!Send

LEMMA DecideIsPort ==
    ASSUME CInv, NEW a \in Attempts, Arrive(a) \/ LosePost(a)
    PROVE  Port!Next
<1>1. /\ post[a] = "travelling" /\ held[a] = "nothing"
      /\ post' = [post EXCEPT ![a] = "over"] /\ UNCHANGED told
  BY DEF Arrive, LosePost, CInv, CallInv
<1>2. PICK h \in {"nothing", "active"} : held' = [held EXCEPT ![a] = h]
  BY <1>1 DEF Arrive, LosePost, CInv, TypeOK
<1>3. \A b \in Attempts \ {a} : PortUnchanged(b)
  BY <1>1, <1>2 DEF PortUnchanged, PortCharge, PortTold, CInv, TypeOK
<1>4. PICK c \in {"none", "live"} : PortCharge(a)' = c
  <2>1. post'[a] = "over" /\ held'[a] = h
    BY <1>1, <1>2 DEF CInv, TypeOK
  <2>2. PortCharge(a)' \in {"none", "live"}
    BY <2>1 DEF PortCharge
  <2> QED
    BY <2>2
<1>5. PortCharge(a) = "inflight"
  BY <1>1 DEF PortCharge
<1>6. [x \in Attempts |-> PortCharge(x)]'
         = [[x \in Attempts |-> PortCharge(x)] EXCEPT ![a] = c]
  BY <1>3, <1>4, ChargeMoves
<1>7. [x \in Attempts |-> PortTold(x)]' = [x \in Attempts |-> PortTold(x)]
  BY <1>1 DEF PortTold
<1> QED
  BY <1>5, <1>6, <1>7 DEF Port!Next, Port!Decide

\* A call that returns tells no more than the charge bears out.
LEMMA ReturnIsPort ==
    ASSUME CInv, NEW a \in Attempts,
           NEW outcome \in {"succeeded", "created", "terminal", "failed_terminal", "unknown"},
           call[a] # "idle" \/ told[a] = "unknown", Return(a, outcome),
           UNCHANGED <<post, held>>,
           outcome \in {"succeeded", "created"} => held[a] # "nothing"
    PROVE  Port!Next
<1>1. told[a] \in {"nothing", "unknown"} /\ (held[a] # "nothing" => post[a] = "over")
  BY DEF CInv, TypeOK, CallInv
<1>2. told' = [told EXCEPT ![a] = outcome]
  BY DEF Return
<1>3. \A b \in Attempts \ {a} : PortUnchanged(b)
  BY <1>2 DEF PortUnchanged, PortCharge, PortTold, CInv, TypeOK
<1>4. PICK t \in {"succeeded", "failed_terminal", "unknown"} :
          /\ PortTold(a)' = t
          /\ t = "succeeded" => outcome \in {"succeeded", "created"}
  BY <1>2 DEF PortTold, CInv, TypeOK
<1>5. PortTold(a) \in {"nothing", "unknown"}
  BY <1>1 DEF PortTold
<1>6. t = "succeeded" => PortCharge(a) \in {"live", "paid"}
  BY <1>1, <1>4 DEF PortCharge
<1>7. t \in Port!True(a)
  BY <1>4, <1>6 DEF Port!True
<1>8. [x \in Attempts |-> PortTold(x)]'
         = [[x \in Attempts |-> PortTold(x)] EXCEPT ![a] = t]
  BY <1>3, <1>4, ToldMoves
<1>9. [x \in Attempts |-> PortCharge(x)]' = [x \in Attempts |-> PortCharge(x)]
  BY DEF PortCharge
<1> QED
  BY <1>5, <1>7, <1>8, <1>9 DEF Port!Next, Port!Tell

LEMMA CannotBuildIsPort ==
    ASSUME CInv, NEW a \in Attempts, CannotBuild(a)
    PROVE  Port!Next
<1>1. call[a] = "routing" /\ Return(a, "failed_terminal") /\ UNCHANGED <<post, held>>
  BY DEF CannotBuild
<1> QED
  BY <1>1, ReturnIsPort

LEMMA CreateEndsIsPort ==
    ASSUME CInv, NEW a \in Attempts, CreateReturns(a) \/ CreateBreaksOff(a)
    PROVE  Port!Next
<1>1. CASE CreateReturns(a)
  <2>1. /\ call[a] = "creating" /\ reply[a] \in Replies /\ CallInv(a)
        /\ Return(a, CreateOutcome(reply[a])) /\ UNCHANGED <<post, held>>
    BY <1>1 DEF CreateReturns, CInv, TypeOK
  <2>2. /\ CreateOutcome(reply[a]) \in {"succeeded", "failed_terminal", "unknown"}
        /\ CreateOutcome(reply[a]) = "succeeded" => reply[a] = "complete"
    BY <2>1 DEF CreateOutcome, Replies
  <2> QED
    BY <2>1, <2>2, ReturnIsPort DEF CallInv
<1>2. CASE CreateBreaksOff(a)
  <2>1. call[a] = "creating" /\ Return(a, "unknown") /\ UNCHANGED <<post, held>>
    BY <1>2 DEF CreateBreaksOff
  <2> QED
    BY <2>1, ReturnIsPort
<1> QED
  BY <1>1, <1>2

LEMMA LookUpEndsIsPort ==
    ASSUME CInv, NEW a \in Attempts,
           LookUpReturns(a) \/ LookUpBreaksOff(a) \/ CannotLookUp(a)
    PROVE  Port!Next
<1>1. CASE LookUpReturns(a)
  <2>1. /\ call[a] = "looking" /\ reply[a] \in Replies /\ CallInv(a)
        /\ Return(a, LookUpOutcome(reply[a])) /\ UNCHANGED <<post, held>>
    BY <1>1 DEF LookUpReturns, CInv, TypeOK
  <2>2. /\ LookUpOutcome(reply[a]) \in {"created", "terminal", "unknown"}
        /\ LookUpOutcome(reply[a]) = "created" => reply[a] = "complete"
    BY <2>1 DEF LookUpOutcome, Replies
  <2> QED
    BY <2>1, <2>2, ReturnIsPort DEF CallInv
<1>2. CASE LookUpBreaksOff(a)
  <2>1. call[a] = "looking" /\ Return(a, "unknown") /\ UNCHANGED <<post, held>>
    BY <1>2 DEF LookUpBreaksOff
  <2> QED
    BY <2>1, ReturnIsPort
<1>3. CASE CannotLookUp(a)
  <2>1. told[a] = "unknown" /\ Return(a, "terminal") /\ UNCHANGED <<post, held>>
    BY <1>3 DEF CannotLookUp
  <2> QED
    BY <2>1, ReturnIsPort
<1> QED
  BY <1>1, <1>2, <1>3

LEMMA ExpireStutters ==
    ASSUME CInv, NEW a \in Attempts, Expire(a)
    PROVE  UNCHANGED Port!vars
<1>1. /\ held[a] = "active" /\ post[a] = "over"
      /\ held' = [held EXCEPT ![a] = "expired"] /\ UNCHANGED <<post, told>>
  BY DEF Expire, CInv, TypeOK, CallInv
<1>2. \A b \in Attempts : PortUnchanged(b)
  BY <1>1 DEF PortUnchanged, PortCharge, PortTold, CInv, TypeOK
<1> QED
  BY <1>2, PortStutters

LEMMA CustomerPaysIsPort ==
    ASSUME CInv, NEW a \in Attempts, CustomerPays(a)
    PROVE  Port!Next
<1>1. /\ held[a] = "active" /\ post[a] = "over" /\ told[a] \in {"succeeded", "created"}
      /\ held' = [held EXCEPT ![a] = "completed"] /\ UNCHANGED <<post, told>>
  BY DEF CustomerPays, CInv, TypeOK, CallInv
<1>2. \A b \in Attempts \ {a} : PortUnchanged(b)
  BY <1>1 DEF PortUnchanged, PortCharge, PortTold, CInv, TypeOK
<1>3. PortCharge(a) = "live" /\ PortTold(a) = "succeeded" /\ PortCharge(a)' = "paid"
  BY <1>1 DEF PortCharge, PortTold, CInv, TypeOK
<1>4. [x \in Attempts |-> PortCharge(x)]'
         = [[x \in Attempts |-> PortCharge(x)] EXCEPT ![a] = "paid"]
  BY <1>2, <1>3, ChargeMoves
<1>5. [x \in Attempts |-> PortTold(x)]' = [x \in Attempts |-> PortTold(x)]
  BY <1>1 DEF PortTold
<1> QED
  BY <1>3, <1>4, <1>5 DEF Port!Next, Port!CustomerPays

LEMMA StepIsPort ==
    ASSUME CInv, [Next]_vars
    PROVE  [Port!Next]_(Port!vars)
<1>1. CASE UNCHANGED vars \/ (ConnectionStep /\ UNCHANGED chargeVars)
  BY <1>1, UnseenStutters DEF vars, chargeVars
<1>2. ASSUME NEW a \in Attempts, ConnectorStep(a)
      PROVE  [Port!Next]_(Port!vars)
  <2>1. CASE LookUp(a) \/ \E w \in Workspaces, e \in Environments : ListConnections(a, w, e)
    BY <2>1, UnseenStutters DEF LookUp, ListConnections
  <2> QED
    BY <1>2, <2>1, SendIsPort, CannotBuildIsPort, CreateEndsIsPort, LookUpEndsIsPort
       DEF ConnectorStep
<1>3. ASSUME NEW a \in Attempts, ProviderStep(a)
      PROVE  [Port!Next]_(Port!vars)
  <2>1. CASE AnswerLookUp(a)
    BY <2>1, UnseenStutters DEF AnswerLookUp
  <2> QED
    BY <1>3, <2>1, DecideIsPort, ExpireStutters, CustomerPaysIsPort DEF ProviderStep
<1> QED
  BY <1>1, <1>2, <1>3 DEF Next

\* Nothing the connector tells of an attempt claims more than is so (CreatePix,
\* Reconcile).
THEOREM PortKept == Spec => KeepsPort
<1>1. CInv /\ [Next]_vars => [Port!Next]_(Port!vars)
  BY StepIsPort
<1> QED
  BY InitIsPort, ChargesAgree, <1>1, PTL DEF Spec, KeepsPort, Port!Spec

=============================================================================
