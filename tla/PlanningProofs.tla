-------------------------- MODULE PlanningProofs --------------------------
(***************************************************************************)
(* Proofs that Planning keeps its safety properties for every catalogue,   *)
(* every configuration, every question, and whatever the collaborators     *)
(* answer.  IInv adds to the properties what holds on the way to them:     *)
(* what is left of the catalogue was callable at some moment of the        *)
(* request.  EndOK is what each ending of a step establishes.              *)
(***************************************************************************)
EXTENDS Planning, FiniteSetTheorems, TLAPS

Filling == {"fill", "planPreferred", "planPicked"}
Asking == {"route", "narrow", "gate", "pick", "planOrdinary"} \union Filling
Culprits == {"configuration", "permissions", "request", "decision", "router",
             "narrower", "gate", "picker", "filler", "planner", "service"}
Advisers == {"router", "gate", "filler"}
CallRecord == [op: Operations, args: Args]

Course ==
    /\ pc # "idle" => req \in Requests
    /\ pc \in Asking => req.kind = "plan"
    /\ pc = "catalog" => Callable(req.user) \subseteq since
    /\ pc \in Asking \union {"call"} => catalog \subseteq since
    /\ pc = "call" => call \in CallRecord
    /\ pc = "replied" => reply \in Reply

Outcome ==
    /\ PlanNeverWrites
    /\ OnlyUnderGrant
    /\ NoGuessIsCalled
    /\ NoTextIsInvented
    /\ ProposalsHaveAWorkspace
    /\ AdvisersNeverFailAPlan

IInv == TypeOK /\ Course /\ Outcome

\* What a reply, and a call of a service, must be for the request at hand.
ReplyOK(r) ==
    /\ r \in Reply
    /\ ({r.op} \ {None}) \union r.named \subseteq since
    /\ r.kind = "form" =>
         \A p \in Texts \intersect (ParamsOf[r.op] \union BodyOf[r.op]) :
            r.args[p] # None => Mentioned(req, r.args[p])
    /\ r.kind = "proposal" => req.workspace

CallOK(c) ==
    /\ c \in CallRecord
    /\ c.op \in since
    /\ req.kind = "plan" => c.op \in Safe /\ GuessedEnumArgs(req, c.op, c.args) = {}

\* What an ending leaves: an answer, a call, or another collaborator to ask.
EndOK ==
    /\ pc' \in Asking \union {"call", "replied"}
    /\ reply' \in Reply \union {None}
    /\ call' \in CallRecord \union {None}
    /\ failed' \subseteq Culprits
    /\ pc' = "replied" => ReplyOK(reply')
    /\ pc' = "replied" /\ reply'.kind = "error" => ~(failed' \subseteq Advisers)
    /\ pc' = "call" => CallOK(call')

(***************************************************************************)
(* Endings.                                                                *)
(***************************************************************************)

\* A reply with neither operation nor operations named is fit for any request.
LEMMA BareReply ==
    ASSUME NEW kind \in {"error", "none", "ask"}, NEW param \in Params \union {None}
    PROVE  ReplyOK([kind |-> kind, op |-> None, args |-> NoArgs, param |-> param, named |-> {}])
  BY DEF ReplyOK, Reply, ReplyKinds, NoArgs, Args

\* An error, whoever caused it, ends the request well.
LEMMA ErrorEnds ==
    ASSUME TypeOK, NEW culprit \in Culprits \ Advisers, Error(culprit)
    PROVE  EndOK /\ pc' = "replied"
  BY BareReply DEF TypeOK, EndOK, Error, Answer, ReplyOK, Culprits, CallRecord

\* So does a refusal,
LEMMA RefuseEnds ==
    ASSUME TypeOK, Refuse
    PROVE  EndOK /\ pc' = "replied"
  BY BareReply DEF TypeOK, EndOK, Refuse, Answer, ReplyOK, Culprits, CallRecord

\* a question back,
LEMMA AskEnds ==
    ASSUME TypeOK, NEW param \in Params \union {None}, AskWhich(param)
    PROVE  EndOK /\ pc' = "replied"
  BY BareReply DEF TypeOK, EndOK, AskWhich, Answer, ReplyOK, Culprits, CallRecord

\* and a list of operations that were callable.
LEMMA ListEnds ==
    ASSUME TypeOK, NEW ops \in SUBSET Operations, ops \subseteq since, ListCapabilities(ops)
    PROVE  EndOK /\ pc' = "replied"
  <1>1. ReplyOK([kind |-> "capabilities", op |-> None, args |-> NoArgs, param |-> None, named |-> ops])
    BY DEF ReplyOK, Reply, ReplyKinds, NoArgs, Args
  <1> QED BY <1>1 DEF TypeOK, EndOK, ListCapabilities, Answer, ReplyOK, Culprits, CallRecord

\* Dropping arguments leaves arguments, and those not dropped as they were.
LEMMA DroppingArgs ==
    ASSUME NEW args \in Args, NEW gone
    PROVE  /\ Dropping(args, gone) \in Args
           /\ \A p \in Params : Dropping(args, gone)[p] =
                IF p \in gone THEN None ELSE args[p]
  BY DEF Dropping, Args

\* A form opens without the text nobody said.
LEMMA FormEnds ==
    ASSUME TypeOK, NEW op \in Operations, op \in since, NEW args \in Args, FormFor(op, args)
    PROVE  EndOK /\ pc' = "replied"
  <1> DEFINE kept == Dropping(args, InventedInitials(req, op, args))
  <1> DEFINE form == [kind |-> "form", op |-> op, args |-> kept, param |-> None, named |-> {}]
  <1>1. kept \in Args
    BY DroppingArgs
  <1>2. \A p \in Texts \intersect (ParamsOf[op] \union BodyOf[op]) :
           kept[p] # None => Mentioned(req, kept[p])
    <2> SUFFICES ASSUME NEW p \in Texts \intersect (ParamsOf[op] \union BodyOf[op]), kept[p] # None
                 PROVE  Mentioned(req, kept[p])
      OBVIOUS
    <2>1. p \in Params
      BY ContractsAssumption
    <2>2. p \notin InventedInitials(req, op, args) /\ kept[p] = args[p]
      BY <2>1, DroppingArgs
    <2> QED BY <2>2 DEF InventedInitials
  <1> HIDE DEF kept
  <1>3. ReplyOK(form)
    BY <1>1, <1>2 DEF ReplyOK, Reply, ReplyKinds
  <1>4. pc' = "replied" /\ reply' = form /\ call' = call /\ failed' = failed
    BY DEF FormFor, Answer, kept
  <1>5. reply' \in Reply
    BY <1>3, <1>4 DEF ReplyOK
  <1>6. form.kind # "error"
    OBVIOUS
  <1> HIDE DEF form
  <1> QED BY <1>3, <1>4, <1>5, <1>6 DEF TypeOK, EndOK, Culprits, CallRecord

\* Asking the next collaborator promises nothing yet.
LEMMA GoToEnds ==
    ASSUME TypeOK, NEW stage \in Asking, pc' = stage, UNCHANGED <<reply, call>>,
           failed' \subseteq Culprits
    PROVE  EndOK
  BY DEF TypeOK, EndOK, Stages, Asking, Filling, CallRecord

\* A service is called for a confirmed call, or for a safe one without a guess in it.
LEMMA ServiceEnds ==
    ASSUME TypeOK, NEW op \in Operations, NEW args \in Args, op \in since,
           req.kind = "plan" => op \in Safe /\ GuessedEnumArgs(req, op, args) = {},
           CallService(op, args)
    PROVE  EndOK /\ pc' = "call"
  <1>1. CallOK([op |-> op, args |-> args])
    BY DEF CallOK, CallRecord
  <1> QED BY <1>1 DEF TypeOK, EndOK, CallService, CallOK, Stages, Culprits, CallRecord

(***************************************************************************)
(* Decisions: each of the orchestrator's ways of carrying one out ends     *)
(* well when the catalogue it is looked up in was callable.                *)
(***************************************************************************)

\* A call is carried out, asked about, or becomes a form.
LEMMA CallEnds ==
    ASSUME TypeOK, NEW scope \in SUBSET Operations, scope \subseteq since,
           NEW op \in Operations, NEW args \in Args, Call(scope, op, args)
    PROVE  EndOK /\ pc' \in {"replied", "call"}
  <1> DEFINE guesses == GuessedEnumArgs(req, op, args)
  <1>1. CASE op \notin scope /\ Error("decision")
    BY <1>1, ErrorEnds DEF Culprits, Advisers
  <1>2. CASE op \in scope \ Safe /\ FormFor(op, Dropping(args, guesses))
    BY <1>2, FormEnds, DroppingArgs
  <1>3. CASE \E p \in guesses : AskWhich(p)
    BY <1>3, AskEnds, ContractsAssumption DEF GuessedEnumArgs
  <1>4. CASE op \in scope \intersect Safe /\ guesses = {} /\ CallService(op, args)
    BY <1>4, ServiceEnds
  <1> QED BY <1>1, <1>2, <1>3, <1>4 DEF Call

\* A question back is asked of the person, or becomes a form.
LEMMA AsksEnds ==
    ASSUME TypeOK, NEW scope \in SUBSET Operations, scope \subseteq since,
           NEW op \in Operations \union {None}, Asks(scope, op)
    PROVE  EndOK /\ pc' = "replied"
  <1> PICK param \in Params, args \in Args, options \in BOOLEAN : Ask(scope, op, param, args, options)
    BY DEF Asks
  <1>1. CASE op \in scope /\ FormFor(op, args)
    BY <1>1, FormEnds
  <1>2. CASE AskWhich(param) \/ AskWhich(None)
    BY <1>2, AskEnds
  <1> QED BY <1>1, <1>2 DEF Ask

\* A proposal is made to somebody with a workspace.
LEMMA ProposeEnds ==
    ASSUME TypeOK, NEW scope \in SUBSET Operations, scope \subseteq since,
           NEW op \in Operations, NEW args \in Args, req.workspace, Propose(scope, op, args)
    PROVE  EndOK /\ pc' = "replied"
  <1> DEFINE proposal == [kind |-> "proposal", op |-> op, args |-> args, param |-> None, named |-> {}]
  <1>1. CASE op \notin scope
    BY <1>1, ErrorEnds DEF Propose, Culprits, Advisers
  <1>2. CASE op \in scope
    <2>1. ReplyOK(proposal)
      BY <1>2 DEF ReplyOK, Reply, ReplyKinds
    <2>2. pc' = "replied" /\ reply' = proposal /\ call' = call /\ failed' = failed
      BY <1>2 DEF Propose, Answer
    <2>3. proposal \in Reply
      BY <2>1 DEF ReplyOK
    <2>4. proposal.kind # "error"
      OBVIOUS
    <2> HIDE DEF proposal
    <2> QED BY <2>1, <2>2, <2>3, <2>4 DEF TypeOK, EndOK, Culprits, CallRecord
  <1> QED BY <1>1, <1>2

\* What can be done is what was callable.
LEMMA CapabilitiesEnds ==
    ASSUME TypeOK, catalog \subseteq since, Capabilities
    PROVE  EndOK /\ pc' = "replied"
  <1>1. PICK ops \in SUBSET catalog : ListCapabilities(ops)
    BY DEF Capabilities, OfService
  <1> QED BY <1>1, ListEnds DEF TypeOK

\* So a fill of an operation that was callable ends well whatever it decides.
LEMMA ResolveEnds ==
    ASSUME TypeOK, catalog \subseteq since, req \in Requests,
           NEW op \in Operations, op \in since, req.answers \in Args, ResolvePickedFill(op)
    PROVE  EndOK /\ pc' \in {"replied", "call"}
  <1>1. CASE Refuse
    BY <1>1, RefuseEnds
  <1>2. CASE Capabilities
    BY <1>2, CapabilitiesEnds
  <1>3. CASE \E args \in Args : Call({op}, op, args)
    BY <1>3, CallEnds
  <1>4. CASE Asks({op}, op)
    BY <1>4, AsksEnds
  <1>5. CASE req.workspace /\ \E args \in Args : Propose({op}, op, args)
    BY <1>5, ProposeEnds
  <1>6. CASE FormFor(op, req.answers)
    BY <1>6, FormEnds
  <1> QED BY <1>1, <1>2, <1>3, <1>4, <1>5, <1>6 DEF ResolvePickedFill

(***************************************************************************)
(* The inductive step.                                                     *)
(***************************************************************************)

\* A request is a question or a confirmed call.
LEMMA RequestTypes ==
    ASSUME NEW q \in Requests
    PROVE  /\ q.kind \in {"plan", "invoke"}
           /\ q.user \in Users
           /\ q.kind = "plan" => q.answers \in Args /\ q.preferred \in Operations \union {None}
           /\ q.kind = "invoke" => q.op \in Operations /\ q.args \in Args
           /\ q # None
  BY InputsAssumption, NoneAssumption DEF Request, PlanRequest, InvokeRequest

\* A step that answers, calls or asks well, over what was callable, keeps the invariant.
LEMMA Assemble ==
    ASSUME IInv, EndOK, UNCHANGED <<config, permissions, req, since>>, req \in Requests,
           catalog' \subseteq Operations, pc' # "replied" => catalog' \subseteq since,
           chosen' \in Operations \union {None},
           pc' \in Filling => chosen' \in catalog',
           pc' \in Asking => req.kind = "plan",
           service' \in {None, "accepted", "declined", "failed"}
    PROVE  IInv'
  <1>1. TypeOK'
    BY DEF IInv, TypeOK, EndOK, CallRecord, Culprits, Filling, Asking, Stages
  <1>2. Course'
    BY DEF IInv, TypeOK, Course, EndOK, CallOK, ReplyOK, Asking, Filling
  <1>3. (PlanNeverWrites /\ NoGuessIsCalled)'
    BY DEF EndOK, CallOK, PlanNeverWrites, NoGuessIsCalled, Calling, GuessedEnumArgs, Mentioned
  <1>4. (OnlyUnderGrant /\ ProposalsHaveAWorkspace)'
    BY DEF EndOK, CallOK, ReplyOK, OnlyUnderGrant, Calling, ProposalsHaveAWorkspace
  <1>5. (NoTextIsInvented /\ AdvisersNeverFailAPlan)'
    BY DEF EndOK, ReplyOK, NoTextIsInvented, AdvisersNeverFailAPlan, Mentioned, Advisers
  <1> QED BY <1>1, <1>2, <1>3, <1>4, <1>5 DEF IInv, Outcome

\* A request begins with what its user may call now.
LEMMA ArriveStep ==
    ASSUME IInv, NEW q \in Requests, Arrive(q)
    PROVE  IInv'
  <1>1. since' \subseteq Operations
    BY RequestTypes DEF Arrive, Callable, IInv, TypeOK
  <1>2. TypeOK'
    BY <1>1 DEF Arrive, IInv, TypeOK, Stages
  <1>3. Course'
    BY DEF Arrive, Course, Asking, Filling, Callable
  <1>4. Outcome'
    BY DEF Arrive, Outcome, PlanNeverWrites, OnlyUnderGrant, NoGuessIsCalled, NoTextIsInvented,
           ProposalsHaveAWorkspace, AdvisersNeverFailAPlan, Calling
  <1> QED BY <1>2, <1>3, <1>4 DEF IInv

\* What a plan and a confirmed call make of the catalogue read.
LEMMA StartEnds ==
    ASSUME IInv, pc = "catalog", NEW ops \in SUBSET Operations, ops \subseteq since, req \in Requests,
           \/ req.kind = "plan" /\ StartPlan(ops)
           \/ req.kind = "invoke" /\ StartInvoke(ops)
    PROVE  /\ EndOK
           /\ chosen' \in Operations \union {None}
           /\ pc' \in Filling => chosen' \in ops
           /\ pc' \in Asking => req.kind = "plan"
  <1> USE DEF Filling, Asking
  <1> TypeOK
    BY DEF IInv
  <1>1. CASE req.kind = "plan" /\ req.preferred \in Operations \ ops /\ Error("decision") /\ UNCHANGED chosen
    BY <1>1, ErrorEnds DEF Culprits, Advisers, TypeOK
  <1>2. CASE req.kind = "plan" /\ req.preferred \in ops /\ chosen' = req.preferred
             /\ (GoTo("planPreferred") \/ FormFor(req.preferred, req.answers))
    <2>1. req.answers \in Args
      BY <1>2, RequestTypes
    <2>2. CASE GoTo("planPreferred")
      BY <1>2, <2>2, GoToEnds DEF GoTo, TypeOK, Culprits
    <2>3. CASE FormFor(req.preferred, req.answers)
      BY <1>2, <2>1, <2>3, FormEnds
    <2> QED BY <1>2, <2>2, <2>3
  <1>3. CASE req.kind = "plan" /\ (GoTo("route") \/ GoTo("narrow")) /\ UNCHANGED chosen
    BY <1>3, GoToEnds DEF GoTo, TypeOK, Culprits
  <1>4. CASE req.kind = "invoke" /\ req.op \in ops /\ CallService(req.op, req.args) /\ UNCHANGED chosen
    BY <1>4, ServiceEnds, RequestTypes DEF TypeOK
  <1>5. CASE req.kind = "invoke" /\ Error("request") /\ UNCHANGED chosen
    BY <1>5, ErrorEnds DEF Culprits, Advisers, TypeOK
  <1> QED BY <1>1, <1>2, <1>3, <1>4, <1>5 DEF StartPlan, StartInvoke

\* The catalogue is what its reader may call, which since has seen.
LEMMA CatalogForStep ==
    ASSUME IInv, CatalogFor
    PROVE  IInv'
  <1> DEFINE callable == Callable(req.user)
  <1>1. TypeOK /\ Course
    BY DEF IInv
  <1>2. pc = "catalog" /\ req \in Requests /\ UNCHANGED <<config, req, permissions, service, since>>
    BY <1>1 DEF CatalogFor, Course, input
  <1>3. callable \subseteq since /\ callable \in SUBSET Operations
    BY <1>1, <1>2 DEF Course, TypeOK
  <1>4. CASE UNCHANGED <<catalog, chosen>> /\ (Error("configuration") \/ Error("permissions"))
    <2>1. EndOK /\ pc' = "replied"
      BY <1>1, <1>4, ErrorEnds DEF Culprits, Advisers
    <2>2. pc' \notin Filling \union Asking
      BY <2>1 DEF Filling, Asking
    <2> QED BY <1>1, <1>2, <1>4, <2>1, <2>2, Assemble DEF TypeOK
  <1>5. CASE /\ catalog' = callable
             /\ \/ req.kind = "plan" /\ StartPlan(callable)
                \/ req.kind = "invoke" /\ StartInvoke(callable)
    <2>1. /\ EndOK
          /\ chosen' \in Operations \union {None}
          /\ pc' \in Filling => chosen' \in callable
          /\ pc' \in Asking => req.kind = "plan"
      BY <1>2, <1>3, <1>5, StartEnds
    <2> QED BY <1>1, <1>2, <1>3, <1>5, <2>1, Assemble DEF TypeOK
  <1> QED BY <1>2, <1>4, <1>5, RequestTypes DEF CatalogFor

\* What every later step of a question may rely on.
LEMMA WhileAsking ==
    ASSUME IInv, pc \in Asking
    PROVE  /\ TypeOK /\ req \in Requests /\ req.kind = "plan"
           /\ req.answers \in Args
           /\ catalog \in SUBSET Operations /\ catalog \subseteq since
           /\ pc \in Filling => chosen \in catalog
           /\ failed \subseteq Culprits
           /\ chosen \in Operations \union {None}
           /\ service \in {None, "accepted", "declined", "failed"}
  BY RequestTypes DEF IInv, TypeOK, Course, Asking, Filling, Culprits

\* A step that leaves the catalogue and the choice alone need only end well.
LEMMA StayStep ==
    ASSUME IInv, pc \in Asking, EndOK, pc' \in Filling => pc \in Filling,
           UNCHANGED <<config, req, permissions, catalog, chosen, service, since>>
    PROVE  IInv'
  BY WhileAsking, Assemble

\* The catalogue only shrinks, and nobody is chosen yet.
LEMMA ShrinkStep ==
    ASSUME IInv, pc \in Asking, EndOK, pc' \notin Filling, catalog' \subseteq catalog,
           UNCHANGED <<config, req, permissions, chosen, service, since>>
    PROVE  IInv'
  BY WhileAsking, Assemble

\* The router narrows, or advises nothing.
LEMMA RouteServiceStep ==
    ASSUME IInv, RouteService
    PROVE  IInv'
  <1>1. pc \in Asking /\ TypeOK /\ failed \subseteq Culprits
    BY WhileAsking DEF RouteService, Asking
  <1>2. pc' = "narrow" /\ catalog' \subseteq catalog
    BY DEF RouteService, OfService
  <1>3. failed' \subseteq Culprits
    BY <1>1 DEF RouteService, Culprits
  <1>4. UNCHANGED <<config, req, permissions, chosen, call, service, reply, since>>
    BY DEF RouteService, input
  <1>5. EndOK
    BY <1>1, <1>2, <1>3, <1>4, GoToEnds DEF Asking
  <1> QED BY <1>1, <1>2, <1>4, <1>5, ShrinkStep DEF Filling

\* The narrower narrows, or fails the question.
LEMMA NarrowStep ==
    ASSUME IInv, Narrow
    PROVE  IInv'
  <1>1. pc \in Asking /\ TypeOK /\ failed \subseteq Culprits
    BY WhileAsking DEF Narrow, Asking
  <1>2. catalog' \subseteq catalog /\ UNCHANGED <<config, req, permissions, chosen, service, since>>
    BY DEF Narrow, input
  <1>3. CASE GoTo(AfterNarrow)
    <2>1. AfterNarrow \in Asking \ Filling
      BY DEF AfterNarrow, Asking, Filling
    <2>2. EndOK /\ pc' \notin Filling
      BY <1>1, <1>3, <2>1, GoToEnds DEF GoTo
    <2> QED BY <1>1, <1>2, <2>2, ShrinkStep
  <1>4. CASE Error("narrower")
    <2>1. EndOK /\ pc' = "replied"
      BY <1>1, <1>4, ErrorEnds DEF Culprits, Advisers
    <2> QED BY <1>1, <1>2, <2>1, ShrinkStep DEF Filling
  <1> QED BY <1>3, <1>4 DEF Narrow

\* The gate refuses, or lets pass.
LEMMA GateStep ==
    ASSUME IInv, Gate
    PROVE  IInv'
  <1>1. pc \in Asking /\ TypeOK /\ failed \subseteq Culprits
    BY WhileAsking DEF Gate, Asking
  <1>2. UNCHANGED <<config, req, permissions, catalog, chosen, service, since>>
    BY DEF Gate, input
  <1>3. CASE Refuse
    <2>1. EndOK /\ pc' = "replied"
      BY <1>1, <1>3, RefuseEnds
    <2> QED BY <1>1, <1>2, <2>1, StayStep DEF Filling
  <1>4. CASE pc' = "pick" /\ failed' \subseteq Culprits /\ UNCHANGED <<reply, call>>
    <2>1. EndOK /\ pc' \notin Filling
      BY <1>1, <1>4, GoToEnds DEF Asking, Filling
    <2> QED BY <1>1, <1>2, <2>1, StayStep
  <1> QED BY <1>1, <1>3, <1>4 DEF Gate, GoTo, Culprits

\* A picked operation, which was callable, is called or filled.
LEMMA PickedEnds ==
    ASSUME IInv, pc \in Asking, NEW op \in catalog, Picked(op)
    PROVE  EndOK /\ chosen' = op
  <1>1. TypeOK /\ op \in Operations /\ op \in since /\ failed \subseteq Culprits
    BY WhileAsking
  <1>2. NoArgs \in Args
    BY DEF NoArgs, Args
  <1>3. CASE Call({op}, op, NoArgs)
    BY <1>1, <1>2, <1>3, CallEnds DEF Picked
  <1>4. CASE GoTo("fill") \/ GoTo("planPicked")
    BY <1>1, <1>4, GoToEnds DEF GoTo, Asking, Filling, Picked
  <1> QED BY <1>3, <1>4 DEF Picked

\* The picker chooses among what was callable, or hands the question on.
LEMMA PickStep ==
    ASSUME IInv, Pick
    PROVE  IInv'
  <1>1. pc \in Asking
    BY DEF Pick, Asking
  <1>2. /\ TypeOK /\ failed \subseteq Culprits
        /\ catalog \in SUBSET Operations /\ catalog \subseteq since
    BY <1>1, WhileAsking
  <1>3. UNCHANGED <<config, req, permissions, catalog, service, since>>
    BY DEF Pick, input
  <1>4. CASE UNCHANGED chosen /\ (Error("picker") \/ Refuse \/ ListCapabilities(catalog) \/ Error("decision"))
    <2>1. EndOK /\ pc' = "replied"
      BY <1>2, <1>4, ErrorEnds, RefuseEnds, ListEnds DEF Culprits, Advisers
    <2> QED BY <1>1, <1>3, <1>4, <2>1, StayStep DEF Filling
  <1>5. CASE UNCHANGED chosen /\ GoTo("planOrdinary")
    <2>1. EndOK /\ pc' \notin Filling
      BY <1>2, <1>5, GoToEnds DEF GoTo, Asking, Filling
    <2> QED BY <1>1, <1>3, <1>5, <2>1, StayStep
  <1>6. CASE \E op \in catalog : Picked(op)
    <2>1. EndOK /\ chosen' \in catalog
      BY <1>1, <1>6, PickedEnds
    <2> QED BY <1>1, <1>2, <1>3, <2>1, WhileAsking, Assemble
  <1> QED BY <1>4, <1>5, <1>6 DEF Pick

\* The planner's one decision over the shortlist.
LEMMA PlanOrdinaryStep ==
    ASSUME IInv, PlanOrdinary
    PROVE  IInv'
  <1>1. pc \in Asking
    BY DEF PlanOrdinary, Asking
  <1>2. TypeOK /\ catalog \in SUBSET Operations /\ catalog \subseteq since
    BY <1>1, WhileAsking
  <1>3. UNCHANGED <<config, req, permissions, catalog, chosen, service, since>>
    BY DEF PlanOrdinary, input
  <1>4. EndOK /\ pc' \in {"replied", "call"}
    <2>1. CASE Error("planner") \/ Error("decision") \/ Refuse \/ Capabilities
      BY <1>2, <2>1, ErrorEnds, RefuseEnds, CapabilitiesEnds DEF Culprits, Advisers
    <2>2. CASE \E op \in Operations, args \in Args : Call(catalog, op, args)
      BY <1>2, <2>2, CallEnds
    <2>3. CASE \E op \in Operations \union {None} : Asks(catalog, op)
      BY <1>2, <2>3, AsksEnds
    <2>4. CASE req.workspace /\ \E op \in Operations, args \in Args : Propose(catalog, op, args)
      BY <1>2, <2>4, ProposeEnds
    <2> QED BY <2>1, <2>2, <2>3, <2>4 DEF PlanOrdinary
  <1> QED BY <1>1, <1>3, <1>4, StayStep DEF Filling

\* The planner fills the alternative insisted on, or its form opens.
LEMMA PlanPreferredStep ==
    ASSUME IInv, PlanPreferred
    PROVE  IInv'
  <1>1. pc \in Asking /\ pc \in Filling
    BY DEF PlanPreferred, Asking, Filling
  <1>2. /\ TypeOK /\ catalog \in SUBSET Operations /\ catalog \subseteq since
        /\ chosen \in catalog /\ req.answers \in Args
    BY <1>1, WhileAsking
  <1>3. UNCHANGED <<config, req, permissions, catalog, chosen, service, since>>
    BY DEF PlanPreferred, input
  <1>4. EndOK /\ pc' \in {"replied", "call"}
    <2>1. CASE Error("planner")
      BY <1>2, <2>1, ErrorEnds DEF Culprits, Advisers
    <2>2. CASE FormFor(chosen, req.answers)
      BY <1>2, <2>2, FormEnds
    <2>3. CASE \E args \in Args : Call({chosen}, chosen, args)
      BY <1>2, <2>3, CallEnds
    <2> QED BY <2>1, <2>2, <2>3 DEF PlanPreferred
  <1> QED BY <1>1, <1>3, <1>4, StayStep

\* The planner fills the picked operation.
LEMMA PlanPickedStep ==
    ASSUME IInv, PlanPicked
    PROVE  IInv'
  <1>1. pc \in Asking /\ pc \in Filling
    BY DEF PlanPicked, Asking, Filling
  <1>2. /\ TypeOK /\ req \in Requests /\ catalog \in SUBSET Operations /\ catalog \subseteq since
        /\ chosen \in catalog /\ req.answers \in Args
    BY <1>1, WhileAsking
  <1>3. UNCHANGED <<config, req, permissions, catalog, chosen, service, since>>
    BY DEF PlanPicked, input
  <1>4. EndOK
    BY <1>2, ErrorEnds, ResolveEnds DEF PlanPicked, Culprits, Advisers
  <1> QED BY <1>1, <1>3, <1>4, StayStep

\* The filler fills the picked operation, or leaves it to the planner.
LEMMA FillEnumStep ==
    ASSUME IInv, FillEnum
    PROVE  IInv'
  <1>1. pc \in Asking /\ pc \in Filling
    BY DEF FillEnum, Asking, Filling
  <1>2. /\ TypeOK /\ req \in Requests /\ catalog \in SUBSET Operations /\ catalog \subseteq since
        /\ chosen \in catalog /\ req.answers \in Args /\ failed \subseteq Culprits
    BY <1>1, WhileAsking
  <1>3. UNCHANGED <<config, req, permissions, catalog, chosen, service, since>>
    BY DEF FillEnum, input
  <1>4. CASE pc' = "planPicked" /\ failed' \subseteq Culprits /\ UNCHANGED <<reply, call>>
    <2>1. EndOK
      BY <1>2, <1>4, GoToEnds DEF Asking, Filling
    <2> QED BY <1>1, <1>3, <2>1, StayStep
  <1>5. CASE ResolvePickedFill(chosen)
    <2>1. EndOK
      BY <1>2, <1>5, ResolveEnds
    <2> QED BY <1>1, <1>3, <2>1, StayStep
  <1> QED BY <1>2, <1>4, <1>5 DEF FillEnum, GoTo, Culprits

\* A service's answer is rendered for the operation called.
LEMMA ServiceAnswersStep ==
    ASSUME IInv, ServiceAnswers
    PROVE  IInv'
  <1>1. /\ TypeOK /\ req \in Requests /\ call \in CallRecord /\ call.op \in since
        /\ catalog \subseteq since /\ catalog \subseteq Operations
    BY DEF ServiceAnswers, IInv, Outcome, TypeOK, Course, OnlyUnderGrant, Calling
  <1>2. UNCHANGED <<config, req, permissions, catalog, chosen, since>>
    BY DEF ServiceAnswers, input
  <1>3. service' \in {None, "accepted", "declined", "failed"}
    BY DEF ServiceAnswers
  <1>4. EndOK /\ pc' = "replied"
    <2>1. CASE Render /\ UNCHANGED failed
      <3> PICK named \in Alternatives(call.op) :
             Answer("result", call.op, call.args, None, named)
        BY <2>1 DEF Render
      <3> DEFINE result == [kind |-> "result", op |-> call.op, args |-> call.args,
                            param |-> None, named |-> named]
      <3>1. named \subseteq catalog
        BY DEF Alternatives
      <3>2. ReplyOK(result)
        BY <1>1, <3>1 DEF ReplyOK, Reply, ReplyKinds, CallRecord
      <3>3. pc' = "replied" /\ reply' = result /\ call' = call /\ failed' = failed
        BY <2>1 DEF Answer
      <3>4. result \in Reply /\ result.kind # "error"
        BY <3>2 DEF ReplyOK
      <3> HIDE DEF result
      <3> QED BY <1>1, <3>2, <3>3, <3>4 DEF TypeOK, EndOK, Culprits
    <2>2. CASE Refuse
      BY <1>1, <2>2, RefuseEnds
    <2>3. CASE Error("service")
      BY <1>1, <2>3, ErrorEnds DEF Culprits, Advisers
    <2> QED BY <2>1, <2>2, <2>3 DEF ServiceAnswers
  <1> QED BY <1>1, <1>2, <1>3, <1>4, Assemble DEF TypeOK, Filling, Asking

\* Nothing is left of a request that is closed.
LEMMA CloseStep ==
    ASSUME IInv, Close
    PROVE  IInv'
  <1>1. TypeOK'
    BY DEF Close, IInv, TypeOK
  <1>2. Course' /\ Outcome'
    BY DEF Close, Course, Asking, Filling, Outcome, PlanNeverWrites, OnlyUnderGrant, NoGuessIsCalled,
           NoTextIsInvented, ProposalsHaveAWorkspace, AdvisersNeverFailAPlan, Calling
  <1> QED BY <1>1, <1>2 DEF IInv

\* A change of permissions takes nothing from what the caller could call during the request.
LEMMA RegrantStep ==
    ASSUME IInv, NEW u \in Users, NEW ops \in Grants, Regrant(u, ops)
    PROVE  IInv'
  <1>1. ops \subseteq Operations
    BY InputsAssumption
  <1>2. permissions' \in [Users -> SUBSET Operations]
    BY <1>1 DEF Regrant, IInv, TypeOK
  <1>3. since \subseteq since' /\ since' \subseteq Operations
    BY <1>1 DEF Regrant, IInv, TypeOK
  <1>4. UNCHANGED <<config, req, pc, catalog, chosen, call, service, reply, failed>>
    BY DEF Regrant, input
  <1>5. TypeOK'
    BY <1>2, <1>3, <1>4 DEF IInv, TypeOK
  <1>6. ASSUME pc = "catalog"
        PROVE  Callable(req.user)' \subseteq since'
    <2>1. pc \in Stages /\ req.user \in Users /\ Callable(req.user) \subseteq since
      BY <1>6, RequestTypes DEF IInv, Course, Stages
    <2>2. since' = IF req.user = u THEN since \union ops ELSE since
      BY <2>1 DEF Regrant
    <2>3. permissions'[req.user] = IF req.user = u THEN ops ELSE permissions[req.user]
      BY <2>1 DEF Regrant, IInv, TypeOK
    <2> QED BY <1>4, <2>1, <2>2, <2>3 DEF Callable
  <1>7. Course'
    BY <1>3, <1>4, <1>6 DEF IInv, Course, Asking, Filling
  <1>8. Outcome'
    BY <1>3, <1>4 DEF IInv, Outcome, PlanNeverWrites, OnlyUnderGrant, NoGuessIsCalled, NoTextIsInvented,
                      ProposalsHaveAWorkspace, AdvisersNeverFailAPlan, Calling, Mentioned
  <1> QED BY <1>5, <1>7, <1>8 DEF IInv

\* Before the first request.
LEMMA InitInvariant == Init => IInv
  <1> SUFFICES ASSUME Init PROVE IInv
    OBVIOUS
  <1>1. TypeOK
    BY DEF Init, TypeOK
  <1>2. Course /\ Outcome
    BY DEF Init, Course, Asking, Filling, Outcome, PlanNeverWrites, OnlyUnderGrant, NoGuessIsCalled,
           NoTextIsInvented, ProposalsHaveAWorkspace, AdvisersNeverFailAPlan, Calling
  <1> QED BY <1>1, <1>2 DEF IInv

\* Every step, and none at all.
LEMMA NextInvariant == IInv /\ [Next]_vars => IInv'
  <1> SUFFICES ASSUME IInv, [Next]_vars PROVE IInv'
    OBVIOUS
  <1>1. CASE \E q \in Requests : Arrive(q)
    BY <1>1, ArriveStep
  <1>2. CASE CatalogFor \/ RouteService \/ Narrow \/ Gate \/ Pick \/ FillEnum
    BY <1>2, CatalogForStep, RouteServiceStep, NarrowStep, GateStep, PickStep, FillEnumStep
  <1>3. CASE PlanOrdinary \/ PlanPreferred \/ PlanPicked \/ ServiceAnswers
    BY <1>3, PlanOrdinaryStep, PlanPreferredStep, PlanPickedStep, ServiceAnswersStep
  <1>4. CASE Close
    BY <1>4, CloseStep
  <1>5. CASE \E u \in Users, ops \in Grants : Regrant(u, ops)
    BY <1>5, RegrantStep
  <1>6. CASE UNCHANGED vars
    <2>1. TypeOK'
      BY <1>6 DEF vars, IInv, TypeOK
    <2>2. Course'
      BY <1>6 DEF vars, IInv, Course, Callable
    <2>3. Outcome'
      BY <1>6 DEF vars, IInv, Outcome, PlanNeverWrites, OnlyUnderGrant, NoGuessIsCalled, NoTextIsInvented,
                  ProposalsHaveAWorkspace, AdvisersNeverFailAPlan, Calling, Mentioned
    <2> QED BY <2>1, <2>2, <2>3 DEF IInv
  <1> QED BY <1>1, <1>2, <1>3, <1>4, <1>5, <1>6 DEF Next

(***************************************************************************)
(* What follows for every execution.                                       *)
(***************************************************************************)

\* The invariant holds of every request in every state: what the collaborators still
\* ahead of it will be shown was callable at some moment since it arrived.
THEOREM Invariant == Spec => []IInv
  BY InitInvariant, NextInvariant, PTL DEF Spec

\* Every variable holds what its comment says, whatever the collaborators answer.
THEOREM TypeCorrect == Spec => []TypeOK
  <1>1. IInv => TypeOK
    BY DEF IInv
  <1> QED BY <1>1, Invariant, PTL

\* A question never writes: along every path of Plan the call it makes is of a safe
\* operation, for every catalogue and every answer of the picker, filler and planner.
THEOREM QuestionsNeverWrite == Spec => []PlanNeverWrites
  <1>1. IInv => PlanNeverWrites
    BY DEF IInv, Outcome
  <1> QED BY <1>1, Invariant, PTL

\* Nothing is called or named that the person could not call at some moment of the
\* request, whatever admins change meanwhile and whatever the collaborators answer.
THEOREM GrantsAreRespected == Spec => []OnlyUnderGrant
  <1>1. IInv => OnlyUnderGrant
    BY DEF IInv, Outcome
  <1> QED BY <1>1, Invariant, PTL

\* A question calls no service with an enum value nobody said.
THEOREM GuessesAreAsked == Spec => []NoGuessIsCalled
  <1>1. IInv => NoGuessIsCalled
    BY DEF IInv, Outcome
  <1> QED BY <1>1, Invariant, PTL

\* A form never opens with free text nobody said.
THEOREM FormsAreHonest == Spec => []NoTextIsInvented
  <1>1. IInv => NoTextIsInvented
    BY DEF IInv, Outcome
  <1> QED BY <1>1, Invariant, PTL

\* A panel is proposed only to somebody who asked from a workspace.
THEOREM ProposalsFollowAWorkspace == Spec => []ProposalsHaveAWorkspace
  <1>1. IInv => ProposalsHaveAWorkspace
    BY DEF IInv, Outcome
  <1> QED BY <1>1, Invariant, PTL

\* The router, the gate and the filler never fail a question by failing themselves.
THEOREM AdvisersOnlyAdvise == Spec => []AdvisersNeverFailAPlan
  <1>1. IInv => AdvisersNeverFailAPlan
    BY DEF IInv, Outcome
  <1> QED BY <1>1, Invariant, PTL

(***************************************************************************)
(* Planning implements PlanContract.  A step that consults a collaborator  *)
(* changes nothing the person who asks can see; a step that ends the       *)
(* consultation is one answer, or the one call.  MapInv adds what an       *)
(* alternative insisted on leaves of the paths: only its own fill.         *)
(***************************************************************************)
Open == {"catalog"} \union Asking

Insistence ==
    pc \in Asking /\ req.preferred # None =>
        /\ pc = "planPreferred"
        /\ chosen = req.preferred
        /\ RequiredParamsKnown(req, chosen)

MapInv == IInv /\ Insistence

\* What a step leaves alone while a request is open.
Held == UNCHANGED <<permissions, req, service, since>>

\* How such a step looks from outside.
Closing == Contract!AnswerAlone \/ Contract!CallService

\* What may be filled for this question: anything, or the alternative it insists on.
Fillable(op) == req.preferred # None => op = req.preferred /\ RequiredParamsKnown(req, op)

\* A request that is being worked on is open.
LEMMA OpenIsVisible ==
    ASSUME pc \in Open
    PROVE  Visible = "open"
  BY DEF Visible, Open, Asking, Filling

\* Insisting is the same thing on both sides.
LEMMA InsistedMaps ==
    ASSUME req.kind = "plan"
    PROVE  Contract!Insisted <=> req.preferred # None
  BY DEF Contract!Insisted

\* An error is an answer.
LEMMA ErrorMaps ==
    ASSUME pc \in Open, Held, NEW culprit, Error(culprit)
    PROVE  Contract!AnswerAlone
  BY OpenIsVisible
     DEF Held, Error, Answer, NoArgs, Visible, Contract!AnswerAlone, Contract!Bare, Contract!Says

\* So is a question back,
LEMMA AskMaps ==
    ASSUME pc \in Open, Held, req.kind = "plan", NEW param \in Params \union {None}, AskWhich(param)
    PROVE  Contract!AnswerAlone
  BY OpenIsVisible
     DEF Held, AskWhich, Answer, NoArgs, Visible, Contract!AnswerAlone, Contract!Bare, Contract!Says

\* and, for a question that insists on nothing, a refusal,
LEMMA RefuseMaps ==
    ASSUME pc \in Open, Held, req.kind = "plan", req.preferred = None, Refuse
    PROVE  Contract!AnswerAlone
  <1>1. Contract!Responds
    BY DEF Refuse, Answer, NoArgs, Contract!Responds, Contract!Bare, Contract!Says
  <1> QED
    BY <1>1, OpenIsVisible, InsistedMaps DEF Held, Refuse, Answer, Visible, Contract!AnswerAlone

\* a list of operations that were callable,
LEMMA ListMaps ==
    ASSUME pc \in Open, Held, req.kind = "plan", req.preferred = None,
           NEW ops \in SUBSET since, ListCapabilities(ops)
    PROVE  Contract!AnswerAlone
  <1>1. Contract!Responds
    BY DEF ListCapabilities, Answer, NoArgs, Contract!Responds, Contract!Bare, Contract!Says
  <1> QED
    BY <1>1, OpenIsVisible, InsistedMaps DEF Held, ListCapabilities, Answer, Visible, Contract!AnswerAlone

\* or a proposal.
LEMMA ProposeMaps ==
    ASSUME pc \in Open, Held, req.kind = "plan", req.preferred = None, req.workspace,
           NEW scope \in SUBSET since, NEW op \in Operations, NEW args \in Args, Propose(scope, op, args)
    PROVE  Contract!AnswerAlone
  <1>1. CASE op \notin scope
    BY <1>1, ErrorMaps DEF Propose
  <1>2. CASE op \in scope
    <2>1. args \in Contract!Args
      BY DEF Args, Contract!Args
    <2>2. Contract!Responds
      BY <1>2, <2>1 DEF Propose, Answer, Contract!Responds, Contract!Says
    <2> QED
      BY <1>2, <2>2, OpenIsVisible, InsistedMaps DEF Held, Propose, Answer, Visible, Contract!AnswerAlone
  <1> QED BY <1>1, <1>2

\* A form opens for what may be filled, with the text the person gave.
LEMMA FormMaps ==
    ASSUME TypeOK, pc \in Open, Held, req.kind = "plan",
           NEW op \in Operations, op \in since, NEW args \in Args,
           req.preferred # None => op = req.preferred, FormFor(op, args)
    PROVE  Contract!AnswerAlone
  <1> DEFINE kept == Dropping(args, InventedInitials(req, op, args))
  <1>1. pc' = "replied" /\ call' = call
        /\ reply' = [kind |-> "form", op |-> op, args |-> kept, param |-> None, named |-> {}]
    BY DEF FormFor, Answer
  <1>2. kept \in Contract!Args
    BY DroppingArgs DEF Args, Contract!Args
  <1> HIDE DEF kept
  <1>3. ReplyOK(reply')
    BY <1>1, FormEnds DEF EndOK
  <1>4. \A p \in Texts \intersect (ParamsOf[op] \union BodyOf[op]) :
           kept[p] # None => Contract!Said(kept[p])
    BY <1>1, <1>3 DEF ReplyOK, Mentioned, Contract!Said
  <1>5. Contract!Says("form", op, kept, None, {})
    BY <1>1 DEF Contract!Says
  <1>6. Contract!Insisted => op = req.preferred
    BY InsistedMaps
  <1>7. Contract!OpensForm
    BY <1>2, <1>4, <1>5, <1>6 DEF Contract!OpensForm
  <1> QED
    BY <1>1, <1>7, OpenIsVisible DEF Held, Visible, Contract!AnswerAlone

\* A service is called as a question may, or as the person confirmed.
LEMMA ServiceMaps ==
    ASSUME pc \in Open, Held, NEW op \in Operations, op \in since, NEW args \in Args,
           \/ /\ req.kind = "plan" /\ op \in Safe
              /\ GuessedEnumArgs(req, op, args) = {} /\ Fillable(op)
           \/ req.kind = "invoke" /\ op = req.op /\ args = req.args,
           CallService(op, args)
    PROVE  Contract!CallService
  <1>1. args \in Contract!Args
    BY DEF Args, Contract!Args
  <1>2. ASSUME req.kind = "plan"
        PROVE  Contract!MayAsk(op, args)
    <2>1. op \in Safe /\ GuessedEnumArgs(req, op, args) = {} /\ Fillable(op)
      BY <1>2
    <2>2. \A p \in ParamsOf[op] \intersect Enums : args[p] \in EnumValues => Contract!Said(args[p])
      BY <2>1 DEF GuessedEnumArgs, Mentioned, Contract!Said
    <2>3. Contract!Insisted => op = req.preferred /\ \A p \in Required[op] : req.answers[p] # None
      BY <1>2, <2>1, InsistedMaps DEF Fillable, RequiredParamsKnown
    <2> QED BY <2>1, <2>2, <2>3 DEF Contract!MayAsk
  <1>3. pc' = "call" /\ call' = [op |-> op, args |-> args] /\ reply' = reply
    BY DEF CallService
  <1>4. Visible' = "calling"
    BY <1>3 DEF Visible
  <1> QED
    BY <1>1, <1>2, <1>3, <1>4, OpenIsVisible DEF Held, Contract!CallService

(***************************************************************************)
(* Decisions.                                                              *)
(***************************************************************************)

\* A call the planner decides on is the call, a question back, a form or an error.
LEMMA CallMaps ==
    ASSUME TypeOK, pc \in Open, Held, req.kind = "plan",
           NEW scope \in SUBSET Operations, scope \subseteq since,
           NEW op \in Operations, NEW args \in Args, Fillable(op), Call(scope, op, args)
    PROVE  Closing
  <1> DEFINE guesses == GuessedEnumArgs(req, op, args)
  <1>1. CASE op \notin scope /\ Error("decision")
    BY <1>1, ErrorMaps DEF Closing
  <1>2. CASE op \in scope \ Safe /\ FormFor(op, Dropping(args, guesses))
    <2>1. req.preferred # None => op = req.preferred
      BY DEF Fillable
    <2> QED BY <1>2, <2>1, FormMaps, DroppingArgs DEF Closing
  <1>3. CASE \E p \in guesses : AskWhich(p)
    BY <1>3, AskMaps, ContractsAssumption DEF GuessedEnumArgs, Closing
  <1>4. CASE op \in scope \intersect Safe /\ guesses = {} /\ CallService(op, args)
    BY <1>4, ServiceMaps DEF Closing
  <1> QED BY <1>1, <1>2, <1>3, <1>4 DEF Call

\* A question back reaches the person, or becomes a form.
LEMMA AsksMaps ==
    ASSUME TypeOK, pc \in Open, Held, req.kind = "plan", req.preferred = None,
           NEW scope \in SUBSET Operations, scope \subseteq since,
           NEW op \in Operations \union {None}, Asks(scope, op)
    PROVE  Closing
  <1> PICK param \in Params, args \in Args, options \in BOOLEAN : Ask(scope, op, param, args, options)
    BY DEF Asks
  <1>1. CASE op \in scope /\ FormFor(op, args)
    BY <1>1, FormMaps DEF Closing
  <1>2. CASE AskWhich(param) \/ AskWhich(None)
    BY <1>2, AskMaps DEF Closing
  <1> QED BY <1>1, <1>2 DEF Ask

\* What can be done is what was callable.
LEMMA CapabilitiesMaps ==
    ASSUME pc \in Open, Held, req.kind = "plan", req.preferred = None,
           catalog \subseteq since, Capabilities
    PROVE  Closing
  <1>1. PICK ops \in SUBSET catalog : ListCapabilities(ops)
    BY DEF Capabilities, OfService
  <1> QED BY <1>1, ListMaps DEF Closing

\* So a fill of a picked operation closes the request whatever it decides.
LEMMA ResolveMaps ==
    ASSUME TypeOK, pc \in Open, Held, req.kind = "plan", req.preferred = None,
           catalog \subseteq since, req.answers \in Args,
           NEW op \in Operations, op \in since, ResolvePickedFill(op)
    PROVE  Closing
  <1>1. CASE Refuse
    BY <1>1, RefuseMaps DEF Closing
  <1>2. CASE Capabilities
    BY <1>2, CapabilitiesMaps
  <1>3. CASE \E args \in Args : Call({op}, op, args)
    BY <1>3, CallMaps DEF Fillable
  <1>4. CASE Asks({op}, op)
    BY <1>4, AsksMaps
  <1>5. CASE req.workspace /\ \E args \in Args : Propose({op}, op, args)
    BY <1>5, ProposeMaps DEF Closing
  <1>6. CASE FormFor(op, req.answers)
    BY <1>6, FormMaps DEF Closing
  <1> QED BY <1>1, <1>2, <1>3, <1>4, <1>5, <1>6 DEF ResolvePickedFill

(***************************************************************************)
(* Every step.                                                             *)
(***************************************************************************)

\* An alternative insisted on is all there is to fill, from the start of the plan on.
LEMMA InsistenceStep ==
    ASSUME MapInv, [Next]_vars
    PROVE  Insistence'
  <1> USE DEF Insistence
  <1>1. CASE \E q \in Requests : Arrive(q)
    BY <1>1 DEF Arrive, Asking, Filling
  <1>2. CASE CatalogFor
    <2>1. ASSUME pc' \in Asking
          PROVE  \/ pc' = "planPreferred" /\ chosen' = req.preferred /\ RequiredParamsKnown(req, chosen')
                 \/ req.preferred = None
      BY <1>2, <2>1 DEF CatalogFor, StartPlan, StartInvoke, Error, Answer, GoTo, FormFor, CallService,
                        Asking, Filling
    <2> QED BY <1>2, <2>1 DEF CatalogFor, input, RequiredParamsKnown
  <1>3. CASE RouteService \/ Narrow \/ Gate \/ Pick \/ FillEnum \/ PlanOrdinary \/ PlanPicked
    <2>1. pc \in Asking /\ pc # "planPreferred" /\ req' = req
      BY <1>3 DEF RouteService, Narrow, Gate, Pick, FillEnum, PlanOrdinary, PlanPicked, Asking, Filling, input
    <2> QED BY <2>1 DEF MapInv
  <1>4. CASE PlanPreferred
    <2>1. pc \in Asking /\ TypeOK /\ catalog \subseteq since /\ chosen \in catalog /\ req.answers \in Args
          /\ catalog \in SUBSET Operations
      BY <1>4, WhileAsking DEF MapInv, PlanPreferred, Asking, Filling
    <2>2. pc' \in {"replied", "call"}
      <3>1. CASE Error("planner")
        BY <3>1 DEF Error, Answer
      <3>2. CASE FormFor(chosen, req.answers)
        BY <3>2 DEF FormFor, Answer
      <3>3. CASE \E args \in Args : Call({chosen}, chosen, args)
        BY <2>1, <3>3, CallEnds
      <3> QED BY <1>4, <3>1, <3>2, <3>3 DEF PlanPreferred
    <2> QED BY <2>2 DEF Asking, Filling
  <1>5. CASE ServiceAnswers
    <2>1. pc' = "replied"
      BY <1>5 DEF ServiceAnswers, Render, Refuse, Error, Answer
    <2> QED BY <2>1 DEF Asking, Filling
  <1>6. CASE Close
    BY <1>6 DEF Close, Asking, Filling
  <1>7. CASE (\E u \in Users, ops \in Grants : Regrant(u, ops)) \/ UNCHANGED vars
    <2>1. UNCHANGED <<pc, req, chosen>>
      BY <1>7 DEF Regrant, input, vars
    <2> QED BY <2>1 DEF MapInv, RequiredParamsKnown
  <1> QED BY <1>1, <1>2, <1>3, <1>4, <1>5, <1>6, <1>7 DEF Next

\* A consultation that only leads to the next one is not seen.
LEMMA ConsultationStutters ==
    ASSUME pc \in Open, pc' \in Open, Held, UNCHANGED <<call, reply>>
    PROVE  UNCHANGED Contract!contract
  BY DEF Open, Asking, Filling, Held, Visible, Contract!contract

\* What a later step of a question may rely on when the alternative is not insisted on.
LEMMA WhileFree ==
    ASSUME MapInv, pc \in Asking \ {"planPreferred"}
    PROVE  /\ TypeOK /\ req.kind = "plan" /\ req.preferred = None /\ req.answers \in Args
           /\ catalog \in SUBSET Operations /\ catalog \subseteq since
           /\ pc \in Filling => chosen \in catalog
           /\ pc \in Open
  BY WhileAsking DEF MapInv, Insistence, Open

\* The catalogue is read: a form, the call confirmed, an error, or the way to the planner.
LEMMA CatalogForMaps ==
    ASSUME MapInv, CatalogFor
    PROVE  Closing \/ UNCHANGED Contract!contract
  <1>1. /\ TypeOK /\ req \in Requests /\ pc \in Open /\ Held
        /\ Callable(req.user) \subseteq since /\ Callable(req.user) \subseteq Operations
    BY RequestTypes DEF MapInv, IInv, Course, TypeOK, CatalogFor, Open, Held, input, Callable
  <1>2. CASE \E culprit \in Culprits : Error(culprit)
    BY <1>1, <1>2, ErrorMaps DEF Closing
  <1>3. CASE req.kind = "plan" /\ StartPlan(Callable(req.user))
    <2>1. CASE Error("decision")
      BY <2>1, <1>2 DEF Culprits
    <2>2. CASE req.preferred \in Callable(req.user) /\ FormFor(req.preferred, req.answers)
      BY <1>1, <1>3, <2>2, RequestTypes, FormMaps DEF Closing
    <2>3. CASE GoTo("planPreferred") \/ GoTo("route") \/ GoTo("narrow")
      BY <1>1, <2>3, ConsultationStutters DEF GoTo, Open, Asking, Filling
    <2> QED BY <1>3, <2>1, <2>2, <2>3 DEF StartPlan
  <1>4. CASE req.kind = "invoke" /\ StartInvoke(Callable(req.user))
    <2>1. CASE Error("request")
      BY <2>1, <1>2 DEF Culprits
    <2>2. CASE req.op \in Callable(req.user) /\ CallService(req.op, req.args)
      BY <1>1, <1>4, <2>2, RequestTypes, ServiceMaps DEF Closing
    <2> QED BY <1>4, <2>1, <2>2 DEF StartInvoke
  <1> QED BY <1>1, <1>2, <1>3, <1>4, RequestTypes DEF CatalogFor, Culprits

\* The router, the narrower and the gate are not seen, but for a refusal or an error.
LEMMA AdviceMaps ==
    ASSUME MapInv, RouteService \/ Narrow \/ Gate
    PROVE  Closing \/ UNCHANGED Contract!contract
  <1>1. pc \in Asking \ {"planPreferred"} /\ Held
    BY DEF RouteService, Narrow, Gate, Asking, Filling, Held, input
  <1>2. req.kind = "plan" /\ req.preferred = None /\ pc \in Open
    BY <1>1, WhileFree
  <1>3. CASE Refuse
    BY <1>1, <1>2, <1>3, RefuseMaps DEF Closing
  <1>4. CASE Error("narrower")
    BY <1>1, <1>2, <1>4, ErrorMaps DEF Closing
  <1>5. CASE pc' \in Open /\ UNCHANGED <<call, reply>>
    BY <1>1, <1>2, <1>5, ConsultationStutters
  <1> QED
    BY <1>3, <1>4, <1>5 DEF RouteService, Narrow, Gate, GoTo, AfterNarrow, Open, Asking, Filling

\* The picker refuses, lists, fails, or hands one operation on.
LEMMA PickMaps ==
    ASSUME MapInv, Pick
    PROVE  Closing \/ UNCHANGED Contract!contract
  <1>1. pc \in Asking \ {"planPreferred"} /\ Held
    BY DEF Pick, Asking, Filling, Held, input
  <1>2. /\ TypeOK /\ req.kind = "plan" /\ req.preferred = None /\ pc \in Open
        /\ catalog \in SUBSET Operations /\ catalog \subseteq since
    BY <1>1, WhileFree
  <1>3. CASE Error("picker") \/ Error("decision")
    BY <1>1, <1>2, <1>3, ErrorMaps DEF Closing
  <1>4. CASE Refuse
    BY <1>1, <1>2, <1>4, RefuseMaps DEF Closing
  <1>5. CASE ListCapabilities(catalog)
    BY <1>1, <1>2, <1>5, ListMaps DEF Closing
  <1>6. CASE GoTo("planOrdinary")
    BY <1>1, <1>2, <1>6, ConsultationStutters DEF GoTo, Open, Asking, Filling
  <1>7. CASE \E op \in catalog : Picked(op)
    <2> PICK op \in catalog : Picked(op)
      BY <1>7
    <2>1. CASE Call({op}, op, NoArgs)
      <3>1. NoArgs \in Args
        BY DEF NoArgs, Args
      <3> QED BY <1>1, <1>2, <2>1, <3>1, CallMaps DEF Fillable
    <2>2. CASE GoTo("fill") \/ GoTo("planPicked")
      BY <1>1, <1>2, <2>2, ConsultationStutters DEF GoTo, Open, Asking, Filling
    <2> QED BY <2>1, <2>2 DEF Picked
  <1> QED BY <1>3, <1>4, <1>5, <1>6, <1>7 DEF Pick

\* The filler and the planner of a picked operation.
LEMMA FillMaps ==
    ASSUME MapInv, FillEnum \/ PlanPicked
    PROVE  Closing \/ UNCHANGED Contract!contract
  <1>1. pc \in Asking \ {"planPreferred"} /\ pc \in Filling /\ Held
    BY DEF FillEnum, PlanPicked, Asking, Filling, Held, input
  <1>2. /\ TypeOK /\ req.kind = "plan" /\ req.preferred = None /\ req.answers \in Args /\ pc \in Open
        /\ catalog \in SUBSET Operations /\ catalog \subseteq since /\ chosen \in catalog
    BY <1>1, WhileFree
  <1>3. CASE Error("planner")
    BY <1>1, <1>2, <1>3, ErrorMaps DEF Closing
  <1>4. CASE ResolvePickedFill(chosen)
    BY <1>1, <1>2, <1>4, ResolveMaps
  <1>5. CASE pc' = "planPicked" /\ UNCHANGED <<call, reply>>
    BY <1>1, <1>2, <1>5, ConsultationStutters DEF Open, Asking, Filling
  <1> QED BY <1>3, <1>4, <1>5 DEF FillEnum, PlanPicked, GoTo

\* The planner's one decision over the shortlist.
LEMMA PlanOrdinaryMaps ==
    ASSUME MapInv, PlanOrdinary
    PROVE  Closing
  <1>1. pc \in Asking \ {"planPreferred"} /\ Held
    BY DEF PlanOrdinary, Asking, Filling, Held, input
  <1>2. /\ TypeOK /\ req.kind = "plan" /\ req.preferred = None /\ pc \in Open
        /\ catalog \in SUBSET Operations /\ catalog \subseteq since
    BY <1>1, WhileFree
  <1>3. CASE Error("planner") \/ Error("decision")
    BY <1>1, <1>2, <1>3, ErrorMaps DEF Closing
  <1>4. CASE Refuse
    BY <1>1, <1>2, <1>4, RefuseMaps DEF Closing
  <1>5. CASE Capabilities
    BY <1>1, <1>2, <1>5, CapabilitiesMaps
  <1>6. CASE \E op \in Operations, args \in Args : Call(catalog, op, args)
    BY <1>1, <1>2, <1>6, CallMaps DEF Fillable
  <1>7. CASE \E op \in Operations \union {None} : Asks(catalog, op)
    BY <1>1, <1>2, <1>7, AsksMaps
  <1>8. CASE req.workspace /\ \E op \in Operations, args \in Args : Propose(catalog, op, args)
    BY <1>1, <1>2, <1>8, ProposeMaps DEF Closing
  <1> QED BY <1>3, <1>4, <1>5, <1>6, <1>7, <1>8 DEF PlanOrdinary

\* The alternative insisted on is filled, or its form opens.
LEMMA PlanPreferredMaps ==
    ASSUME MapInv, PlanPreferred
    PROVE  Closing
  <1>1. pc \in Asking /\ pc \in Filling /\ pc \in Open /\ Held
    BY DEF PlanPreferred, Asking, Filling, Open, Held, input
  <1>2. /\ TypeOK /\ req.kind = "plan" /\ req.answers \in Args
        /\ catalog \in SUBSET Operations /\ catalog \subseteq since /\ chosen \in catalog
    BY <1>1, WhileAsking DEF MapInv
  <1>3. Fillable(chosen)
    BY <1>1 DEF MapInv, Insistence, Fillable
  <1>4. CASE Error("planner")
    BY <1>1, <1>4, ErrorMaps DEF Closing
  <1>5. CASE FormFor(chosen, req.answers)
    BY <1>1, <1>2, <1>3, <1>5, FormMaps DEF Closing, Fillable
  <1>6. CASE \E args \in Args : Call({chosen}, chosen, args)
    BY <1>1, <1>2, <1>3, <1>6, CallMaps
  <1> QED BY <1>4, <1>5, <1>6 DEF PlanPreferred

\* A service's answer is the answer, for the call that was made.
LEMMA ServiceAnswersMaps ==
    ASSUME MapInv, ServiceAnswers
    PROVE  Contract!Serve
  <1>1. /\ req \in Requests /\ catalog \subseteq since
        /\ UNCHANGED <<permissions, req, since>>
    BY DEF MapInv, IInv, Course, ServiceAnswers, input
  <1>2. Visible = "calling" /\ Visible' = "answered" /\ call' = call
    BY DEF ServiceAnswers, Render, Refuse, Error, Answer, Visible
  <1>3. ASSUME Render
        PROVE  Contract!ShowResult
    <2> PICK named \in Alternatives(call.op) : Answer("result", call.op, call.args, None, named)
      BY <1>3 DEF Render
    <2>1. named \in SUBSET (since \ {call.op}) /\ Cardinality(named) <= 2
      BY <1>1, FS_EmptySet DEF Alternatives
    <2>2. req.kind = "invoke" \/ Contract!Insisted => named = {}
      BY DEF Alternatives, Contract!Insisted
    <2>3. Contract!Says("result", call.op, call.args, None, named)
      BY DEF Answer, Contract!Says
    <2>4. Cardinality(named) = Contract!Cardinality(named)
      BY DEF Cardinality, Contract!Cardinality
    <2> QED BY <2>1, <2>2, <2>3, <2>4 DEF Contract!ShowResult
  <1>4. Refuse => Contract!Bare("none", None, {})
    BY DEF Refuse, Answer, NoArgs, Contract!Bare, Contract!Says
  <1>5. Error("service") => Contract!Bare("error", None, {})
    BY DEF Error, Answer, NoArgs, Contract!Bare, Contract!Says
  <1> QED BY <1>1, <1>2, <1>3, <1>4, <1>5 DEF ServiceAnswers, Contract!Serve

\* A request begins, is closed, or its caller's permissions change, on both sides at once.
LEMMA EdgesMap ==
    ASSUME MapInv, (\E q \in Requests : Arrive(q)) \/ Close \/ (\E u \in Users, ops \in Grants : Regrant(u, ops))
    PROVE  Contract!Next
  <1>1. ASSUME NEW q \in Requests, Arrive(q)
        PROVE  Contract!Ask
    BY <1>1 DEF Arrive, Visible, Callable, Contract!Ask, Contract!Callable
  <1>2. CASE Close
    BY <1>2 DEF Close, Visible, Contract!Next, Contract!Close
  <1>3. ASSUME NEW u \in Users, NEW ops \in Grants, Regrant(u, ops)
        PROVE  Contract!Regrant(u, ops)
    <2>1. pc \in Stages <=> Visible \in {"open", "calling"}
      BY DEF MapInv, IInv, TypeOK, Stages, Visible
    <2>2. Visible' = Visible
      BY <1>3 DEF Regrant, Visible
    <2> QED BY <1>3, <2>1, <2>2 DEF Regrant, input, Contract!Regrant
  <1> QED BY <1>1, <1>2, <1>3 DEF Contract!Next

\* So every step of Planning is a step of the contract, or none.
LEMMA StepMaps ==
    ASSUME MapInv, [Next]_vars
    PROVE  [Contract!Next]_(Contract!contract)
  <1>1. Closing => Contract!Next
    BY DEF Closing, Contract!Next
  <1>2. CASE CatalogFor \/ RouteService \/ Narrow \/ Gate \/ Pick \/ FillEnum
    BY <1>1, <1>2, CatalogForMaps, AdviceMaps, PickMaps, FillMaps
  <1>3. CASE PlanOrdinary \/ PlanPreferred \/ PlanPicked
    BY <1>1, <1>3, PlanOrdinaryMaps, PlanPreferredMaps, FillMaps
  <1>4. CASE ServiceAnswers
    BY <1>4, ServiceAnswersMaps DEF Contract!Next
  <1>5. CASE (\E q \in Requests : Arrive(q)) \/ Close \/ (\E u \in Users, ops \in Grants : Regrant(u, ops))
    BY <1>5, EdgesMap
  <1>6. CASE UNCHANGED vars
    BY <1>6 DEF vars, Visible, Contract!contract
  <1> QED BY <1>2, <1>3, <1>4, <1>5, <1>6 DEF Next

\* An alternative insisted on is the only operation the rest of its plan can fill, and its
\* answers give all that it requires.
THEOREM MapInvariant == Spec => []MapInv
  <1>1. Init => Insistence
    BY DEF Init, Insistence, Asking, Filling
  <1>2. MapInv /\ [Next]_vars => MapInv'
    BY NextInvariant, InsistenceStep DEF MapInv
  <1> QED BY <1>1, <1>2, InitInvariant, PTL DEF Spec, MapInv

\* However many collaborators are consulted and whatever they answer, a request is answered
\* once and calls at most one service, once, with what may be called; a confirmed call is
\* carried out as confirmed, and what is shown is what was called.
THEOREM PlanningImplementsContract == Spec => ImplementsContract
  <1>1. Init => Contract!Init
    BY DEF Init, Visible, Contract!Init
  <1>2. MapInv /\ [Next]_vars => [Contract!Next]_(Contract!contract)
    BY StepMaps
  <1> QED BY <1>1, <1>2, MapInvariant, PTL DEF Spec, ImplementsContract, Contract!Spec
=============================================================================
