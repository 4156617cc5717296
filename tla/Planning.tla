----------------------------- MODULE Planning -----------------------------
(***************************************************************************)
(* usecase.Orchestrator: a question (POST /api/plan) becomes a decision    *)
(* about one operation of one service, and a confirmed call                *)
(* (POST /api/invoke) runs one.  The catalogue is read once, narrowed to   *)
(* what the person may call; the service router, the narrower, the gate,   *)
(* the picker, the filler and the planner are then consulted one after     *)
(* another.  Each is another process, free to answer anything or to fail,  *)
(* and permissions may change while the request waits for it.  Requests    *)
(* share nothing but what they read, so one in flight shows what any may   *)
(* do; the others are the changes Regrant makes.                           *)
(***************************************************************************)
EXTENDS Integers, FiniteSets

CONSTANTS
    Users, Admins,
    Operations,   \* domain.Catalog
    Services,
    ServiceOf,    \* the service of each operation
    Safe,         \* the operations IsSafe answers true for
    Params,       \* argument names
    ParamsOf,     \* the path and query parameters of each operation
    BodyOf,       \* the properties of its request body
    Required,     \* the arguments it requires
    Enums,        \* arguments whose schema declares an enum
    Texts,        \* arguments that are plain strings
    EnumValues,   \* what an enum declares
    Values,       \* what an argument may be given as
    Requests,     \* the requests browsers send
    Configs,      \* how the platform may be configured
    Grants,       \* the sets of operations an admin gives
    None

Args == [Params -> Values \union {None}]
NoArgs == [p \in Params |-> None]

\* What a question says, the answers to a previous ask that come with it, whether it
\* is asked from a workspace, and the alternative it insists on.  A value is said when the
\* question names it or, for an enum, its label (mentionedInQuestion, sharesRun).
PlanRequest == [kind: {"plan"}, user: Users, says: SUBSET Values, answers: Args,
                workspace: BOOLEAN, preferred: Operations \union {None}]
InvokeRequest == [kind: {"invoke"}, user: Users, op: Operations, args: Args]
Request == PlanRequest \union InvokeRequest

\* WithStages(2), WithPicker, WithGate, WithServiceRouter, WithFillSkipEmpty, WithFillEnum;
\* shortlist is narrowK, 0 for PassThroughNarrower.
Config == [staged: BOOLEAN, picker: BOOLEAN, gate: BOOLEAN, router: BOOLEAN,
           fillSkip: BOOLEAN, fillEnum: BOOLEAN, shortlist: Nat]

ASSUME AccountsAssumption == Admins \subseteq Users
ASSUME ContractsAssumption ==
    /\ Safe \subseteq Operations
    /\ ServiceOf \in [Operations -> Services]
    /\ ParamsOf \in [Operations -> SUBSET Params]
    /\ BodyOf \in [Operations -> SUBSET Params]
    /\ Required \in [Operations -> SUBSET Params]
    /\ Enums \subseteq Params /\ Texts \subseteq Params \ Enums
    /\ EnumValues \subseteq Values
ASSUME InputsAssumption == 
    Requests \subseteq Request /\ Configs \subseteq Config /\ Grants \subseteq SUBSET Operations
ASSUME NoneAssumption == None \notin Users \union Operations \union Values \union Request

VARIABLES
    config,       \* how this process was started
    permissions,  \* table permissions: the operations each account holds
    pc,           \* the collaborator the request waits for
    req,          \* the request
    catalog,      \* what catalogFor answered, then what is left of it
    chosen,       \* the operation planPreferred fills
    call,         \* the call a service is asked for: the operation and its arguments
    service,      \* how that service answered
    reply,        \* the response
    since,        \* history: what the caller could call at some moment of the request
    failed        \* history: the collaborators that failed the request

vars == <<config, permissions, pc, req, catalog, chosen, call, service, reply, since, failed>>
input == <<config, req>>

Stages == {"catalog", "route", "narrow", "gate", "pick", "fill",
           "planOrdinary", "planPreferred", "planPicked", "call"}
ReplyKinds == {"error", "none", "ask", "form", "result", "proposal", "capabilities"}
Reply == [kind: ReplyKinds, op: Operations \union {None}, args: Args, param: Params \union {None}, named: SUBSET Operations]

Callable(u) == IF u \in Admins THEN Operations ELSE permissions[u]

Init ==
    /\ config \in Configs
    /\ permissions = [u \in Users |-> {}]
    /\ pc = "idle"
    /\ req = None
    /\ catalog = {}
    /\ chosen = None
    /\ call = None /\ service = None
    /\ reply = None
    /\ since = {} /\ failed = {}

(***************************************************************************)
(* What the question and the answers support.                              *)
(***************************************************************************)
Mentioned(q, v) == v \in q.says \/ \E p \in Params : q.answers[p] = v

\* Fault: only what the contract requires is looked at.
GuessedRequiredArgs(q, op, args) ==
    {p \in ParamsOf[op] \intersect Enums \intersect Required[op] :
        args[p] \in EnumValues /\ ~Mentioned(q, args[p])}

\* guessedEnumArgs looks at parameters, never at the body.
GuessedEnumArgs(q, op, args) ==
    {p \in ParamsOf[op] \intersect Enums : args[p] \in EnumValues /\ ~Mentioned(q, args[p])}

Dropping(args, gone) == [p \in Params |-> IF p \in gone THEN None ELSE args[p]]

\* Fault: the properties of the body are not looked up in the form's schema.
InventedParams(q, op, args) ==
    {p \in Texts \intersect ParamsOf[op] : args[p] # None /\ ~Mentioned(q, args[p])}

\* An initial value the form's schema does not name, or that is no plain string, is kept.
InventedInitials(q, op, args) ==
    {p \in Texts \intersect (ParamsOf[op] \union BodyOf[op]) :
        args[p] # None /\ ~Mentioned(q, args[p])}

RequiredParamsKnown(q, op) == \A p \in Required[op] : q.answers[p] # None

EligibleForFillSkip(op) == ParamsOf[op] = {} /\ BodyOf[op] = {}
EligibleForFillEnum(op) == BodyOf[op] = {} /\ ParamsOf[op] # {} /\ ParamsOf[op] \subseteq Enums

\* validateArgs: the body's required fields are there, every enum given holds a declared value.
ValidArgs(op, args) ==
    /\ \A p \in Required[op] \intersect BodyOf[op] : args[p] # None
    /\ \A p \in Enums \intersect (ParamsOf[op] \union BodyOf[op]) :
         args[p] \in EnumValues \union {None}

(***************************************************************************)
(* How a request ends, or comes to call a service.                         *)
(***************************************************************************)
Answer(kind, op, args, param, named) ==
    /\ pc' = "replied"
    /\ reply' = [kind |-> kind, op |-> op, args |-> args, param |-> param, named |-> named]
    /\ UNCHANGED call

Error(culprit) == Answer("error", None, NoArgs, None, {}) /\ failed' = failed \union {culprit}

Refuse == Answer("none", None, NoArgs, None, {}) /\ UNCHANGED failed

AskWhich(param) == Answer("ask", None, NoArgs, param, {}) /\ UNCHANGED failed

ListCapabilities(ops) == Answer("capabilities", None, NoArgs, None, ops) /\ UNCHANGED failed

FormFor(op, args) ==
    /\ Answer("form", op, Dropping(args, InventedInitials(req, op, args)), None, {})
    /\ UNCHANGED failed

GoTo(stage) == pc' = stage /\ UNCHANGED <<reply, call, failed>>

CallService(op, args) ==
    /\ pc' = "call"
    /\ call' = [op |-> op, args |-> args]
    /\ UNCHANGED <<reply, failed>>

\* Fault: an unsafe operation is called when nothing in it is a guess.
CallAnything(scope, op, args) ==
    LET guesses == GuessedEnumArgs(req, op, args)
    IN \/ op \notin scope /\ Error("decision")
       \/ /\ op \in scope /\ guesses # {}
          /\ \E p \in guesses : AskWhich(p)
       \/ /\ op \in scope /\ guesses = {}
          /\ CallService(op, args)

\* Orchestrator.call: a guess over a safe operation is asked about, over an unsafe one it
\* is dropped; an unsafe operation is never called, it becomes a form.
Call(scope, op, args) ==
    LET guesses == GuessedEnumArgs(req, op, args)
    IN \/ op \notin scope /\ Error("decision")
       \/ /\ op \in scope \ Safe
          /\ FormFor(op, Dropping(args, guesses))
       \/ /\ op \in scope \intersect Safe /\ guesses # {}
          /\ \E p \in guesses : AskWhich(p)
       \/ /\ op \in scope \intersect Safe /\ guesses = {}
          /\ CallService(op, args)

\* Orchestrator.ask, askDegrade; options: the model named two candidates or more.
Ask(scope, op, param, args, options) ==
    IF op \notin scope THEN AskWhich(None)
    ELSE IF op \notin Safe THEN FormFor(op, args)
    ELSE IF param \in ParamsOf[op] \intersect Enums THEN AskWhich(param)
    ELSE IF param \in Required[op] THEN FormFor(op, args)
    ELSE AskWhich(IF options THEN param ELSE None)

Propose(scope, op, args) ==
    IF op \in scope
    THEN Answer("proposal", op, args, None, {}) /\ UNCHANGED failed
    ELSE Error("decision")

(***************************************************************************)
(* A request arrives.  Under WithStages(2) without a picker every plan is  *)
(* ErrStagesRequirePicker.                                                 *)
(***************************************************************************)
Arrive(q) ==
    /\ pc = "idle"
    /\ req' = q
    /\ since' = Callable(q.user)
    /\ failed' = {}
    /\ pc' = "catalog"
    /\ UNCHANGED <<config, permissions, catalog, chosen, call, service, reply>>

\* Plan, past catalogFor: an alternative is looked up and filled alone, a
\* question goes to the router and the narrower.
StartPlan(ops) ==
    LET preferred == req.preferred
    IN \/ /\ preferred \in Operations \ ops
          /\ Error("decision") /\ UNCHANGED chosen
       \/ /\ preferred \in ops
          /\ chosen' = preferred
          /\ IF RequiredParamsKnown(req, preferred)
             THEN GoTo("planPreferred")
             ELSE FormFor(preferred, req.answers)
       \/ /\ preferred = None
          /\ GoTo(IF config.router THEN "route" ELSE "narrow")
          /\ UNCHANGED chosen

\* Fault: a confirmed call looks its operation up among all there are.
StartInvokeUnchecked(ops) ==
    /\ IF ValidArgs(req.op, req.args)
       THEN CallService(req.op, req.args)
       ELSE Error("request")
    /\ UNCHANGED chosen

StartInvoke(ops) ==
    /\ IF req.op \in ops /\ ValidArgs(req.op, req.args)
       THEN CallService(req.op, req.args)
       ELSE Error("request")
    /\ UNCHANGED chosen

CatalogFor ==
    /\ pc = "catalog"
    /\ IF req.kind = "plan" /\ config.staged /\ ~config.picker
       THEN Error("configuration") /\ UNCHANGED <<catalog, chosen>>
       ELSE \/ /\ req.user \notin Admins
               /\ Error("permissions")
               /\ UNCHANGED <<catalog, chosen>>
            \/ /\ catalog' = Callable(req.user)
               /\ IF req.kind = "plan"
                  THEN StartPlan(Callable(req.user))
                  ELSE StartInvoke(Callable(req.user))
    /\ UNCHANGED <<input, permissions, service, since>>

OfService(ops, s) == {op \in ops : ServiceOf[op] = s}

\* routeService: a failure, a low confidence, or a service the catalogue lacks leaves it whole.
RouteService ==
    /\ pc = "route"
    /\ pc' = "narrow"
    /\ \/ UNCHANGED <<catalog, failed>>
       \/ failed' = failed \union {"router"} /\ UNCHANGED catalog
       \/ \E s \in Services :
            /\ OfService(catalog, s) # {}
            /\ catalog' = OfService(catalog, s)
            /\ UNCHANGED failed
    /\ UNCHANGED <<input, permissions, chosen, call, service, reply, since>>

\* narrower.Narrow, then the branch on the stages.
AfterNarrow == IF ~config.staged THEN "planOrdinary" ELSE IF config.gate THEN "gate" ELSE "pick"

Narrow ==
    /\ pc = "narrow"
    /\ \/ config.shortlist = 0 /\ GoTo(AfterNarrow) /\ UNCHANGED catalog
       \/ config.shortlist > 0 /\ Error("narrower") /\ UNCHANGED catalog
       \/ /\ config.shortlist > 0
          /\ \E kept \in SUBSET catalog :
               Cardinality(kept) <= config.shortlist /\ catalog' = kept
          /\ GoTo(AfterNarrow)
    /\ UNCHANGED <<input, permissions, chosen, service, since>>

\* Fault: an outage of the gate fails the plan.
GateRequired ==
    /\ pc = "gate"
    /\ GoTo("pick") \/ Refuse
         \/ (Answer("error", None, NoArgs, None, {}) /\ failed' = failed \union {"gate"})
    /\ UNCHANGED <<input, permissions, catalog, chosen, service, since>>

Gate ==
    /\ pc = "gate"
    /\ \/ GoTo("pick")
       \/ pc' = "pick" /\ failed' = failed \union {"gate"} /\ UNCHANGED <<reply, call>>
       \/ Refuse
    /\ UNCHANGED <<input, permissions, catalog, chosen, service, since>>

(***************************************************************************)
(* What the planner, or the filler, may decide.  Args, parameters and      *)
(* operations are the model's: any at all.                                 *)
(***************************************************************************)
\* list_capabilities: what is left of the catalogue, or one service's part of
\* it, which a name no service has leaves empty.
Capabilities ==
    \/ ListCapabilities(catalog) \/ ListCapabilities({})
    \/ \E s \in Services : ListCapabilities(OfService(catalog, s))

Asks(scope, op) ==
    \E param \in Params, args \in Args, options \in BOOLEAN : Ask(scope, op, param, args, options)

\* planOrdinary: a proposal is ErrToolNotOffered unless propose_panel was offered.
PlanOrdinary ==
    /\ pc = "planOrdinary"
    /\ \/ Error("planner")
       \/ Refuse
       \/ Capabilities
       \/ \E op \in Operations, args \in Args : Call(catalog, op, args)
       \/ \E op \in Operations \union {None} : Asks(catalog, op)
       \/ ~req.workspace /\ Error("decision")
       \/ req.workspace /\ \E op \in Operations, args \in Args : Propose(catalog, op, args)
    /\ UNCHANGED <<input, permissions, catalog, chosen, service, since>>

\* Fault: the fill's call is looked up in the whole catalogue, like the single call's.
PlanAnyPreferred ==
    /\ pc = "planPreferred"
    /\ \/ Error("planner")
       \/ FormFor(chosen, req.answers)
       \/ \E op \in Operations, args \in Args : Call(catalog, op, args)
    /\ UNCHANGED <<input, permissions, catalog, chosen, service, since>>

\* planPreferred of an alternative: anything but a call of it is the form.
PlanPreferred ==
    /\ pc = "planPreferred"
    /\ \/ Error("planner")
       \/ FormFor(chosen, req.answers)
       \/ \E args \in Args : Call({chosen}, chosen, args)
    /\ UNCHANGED <<input, permissions, catalog, chosen, service, since>>

\* resolvePickedFill: about another operation than the picked one, the form of the picked one.
ResolvePickedFill(op) ==
    \/ Refuse
    \/ Capabilities
    \/ \E args \in Args : Call({op}, op, args)
    \/ Asks({op}, op)
    \/ req.workspace /\ \E args \in Args : Propose({op}, op, args)
    \/ FormFor(op, req.answers)

PlanPicked ==
    /\ pc = "planPicked"
    /\ Error("planner") \/ ResolvePickedFill(chosen)
    /\ UNCHANGED <<input, permissions, catalog, chosen, service, since>>

\* tryFill with fillEnum: a failure, or no answer it is sure of, is the planner's turn.
FillEnum ==
    /\ pc = "fill"
    /\ \/ GoTo("planPicked")
       \/ pc' = "planPicked" /\ failed' = failed \union {"filler"} /\ UNCHANGED <<reply, call>>
       \/ ResolvePickedFill(chosen)
    /\ UNCHANGED <<input, permissions, catalog, chosen, service, since>>

\* planPicked: an operation without arguments is called at once under WithFillSkipEmpty.
Picked(op) ==
    /\ chosen' = op
    /\ IF config.fillSkip /\ EligibleForFillSkip(op)
       THEN Call({op}, op, NoArgs)
       ELSE GoTo(IF config.fillEnum /\ EligibleForFillEnum(op) THEN "fill" ELSE "planPicked")

Pick ==
    /\ pc = "pick"
    /\ \/ Error("picker") /\ UNCHANGED chosen
       \/ Refuse /\ UNCHANGED chosen
       \/ ListCapabilities(catalog) /\ UNCHANGED chosen
       \/ GoTo("planOrdinary") /\ UNCHANGED chosen
       \/ \E op \in Operations \ catalog : Error("decision") /\ UNCHANGED chosen
       \/ \E op \in catalog : Picked(op)
    /\ UNCHANGED <<input, permissions, catalog, service, since>>

(***************************************************************************)
(* invokeAndRender.  The alternatives are the next two of the shortlist,   *)
(* whose order is the narrower's: any two, or fewer.  A service that       *)
(* declines (4xx) is an answer, ResultKindNone; the handler of             *)
(* /api/invoke writes 200 and what data there is whatever the kind.        *)
(***************************************************************************)
Alternatives(op) ==
    IF req.kind = "plan" /\ req.preferred = None /\ config.shortlist > 0
    THEN {named \in SUBSET (catalog \ {op}) : Cardinality(named) <= 2}
    ELSE {{}}

Render == \E named \in Alternatives(call.op) : Answer("result", call.op, call.args, None, named)

\* toAPIData: what was accepted is answered with an error when its data is no object.
ServiceAnswers ==
    /\ pc = "call"
    /\ \/ /\ service' = "accepted"
          /\ Render /\ UNCHANGED failed
       \/ /\ service' = "accepted"
          /\ Error("service")
       \/ /\ service' = "declined"
          /\ IF req.kind = "plan" THEN Refuse ELSE Render /\ UNCHANGED failed
       \/ /\ service' = "failed"
          /\ Error("service")
    /\ UNCHANGED <<input, permissions, catalog, chosen, since>>

(***************************************************************************)
(* The browser has its answer; an admin replaces what an account holds.    *)
(***************************************************************************)
Close ==
    /\ pc = "replied"
    /\ pc' = "idle"
    /\ req' = None /\ catalog' = {} /\ chosen' = None
    /\ call' = None /\ service' = None /\ reply' = None
    /\ since' = {} /\ failed' = {}
    /\ UNCHANGED <<config, permissions>>

Regrant(u, ops) ==
    /\ permissions' = [permissions EXCEPT ![u] = ops]
    /\ since' = IF pc \in Stages /\ req.user = u THEN since \union ops ELSE since
    /\ UNCHANGED <<input, pc, catalog, chosen, call, service, reply, failed>>

Next ==
    \/ \E q \in Requests : Arrive(q)
    \/ CatalogFor \/ RouteService \/ Narrow \/ Gate \/ Pick \/ FillEnum
    \/ PlanOrdinary \/ PlanPreferred \/ PlanPicked
    \/ ServiceAnswers
    \/ Close
    \/ \E u \in Users, ops \in Grants : Regrant(u, ops)

Spec == Init /\ [][Next]_vars

-----------------------------------------------------------------------------
(***************************************************************************)
(* Properties.                                                             *)
(***************************************************************************)

\* Every variable holds what its comment says, every reply is one the wire has, and
\* what the planner fills was found in the catalogue.
TypeOK ==
    /\ config \in Configs
    /\ permissions \in [Users -> SUBSET Operations]
    /\ pc \in Stages \union {"idle", "replied"}
    /\ req \in Requests \union {None}
    /\ catalog \subseteq Operations
    /\ chosen \in Operations \union {None}
    /\ pc \in {"fill", "planPreferred", "planPicked"} => chosen \in catalog
    /\ call \in [op: Operations, args: Args] \union {None}
    /\ service \in {None, "accepted", "declined", "failed"}
    /\ reply \in Reply \union {None}
    /\ since \subseteq Operations
    /\ failed \subseteq {"configuration", "permissions", "request", "decision", "router",
                         "narrower", "gate", "picker", "filler", "planner", "service"}

Calling == pc = "call"

\* A question never writes: whatever the picker, the filler and the planner answer,
\* along every path of Plan, the call it makes is of a safe operation (D8).
PlanNeverWrites == Calling /\ req.kind = "plan" => call.op \in Safe

\* No service is called, and no reply names an operation, but one the person could
\* call at some moment of the request, however the catalogue was routed, narrowed,
\* picked from or guessed at since it was read (A6, catalogFor).
OnlyUnderGrant ==
    /\ Calling => call.op \in since
    /\ pc = "replied" => ({reply.op} \ {None}) \union reply.named \subseteq since

\* A question calls no service with an enum value nobody said: one the model made up
\* is asked about instead, on the single-call, the filled and the preferred path alike.
NoGuessIsCalled ==
    Calling /\ req.kind = "plan" =>
        \A p \in ParamsOf[call.op] \intersect Enums :
            call.args[p] \in EnumValues => Mentioned(req, call.args[p])

\* A form never opens with free text nobody said, from whichever of the paths to it.
NoTextIsInvented ==
    pc = "replied" /\ reply.kind = "form" =>
        \A p \in Texts \intersect (ParamsOf[reply.op] \union BodyOf[reply.op]) :
            reply.args[p] # None => Mentioned(req, reply.args[p])

\* A panel is proposed only to somebody who asked from a workspace (O2).
ProposalsHaveAWorkspace ==
    pc = "replied" /\ reply.kind = "proposal" => req.workspace

\* The router, the gate and the filler only advise: when nothing else failed, a
\* question is answered (WithGate, WithServiceRouter, WithFillEnum).
AdvisersNeverFailAPlan ==
    pc = "replied" /\ reply.kind = "error" => ~(failed \subseteq {"router", "gate", "filler"})

\* A confirmed call that answers 200 was carried out.
InvokeReportsSuccess ==
    pc = "replied" /\ req.kind = "invoke" /\ reply.kind = "result" => service = "accepted"

\* Where the person who asks sees the request.
Visible ==
    CASE pc = "idle" -> "idle" [] pc = "replied" -> "answered" [] pc = "call" -> "calling" [] OTHER -> "open"

Contract == INSTANCE PlanContract WITH stage <- Visible, request <- req, may <- since

\* However many collaborators are consulted, fail or answer wrongly, a request is answered
\* once and calls one service once or none: a confirmed call as it was confirmed, an
\* alternative insisted on and no other operation, and what is shown is what was called.
ImplementsContract == Contract!Spec
=============================================================================
