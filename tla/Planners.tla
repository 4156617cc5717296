----------------------------- MODULE Planners -----------------------------
(***************************************************************************)
(* One question put to the model that plans, by either adapter, and the    *)
(* call that follows: planner/toolcall asks once and reads a tool call,    *)
(* planner/jsonmode asks for one JSON object, once more when it cannot use *)
(* what it gets, and each time again without a response format when the    *)
(* endpoint refuses the first.  A call the person confirms comes here      *)
(* without a model.  A call of the model has a timeout, a call of the      *)
(* service has none; the browser may go during either.                     *)
(* Time is counted in half minutes.                                        *)
(***************************************************************************)
EXTENDS Catalogue, Contracts

CONSTANTS
    Services, Ids,   \* services, and the ids of their operations
    Unknown,         \* a service or an id there is none of
    Catalog,         \* what the contracts offer, in order
    ContractOf,      \* the contract of each operation
    Asked,           \* the requests a run makes
    Written,         \* the arguments a model writes
    ChatTimeout,     \* chat, anthropic: requestTimeout
    Durations        \* how long a call may take

Endpoints == [service: Services, id: Ids]

\* jsonmode: maxAttempts.
MaxAttempts == 2

Question == [kind: {"plan"}, adapter: {"toolcall", "jsonmode"}, shortlist: Seq(Endpoints), workspace: BOOLEAN]
Confirmed == [kind: {"invoke"}, service: Services \union {Unknown}, id: Ids \union {Unknown}, args: Arguments]

ASSUME PlannersAssumption ==
    /\ None \notin Services \union Ids \union {Unknown} /\ None \notin Request
    /\ Unknown \notin Services \union Ids
    /\ Catalog \in Seq(Endpoints)
    /\ ContractOf \in [Endpoints -> Contract]
    /\ Asked \subseteq Question \union Confirmed
    /\ Written \subseteq Arguments
    /\ ChatTimeout \in Nat \ {0} /\ Durations \subseteq Nat \ {0}

VARIABLES
    request,     \* the question, or the confirmed call
    stage,       \* what it waits for
    attempt,     \* jsonmode: the attempt under way
    plain,       \* jsonmode: it asks without a response format
    truncated,   \* jsonmode: the last reply was cut short
    clock,       \* the time since the request arrived
    outcome,     \* what was decided
    sent,        \* what the service was asked
    served,      \* how the service's call ended
    came,        \* history: how the last call of the model ended
    heard        \* history: the reply decided on

vars == <<request, stage, attempt, plain, truncated, clock, outcome, sent, served, came, heard>>

(***************************************************************************)
(* What a model may reply and how it is read.  A tool call is of the kind  *)
(* of its tool; one of an operation names the id, not the service.         *)
(***************************************************************************)
Kinds == {"none", "list", "ask", "call", "propose", "empty", "broken", "other"}
NoArgs == [n \in {} |-> Null]

Reply == [cut: BOOLEAN, kind: Kinds, service: Services \union {Unknown, None},
          id: Ids \union {Unknown, None}, args: Arguments]
Decision == [kind: {"none", "list", "ask", "call", "propose", "failed"},
             service: Services \union {Unknown, None}, id: Ids \union {Unknown, None}, args: Arguments]

Bare(kind) == [kind |-> kind, service |-> None, id |-> None, args |-> NoArgs]
NoDecision == Bare("none")
Failed == Bare("failed")

\* An operation's tool is named by its id alone; propose_panel needs a workspace.
ToolsFor(shortlist, workspace) ==
    IdsOf(shortlist) \union {"ask_user", "list_capabilities"}
        \union (IF workspace THEN {"propose_panel"} ELSE {})

Offered(q) == "propose_panel" \in ToolsFor(q.shortlist, q.workspace)

Finds(service, id) == [service |-> service, id |-> id] \in EndpointsOf(Catalog)
ContractAt(service, id) == ContractOf[[service |-> service, id |-> id]]
Resolves(id) == id \in IdsOf(Catalog)

AsDecision(reply) ==
    [kind |-> reply.kind, service |-> reply.service, id |-> reply.id, args |-> reply.args]

\* Fault: a name is looked up, its values are not.
FoundOnly(reply) ==
    IF Finds(reply.service, reply.id) THEN AsDecision(reply) ELSE Failed

\* jsonmode decisionFromCall and decisionFromProposePanel.
Checked(reply) ==
    IF /\ Finds(reply.service, reply.id)
       /\ PlannedValid(ContractAt(reply.service, reply.id), reply.args)
    THEN AsDecision(reply) ELSE Failed

\* jsonmode parse: an ask is not checked.
Parse(q, reply) ==
    CASE reply.kind = "none" -> NoDecision
      [] reply.kind = "list" -> [Bare("list") EXCEPT !.service = reply.service]
      [] reply.kind = "ask" -> [AsDecision(reply) EXCEPT !.args = NoArgs]
      [] reply.kind = "call" -> Checked(reply)
      [] reply.kind = "propose" /\ Offered(q) -> Checked(reply)
      [] OTHER -> Failed

Resolved(reply, unresolved) ==
    IF Resolves(reply.id)
    THEN [kind |-> reply.kind, service |-> FirstServiceOf(Catalog, reply.id), id |-> reply.id, args |-> reply.args]
    ELSE unresolved

\* toolcall Plan: no tool call is no decision; a proposal is taken as it comes.
Decode(reply) ==
    CASE reply.kind = "list" -> [Bare("list") EXCEPT !.service = reply.service]
      [] reply.kind = "ask" -> [Resolved(reply, Bare("ask")) EXCEPT !.args = NoArgs]
      [] reply.kind = "call" -> Resolved(reply, Failed)
      [] reply.kind = "propose" -> AsDecision(reply)
      [] reply.kind = "broken" -> Failed
      [] OTHER -> NoDecision

ReplyKinds(adapter) == IF adapter = "jsonmode" THEN Kinds ELSE Kinds \ {"none", "other"}

Wordless(kind) == [kind: {kind}, service: {None}, id: {None}, args: {NoArgs}]
Said(adapter) ==
    (UNION {Wordless(k) : k \in ReplyKinds(adapter) \ {"list", "ask", "call", "propose"}})
    \union [kind: {"list"}, service: Services \union {Unknown, None}, id: {None}, args: {NoArgs}]
    \union [kind: {"ask"}, service: IF adapter = "jsonmode" THEN Services \union {Unknown} ELSE {None},
            id: Ids \union {Unknown}, args: {NoArgs}]
    \union [kind: {"call"}, service: IF adapter = "jsonmode" THEN Services \union {Unknown} ELSE {None},
            id: Ids \union {Unknown}, args: Written]
    \union [kind: {"propose"}, service: Services \union {Unknown}, id: Ids \union {Unknown}, args: Written]

\* What a reply that was cut short holds is never looked at.
Replies(adapter) ==
    {[cut |-> FALSE, kind |-> s.kind, service |-> s.service, id |-> s.id, args |-> s.args] : s \in Said(adapter)}
    \union {[cut |-> TRUE, kind |-> "broken", service |-> None, id |-> None, args |-> NoArgs]}

(***************************************************************************)
(* The request, from its arrival to its answer.                            *)
(***************************************************************************)
Init ==
    /\ request = None /\ stage = "idle"
    /\ attempt = 1 /\ plain = FALSE /\ truncated = FALSE
    /\ clock = 0
    /\ outcome = Failed /\ sent = None /\ served = None
    /\ came = None /\ heard = None

\* A call takes some of the time it has.
Within(limit) == \E d \in Durations : d <= limit /\ clock' = clock + d

Asks == stage' = "model" /\ UNCHANGED <<outcome, sent>>
Finish(decision) == stage' = "done" /\ outcome' = decision /\ sent' = None

CallService(decision) ==
    /\ stage' = "service" /\ outcome' = decision
    /\ sent' = SplitArgs(ContractAt(decision.service, decision.id), decision.args)

\* Orchestrator.call: an operation that is safe is called at once, unless a value in it
\* has to be asked about or the person may not call it (Planning says when).
Decide(decision) ==
    \/ Finish(decision)
    \/ /\ decision.kind = "call" /\ ContractAt(decision.service, decision.id).safe
       /\ CallService(decision)

\* Orchestrator.Invoke.
Confirm(q) ==
    IF Finds(q.service, q.id) /\ ConfirmedValid(ContractAt(q.service, q.id), q.args)
    THEN CallService([kind |-> "call", service |-> q.service, id |-> q.id, args |-> q.args])
    ELSE Finish(Failed)

\* Bound: one request at a time.
Arrive ==
    /\ stage = "idle"
    /\ \E q \in Asked :
         /\ request' = q
         /\ IF q.kind = "plan" THEN Asks ELSE Confirm(q)
    /\ UNCHANGED <<attempt, plain, truncated, clock, served, came, heard>>

\* The answer is written; an adapter keeps nothing from one request to the next.
Leave ==
    /\ stage = "done"
    /\ request' = None /\ stage' = "idle"
    /\ attempt' = 1 /\ plain' = FALSE /\ truncated' = FALSE
    /\ clock' = 0
    /\ outcome' = Failed /\ sent' = None /\ served' = None
    /\ came' = None /\ heard' = None

\* Fault: a reply that is whole leaves the mark of the one before.
EverTruncated(reply) == truncated \/ reply.cut
Truncated(reply) == reply.cut

GivesUp == IF truncated' THEN NoDecision ELSE Failed

\* Fault: as often as it takes.
UntilUsable(reply) ==
    IF ~reply.cut /\ Parse(request, reply) # Failed
    THEN Decide(Parse(request, reply)) /\ UNCHANGED <<attempt, plain>>
    ELSE Asks /\ plain' = TRUE /\ UNCHANGED attempt

\* jsonmode: what cannot be used is quoted back in one more attempt.
ReadJson(reply) ==
    IF ~reply.cut /\ Parse(request, reply) # Failed
    THEN Decide(Parse(request, reply)) /\ UNCHANGED <<attempt, plain>>
    ELSE IF attempt < MaxAttempts
    THEN Asks /\ attempt' = attempt + 1 /\ plain' = FALSE
    ELSE Finish(GivesUp) /\ UNCHANGED <<attempt, plain>>

ReadToolCall(reply) ==
    /\ Decide(IF reply.cut THEN NoDecision ELSE Decode(reply))
    /\ UNCHANGED <<attempt, plain>>

ModelReplies ==
    /\ stage = "model"
    /\ Within(ChatTimeout)
    /\ came' = "reply"
    /\ \E reply \in Replies(request.adapter) :
         /\ truncated' = Truncated(reply)
         /\ IF request.adapter = "jsonmode" THEN ReadJson(reply) ELSE ReadToolCall(reply)
         /\ heard' = IF stage' = "model" THEN None ELSE reply
    /\ UNCHANGED <<request, served>>

\* A status of 300 or more; jsonmode asks the same without a response format.
ModelRefuses ==
    /\ stage = "model"
    /\ Within(ChatTimeout)
    /\ came' = "refused"
    /\ IF request.adapter = "jsonmode" /\ ~plain
       THEN Asks /\ plain' = TRUE
       ELSE Finish(Failed) /\ UNCHANGED plain
    /\ UNCHANGED <<request, attempt, truncated, served, heard>>

\* No connection, a body that is no completion, no choice in it, or (anthropic) a refusal.
ModelBreaks ==
    /\ stage = "model"
    /\ Within(ChatTimeout)
    /\ came' = "broke"
    /\ Finish(Failed)
    /\ UNCHANGED <<request, attempt, plain, truncated, served, heard>>

\* Fault: the client has no timeout.
NeverTimesOut == FALSE
CallTimesOut == stage = "model"

TimesOut ==
    /\ CallTimesOut
    /\ clock' = clock + ChatTimeout
    /\ came' = "late"
    /\ Finish(Failed)
    /\ UNCHANGED <<request, attempt, plain, truncated, served, heard>>

\* The context of the request is cancelled, and with it the call it waits for.
HangUp ==
    /\ \/ /\ stage = "model" /\ Within(ChatTimeout)
          /\ came' = "gone" /\ Finish(Failed) /\ UNCHANGED served
       \/ /\ stage = "service" /\ \E d \in Durations : clock' = clock + d
          /\ stage' = "done" /\ served' = "failed" /\ UNCHANGED <<came, outcome, sent>>
    /\ UNCHANGED <<request, attempt, plain, truncated, heard>>

\* A status of 400 to 499 declines; a status of 300 or 500, no connection and a body
\* that is no JSON fail.
ServiceReplies ==
    /\ stage = "service"
    /\ \E d \in Durations : clock' = clock + d
    /\ stage' = "done"
    /\ served' \in {"answered", "declined", "failed"}
    /\ UNCHANGED <<request, attempt, plain, truncated, outcome, sent, came, heard>>

Next ==
    \/ Arrive \/ Leave
    \/ ModelReplies \/ ModelRefuses \/ ModelBreaks \/ TimesOut
    \/ HangUp \/ ServiceReplies

Spec == Init /\ [][Next]_vars

\* The client's timer fires; nothing makes a model or a service answer.
FairSpec == Spec /\ WF_vars(TimesOut)

(***************************************************************************)
(* Properties.                                                             *)
(***************************************************************************)
TypeOK ==
    /\ request \in Asked \union {None}
    /\ stage \in {"idle", "model", "service", "done"}
    /\ attempt \in 1..MaxAttempts /\ plain \in BOOLEAN /\ truncated \in BOOLEAN
    /\ clock \in Nat
    /\ outcome \in Decision
    /\ sent \in Request \union {None}
    /\ served \in {None, "answered", "declined", "failed"}
    /\ came \in {None, "reply", "refused", "broke", "late", "gone"}
    /\ heard \in Reply \union {None}
    /\ stage # "idle" => request \in Asked
    /\ stage = "model" => request.kind = "plan"
    /\ stage = "service" => sent # None

Planned(adapter) == request.kind = "plan" /\ request.adapter = adapter

\* A call a service gets names an operation the contracts offer.  Where the contract lists
\* the values of an argument, a confirmed call and a plan in JSON mode, on its second
\* attempt too, give one of them for every text (jsonmode.validateArgs,
\* orchestrator.validateArgs); a plan by tool calls gives what the model wrote.
CallsAreChecked ==
    sent # None =>
        /\ Finds(outcome.service, outcome.id)
        /\ Planned("toolcall") \/
             LET schemas == ArgSchemas(ContractAt(outcome.service, outcome.id))
             IN \A n \in DOMAIN outcome.args \intersect DOMAIN schemas :
                  outcome.args[n] \in Texts => schemas[n] = {} \/ outcome.args[n] \in schemas[n]

\* Every argument that is given and has a place arrives once: in the path, in the query or
\* in the body, and a parameter never in the body (splitArgs).
ArgumentsArriveOnce ==
    sent # None =>
        LET contract == ContractAt(outcome.service, outcome.id)
            places == {DOMAIN sent.path, DOMAIN sent.query, DOMAIN sent.body}
        IN /\ \A n \in DOMAIN outcome.args :
                outcome.args[n] # Null /\ n \in DOMAIN ToolProperties(contract) =>
                    \E place \in places : n \in place
           /\ DOMAIN sent.path \intersect DOMAIN sent.query = {}
           /\ (DOMAIN sent.path \union DOMAIN sent.query) \intersect DOMAIN sent.body = {}
           /\ DOMAIN sent.path \union DOMAIN sent.query \subseteq DOMAIN contract.parameters

\* A plan fails only when its last call did, or its last reply was whole and of no use; a
\* last reply that was cut short is no decision, never an error, and never acted on.  The
\* comment at planner.go:290 speaks of every attempt being cut short, but a reply of no use
\* followed by one cut short is answered the same.
TruncationIsNoFailure ==
    stage \in {"service", "done"} /\ request.kind = "plan" =>
        /\ came = "reply" => (outcome = NoDecision <=>
                                \/ heard.cut \/ heard.kind = "none"
                                \/ (heard.kind = "empty" /\ request.adapter = "toolcall"))
        /\ came # "reply" => outcome = Failed

\* A plan is decided within one call's time by tool calls, and within four in JSON mode:
\* more than the 150 s of writeTimeout, after which its answer cannot be written.
DecidedInTime ==
    stage # "idle" /\ request.kind = "plan" /\ (stage = "service" \/ (stage = "done" /\ sent = None)) =>
        clock <= (IF request.adapter = "toolcall" THEN 1 ELSE 2 * MaxAttempts) * ChatTimeout

\* No model keeps a plan waiting for ever, whatever it does (requestTimeout).
EveryPlanIsDecided == (stage = "model") ~> (stage # "model")
=============================================================================
