-------------------------- MODULE PlannersProofs --------------------------
(***************************************************************************)
(* Proofs that every plan and every confirmed call keeps its invariants,   *)
(* whatever the contracts, the replies, the arguments and the times.       *)
(***************************************************************************)
EXTENDS Planners, TLAPS, WellFoundedInduction

Valid(c, args) == PlannedValid(c, args) \/ ConfirmedValid(c, args)

\* A decision to call names an operation, with values its adapter looked at.
CallChecked(adapter, decision) ==
    decision.kind = "call" =>
        /\ Finds(decision.service, decision.id)
        /\ adapter = "jsonmode" => PlannedValid(ContractAt(decision.service, decision.id), decision.args)

\* What was sent is the decided call, split.
Sending ==
    sent # None =>
        /\ stage \in {"service", "done"}
        /\ Finds(outcome.service, outcome.id)
        /\ sent = SplitArgs(ContractAt(outcome.service, outcome.id), outcome.args)
        /\ Planned("toolcall") \/ Valid(ContractAt(outcome.service, outcome.id), outcome.args)

\* The calls made before the one under way.
Spent ==
    IF attempt = 1 THEN (IF plain THEN ChatTimeout ELSE 0)
    ELSE IF plain THEN 3 * ChatTimeout ELSE 2 * ChatTimeout

Waiting ==
    stage = "model" =>
        /\ sent = None
        /\ clock <= Spent
        /\ request.adapter = "toolcall" => attempt = 1 /\ ~plain

Fresh == stage = "idle" => attempt = 1 /\ ~plain /\ clock = 0 /\ outcome = Failed /\ sent = None

IInv == TypeOK /\ Sending /\ Waiting /\ Fresh /\ TruncationIsNoFailure /\ DecidedInTime

-----------------------------------------------------------------------------
(* Arguments and their places. *)

LEMMA ContractTyped ==
    ASSUME NEW service, NEW id, Finds(service, id)
    PROVE  /\ ContractAt(service, id) \in Contract
           /\ service \in Services /\ id \in Ids
<1>1. [service |-> service, id |-> id] \in Endpoints
  BY PlannersAssumption DEF Finds, EndpointsOf
<1>2. QED
  BY <1>1, PlannersAssumption DEF ContractAt, Endpoints

LEMMA ArgumentsMade ==
    ASSUME NEW f, NEW S, S \subseteq Names, f \in [S -> Values]
    PROVE  f \in Arguments
BY DEF Arguments

LEMMA ArgumentsTyped ==
    ASSUME NEW args \in Arguments
    PROVE  DOMAIN args \subseteq Names /\ \A n \in DOMAIN args : args[n] \in Values
BY DEF Arguments

LEMMA NoArgsTyped == NoArgs \in Arguments
<1>1. NoArgs \in [{} -> Values]
  BY DEF NoArgs
<1>2. QED
  BY <1>1, ArgumentsMade

LEMMA SplitTyped ==
    ASSUME NEW c \in Contract, NEW args \in Arguments
    PROVE  SplitArgs(c, args) \in Request
<1> DEFINE parameters == Given(args) \intersect DOMAIN c.parameters
           path  == [n \in parameters \intersect c.path |-> Printed(args[n])]
           query == [n \in parameters \ c.path |-> Printed(args[n])]
           body  == [n \in InBody(c, args) |-> args[n]]
<1>1. Given(args) \subseteq Names /\ \A n \in Given(args) : args[n] \in Values /\ Printed(args[n]) \in Values
  BY ArgumentsTyped, ValuesAssumption DEF Given, Printed, Values
<1>2. InBody(c, args) \subseteq Given(args)
  BY DEF InBody, Contract
<1>3. path \in [parameters \intersect c.path -> Values] /\ query \in [parameters \ c.path -> Values]
  BY <1>1
<1>4. body \in [InBody(c, args) -> Values]
  BY <1>1, <1>2
<1>5. parameters \intersect c.path \subseteq Names /\ parameters \ c.path \subseteq Names /\ InBody(c, args) \subseteq Names
  BY <1>1, <1>2
<1>6. path \in Arguments /\ query \in Arguments /\ body \in Arguments
  BY <1>3, <1>4, <1>5, ArgumentsMade
<1>7. SplitArgs(c, args) = [path |-> path, query |-> query, body |-> body]
  BY DEF SplitArgs
<1>8. QED
  BY <1>6, <1>7 DEF Request

LEMMA SplitPlaces ==
    ASSUME NEW c \in Contract, NEW args \in Arguments
    PROVE  LET s == SplitArgs(c, args)
           IN /\ DOMAIN s.path = (Given(args) \intersect DOMAIN c.parameters) \intersect c.path
              /\ DOMAIN s.query = (Given(args) \intersect DOMAIN c.parameters) \ c.path
              /\ DOMAIN s.body = InBody(c, args)
BY DEF SplitArgs

LEMMA InBodyIs ==
    ASSUME NEW c \in Contract, NEW args \in Arguments
    PROVE  /\ c.body = "object" => InBody(c, args) = Given(args) \ DOMAIN c.parameters
           /\ c.body = "plain" => InBody(c, args) = (Given(args) \ DOMAIN c.parameters) \intersect {BodyName}
           /\ c.body = "none" => InBody(c, args) = {}
BY DEF InBody, Contract

\* A tool shows the schema an answer in JSON mode is checked with, except for a body that
\* is no object ("the same shape usecase.inputSchemaFor builds", argSchemas).
THEOREM SchemasAgree ==
    ASSUME NEW c \in Contract, c.body # "plain"
    PROVE  ToolProperties(c) = ArgSchemas(c)
<1>1. CASE c.body = "object"
  BY <1>1 DEF ToolProperties, BodyProperties, ArgSchemas
<1>2. CASE c.body = "none"
  <2>1. c.parameters = [n \in DOMAIN c.parameters |-> c.parameters[n]]
    BY DEF Contract, Fields
  <2>2. BodyProperties(c) = [n \in {} |-> {}]
    BY <1>2 DEF BodyProperties
  <2>3. Over(c.parameters, [n \in {} |-> {}]) = [n \in DOMAIN c.parameters |-> c.parameters[n]]
    BY DEF Over
  <2>4. QED
    BY <1>2, <2>1, <2>2, <2>3 DEF ToolProperties, ArgSchemas
<1>3. QED
  BY <1>1, <1>2 DEF Contract

LEMMA ToolNames ==
    ASSUME NEW c \in Contract
    PROVE  /\ c.body = "object" => DOMAIN ToolProperties(c) = DOMAIN c.parameters \union DOMAIN c.properties
           /\ c.body = "plain" => DOMAIN ToolProperties(c) = DOMAIN c.parameters \union {BodyName}
           /\ c.body = "none" => DOMAIN ToolProperties(c) = DOMAIN c.parameters
BY DEF ToolProperties, BodyProperties, Over, Contract

\* Both checks keep a text to what the contract lists for it.
LEMMA ValidTexts ==
    ASSUME NEW c \in Contract, NEW args \in Arguments, Valid(c, args),
           NEW n \in DOMAIN args \intersect DOMAIN ArgSchemas(c), args[n] \in Texts
    PROVE  ArgSchemas(c)[n] = {} \/ args[n] \in ArgSchemas(c)[n]
<1>1. CASE PlannedValid(c, args)
  BY <1>1 DEF PlannedValid
<1>2. CASE ConfirmedValid(c, args)
  <2>1. Printed(args[n]) = args[n]
    BY ValuesAssumption DEF Printed
  <2>2. CASE c.body = "object"
    <3>1. CASE n \in DOMAIN c.properties
      BY <1>2, <2>1, <2>2, <3>1 DEF ConfirmedValid, ValidEnumArgs, ArgSchemas, Over
    <3>2. CASE n \notin DOMAIN c.properties
      BY <1>2, <2>1, <2>2, <3>2 DEF ConfirmedValid, ValidEnumArgs, ArgSchemas, Over
    <3>3. QED
      BY <3>1, <3>2
  <2>3. CASE c.body # "object"
    BY <1>2, <2>1, <2>3 DEF ConfirmedValid, ValidEnumArgs, ArgSchemas
  <2>4. QED
    BY <2>2, <2>3
<1>3. QED
  BY <1>1, <1>2 DEF Valid

-----------------------------------------------------------------------------
(* What a reply is read as. *)

LEMMA ServiceFound ==
    ASSUME NEW id, Resolves(id)
    PROVE  Finds(FirstServiceOf(Catalog, id), id)
<1> DEFINE P == Places(Catalog, id)
<1>1. P \subseteq Nat /\ P # {}
  BY PlannersAssumption DEF Places, Resolves, IdsOf, EndpointsOf
<1>2. \E i \in P : \A j \in P : i <= j
  <2> DEFINE R == OpToRel(<, Nat)
  <2>1. \A x, y \in Nat : y < x => <<y, x>> \in R
    BY DEF OpToRel
  <2>2. IsWellFoundedOn(R, Nat)
    BY NatLessThanWellFounded
  <2> HIDE DEF R, P
  <2>3. PICK x \in P : \A y \in P : ~(<<y, x>> \in R)
    BY <1>1, <2>2, WFMin
  <2>4. \A y \in P : ~(y < x) /\ y \in Nat /\ x \in Nat
    BY <1>1, <2>1, <2>3
  <2>5. QED
    BY <2>4
<1>3. ASSUME NEW i \in P
      PROVE  Finds(Catalog[i].service, id)
  <2>1. i \in DOMAIN Catalog /\ Catalog[i].id = id
    BY DEF Places
  <2>2. Catalog[i] \in Endpoints
    BY <2>1, PlannersAssumption
  <2>3. Catalog[i] = [service |-> Catalog[i].service, id |-> id]
    BY <2>1, <2>2 DEF Endpoints
  <2>4. QED
    BY <2>1, <2>3 DEF Finds, EndpointsOf
<1>4. QED
  BY <1>2, <1>3 DEF FirstServiceOf

LEMMA RepliesTyped ==
    ASSUME NEW adapter \in {"toolcall", "jsonmode"}, NEW reply \in Replies(adapter)
    PROVE  /\ reply \in Reply
           /\ adapter = "toolcall" => reply.kind \notin {"none", "other"}
<1>1. CASE reply = [cut |-> TRUE, kind |-> "broken", service |-> None, id |-> None, args |-> NoArgs]
  BY <1>1, NoArgsTyped DEF Reply, Kinds
<1>2. CASE \E s \in Said(adapter) :
             reply = [cut |-> FALSE, kind |-> s.kind, service |-> s.service, id |-> s.id, args |-> s.args]
  <2>1. PICK s \in Said(adapter) :
             reply = [cut |-> FALSE, kind |-> s.kind, service |-> s.service, id |-> s.id, args |-> s.args]
    BY <1>2
  <2>2. /\ s.kind \in ReplyKinds(adapter) /\ s.service \in Services \union {Unknown, None}
        /\ s.id \in Ids \union {Unknown, None} /\ s.args \in Arguments
    <3>1. CASE s \in UNION {Wordless(k) : k \in ReplyKinds(adapter) \ {"list", "ask", "call", "propose"}}
      BY <3>1, NoArgsTyped DEF Wordless
    <3>2. CASE s \in [kind: {"list"}, service: Services \union {Unknown, None}, id: {None}, args: {NoArgs}]
      BY <3>2, NoArgsTyped DEF ReplyKinds, Kinds
    <3>3. CASE s \in [kind: {"ask"}, service: IF adapter = "jsonmode" THEN Services \union {Unknown} ELSE {None},
                      id: Ids \union {Unknown}, args: {NoArgs}]
      BY <3>3, NoArgsTyped DEF ReplyKinds, Kinds
    <3>4. CASE s \in [kind: {"call"}, service: IF adapter = "jsonmode" THEN Services \union {Unknown} ELSE {None},
                      id: Ids \union {Unknown}, args: Written]
      BY <3>4, PlannersAssumption DEF ReplyKinds, Kinds
    <3>5. CASE s \in [kind: {"propose"}, service: Services \union {Unknown}, id: Ids \union {Unknown}, args: Written]
      <4>1. "propose" \in ReplyKinds(adapter)
        BY DEF ReplyKinds, Kinds
      <4>2. s.kind = "propose" /\ s.service \in Services \union {Unknown} /\ s.id \in Ids \union {Unknown}
            /\ s.args \in Written
        BY <3>5
      <4>3. Written \subseteq Arguments
        BY PlannersAssumption
      <4>4. QED
        BY <4>1, <4>2, <4>3
    <3>6. QED
      BY <2>1, <3>1, <3>2, <3>3, <3>4, <3>5 DEF Said
  <2>3. ReplyKinds(adapter) \subseteq Kinds /\ (adapter = "toolcall" => ReplyKinds(adapter) = Kinds \ {"none", "other"})
    BY DEF ReplyKinds
  <2>4. QED
    BY <2>1, <2>2, <2>3 DEF Reply
<1>3. QED
  BY <1>1, <1>2 DEF Replies

LEMMA Bares == NoDecision \in Decision /\ Failed \in Decision /\ NoDecision # Failed
               /\ NoDecision.kind = "none" /\ Failed.kind = "failed"
BY NoArgsTyped DEF NoDecision, Failed, Bare, Decision

LEMMA CheckedFacts ==
    ASSUME NEW reply \in Reply, reply.kind \in {"call", "propose"}
    PROVE  /\ Checked(reply) \in Decision
           /\ CallChecked("jsonmode", Checked(reply))
           /\ Checked(reply) # NoDecision
<1>1. AsDecision(reply) \in Decision /\ AsDecision(reply).kind \in {"call", "propose"}
      /\ AsDecision(reply).service = reply.service /\ AsDecision(reply).id = reply.id
      /\ AsDecision(reply).args = reply.args
  BY DEF AsDecision, Reply, Decision
<1>2. CASE Checked(reply) = Failed
  BY <1>2, Bares DEF CallChecked
<1>3. CASE Checked(reply) # Failed
  <2>1. Checked(reply) = AsDecision(reply) /\ Finds(reply.service, reply.id)
        /\ PlannedValid(ContractAt(reply.service, reply.id), reply.args)
    BY <1>3 DEF Checked
  <2>2. QED
    BY <1>1, <2>1, Bares DEF CallChecked
<1>4. QED
  BY <1>2, <1>3

LEMMA ParseFacts ==
    ASSUME NEW q, NEW reply \in Reply
    PROVE  /\ Parse(q, reply) \in Decision
           /\ CallChecked("jsonmode", Parse(q, reply))
           /\ Parse(q, reply) = NoDecision <=> reply.kind = "none"
<1>1. CASE reply.kind = "none"
  BY <1>1, Bares DEF Parse, CallChecked
<1>2. CASE reply.kind = "list"
  <2>1. Parse(q, reply) = [Bare("list") EXCEPT !.service = reply.service]
    BY <1>2 DEF Parse
  <2>2. Parse(q, reply) \in Decision /\ Parse(q, reply).kind = "list"
    BY <2>1, NoArgsTyped DEF Bare, Decision, Reply
  <2>3. QED
    BY <1>2, <2>2, Bares DEF CallChecked
<1>3. CASE reply.kind = "ask"
  <2>1. Parse(q, reply) = [AsDecision(reply) EXCEPT !.args = NoArgs]
    BY <1>3 DEF Parse
  <2>2. Parse(q, reply) \in Decision /\ Parse(q, reply).kind = "ask"
    BY <1>3, <2>1, NoArgsTyped DEF AsDecision, Decision, Reply
  <2>3. QED
    BY <1>3, <2>2, Bares DEF CallChecked
<1>4. CASE reply.kind = "call" \/ (reply.kind = "propose" /\ Offered(q))
  <2>1. Parse(q, reply) = Checked(reply)
    BY <1>4 DEF Parse
  <2>2. QED
    BY <1>4, <2>1, CheckedFacts
<1>5. CASE reply.kind \notin {"none", "list", "ask", "call"} /\ ~(reply.kind = "propose" /\ Offered(q))
  <2>1. Parse(q, reply) = Failed
    BY <1>5 DEF Parse
  <2>2. QED
    BY <1>5, <2>1, Bares DEF CallChecked
<1>6. QED
  BY <1>1, <1>2, <1>3, <1>4, <1>5

LEMMA ResolvedFacts ==
    ASSUME NEW reply \in Reply, reply.kind \in {"ask", "call"}, NEW other \in Decision,
           other.kind \in {"ask", "failed"}
    PROVE  /\ Resolved(reply, other) \in Decision
           /\ Resolved(reply, other).kind \in {reply.kind, other.kind}
           /\ CallChecked("toolcall", Resolved(reply, other))
<1>1. CASE Resolves(reply.id)
  <2> DEFINE service == FirstServiceOf(Catalog, reply.id)
  <2>1. Finds(service, reply.id) /\ service \in Services
    BY <1>1, ServiceFound, ContractTyped
  <2> HIDE DEF service
  <2>2. Resolved(reply, other) = [kind |-> reply.kind, service |-> service, id |-> reply.id, args |-> reply.args]
    BY <1>1 DEF Resolved, service
  <2>3. QED
    BY <2>1, <2>2 DEF Decision, Reply, CallChecked
<1>2. CASE ~Resolves(reply.id)
  <2>1. Resolved(reply, other) = other
    BY <1>2 DEF Resolved
  <2>2. QED
    BY <2>1 DEF CallChecked
<1>3. QED
  BY <1>1, <1>2

LEMMA DecodeFacts ==
    ASSUME NEW reply \in Reply, reply.kind \notin {"none", "other"}
    PROVE  /\ Decode(reply) \in Decision
           /\ CallChecked("toolcall", Decode(reply))
           /\ Decode(reply) = NoDecision <=> reply.kind = "empty"
<1>1. CASE reply.kind = "list"
  <2>1. Decode(reply) = [Bare("list") EXCEPT !.service = reply.service]
    BY <1>1 DEF Decode
  <2>2. Decode(reply) \in Decision /\ Decode(reply).kind = "list"
    BY <2>1, NoArgsTyped DEF Bare, Decision, Reply
  <2>3. QED
    BY <1>1, <2>2, Bares DEF CallChecked
<1>2. CASE reply.kind = "ask"
  <2>1. Bare("ask") \in Decision /\ Bare("ask").kind = "ask"
    BY NoArgsTyped DEF Bare, Decision
  <2>2. Resolved(reply, Bare("ask")) \in Decision /\ Resolved(reply, Bare("ask")).kind = "ask"
    BY <1>2, <2>1, ResolvedFacts
  <2>3. Decode(reply) = [Resolved(reply, Bare("ask")) EXCEPT !.args = NoArgs]
    BY <1>2 DEF Decode
  <2>4. Decode(reply) \in Decision /\ Decode(reply).kind = "ask"
    BY <2>2, <2>3, NoArgsTyped DEF Decision
  <2>5. QED
    BY <1>2, <2>4, Bares DEF CallChecked
<1>3. CASE reply.kind = "call"
  <2>1. Decode(reply) = Resolved(reply, Failed)
    BY <1>3 DEF Decode
  <2>2. QED
    BY <1>3, <2>1, Bares, ResolvedFacts
<1>4. CASE reply.kind = "propose"
  <2>1. Decode(reply) = AsDecision(reply)
    BY <1>4 DEF Decode
  <2>2. AsDecision(reply) \in Decision /\ AsDecision(reply).kind = "propose"
    BY <1>4 DEF AsDecision, Decision, Reply
  <2>3. QED
    BY <1>4, <2>1, <2>2, Bares DEF CallChecked
<1>5. CASE reply.kind = "broken"
  <2>1. Decode(reply) = Failed
    BY <1>5 DEF Decode
  <2>2. QED
    BY <1>5, <2>1, Bares DEF CallChecked
<1>6. CASE reply.kind = "empty"
  <2>1. Decode(reply) = NoDecision
    BY <1>6 DEF Decode
  <2>2. QED
    BY <1>6, <2>1, Bares DEF CallChecked
<1>7. QED
  BY <1>1, <1>2, <1>3, <1>4, <1>5, <1>6 DEF Reply, Kinds

-----------------------------------------------------------------------------
(* Steps. *)

LEMMA AskedTyped ==
    ASSUME NEW q \in Asked
    PROVE  /\ q.kind \in {"plan", "invoke"}
           /\ q.kind = "plan" => q.adapter \in {"toolcall", "jsonmode"}
           /\ q.kind = "invoke" => /\ q.service \in Services \union {Unknown} /\ q.id \in Ids \union {Unknown}
                                   /\ q.args \in Arguments
<1>1. CASE q \in Question
  <2>1. q.kind = "plan" /\ q.adapter \in {"toolcall", "jsonmode"}
    BY <1>1 DEF Question
  <2>2. QED
    BY <2>1
<1>2. CASE q \in Confirmed
  <2>1. q.kind = "invoke" /\ q.service \in Services \union {Unknown} /\ q.id \in Ids \union {Unknown}
        /\ q.args \in Arguments
    BY <1>2 DEF Confirmed
  <2>2. QED
    BY <2>1
<1>3. QED
  BY <1>1, <1>2, PlannersAssumption

THEOREM InitInvariant == Init => IInv
<1> SUFFICES ASSUME Init PROVE IInv
  OBVIOUS
<1>1. attempt \in 1..MaxAttempts /\ clock \in Nat
  BY DEF Init, MaxAttempts
<1>2. plain \in BOOLEAN /\ truncated \in BOOLEAN
  BY Zenon DEF Init
<1>3. TypeOK
  BY <1>1, <1>2, Bares DEF Init, TypeOK
<1>4. QED
  BY <1>3 DEF Init, IInv, Sending, Waiting, Fresh, TruncationIsNoFailure, DecidedInTime

\* What is sent is a request, once an operation is found.
LEMMA Called ==
    ASSUME NEW decision \in Decision, decision.kind = "call", Finds(decision.service, decision.id),
           CallService(decision)
    PROVE  /\ stage' = "service" /\ outcome' = decision /\ sent' \in Request /\ sent' # None
           /\ sent' = SplitArgs(ContractAt(outcome'.service, outcome'.id), outcome'.args)
<1>1. ContractAt(decision.service, decision.id) \in Contract
  BY ContractTyped
<1>2. decision.args \in Arguments
  BY DEF Decision
<1>3. SplitArgs(ContractAt(decision.service, decision.id), decision.args) \in Request
  BY <1>1, <1>2, SplitTyped
<1>4. QED
  BY <1>3, PlannersAssumption DEF CallService

LEMMA Decided ==
    ASSUME TypeOK, stage = "model", NEW decision \in Decision, CallChecked(request.adapter, decision),
           Decide(decision), UNCHANGED request
    PROVE  /\ stage' \in {"service", "done"} /\ outcome' = decision
           /\ sent' \in Request \union {None} /\ (stage' = "service" => sent' # None)
           /\ Sending'
<1>1. request \in Asked /\ request.kind = "plan" /\ request.adapter \in {"toolcall", "jsonmode"}
  BY AskedTyped DEF TypeOK
<1>2. CASE Finish(decision)
  BY <1>2 DEF Finish, Sending
<1>3. CASE decision.kind = "call" /\ CallService(decision)
  <2>1. Finds(decision.service, decision.id)
        /\ (request.adapter = "jsonmode" => PlannedValid(ContractAt(decision.service, decision.id), decision.args))
    BY <1>3 DEF CallChecked
  <2>2. /\ stage' = "service" /\ outcome' = decision /\ sent' \in Request /\ sent' # None
        /\ sent' = SplitArgs(ContractAt(outcome'.service, outcome'.id), outcome'.args)
    BY <1>3, <2>1, Called
  <2>3. Planned("toolcall")' \/ Valid(ContractAt(outcome'.service, outcome'.id), outcome'.args)
    BY <1>1, <2>1, <2>2 DEF Planned, Valid
  <2>4. Sending'
    BY <2>1, <2>2, <2>3 DEF Sending
  <2>5. QED
    BY <2>2, <2>4
<1>4. QED
  BY <1>2, <1>3 DEF Decide

LEMMA Elapsed ==
    ASSUME TypeOK, Waiting, stage = "model", UNCHANGED request,
           \/ Within(ChatTimeout)
           \/ clock' = clock + ChatTimeout
    PROVE  /\ clock' \in Nat /\ clock' <= Spent + ChatTimeout
           /\ clock' <= (IF request'.adapter = "toolcall" THEN 1 ELSE 2 * MaxAttempts) * ChatTimeout
<1>1. ChatTimeout \in Nat /\ clock \in Nat /\ Durations \subseteq Nat
  BY PlannersAssumption DEF TypeOK
<1>2. clock' \in Nat /\ clock' <= clock + ChatTimeout
  BY <1>1 DEF Within
<1>3. clock <= Spent /\ Spent \in {0, ChatTimeout, 2 * ChatTimeout, 3 * ChatTimeout}
  BY DEF Waiting, Spent
<1>4. clock' <= Spent + ChatTimeout
  BY <1>1, <1>2, <1>3
<1>5. CASE request.adapter = "toolcall"
  <2>1. Spent = 0
    BY <1>5 DEF Waiting, Spent
  <2>2. QED
    BY <1>1, <1>2, <1>4, <1>5, <2>1
<1>6. CASE request.adapter # "toolcall"
  <2>1. clock' <= 4 * ChatTimeout
    BY <1>1, <1>2, <1>3, <1>4
  <2>2. QED
    BY <1>2, <1>4, <1>6, <2>1 DEF MaxAttempts
<1>7. QED
  BY <1>5, <1>6

\* A plan that ends without a call keeps the invariant.
LEMMA EndsPlan ==
    ASSUME IInv, stage = "model", Finish(Failed),
           UNCHANGED <<request, attempt, truncated, served, heard>>, plain' \in BOOLEAN,
           Within(ChatTimeout) \/ clock' = clock + ChatTimeout,
           came' \in {"refused", "broke", "late", "gone"}
    PROVE  IInv'
<1>1. request \in Asked /\ request.kind = "plan"
  BY DEF IInv, TypeOK
<1>2. clock' \in Nat /\ clock' <= (IF request'.adapter = "toolcall" THEN 1 ELSE 2 * MaxAttempts) * ChatTimeout
  BY Elapsed DEF IInv
<1>3. stage' = "done" /\ outcome' = Failed /\ sent' = None
  BY DEF Finish
<1>4. TypeOK'
  BY <1>1, <1>2, <1>3, Bares DEF IInv, TypeOK
<1>5. Sending' /\ Waiting' /\ Fresh'
  BY <1>3 DEF Sending, Waiting, Fresh
<1>6. TruncationIsNoFailure'
  BY <1>3 DEF TruncationIsNoFailure
<1>7. DecidedInTime'
  BY <1>2 DEF DecidedInTime
<1>8. QED
  BY <1>4, <1>5, <1>6, <1>7 DEF IInv

LEMMA ArriveStep == ASSUME IInv, Arrive PROVE IInv'
<1>1. PICK q \in Asked : request' = q /\ IF q.kind = "plan" THEN Asks ELSE Confirm(q)
  BY DEF Arrive
<1>2. /\ attempt' = 1 /\ ~plain' /\ clock' = 0 /\ sent = None /\ outcome = Failed
      /\ UNCHANGED <<attempt, plain, truncated, clock, served, came, heard>>
  BY DEF IInv, Fresh, Arrive
<1>3. q.kind \in {"plan", "invoke"}
  BY AskedTyped
<1>4. CASE q.kind = "plan"
  <2>1. stage' = "model" /\ UNCHANGED <<outcome, sent>>
    BY <1>1, <1>4 DEF Asks
  <2>2. TypeOK'
    BY <1>1, <1>2, <1>4, <2>1 DEF IInv, TypeOK
  <2>3. Sending' /\ Fresh' /\ TruncationIsNoFailure' /\ DecidedInTime'
    BY <1>2, <2>1 DEF Sending, Fresh, TruncationIsNoFailure, DecidedInTime
  <2>4. Waiting'
    BY <1>2, <2>1 DEF Waiting, Spent
  <2>5. QED
    BY <2>2, <2>3, <2>4 DEF IInv
<1>5. CASE q.kind = "invoke" /\ Finds(q.service, q.id) /\ ConfirmedValid(ContractAt(q.service, q.id), q.args)
  <2> DEFINE decision == [kind |-> "call", service |-> q.service, id |-> q.id, args |-> q.args]
  <2>1. CallService(decision)
    BY <1>1, <1>5 DEF Confirm
  <2>2. decision \in Decision
    BY <1>5, AskedTyped DEF Decision
  <2>3. /\ stage' = "service" /\ outcome' = decision /\ sent' \in Request /\ sent' # None
        /\ sent' = SplitArgs(ContractAt(outcome'.service, outcome'.id), outcome'.args)
    BY <1>5, <2>1, <2>2, Called
  <2>4. Sending'
    BY <1>5, <2>3 DEF Sending, Valid
  <2>5. TypeOK'
    BY <1>1, <1>2, <1>5, <2>2, <2>3 DEF IInv, TypeOK
  <2>6. Waiting' /\ Fresh' /\ TruncationIsNoFailure' /\ DecidedInTime'
    BY <1>1, <1>5, <2>3 DEF Waiting, Fresh, TruncationIsNoFailure, DecidedInTime
  <2>7. QED
    BY <2>4, <2>5, <2>6 DEF IInv
<1>6. CASE q.kind = "invoke" /\ ~(Finds(q.service, q.id) /\ ConfirmedValid(ContractAt(q.service, q.id), q.args))
  <2>1. stage' = "done" /\ outcome' = Failed /\ sent' = None
    BY <1>1, <1>6 DEF Confirm, Finish
  <2>2. TypeOK'
    BY <1>1, <1>2, <2>1, Bares DEF IInv, TypeOK
  <2>3. Sending' /\ Waiting' /\ Fresh' /\ TruncationIsNoFailure' /\ DecidedInTime'
    BY <1>1, <1>6, <2>1 DEF Sending, Waiting, Fresh, TruncationIsNoFailure, DecidedInTime
  <2>4. QED
    BY <2>2, <2>3 DEF IInv
<1>7. QED
  BY <1>3, <1>4, <1>5, <1>6

LEMMA LeaveStep == ASSUME IInv, Leave PROVE IInv'
<1>1. attempt' \in 1..MaxAttempts /\ clock' \in Nat
  BY DEF Leave, MaxAttempts
<1>2. plain' \in BOOLEAN /\ truncated' \in BOOLEAN
  BY Zenon DEF Leave
<1>3. TypeOK'
  BY <1>1, <1>2, Bares DEF Leave, TypeOK
<1>4. QED
  BY <1>3 DEF Leave, IInv, Sending, Waiting, Fresh, TruncationIsNoFailure, DecidedInTime

\* A reply that decides keeps the invariant.
LEMMA ReplyDecides ==
    ASSUME IInv, stage = "model", UNCHANGED <<request, served, attempt, plain>>, Within(ChatTimeout),
           came' = "reply", NEW reply \in Reply, truncated' = reply.cut, heard' = reply,
           NEW decision \in Decision, CallChecked(request.adapter, decision), Decide(decision),
           decision = NoDecision <=> \/ reply.cut \/ reply.kind = "none"
                                     \/ (reply.kind = "empty" /\ request.adapter = "toolcall")
    PROVE  IInv'
<1>1. TypeOK /\ request \in Asked /\ request.kind = "plan"
  BY DEF IInv, TypeOK
<1>2. /\ stage' \in {"service", "done"} /\ outcome' = decision
      /\ sent' \in Request \union {None} /\ (stage' = "service" => sent' # None)
      /\ Sending'
  BY <1>1, Decided
<1>3. clock' \in Nat /\ clock' <= (IF request'.adapter = "toolcall" THEN 1 ELSE 2 * MaxAttempts) * ChatTimeout
  BY Elapsed DEF IInv
<1>4. reply.cut \in BOOLEAN
  BY DEF Reply
<1>5. TypeOK'
  BY <1>1, <1>2, <1>3, <1>4 DEF TypeOK
<1>6. Waiting' /\ Fresh'
  BY <1>2 DEF Waiting, Fresh
<1>7. TruncationIsNoFailure'
  BY <1>2 DEF TruncationIsNoFailure
<1>8. DecidedInTime'
  BY <1>3 DEF DecidedInTime
<1>9. QED
  BY <1>2, <1>5, <1>6, <1>7, <1>8 DEF IInv

\* One more call keeps the invariant: its turn is counted.
LEMMA AsksAgain ==
    ASSUME IInv, stage = "model", request.adapter = "jsonmode", UNCHANGED <<request, served>>,
           Within(ChatTimeout), Asks,
           \/ attempt = 1 /\ attempt' = 2 /\ plain' = FALSE
           \/ attempt' = attempt /\ ~plain /\ plain' = TRUE,
           truncated' \in BOOLEAN, came' \in {"reply", "refused"}, heard' = None \/ heard' = heard
    PROVE  IInv'
<1>1. TypeOK /\ request \in Asked /\ request.kind = "plan" /\ attempt \in 1..2 /\ plain \in BOOLEAN
  BY DEF IInv, TypeOK, MaxAttempts
<1>2. stage' = "model" /\ outcome' = outcome /\ sent' = sent /\ sent = None
  BY DEF Asks, IInv, Waiting
<1>3. clock' \in Nat /\ clock' <= Spent + ChatTimeout
  BY Elapsed DEF IInv
<1>12. plain' \in BOOLEAN
  BY Zenon
<1>4. attempt' \in 1..2 /\ plain' \in BOOLEAN
  BY <1>1, <1>12
<1>5. TypeOK'
  BY <1>1, <1>2, <1>3, <1>4 DEF TypeOK, MaxAttempts
<1>6. Spent + ChatTimeout <= Spent'
  BY <1>1, PlannersAssumption DEF Spent
<1>7. Spent \in Nat /\ Spent' \in Nat /\ ChatTimeout \in Nat
  BY <1>1, <1>4, PlannersAssumption DEF Spent
<1>8. clock' <= Spent'
  BY <1>3, <1>6, <1>7
<1>9. Waiting'
  BY <1>2, <1>8 DEF Waiting
<1>10. Sending' /\ Fresh' /\ TruncationIsNoFailure' /\ DecidedInTime'
  BY <1>2 DEF Sending, Fresh, TruncationIsNoFailure, DecidedInTime
<1>11. QED
  BY <1>5, <1>9, <1>10 DEF IInv

LEMMA ModelRepliesStep == ASSUME IInv, ModelReplies PROVE IInv'
<1>1. TypeOK /\ stage = "model" /\ request \in Asked /\ request.kind = "plan"
      /\ attempt \in 1..MaxAttempts
  BY DEF IInv, TypeOK, ModelReplies
<1>2. request.adapter \in {"toolcall", "jsonmode"}
  BY <1>1, AskedTyped
<1>3. PICK reply \in Replies(request.adapter) :
        /\ truncated' = Truncated(reply)
        /\ IF request.adapter = "jsonmode" THEN ReadJson(reply) ELSE ReadToolCall(reply)
        /\ heard' = IF stage' = "model" THEN None ELSE reply
  BY DEF ModelReplies
<1>4. reply \in Reply /\ (request.adapter = "toolcall" => reply.kind \notin {"none", "other"})
  BY <1>2, <1>3, RepliesTyped
<1>5. truncated' = reply.cut /\ reply.cut \in BOOLEAN
  BY <1>3, <1>4 DEF Truncated, Reply
<1>6. Within(ChatTimeout) /\ came' = "reply" /\ UNCHANGED <<request, served>>
  BY DEF ModelReplies
<1>7. ASSUME NEW decision \in Decision, CallChecked(request.adapter, decision), Decide(decision),
             decision = NoDecision <=> \/ reply.cut \/ reply.kind = "none"
                                       \/ (reply.kind = "empty" /\ request.adapter = "toolcall"),
             UNCHANGED <<attempt, plain>>
      PROVE  IInv'
  <2>1. stage' \in {"service", "done"}
    BY <1>1, <1>6, <1>7, Decided
  <2>2. heard' = reply
    BY <1>3, <2>1
  <2>3. QED
    BY <1>1, <1>4, <1>5, <1>6, <1>7, <2>2, ReplyDecides
<1>8. CASE request.adapter = "toolcall"
  <2> DEFINE decision == IF reply.cut THEN NoDecision ELSE Decode(reply)
  <2>1. Decide(decision) /\ UNCHANGED <<attempt, plain>>
    BY <1>3, <1>8 DEF ReadToolCall
  <2>2. /\ Decode(reply) \in Decision /\ CallChecked("toolcall", Decode(reply))
        /\ Decode(reply) = NoDecision <=> reply.kind = "empty"
    BY <1>4, <1>8, DecodeFacts
  <2>3. decision \in Decision /\ CallChecked(request.adapter, decision)
    BY <1>8, <2>2, Bares DEF CallChecked
  <2>4. decision = NoDecision <=> reply.cut \/ reply.kind = "empty"
    BY <2>2
  <2> HIDE DEF decision
  <2>5. QED
    BY <1>4, <1>7, <1>8, <2>1, <2>3, <2>4
<1>9. CASE request.adapter = "jsonmode"
  <2> DEFINE decision == Parse(request, reply)
  <2>1. ReadJson(reply)
    BY <1>3, <1>9
  <2>2. /\ decision \in Decision /\ CallChecked("jsonmode", decision)
        /\ decision = NoDecision <=> reply.kind = "none"
    BY <1>4, ParseFacts
  <2>3. CASE ~reply.cut /\ decision # Failed
    <3>1. Decide(decision) /\ UNCHANGED <<attempt, plain>>
      BY <2>1, <2>3 DEF ReadJson
    <3> HIDE DEF decision
    <3>2. QED
      BY <1>7, <1>9, <2>2, <2>3, <3>1
  <2>4. CASE ~(~reply.cut /\ decision # Failed) /\ attempt < MaxAttempts
    <3>1. Asks /\ attempt' = attempt + 1 /\ plain' = FALSE
      BY <2>1, <2>4 DEF ReadJson
    <3>2. attempt = 1 /\ attempt' = 2
      BY <1>1, <2>4, <3>1 DEF MaxAttempts
    <3>3. heard' = None
      BY <1>3, <3>1 DEF Asks
    <3>4. QED
      BY <1>1, <1>5, <1>6, <1>9, <3>1, <3>2, <3>3, AsksAgain
  <2>5. CASE ~(~reply.cut /\ decision # Failed) /\ ~(attempt < MaxAttempts)
    <3>1. Finish(GivesUp) /\ UNCHANGED <<attempt, plain>>
      BY <2>1, <2>5 DEF ReadJson
    <3>2. GivesUp = IF reply.cut THEN NoDecision ELSE Failed
      BY <1>5 DEF GivesUp
    <3>3. GivesUp \in Decision /\ CallChecked("jsonmode", GivesUp) /\ Decide(GivesUp)
      BY <3>1, <3>2, Bares DEF Decide, CallChecked
    <3>4. ~reply.cut => reply.kind # "none"
      BY <2>2, <2>5, Bares
    <3>5. GivesUp = NoDecision <=> reply.cut \/ reply.kind = "none"
      BY <3>2, <3>4, Bares
    <3>6. QED
      BY <1>7, <1>9, <3>1, <3>3, <3>5
  <2>6. QED
    BY <2>3, <2>4, <2>5
<1>10. QED
  BY <1>2, <1>8, <1>9

LEMMA ModelRefusesStep == ASSUME IInv, ModelRefuses PROVE IInv'
<1>1. /\ stage = "model" /\ request \in Asked /\ Within(ChatTimeout) /\ came' = "refused"
      /\ UNCHANGED <<request, attempt, truncated, served, heard>>
      /\ plain \in BOOLEAN /\ truncated \in BOOLEAN
  BY DEF IInv, TypeOK, ModelRefuses
<1>2. CASE request.adapter = "jsonmode" /\ ~plain
  <2>1. Asks /\ plain' = TRUE
    BY <1>2 DEF ModelRefuses
  <2>2. QED
    BY <1>1, <1>2, <2>1, AsksAgain
<1>3. CASE ~(request.adapter = "jsonmode" /\ ~plain)
  <2>1. Finish(Failed) /\ plain' = plain
    BY <1>3 DEF ModelRefuses
  <2>2. QED
    BY <1>1, <2>1, EndsPlan
<1>4. QED
  BY <1>2, <1>3

LEMMA ModelBreaksStep == ASSUME IInv, ModelBreaks PROVE IInv'
<1>1. plain' \in BOOLEAN
  BY DEF IInv, TypeOK, ModelBreaks
<1>2. QED
  BY <1>1, EndsPlan DEF ModelBreaks

LEMMA TimesOutStep == ASSUME IInv, TimesOut PROVE IInv'
<1>1. plain' \in BOOLEAN
  BY DEF IInv, TypeOK, TimesOut
<1>2. QED
  BY <1>1, EndsPlan DEF TimesOut, CallTimesOut

\* A call of the service that ends changes nothing that was decided.
LEMMA ServiceEnds ==
    ASSUME IInv, stage = "service", NEW d \in Durations, clock' = clock + d, stage' = "done",
           served' \in {"answered", "declined", "failed"},
           UNCHANGED <<request, attempt, plain, truncated, outcome, sent, came, heard>>
    PROVE  IInv'
<1>1. clock' \in Nat
  BY PlannersAssumption DEF IInv, TypeOK
<1>2. TypeOK'
  BY <1>1 DEF IInv, TypeOK
<1>3. Sending'
  BY DEF IInv, Sending, Planned
<1>4. Waiting' /\ Fresh'
  BY DEF Waiting, Fresh
<1>5. TruncationIsNoFailure'
  BY DEF IInv, TruncationIsNoFailure
<1>6. sent' # None
  BY DEF IInv, TypeOK
<1>7. DecidedInTime'
  BY <1>6 DEF DecidedInTime
<1>8. QED
  BY <1>2, <1>3, <1>4, <1>5, <1>7 DEF IInv

LEMMA HangUpStep == ASSUME IInv, HangUp PROVE IInv'
<1>1. CASE stage = "model"
  <2>1. Within(ChatTimeout) /\ came' = "gone" /\ Finish(Failed)
        /\ UNCHANGED <<request, attempt, plain, truncated, served, heard>>
    BY <1>1 DEF HangUp
  <2>2. plain' \in BOOLEAN
    BY <2>1 DEF IInv, TypeOK
  <2>3. QED
    BY <1>1, <2>1, <2>2, EndsPlan
<1>2. CASE stage = "service"
  BY <1>2, ServiceEnds DEF HangUp
<1>3. QED
  BY <1>1, <1>2 DEF HangUp

LEMMA ServiceRepliesStep == ASSUME IInv, ServiceReplies PROVE IInv'
BY ServiceEnds DEF ServiceReplies

LEMMA NextStep == ASSUME IInv, [Next]_vars PROVE IInv'
<1>1. CASE UNCHANGED vars
  BY <1>1 DEF vars, IInv, TypeOK, Sending, Planned, Waiting, Spent, Fresh, TruncationIsNoFailure, DecidedInTime
<1>2. QED
  BY <1>1, ArriveStep, LeaveStep, ModelRepliesStep, ModelRefusesStep, ModelBreaksStep, TimesOutStep,
     HangUpStep, ServiceRepliesStep DEF Next

\* What every request keeps, in every state.
THEOREM Invariant == Spec => []IInv
<1>1. Init => IInv
  BY InitInvariant
<1>2. IInv /\ [Next]_vars => IInv'
  BY NextStep
<1>3. QED
  BY <1>1, <1>2, PTL DEF Spec

-----------------------------------------------------------------------------
(* What it says of calls, arguments, replies and time. *)

THEOREM TypeCorrect == Spec => []TypeOK
<1>1. IInv => TypeOK
  BY DEF IInv
<1>2. QED
  BY <1>1, Invariant, PTL

LEMMA SentFacts ==
    ASSUME IInv, sent # None
    PROVE  /\ Finds(outcome.service, outcome.id) /\ ContractAt(outcome.service, outcome.id) \in Contract
           /\ outcome.args \in Arguments
           /\ sent = SplitArgs(ContractAt(outcome.service, outcome.id), outcome.args)
           /\ Planned("toolcall") \/ Valid(ContractAt(outcome.service, outcome.id), outcome.args)
<1>1. Finds(outcome.service, outcome.id)
  BY DEF IInv, Sending
<1>2. outcome \in Decision
  BY DEF IInv, TypeOK
<1>3. outcome.args \in Arguments
  BY <1>2 DEF Decision
<1>4. QED
  BY <1>1, <1>3, ContractTyped DEF IInv, Sending

\* Whatever the contracts, the model and the person: a call names an operation there is,
\* and gives a text only where the contract allows it.
THEOREM CallsChecked == Spec => []CallsAreChecked
<1>1. ASSUME IInv PROVE CallsAreChecked
  <2>1. SUFFICES ASSUME sent # None, ~Planned("toolcall"),
                        NEW n \in DOMAIN outcome.args
                                  \intersect DOMAIN ArgSchemas(ContractAt(outcome.service, outcome.id)),
                        outcome.args[n] \in Texts
                 PROVE  \/ ArgSchemas(ContractAt(outcome.service, outcome.id))[n] = {}
                        \/ outcome.args[n] \in ArgSchemas(ContractAt(outcome.service, outcome.id))[n]
    BY <1>1, SentFacts DEF CallsAreChecked
  <2>2. QED
    BY <1>1, <2>1, SentFacts, ValidTexts
<1>2. QED
  BY <1>1, Invariant, PTL

\* Whatever the contract and the arguments, those with a place get one place each.
THEOREM ArriveOnce == Spec => []ArgumentsArriveOnce
<1>1. ASSUME IInv PROVE ArgumentsArriveOnce
  <2>1. SUFFICES ASSUME sent # None PROVE ArgumentsArriveOnce
    BY DEF ArgumentsArriveOnce
  <2> DEFINE c == ContractAt(outcome.service, outcome.id)
             args == outcome.args
             given == Given(args) \intersect DOMAIN c.parameters
  <2>2. c \in Contract /\ args \in Arguments /\ sent = SplitArgs(c, args)
    BY <1>1, <2>1, SentFacts
  <2>3. /\ DOMAIN sent.path = given \intersect c.path /\ DOMAIN sent.query = given \ c.path
        /\ DOMAIN sent.body = InBody(c, args)
    BY <2>2, SplitPlaces
  <2>4. /\ c.body = "object" => InBody(c, args) = Given(args) \ DOMAIN c.parameters
        /\ c.body = "plain" => InBody(c, args) = (Given(args) \ DOMAIN c.parameters) \intersect {BodyName}
        /\ c.body = "none" => InBody(c, args) = {}
        /\ c.body \in {"none", "object", "plain"}
    BY <2>2, InBodyIs DEF Contract
  <2>5. /\ c.body = "object" => DOMAIN ToolProperties(c) = DOMAIN c.parameters \union DOMAIN c.properties
        /\ c.body = "plain" => DOMAIN ToolProperties(c) = DOMAIN c.parameters \union {BodyName}
        /\ c.body = "none" => DOMAIN ToolProperties(c) = DOMAIN c.parameters
    BY <2>2, ToolNames
  <2> HIDE DEF c
  <2>6. ASSUME NEW n \in DOMAIN args, args[n] # Null, n \in DOMAIN ToolProperties(c)
        PROVE  n \in DOMAIN sent.path \/ n \in DOMAIN sent.query \/ n \in DOMAIN sent.body
    <3>1. n \in Given(args)
      BY <2>6 DEF Given
    <3>2. CASE n \in DOMAIN c.parameters
      BY <2>3, <3>1, <3>2
    <3>3. CASE n \notin DOMAIN c.parameters
      BY <2>3, <2>4, <2>5, <2>6, <3>1, <3>3
    <3>4. QED
      BY <3>2, <3>3
  <2>7. InBody(c, args) \intersect DOMAIN c.parameters = {}
    BY <2>4
  <2>8. /\ DOMAIN sent.path \intersect DOMAIN sent.query = {}
        /\ (DOMAIN sent.path \union DOMAIN sent.query) \intersect DOMAIN sent.body = {}
        /\ DOMAIN sent.path \union DOMAIN sent.query \subseteq DOMAIN c.parameters
    BY <2>3, <2>7
  <2>9. QED
    BY <2>6, <2>8 DEF ArgumentsArriveOnce, c
<1>2. QED
  BY <1>1, Invariant, PTL

\* Whatever the model replies, a plan fails for what its last call was.
THEOREM TruncationNoFailure == Spec => []TruncationIsNoFailure
<1>1. IInv => TruncationIsNoFailure
  BY DEF IInv
<1>2. QED
  BY <1>1, Invariant, PTL

\* Whatever the timeout, one call's time bounds a plan by tool calls, four bound one in
\* JSON mode.
THEOREM InTime == Spec => []DecidedInTime
<1>1. IInv => DecidedInTime
  BY DEF IInv
<1>2. QED
  BY <1>1, Invariant, PTL

-----------------------------------------------------------------------------
(* What EveryPlanIsDecided rests on, but for the timer going off. *)

\* How often a request can still go on: two calls of the model for every attempt, with and
\* without a response format, and the call of the service.
Left ==
    CASE stage = "model" -> 2 * (MaxAttempts - attempt) + (IF plain THEN 2 ELSE 3)
      [] stage = "service" -> 1
      [] OTHER -> 0

Goes == ModelReplies \/ ModelRefuses \/ ModelBreaks \/ TimesOut \/ HangUp \/ ServiceReplies

\* No reply, refusal or failure keeps a plan going: every step of it leaves fewer than were
\* left before, the repaired and the plain attempts included (jsonmode.Plan).
THEOREM StepsRunOut == Spec => [][(stage \in {"model", "service"} <=> Left > 0)
                                  /\ (Goes => Left' \in Nat /\ Left' < Left)]_vars
<1>1. ASSUME IInv PROVE Left \in Nat /\ (stage \in {"model", "service"} <=> Left > 0)
  BY <1>1 DEF IInv, TypeOK, Left, MaxAttempts
<1>2. ASSUME IInv, IInv', Goes PROVE Left' < Left
  <2>1. attempt \in 1..2 /\ plain \in BOOLEAN /\ MaxAttempts = 2
    BY <1>2 DEF IInv, TypeOK, MaxAttempts
  <2>2. CASE stage' \in {"done", "service"} /\ stage = "model"
    BY <2>1, <2>2 DEF Left
  <2>3. CASE stage' = "done" /\ stage = "service"
    BY <2>3 DEF Left
  <2>4. CASE stage = "model" /\ stage' = "model" /\ attempt' = attempt + 1 /\ plain' = FALSE /\ attempt < MaxAttempts
    BY <2>1, <2>4 DEF Left
  <2>5. CASE stage = "model" /\ stage' = "model" /\ attempt' = attempt /\ plain' = TRUE /\ ~plain
    BY <2>1, <2>5 DEF Left
  <2>6. CASE ModelReplies
    <3>1. stage = "model"
      BY <2>6 DEF ModelReplies
    <3>2. PICK reply : IF request.adapter = "jsonmode" THEN ReadJson(reply) ELSE ReadToolCall(reply)
      BY <2>6 DEF ModelReplies
    <3>3. QED
      BY <2>2, <2>4, <3>1, <3>2 DEF ReadJson, ReadToolCall, Decide, Finish, CallService, Asks
  <2>7. CASE ModelRefuses
    BY <2>2, <2>5, <2>7 DEF ModelRefuses, Asks, Finish
  <2>8. CASE ModelBreaks \/ TimesOut \/ HangUp \/ ServiceReplies
    BY <2>2, <2>3, <2>8 DEF ModelBreaks, TimesOut, CallTimesOut, HangUp, ServiceReplies, Finish
  <2>9. QED
    BY <1>2, <2>6, <2>7, <2>8 DEF Goes
<1>3. IInv /\ IInv' /\ [Next]_vars => [(stage \in {"model", "service"} <=> Left > 0)
                                       /\ (Goes => Left' \in Nat /\ Left' < Left)]_vars
  <2>1. ASSUME IInv' PROVE Left' \in Nat
    BY <2>1 DEF IInv, TypeOK, Left, MaxAttempts
  <2>2. QED
    BY <1>1, <1>2, <2>1
<1>4. QED
  BY <1>3, Invariant, PTL DEF Spec
=============================================================================
