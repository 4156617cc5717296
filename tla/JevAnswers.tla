----------------------------- MODULE JevAnswers -----------------------------
(***************************************************************************)
(* What the adapters of planner/jev ask the remote model and what they     *)
(* make of its answers.  A request is a set of named questions, each with  *)
(* its options; the model answers some of them, by a choice and how sure   *)
(* it is or by a probability for each option.  Probabilities are in        *)
(* tenths; how sure a pick is, is kept squared, since the score of a path  *)
(* is the root of a product.  Whether a pick is ambiguous is only logged.  *)
(***************************************************************************)
EXTENDS Catalogue, FiniteSets, Functions

CONSTANTS
    Services, Ids,           \* what endpoints are made of
    ListCapabilities, ProposePanel, NoOperation, \* pick.IDListCapabilities, IDProposePanel, IDNone
    Other,                   \* routeOtherID
    Unknown,                 \* a name that is in no catalogue
    Levels, Total,           \* bounds: the probabilities a run gives, and what those of one answer come to
    Rank,                    \* candidateKey's order on a service (None: a built-in) and an id
    MaxChoiceOptions,        \* 255
    GateThreshold, FillThreshold,
    Params,                  \* the filled operation's parameters, in order
    EnumOf, Values,          \* what each of their enums declares
    Unset, Mismatch, Refusal, Capabilities,  \* the filler's own options
    Missing, None

Builtins == {ListCapabilities, ProposePanel, NoOperation}
Endpoints == [service: Services, id: Ids]
Sentinels == {Unset, Mismatch, Refusal, Capabilities}
ParamNames == {Params[i] : i \in DOMAIN Params}

ASSUME LevelsAssumption ==
    /\ Levels \subseteq 0..10 /\ 0 \in Levels /\ Total \in Nat /\ MaxChoiceOptions \in Nat
    /\ {GateThreshold, FillThreshold} \subseteq 0..10
\* The code does not check that the names in a contract differ from its own.
ASSUME NamesAssumption ==
    /\ ListCapabilities \notin {ProposePanel, NoOperation} /\ ProposePanel # NoOperation
    /\ Builtins \intersect (Ids \union Services) = {}
    /\ Other \notin Services /\ None \notin Services \union Ids
    /\ Unknown \notin Ids \union Builtins \union Services \union {Other} \union Values \union Sentinels
    /\ Cardinality(Sentinels) = 4 /\ Sentinels \intersect Values = {}
    /\ Missing \notin 0..10
ASSUME ParamsAssumption == Params \in Seq(ParamNames) /\ EnumOf \in [ParamNames -> SUBSET Values]
\* What an answer about one service may name.
OpOptions == Ids \union Builtins \union {Unknown}

\* "/list_capabilities" < "/none" < "/propose_panel" < "service/id".
ASSUME RankAssumption ==
    /\ Rank \in [(Services \X OpOptions) \union ({None} \X Builtins) -> Nat]
    /\ \A k, l \in DOMAIN Rank : Rank[k] = Rank[l] => k = l
    /\ Rank[<<None, ListCapabilities>>] < Rank[<<None, NoOperation>>]
    /\ Rank[<<None, NoOperation>>] < Rank[<<None, ProposePanel>>]
    /\ \A k \in Services \X OpOptions : Rank[<<None, ProposePanel>>] < Rank[k]

(***************************************************************************)
(* What of an answer is read.  It is more than what was asked about: a     *)
(* built-in is read whether or not it was offered, and so is every name    *)
(* that stands in an answer about one service.  Names that are not read    *)
(* are left out, and one that is left out counts as one of probability 0.  *)
(***************************************************************************)
\* criteriaFor, criteriaForV2: two endpoints of one id are one option.
PickOptions(shortlist) == IdsOf(shortlist) \union Builtins

NeedsHierarchical(shortlist) == Len(shortlist) + 3 > MaxChoiceOptions
ServiceOptions(shortlist) == ServicesOf(shortlist) \union Builtins
ServiceTooLarge(shortlist) == \E s \in ServicesOf(shortlist) : CountIn(shortlist, s) > MaxChoiceOptions

RouteOptions(catalog) == ServicesOf(catalog) \union {Other}

\* criteriaForParam
ParamOptions == Values \union Sentinels

(***************************************************************************)
(* What the remote model may answer.  A question may be left out.          *)
(***************************************************************************)
Distributions(options) == {f \in [options -> Levels] : FoldFunction(+, 0, f) <= Total}
Choices(options) == [choice: options \union {Unknown}, confidence: Levels]
Noul(isAsked) == IF isAsked THEN Levels \union {Missing} ELSE {Missing}

FlatAnswers(shortlist, fanOut) ==
    [impossible: Noul(fanOut), pick: Choices(PickOptions(shortlist)) \union {Missing}]
PathAnswers(shortlist, fanOut) ==
    [impossible: Noul(fanOut), service: Distributions(ServiceOptions(shortlist)) \union {Missing},
     ops: [ServicesOf(shortlist) -> Distributions(OpOptions) \union {Missing}]]
RouteAnswers(catalog) == Choices(RouteOptions(catalog)) \union {Missing}
FillAnswers(refusal) ==
    [params: [ParamNames -> Choices(ParamOptions) \union {Missing}],
     refusal: Noul(refusal = "separate"), capabilities: Noul(refusal = "separate")]

(***************************************************************************)
(* What is made of it.                                                     *)
(***************************************************************************)
Pick(kind, service, id, sure) ==
    [kind |-> kind, service |-> service, id |-> id, sure |-> sure, args |-> {}, param |-> None]
Outcome(kind) == Pick(kind, None, None, 0)
Failed == Outcome("error")

\* The branches mapAnswer and mapHierarchicalChosen share.
BuiltinPick(id, sure) ==
    Pick(CASE id = ListCapabilities -> "list" [] id = ProposePanel -> "propose" [] OTHER -> "none", None, None, sure)

Impossible(answers, fanOut) ==
    fanOut /\ answers.impossible # Missing /\ answers.impossible >= GateThreshold

\* A choice nobody offered is no pick, as sure as the model was of it.
MapAnswer(answer, shortlist) ==
    IF answer.choice \in IdsOf(shortlist)
      THEN Pick("operation", FirstServiceOf(shortlist, answer.choice), answer.choice, answer.confidence * answer.confidence)
      ELSE BuiltinPick(answer.choice, answer.confidence * answer.confidence)

FlatPick(answers, shortlist, fanOut) ==
    IF Impossible(answers, fanOut) THEN Outcome("none")
    ELSE IF answers.pick = Missing THEN Failed
    ELSE MapAnswer(answers.pick, shortlist)

ProbabilityOf(distribution, option) == IF option \in DOMAIN distribution THEN distribution[option] ELSE 0

\* Every built-in is a candidate, offered or not.
HierarchicalCandidates(answers, shortlist) ==
    {[service |-> None, id |-> b, score |-> ProbabilityOf(answers.service, b) * ProbabilityOf(answers.service, b)] : b \in Builtins}
    \union UNION {{[service |-> s, id |-> i, score |-> ProbabilityOf(answers.service, s) * answers.ops[s][i]] :
                      i \in DOMAIN answers.ops[s]} : s \in {t \in ServicesOf(shortlist) : answers.ops[t] # Missing}}

ComesFirst(c, d) ==
    c.score > d.score \/ (c.score = d.score /\ Rank[<<c.service, c.id>>] < Rank[<<d.service, d.id>>])

\* Fault: a built-in is known by having no service.
MapByService(chosen) ==
    IF chosen.service = None THEN BuiltinPick(chosen.id, chosen.score)
    ELSE Pick("operation", chosen.service, chosen.id, chosen.score)

\* A service's answer may name a built-in, or no operation of that service.
MapHierarchicalChosen(chosen) ==
    IF chosen.id \in Builtins THEN BuiltinPick(chosen.id, chosen.score)
    ELSE Pick("operation", chosen.service, chosen.id, chosen.score)

PathPick(answers, shortlist, fanOut) ==
    LET candidates == HierarchicalCandidates(answers, shortlist)
    IN IF Impossible(answers, fanOut) \/ answers.service = Missing THEN Outcome("none")
       ELSE MapHierarchicalChosen(CHOOSE c \in candidates : \A d \in candidates \ {c} : ComesFirst(c, d))

GateVerdict(answer) ==
    IF answer = Missing THEN Failed ELSE Outcome(IF answer >= GateThreshold THEN "impossible" ELSE "possible")

\* The service is whatever the model says: it is looked for in the catalogue by planStaged.
MapRouteAnswer(answer) ==
    IF answer = Missing THEN Failed
    ELSE IF answer.choice = Other THEN Outcome("anywhere")
    ELSE Pick("service", answer.choice, None, answer.confidence * answer.confidence)

\* Fault: how sure the model is of a value is not looked at.
ReadsAll(answers) ==
    \A p \in ParamNames : /\ answers.params[p] # Missing
                          /\ answers.params[p].choice \in EnumOf[p] \union Sentinels

\* mapFillAnswers: every parameter answered, surely, by one of its values or a sentinel.
Usable(answers) ==
    \A p \in ParamNames : /\ answers.params[p] # Missing
                          /\ answers.params[p].confidence >= FillThreshold
                          /\ answers.params[p].choice \in EnumOf[p] \union Sentinels

Chose(answers, choice) == {i \in DOMAIN Params : answers.params[Params[i]].choice = choice}
Holds(answer, refusal) == refusal = "separate" /\ answer >= FillThreshold

\* fillOutcome.decision: the whole request is refused before one parameter is asked about.
MapFillAnswers(answers, endpoint, refusal) ==
    IF ~Usable(answers) \/ (refusal = "separate" /\ Missing \in {answers.refusal, answers.capabilities})
      THEN Outcome("local")
    ELSE IF Chose(answers, Refusal) # {} \/ Holds(answers.refusal, refusal) THEN Outcome("none")
    ELSE IF Chose(answers, Capabilities) # {} \/ Holds(answers.capabilities, refusal) THEN Outcome("list")
    ELSE IF Chose(answers, Mismatch) # {}
      THEN [Pick("ask", endpoint.service, endpoint.id, 0) EXCEPT
              !.param = Params[CHOOSE i \in Chose(answers, Mismatch) : \A j \in Chose(answers, Mismatch) : i <= j]]
    ELSE [Pick("call", endpoint.service, endpoint.id, 0) EXCEPT
            !.args = {<<p, answers.params[p].choice>> : p \in {q \in ParamNames : answers.params[q].choice \in EnumOf[q]}}]
=============================================================================
