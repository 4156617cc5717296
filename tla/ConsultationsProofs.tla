------------------------ MODULE ConsultationsProofs ------------------------
(***************************************************************************)
(* Proofs that every consultation keeps its invariants, whatever the       *)
(* endpoints, the answers, the thresholds and the times.  They rest on     *)
(* what each reading of an answer may say (FlatReading, PathReading,       *)
(* FillReading) and on what each stage has behind it (RemoteStages,        *)
(* LocalStage).                                                            *)
(***************************************************************************)
EXTENDS Consultations, TLAPS, WellFoundedInduction

\* What the local picker may pick.
Offered(c, answer) ==
    /\ answer.kind = "operation" => /\ [service |-> answer.service, id |-> answer.id] \in EndpointsOf(c.shortlist)
                                    /\ answer.service \in ServicesOf(c.shortlist) /\ answer.id \notin Builtins
    /\ answer.kind = "propose" => c.workspace

\* What an answer of the remote model may be read as.
Readable(c, answer) ==
    answer.kind = "operation" =>
        /\ answer.service \in ServicesOf(c.shortlist) /\ answer.id \notin Builtins
        /\ [service |-> answer.service, id |-> answer.id] \in EndpointsOf(c.shortlist) \/ NeedsHierarchical(c.shortlist)

IsSure(answer) == answer.kind = "operation" /\ answer.sure >= PickerThreshold * PickerThreshold

\* A call the filler makes of some answers.
SureFill(answers, refusal, answer) ==
    answer.kind = "call" =>
        /\ \A pair \in answer.args : pair[2] \in EnumOf[pair[1]] /\ pair[2] = answers.params[pair[1]].choice
        /\ \A p \in ParamNames :
              /\ answers.params[p].confidence >= FillThreshold
              /\ answers.params[p].choice \notin {Mismatch, Refusal, Capabilities}
              /\ answers.params[p].choice # Unset => <<p, answers.params[p].choice>> \in answer.args
        /\ refusal = "separate" =>
              \A a \in {answers.refusal, answers.capabilities} : a # Missing /\ a < FillThreshold

RemoteStages ==
    stage \in {"remote", "backoff"} =>
        /\ clock <= Deadline /\ began = 0 /\ asked.picker # "local"
        /\ remote = NotYet /\ mentioned = {}

LocalStage ==
    stage = "local" =>
        /\ asked.kind = "pick" /\ asked.picker \in {"hybrid", "local"}
        /\ began <= clock /\ clock <= began + ChatTimeout
        /\ asked.picker = "local" => began = 0
        /\ asked.picker = "hybrid" => began <= PickerTimeout + 1
        /\ remote.outcome # None => ~(remote.at <= PickerTimeout /\ IsSure(remote.outcome))
        /\ mentioned = {}

Safety ==
    TakesSureRemotePicks /\ AnswersInTime /\ OnlyRemotePicksStray /\ WholeNamesArePicked /\ FillsOnlySureValues

IInv == TypeOK /\ RemoteStages /\ LocalStage /\ Safety

-----------------------------------------------------------------------------
(* Least and greatest numbers, and the services found for an id. *)

LEMMA LeastExists ==
    ASSUME NEW S, S \subseteq Nat, S # {}
    PROVE  \E x \in S : \A y \in S : x <= y
<1> DEFINE R == OpToRel(<, Nat)
<1>1. \A x, y \in Nat : y < x => <<y, x>> \in R
  BY DEF OpToRel
<1>2. IsWellFoundedOn(R, Nat)
  BY NatLessThanWellFounded
<1> HIDE DEF R
<1>3. PICK x \in S : \A y \in S : ~(<<y, x>> \in R)
  BY <1>2, WFMin
<1>4. \A y \in S : ~(y < x) /\ y \in Nat /\ x \in Nat
  BY <1>1, <1>3
<1>5. QED
  BY <1>4

LEMMA GreatestExists ==
    ASSUME NEW n \in Nat, NEW S, S \subseteq 0..n, S # {}
    PROVE  \E x \in S : \A y \in S : y <= x
<1> DEFINE T == {n - y : y \in S}
<1>1. T \subseteq Nat /\ T # {}
  <2>1. ASSUME NEW y \in S PROVE y \in Int /\ n - y \in Nat
    OBVIOUS
  <2>2. QED
    BY <2>1
<1> HIDE DEF T
<1>2. PICK t \in T : \A u \in T : t <= u
  BY <1>1, LeastExists
<1>3. PICK x \in S : t = n - x
  BY DEF T
<1>4. \A y \in S : n - y \in T
  BY DEF T
<1>5. \A y \in S : y <= x
  <2>1. \A y \in S : y \in 0..n /\ n - x <= n - y
    BY <1>2, <1>3, <1>4
  <2>2. QED
    BY <1>3, <2>1
<1>6. QED
  BY <1>5

LEMMA EndpointsTyped ==
    ASSUME NEW catalog \in Seq(Endpoints)
    PROVE  EndpointsOf(catalog) \subseteq Endpoints
BY DEF EndpointsOf

LEMMA ServiceFound ==
    ASSUME NEW catalog \in Seq(Endpoints), NEW id \in IdsOf(catalog)
    PROVE  /\ FirstServiceOf(catalog, id) \in Services /\ LastServiceOf(catalog, id) \in Services
           /\ FirstServiceOf(catalog, id) \in ServicesOf(catalog) /\ LastServiceOf(catalog, id) \in ServicesOf(catalog)
           /\ id \in Ids /\ id \notin Builtins
           /\ [service |-> FirstServiceOf(catalog, id), id |-> id] \in EndpointsOf(catalog)
           /\ [service |-> LastServiceOf(catalog, id), id |-> id] \in EndpointsOf(catalog)
<1> DEFINE P == Places(catalog, id)
<1>1. P \subseteq 1..Len(catalog) /\ P # {} /\ P \subseteq Nat /\ P \subseteq 0..Len(catalog)
  BY DEF Places, IdsOf, EndpointsOf
<1>2. \E i \in P : \A j \in P : i <= j
  BY <1>1, LeastExists
<1>3. Len(catalog) \in Nat
  OBVIOUS
<1>4. \E i \in P : \A j \in P : j <= i
  BY <1>1, <1>3, GreatestExists
<1>5. ASSUME NEW i \in P
      PROVE  /\ catalog[i].service \in Services /\ id \in Ids /\ catalog[i].service \in ServicesOf(catalog)
             /\ [service |-> catalog[i].service, id |-> id] \in EndpointsOf(catalog)
  <2>1. i \in DOMAIN catalog /\ catalog[i].id = id
    BY DEF Places
  <2>2. catalog[i] \in Endpoints
    BY <2>1
  <2>3. catalog[i] = [service |-> catalog[i].service, id |-> id]
    BY <2>1, <2>2 DEF Endpoints
  <2>4. QED
    BY <2>1, <2>2, <2>3 DEF Endpoints, EndpointsOf, ServicesOf
<1>6. id \notin Builtins
  BY <1>2, <1>5, NamesAssumption
<1>7. QED
  BY <1>2, <1>4, <1>5, <1>6 DEF FirstServiceOf, LastServiceOf

-----------------------------------------------------------------------------
(* What an answer may be read as. *)

LEMMA OutcomeTyped ==
    ASSUME NEW kind \in OutcomeKinds
    PROVE  Outcome(kind) \in Outcomes /\ Outcome(kind).kind = kind /\ Outcome(kind).sure = 0
BY DEF Outcome, Pick, Outcomes, OutcomeKinds

LEMMA BuiltinTyped ==
    ASSUME NEW id, NEW sure \in Nat
    PROVE  LET pick == BuiltinPick(id, sure)
           IN /\ pick \in Outcomes /\ pick.sure = sure /\ pick.kind \in {"list", "propose", "none"}
              /\ pick.kind = "propose" <=> id = ProposePanel
<1> DEFINE kind == CASE id = ListCapabilities -> "list" [] id = ProposePanel -> "propose" [] OTHER -> "none"
<1>1. kind \in {"list", "propose", "none"} /\ (kind = "propose" <=> id = ProposePanel)
  OBVIOUS
<1>2. BuiltinPick(id, sure) = Pick(kind, None, None, sure)
  BY DEF BuiltinPick
<1> HIDE DEF kind
<1>3. QED
  BY <1>1, <1>2 DEF Pick, Outcomes, OutcomeKinds

LEMMA Squares ==
    ASSUME NEW x \in 0..10, NEW y \in 0..10
    PROVE  x * y \in 0..100
OBVIOUS

LEMMA FlatReading ==
    ASSUME NEW c \in Consultation,
           NEW answers \in FlatAnswers(c.shortlist, c.fanOut)
    PROVE  LET pick == FlatPick(answers, c.shortlist, c.fanOut)
           IN pick \in Outcomes /\ Readable(c, pick)
<1> DEFINE pick == FlatPick(answers, c.shortlist, c.fanOut)
           answer == answers.pick
<1>1. c.shortlist \in Seq(Endpoints)
  BY DEF Consultation
<1>2. CASE Impossible(answers, c.fanOut) \/ answer = Missing
  <2>1. pick \in {Outcome("none"), Outcome("error")}
    BY <1>2 DEF FlatPick, Failed
  <2>2. QED
    BY <2>1, OutcomeTyped DEF Readable, OutcomeKinds
<1>3. CASE ~Impossible(answers, c.fanOut) /\ answer # Missing
  <2>1. pick = MapAnswer(answer, c.shortlist)
    BY <1>3 DEF FlatPick
  <2>2. answer \in Choices(PickOptions(c.shortlist))
    BY <1>3 DEF FlatAnswers
  <2>3. answer.confidence \in 0..10
    BY <2>2, LevelsAssumption DEF Choices
  <2>4. answer.confidence * answer.confidence \in Nat
    <3>1. answer.confidence * answer.confidence \in 0..100
      BY <2>3, Squares, Zenon
    <3>2. \A n \in 0..100 : n \in Nat
      OBVIOUS
    <3> HIDE DEF answer
    <3>3. QED
      BY <3>1, <3>2, Zenon
  <2>5. CASE answer.choice \in IdsOf(c.shortlist)
    <3>1. FirstServiceOf(c.shortlist, answer.choice) \in Services /\ answer.choice \in Ids /\ answer.choice \notin Builtins
          /\ FirstServiceOf(c.shortlist, answer.choice) \in ServicesOf(c.shortlist)
          /\ [service |-> FirstServiceOf(c.shortlist, answer.choice), id |-> answer.choice] \in EndpointsOf(c.shortlist)
      BY <1>1, <2>5, ServiceFound
    <3>2. pick = Pick("operation", FirstServiceOf(c.shortlist, answer.choice), answer.choice, answer.confidence * answer.confidence)
      BY <2>1, <2>5 DEF MapAnswer
    <3> HIDE DEF pick, answer
    <3>3. pick \in Outcomes /\ pick.kind = "operation" /\ pick.service = FirstServiceOf(c.shortlist, answer.choice)
          /\ pick.id = answer.choice
      BY <2>4, <3>1, <3>2 DEF Pick, Outcomes, OutcomeKinds
    <3>4. QED
      BY <3>1, <3>3 DEF Readable, pick
  <2>6. CASE answer.choice \notin IdsOf(c.shortlist)
    <3>1. pick = BuiltinPick(answer.choice, answer.confidence * answer.confidence)
      BY <2>1, <2>6 DEF MapAnswer
    <3> HIDE DEF pick, answer
    <3>2. pick \in Outcomes /\ pick.kind \in {"list", "propose", "none"}
      BY <2>4, <3>1, BuiltinTyped
    <3>3. QED
      BY <3>2 DEF Readable, pick
  <2>7. QED
    BY <2>5, <2>6
<1>4. QED
  BY <1>2, <1>3

LEMMA CandidatesTyped ==
    ASSUME NEW c \in Consultation,
           NEW answers \in PathAnswers(c.shortlist, c.fanOut), answers.service # Missing,
           NEW d \in HierarchicalCandidates(answers, c.shortlist)
    PROVE  /\ d.score \in 0..100
           /\ \/ d.service = None /\ d.id \in Builtins
              \/ d.service \in ServicesOf(c.shortlist) /\ d.service \in Services /\ d.id \in OpOptions
           /\ \A e \in HierarchicalCandidates(answers, c.shortlist) : e.service = d.service /\ e.id = d.id => e = d
<1> DEFINE candidates == HierarchicalCandidates(answers, c.shortlist)
           p(o) == ProbabilityOf(answers.service, o)
           path(s, i) == [service |-> s, id |-> i, score |-> p(s) * answers.ops[s][i]]
           builtin(b) == [service |-> None, id |-> b, score |-> p(b) * p(b)]
<1>1. answers.service \in [ServiceOptions(c.shortlist) -> Levels]
  BY DEF PathAnswers, Distributions
<1>2. \A o : p(o) \in 0..10
  BY <1>1, LevelsAssumption DEF ProbabilityOf
<1>4. \A s \in ServicesOf(c.shortlist) : answers.ops[s] # Missing =>
         DOMAIN answers.ops[s] = OpOptions /\ \A i \in OpOptions : answers.ops[s][i] \in 0..10
  <2> TAKE s \in ServicesOf(c.shortlist)
  <2> HAVE answers.ops[s] # Missing
  <2>1. answers.ops \in [ServicesOf(c.shortlist) -> Distributions(OpOptions) \union {Missing}]
    BY DEF PathAnswers
  <2>2. answers.ops[s] \in Distributions(OpOptions)
    BY <2>1
  <2>3. answers.ops[s] \in [OpOptions -> Levels]
    BY <2>2 DEF Distributions
  <2>4. QED
    BY <2>3, LevelsAssumption
<1>5. \A e \in candidates : (\E b \in Builtins : e = builtin(b))
        \/ \E s \in ServicesOf(c.shortlist) : answers.ops[s] # Missing /\ \E i \in OpOptions : e = path(s, i)
  BY <1>4 DEF HierarchicalCandidates
<1>6. \A s \in ServicesOf(c.shortlist) : s \in Services
  BY EndpointsTyped DEF Consultation, ServicesOf, Endpoints
<1> HIDE DEF p, candidates
<1>7. \A b \in Builtins : p(b) * p(b) \in 0..100
  BY <1>2, Squares
<1>8. \A s \in ServicesOf(c.shortlist) : answers.ops[s] # Missing =>
        \A i \in OpOptions : p(s) * answers.ops[s][i] \in 0..100
  BY <1>2, <1>4, Squares
<1>9. None \notin Services
  BY NamesAssumption
<1>14. ASSUME NEW e \in candidates
       PROVE  \/ \E b \in Builtins : e = builtin(b) /\ e.service = None /\ e.id = b
              \/ \E s \in ServicesOf(c.shortlist) : /\ answers.ops[s] # Missing /\ s # None
                   /\ \E i \in OpOptions : e = path(s, i) /\ e.service = s /\ e.id = i
  <2>1. CASE \E b \in Builtins : e = builtin(b)
    BY <2>1
  <2>2. ASSUME NEW s \in ServicesOf(c.shortlist), answers.ops[s] # Missing, NEW i \in OpOptions, e = path(s, i)
        PROVE  e.service = s /\ e.id = i /\ s # None
    BY <1>6, <1>9, <2>2
  <2> HIDE DEF path, builtin
  <2>3. QED
    BY <1>5, <2>1, <2>2
<1>10. d \in candidates
  BY DEF candidates
<1>11. CASE \E b \in Builtins : d = builtin(b)
  <2>1. PICK b \in Builtins : d = builtin(b)
    BY <1>11
  <2>3. \A e \in candidates : e.service = None /\ e.id = b => e = builtin(b)
    <3> HIDE DEF builtin, path
    <3>1. QED
      BY <1>14
  <2>4. d.service = None /\ d.id = b /\ d.score \in 0..100
    BY <1>7, <2>1
  <2> HIDE DEF builtin
  <2>5. QED
    BY <2>1, <2>3, <2>4 DEF candidates
<1>12. CASE \E s \in ServicesOf(c.shortlist) : answers.ops[s] # Missing /\ \E i \in OpOptions : d = path(s, i)
  <2>0. PICK s \in ServicesOf(c.shortlist) : answers.ops[s] # Missing /\ \E i \in OpOptions : d = path(s, i)
    BY <1>12
  <2>1. PICK i \in OpOptions : d = path(s, i)
    BY <2>0
  <2>2. \A e \in candidates : e.service = s /\ e.id = i => e = path(s, i)
    <3>1. s # None
      BY <1>6, <1>9
    <3> HIDE DEF builtin, path
    <3>2. QED
      BY <1>14, <3>1
  <2>3. d.service = s /\ d.id = i /\ d.score \in 0..100
    BY <1>8, <2>0, <2>1
  <2> HIDE DEF path
  <2>4. QED
    BY <1>6, <2>1, <2>2, <2>3 DEF candidates
<1>13. QED
  BY <1>5, <1>10, <1>11, <1>12

LEMMA OneComesFirst ==
    ASSUME NEW c \in Consultation,
           NEW answers \in PathAnswers(c.shortlist, c.fanOut), answers.service # Missing
    PROVE  LET candidates == HierarchicalCandidates(answers, c.shortlist)
           IN \E d \in candidates : \A e \in candidates \ {d} : ComesFirst(d, e)
<1> DEFINE candidates == HierarchicalCandidates(answers, c.shortlist)
           key(d) == <<d.service, d.id>>
           scores == {d.score : d \in candidates}
<1>1. candidates # {}
  <2>1. ListCapabilities \in Builtins
    BY DEF Builtins
  <2>2. QED
    BY <2>1 DEF HierarchicalCandidates
<1>2. \A d \in candidates : d.score \in 0..100 /\ key(d) \in DOMAIN Rank /\ Rank[key(d)] \in Nat
  <2> TAKE d \in candidates
  <2>1. d.score \in 0..100 /\ key(d) \in (Services \X OpOptions) \union ({None} \X Builtins)
    BY CandidatesTyped
  <2> HIDE DEF key, candidates
  <2>2. QED
    BY <2>1, RankAssumption
<1>3. \A d, e \in candidates : key(d) = key(e) => d = e
  <2> TAKE d, e \in candidates
  <2> HAVE key(d) = key(e)
  <2>1. d.service = e.service /\ d.id = e.id
    OBVIOUS
  <2>2. \A f \in candidates : f.service = e.service /\ f.id = e.id => f = e
    BY CandidatesTyped
  <2>3. QED
    BY <2>1, <2>2
<1> HIDE DEF candidates
<1>4. PICK top \in scores : \A x \in scores : x <= top
  <2>1. scores \subseteq 0..100 /\ scores # {}
    BY <1>1, <1>2
  <2> HIDE DEF scores
  <2>2. QED
    BY <2>1, GreatestExists
<1> DEFINE best == {d \in candidates : d.score = top}
           ranks == {Rank[key(d)] : d \in best}
<1>5. ranks \subseteq Nat /\ ranks # {}
  BY <1>2, <1>4
<1>6. PICK r \in ranks : \A x \in ranks : r <= x
  <2> HIDE DEF ranks
  <2>1. QED
    BY <1>5, LeastExists
<1>7. PICK d \in best : Rank[key(d)] = r
  OBVIOUS
<1>8. ASSUME NEW e \in candidates \ {d}
      PROVE  ComesFirst(d, e)
  <2>1. e.score \in scores /\ d.score = top /\ e.score \in 0..100 /\ d.score \in 0..100
    BY <1>2, <1>7
  <2>2. CASE e.score # top
    <3>1. d.score > e.score
      <4>1. e.score <= top
        BY <1>4, <2>1
      <4>2. QED
        BY <2>1, <2>2, <4>1
    <3>2. QED
      BY <3>1 DEF ComesFirst
  <2>3. CASE e.score = top
    <3>1. Rank[key(e)] \in ranks
      BY <2>3
    <3>2. Rank[key(e)] # Rank[key(d)]
      <4>1. key(e) # key(d)
        BY <1>3, <1>7
      <4>2. key(e) \in DOMAIN Rank /\ key(d) \in DOMAIN Rank
        BY <1>2, <1>7
      <4> HIDE DEF key
      <4>3. QED
        BY <4>1, <4>2, RankAssumption
    <3>3. Rank[key(d)] < Rank[key(e)]
      <4>1. Rank[key(e)] \in Nat /\ Rank[key(d)] \in Nat
        BY <1>2, <1>7
      <4> HIDE DEF key, ranks
      <4>2. QED
        BY <1>6, <1>7, <3>1, <3>2, <4>1
    <3>4. QED
      BY <2>1, <2>3, <3>3 DEF ComesFirst
  <2>4. QED
    BY <2>2, <2>3
<1>9. QED
  BY <1>7, <1>8 DEF candidates

LEMMA PathReading ==
    ASSUME NEW c \in Consultation,
           NEW answers \in PathAnswers(c.shortlist, c.fanOut)
    PROVE  LET pick == PathPick(answers, c.shortlist, c.fanOut)
           IN pick \in Outcomes /\ (NeedsHierarchical(c.shortlist) => Readable(c, pick))
<1> DEFINE pick == PathPick(answers, c.shortlist, c.fanOut)
           candidates == HierarchicalCandidates(answers, c.shortlist)
<1>1. CASE Impossible(answers, c.fanOut) \/ answers.service = Missing
  <2>1. pick = Outcome("none")
    BY <1>1 DEF PathPick
  <2>2. QED
    BY <2>1, OutcomeTyped DEF Readable, OutcomeKinds
<1>2. CASE ~Impossible(answers, c.fanOut) /\ answers.service # Missing
  <2>1. PICK d : d = CHOOSE e \in candidates : \A f \in candidates \ {e} : ComesFirst(e, f)
    OBVIOUS
  <2>2. d \in candidates /\ \A e \in candidates \ {d} : ComesFirst(d, e)
    <3>1. \E e \in candidates : \A f \in candidates \ {e} : ComesFirst(e, f)
      BY <1>2, OneComesFirst
    <3> HIDE DEF candidates
    <3>2. QED
      BY <2>1, <3>1
  <2>3. pick = MapHierarchicalChosen(d)
    BY <1>2, <2>1 DEF PathPick
  <2>4. /\ d.score \in 0..100 /\ d.score \in Nat
        /\ \/ d.service = None /\ d.id \in Builtins
           \/ d.service \in ServicesOf(c.shortlist) /\ d.service \in Services /\ d.id \in OpOptions
    <3>1. /\ d.score \in 0..100
          /\ \/ d.service = None /\ d.id \in Builtins
             \/ d.service \in ServicesOf(c.shortlist) /\ d.service \in Services /\ d.id \in OpOptions
      BY <1>2, <2>2, CandidatesTyped
    <3> HIDE DEF candidates
    <3>2. QED
      BY <3>1
  <2>5. CASE d.id \in Builtins
    <3>1. pick = BuiltinPick(d.id, d.score)
      BY <2>3, <2>5 DEF MapHierarchicalChosen
    <3> HIDE DEF pick
    <3>2. pick \in Outcomes /\ pick.kind \in {"list", "propose", "none"}
      BY <2>4, <3>1, BuiltinTyped
    <3>3. QED
      BY <3>2 DEF Readable, pick
  <2>6. CASE d.id \notin Builtins
    <3>1. pick = Pick("operation", d.service, d.id, d.score)
      BY <2>3, <2>6 DEF MapHierarchicalChosen
    <3> HIDE DEF pick
    <3>2. d.service \in ServicesOf(c.shortlist) /\ d.service \in Services /\ d.id \in Ids \union {Unknown} /\ d.score \in Nat
      BY <2>4, <2>6 DEF OpOptions
    <3>3. pick \in Outcomes /\ pick.kind = "operation" /\ pick.service = d.service /\ pick.id = d.id
      BY <3>1, <3>2 DEF Pick, Outcomes, OutcomeKinds
    <3>4. QED
      BY <2>6, <3>2, <3>3 DEF Readable, pick
  <2>7. QED
    BY <2>5, <2>6
<1>3. QED
  BY <1>1, <1>2

LEMMA RouteReading ==
    ASSUME NEW catalog \in Seq(Endpoints), NEW answer \in RouteAnswers(catalog)
    PROVE  MapRouteAnswer(answer) \in Outcomes
<1>1. CASE answer = Missing
  BY <1>1, OutcomeTyped DEF MapRouteAnswer, Failed, OutcomeKinds
<1>2. CASE answer # Missing /\ answer.choice = Other
  BY <1>2, OutcomeTyped DEF MapRouteAnswer, OutcomeKinds
<1>3. CASE answer # Missing /\ answer.choice # Other
  <2>1. answer.choice \in ServicesOf(catalog) \union {Unknown} /\ answer.confidence \in 0..10
    BY <1>3, LevelsAssumption DEF RouteAnswers, RouteOptions, Choices
  <2>2. answer.choice \in Services \union {Unknown}
    BY <2>1, EndpointsTyped DEF ServicesOf, Endpoints
  <2> DEFINE squared == answer.confidence * answer.confidence
  <2>3. squared \in 0..100
    BY <2>1, Squares, Zenon
  <2>4. MapRouteAnswer(answer) = Pick("service", answer.choice, None, squared)
    BY <1>3 DEF MapRouteAnswer
  <2> HIDE DEF squared
  <2>5. squared \in Nat
    BY <2>3
  <2>6. QED
    BY <2>2, <2>4, <2>5 DEF Pick, Outcomes, OutcomeKinds
<1>4. QED
  BY <1>1, <1>2, <1>3

LEMMA GateReading ==
    ASSUME NEW answer
    PROVE  GateVerdict(answer) \in Outcomes
BY OutcomeTyped DEF GateVerdict, Failed, OutcomeKinds

LEMMA FillReading ==
    ASSUME NEW refusal, NEW answers \in FillAnswers(refusal), NEW endpoint \in Endpoints
    PROVE  LET fill == MapFillAnswers(answers, endpoint, refusal)
           IN fill \in Outcomes /\ SureFill(answers, refusal, fill)
              /\ fill.kind \in {"local", "none", "list", "ask", "call"}
<1> DEFINE fill == MapFillAnswers(answers, endpoint, refusal)
           unusable == ~Usable(answers) \/ (refusal = "separate" /\ Missing \in {answers.refusal, answers.capabilities})
           refused == Chose(answers, Refusal) # {} \/ Holds(answers.refusal, refusal)
           listed == Chose(answers, Capabilities) # {} \/ Holds(answers.capabilities, refusal)
           asks == Chose(answers, Mismatch)
<1>1. CASE unusable \/ refused \/ listed
  <2>1. fill \in {Outcome("local"), Outcome("none"), Outcome("list")}
    BY <1>1 DEF MapFillAnswers
  <2>2. QED
    BY <2>1, OutcomeTyped DEF SureFill, OutcomeKinds
<1>2. CASE ~unusable /\ ~refused /\ ~listed /\ asks # {}
  <2>1. asks \subseteq 1..Len(Params) /\ asks \subseteq Nat
    BY ParamsAssumption DEF Chose
  <2>2. \E i \in asks : \A j \in asks : i <= j
    <3> HIDE DEF asks
    <3>1. QED
      BY <1>2, <2>1, LeastExists
  <2>3. PICK i : i = CHOOSE k \in asks : \A j \in asks : k <= j
    OBVIOUS
  <2>4. i \in DOMAIN Params
    BY <2>2, <2>3 DEF Chose
  <2>5. fill = [Pick("ask", endpoint.service, endpoint.id, 0) EXCEPT !.param = Params[i]]
    BY <1>2, <2>3 DEF MapFillAnswers
  <2>6. Params[i] \in ParamNames
    BY <2>4 DEF ParamNames
  <2> HIDE DEF fill
  <2>7. fill \in Outcomes /\ fill.kind = "ask"
    BY <2>5, <2>6 DEF Pick, Outcomes, OutcomeKinds, Endpoints
  <2>8. QED
    BY <2>7 DEF SureFill, fill
<1>3. CASE ~unusable /\ ~refused /\ ~listed /\ asks = {}
  <2> DEFINE given == {<<p, answers.params[p].choice>> : p \in {q \in ParamNames : answers.params[q].choice \in EnumOf[q]}}
  <2>1. fill = [Pick("call", endpoint.service, endpoint.id, 0) EXCEPT !.args = given]
    BY <1>3 DEF MapFillAnswers
  <2>2. \A p \in ParamNames : /\ answers.params[p] # Missing
                              /\ answers.params[p].confidence >= FillThreshold
                              /\ answers.params[p].choice \in EnumOf[p] \union Sentinels
    BY <1>3 DEF Usable
  <2>3. \A p \in ParamNames : answers.params[p].choice \notin {Mismatch, Refusal, Capabilities}
    <3> TAKE p \in ParamNames
    <3>1. PICK i \in DOMAIN Params : p = Params[i]
      BY DEF ParamNames
    <3>2. i \notin Chose(answers, Mismatch) /\ i \notin Chose(answers, Refusal) /\ i \notin Chose(answers, Capabilities)
      BY <1>3
    <3>3. QED
      BY <3>1, <3>2 DEF Chose
  <2>4. \A p \in ParamNames : EnumOf[p] \subseteq Values
    BY ParamsAssumption
  <2>5. given \subseteq ParamNames \X Values
    BY <2>4
  <2>6. \A p \in ParamNames : answers.params[p].choice # Unset => <<p, answers.params[p].choice>> \in given
    BY <2>2, <2>3 DEF Sentinels
  <2>7. \A pair \in given : pair[2] \in EnumOf[pair[1]] /\ pair[2] = answers.params[pair[1]].choice
    OBVIOUS
  <2>8. refusal = "separate" => \A a \in {answers.refusal, answers.capabilities} : a # Missing /\ a < FillThreshold
    <3> SUFFICES ASSUME refusal = "separate", NEW a \in {answers.refusal, answers.capabilities}
                 PROVE  a # Missing /\ a < FillThreshold
      OBVIOUS
    <3>1. a # Missing /\ ~(a >= FillThreshold)
      BY <1>3 DEF Holds
    <3>2. a \in 0..10
      BY <3>1, LevelsAssumption DEF FillAnswers, Noul
    <3>3. QED
      BY <3>1, <3>2, LevelsAssumption
  <2> HIDE DEF fill, given
  <2>9. fill \in Outcomes /\ fill.kind = "call" /\ fill.args = given
    BY <2>1, <2>5 DEF Pick, Outcomes, OutcomeKinds, Endpoints
  <2>10. QED
    BY <2>2, <2>3, <2>6, <2>7, <2>8, <2>9 DEF SureFill, fill
<1>4. QED
  BY <1>1, <1>2, <1>3

LEMMA Reading ==
    ASSUME NEW c \in Consulted, NEW answers \in Answers(c)
    PROVE  LET answer == ReadAs(c, answers)
           IN /\ answer \in Outcomes
              /\ c.kind = "pick" => Readable(c, answer)
              /\ c.kind = "fill" => SureFill(answers, c.refusal, answer) /\ answers \in FillAnswers(c.refusal)
<1>1. c \in Consultation /\ c.shortlist \in Seq(Endpoints) /\ c.kind \in {"pick", "gate", "route", "fill"}
  BY ConsultedAssumption DEF Consultation
<1>2. CASE c.kind = "pick"
  BY <1>1, <1>2, FlatReading, PathReading DEF Answers, ReadAs
<1>3. CASE c.kind = "gate"
  BY <1>3, GateReading DEF ReadAs
<1>4. CASE c.kind = "route"
  BY <1>1, <1>4, RouteReading DEF Answers, ReadAs
<1>5. CASE c.kind = "fill"
  <2>1. c.shortlist # <<>>
    BY <1>5, ConsultedAssumption
  <2>2. c.shortlist[1] \in Endpoints
    BY <1>1, <2>1
  <2>3. answers \in FillAnswers(c.refusal) /\ ReadAs(c, answers) = MapFillAnswers(answers, c.shortlist[1], c.refusal)
    BY <1>5 DEF Answers, ReadAs
  <2>4. QED
    BY <1>5, <2>2, <2>3, FillReading
<1>6. QED
  BY <1>1, <1>2, <1>3, <1>4, <1>5

LEMMA ReplyParsed ==
    ASSUME NEW c \in Consultation, NEW named \in Replies(c), NEW answer \in Parsed(c, named)
    PROVE  /\ answer \in Outcomes /\ answer.sure = 0 /\ Offered(c, answer) /\ answer.kind # "error"
           /\ named \subseteq Ids \union Builtins
           /\ named # {} => /\ PickedId(answer) \in named
                            /\ ~\E pair \in PartOf : pair[1] = PickedId(answer) /\ pair[2] \in named
<1>1. c.shortlist \in Seq(Endpoints) /\ named \subseteq IdsOf(c.shortlist) \union Builtins
        /\ (ProposePanel \in named => c.workspace \/ ProposePanel \in IdsOf(c.shortlist))
  BY DEF Consultation, Replies, Candidates
<1>2. IdsOf(c.shortlist) \subseteq Ids
  BY <1>1, ServiceFound
<1>4. CASE named = {}
  <2>1. answer = Outcome("none")
    BY <1>4 DEF Parsed
  <2>2. QED
    BY <1>4, <2>1, OutcomeTyped DEF Offered, OutcomeKinds
<1>5. CASE named # {}
  <2>1. PICK i \in Longest(named) :
          answer = IF i \in IdsOf(c.shortlist) THEN Pick("operation", LastServiceOf(c.shortlist, i), i, 0) ELSE BuiltinPick(i, 0)
    BY <1>5 DEF Parsed
  <2>2. i \in named /\ \A j \in named : Length[j] <= Length[i]
    BY <2>1 DEF Longest
  <2>3. ~\E pair \in PartOf : pair[1] = i /\ pair[2] \in named
    <3> SUFFICES ASSUME NEW pair \in PartOf, pair[1] = i, pair[2] \in named PROVE FALSE
      OBVIOUS
    <3>1. Length[i] < Length[pair[2]] /\ Length[pair[2]] \in Nat /\ Length[i] \in Nat
      BY IdsAssumption
    <3>2. QED
      BY <2>2, <3>1
  <2>4. CASE i \in IdsOf(c.shortlist)
    <3>1. LastServiceOf(c.shortlist, i) \in Services /\ LastServiceOf(c.shortlist, i) \in ServicesOf(c.shortlist)
          /\ i \in Ids /\ i \notin Builtins
          /\ [service |-> LastServiceOf(c.shortlist, i), id |-> i] \in EndpointsOf(c.shortlist)
      BY <1>1, <2>4, ServiceFound
    <3>2. answer \in Outcomes /\ answer.kind = "operation" /\ answer.sure = 0 /\ answer.id = i
          /\ answer.service = LastServiceOf(c.shortlist, i)
      BY <2>1, <2>4, <3>1 DEF Pick, Outcomes, OutcomeKinds
    <3>3. PickedId(answer) = i
      BY <3>2 DEF PickedId
    <3>4. QED
      BY <1>1, <1>2, <2>2, <2>3, <3>1, <3>2, <3>3 DEF Offered
  <2>5. CASE i \notin IdsOf(c.shortlist)
    <3>1. answer = BuiltinPick(i, 0) /\ i \in Builtins /\ (i = ProposePanel => c.workspace)
      BY <1>1, <2>1, <2>2, <2>5
    <3>2. answer \in Outcomes /\ answer.sure = 0 /\ answer.kind \in {"list", "propose", "none"}
          /\ (answer.kind = "propose" <=> i = ProposePanel)
      BY <3>1, BuiltinTyped
    <3>3. PickedId(answer) = i
      BY <3>1 DEF PickedId, BuiltinPick, Pick, Builtins
    <3>4. QED
      BY <1>1, <1>2, <2>2, <2>3, <3>1, <3>2, <3>3 DEF Offered
  <2>6. QED
    BY <2>4, <2>5
<1>6. QED
  BY <1>4, <1>5

-----------------------------------------------------------------------------
(* The invariant. *)

LEMMA DeadlineBounds ==
    /\ Deadline \in Nat /\ Deadline <= RequestTimeout
    /\ asked.picker = "hybrid" => Deadline <= PickerTimeout
BY TimesAssumption DEF Deadline, Earliest

LEMMA TimePasses ==
    ASSUME clock \in Nat, NEW deadline \in Nat, Within(deadline)
    PROVE  clock' \in Nat /\ clock' <= deadline
<1>1. PICK d \in Durations : clock + d <= deadline /\ clock' = clock + d
  BY DEF Within
<1>2. d \in Nat
  BY TimesAssumption
<1>3. QED
  BY <1>1, <1>2

LEMMA AskedIsConsulted ==
    ASSUME TypeOK, stage # "idle"
    PROVE  asked \in Consulted /\ asked \in Consultation /\ asked # None
BY ConsultedAssumption DEF TypeOK

\* What is left of a state's facts when the consultation has not ended.
LEMMA Unended ==
    ASSUME stage # "done", AnswersInTime
    PROVE  Safety
BY DEF Safety, TakesSureRemotePicks, Hybrid, OnlyRemotePicksStray, WholeNamesArePicked, FillsOnlySureValues

LEMMA InitInvariant == Init => IInv
<1> SUFFICES ASSUME Init PROVE IInv
  OBVIOUS
<1>1. TypeOK
  <2>1. None \notin Outcomes
    BY NoneAssumption
  <2>2. 0 \in 0..MaxRetries
    BY TimesAssumption DEF MaxRetries
  <2>3. remote.at = 0 /\ remote.outcome = None
    BY DEF Init, NotYet
  <2>4. outcome \in Outcomes \union {None} /\ ((outcome = None) <=> (stage # "done")) /\ stage \in Stages
    BY <2>1 DEF Init, Stages
  <2>5. attempt \in 0..MaxRetries /\ (stage = "backoff" => attempt < MaxRetries)
    BY <2>2 DEF Init
  <2>6. clock \in Nat /\ began \in Nat /\ mentioned \subseteq Ids \union Builtins
    BY DEF Init
  <2>7. hungUp \in BOOLEAN
    BY DEF Init
  <2>8. asked \in Consulted \union {None} /\ ((asked = None) <=> (stage = "idle"))
    BY DEF Init
  <2>9. heard = None
    BY DEF Init
  <2>10. QED
    BY <2>3, <2>4, <2>5, <2>6, <2>7, <2>8, <2>9 DEF TypeOK
<1>2. AnswersInTime
  BY DEF Init, AnswersInTime
<1>3. QED
  BY <1>1, <1>2, Unended DEF IInv, RemoteStages, LocalStage, Init

LEMMA FirstStages ==
    ASSUME NEW c \in Consulted
    PROVE  LET first == FirstStage(c)
           IN \/ /\ first.stage = "done" /\ first.outcome \in Outcomes /\ first.outcome.sure = 0
                 /\ first.outcome.kind \in {"none", "possible", "anywhere", "error"} /\ c.kind # "fill"
                 /\ c.picker = "hybrid" => first.outcome.kind # "error"
              \/ first.stage = "local" /\ first.outcome = None /\ c.kind = "pick" /\ c.picker \in {"hybrid", "local"}
              \/ first.stage = "remote" /\ first.outcome = None /\ c.picker # "local"
<1>1. \A k \in {"none", "possible", "anywhere", "error"} :
         Outcome(k) \in Outcomes /\ Outcome(k).kind = k /\ Outcome(k).sure = 0
  BY OutcomeTyped DEF OutcomeKinds
<1>2. c.picker # None => c.kind = "pick"
  BY ConsultedAssumption
<1>4. c \in Consultation
  BY ConsultedAssumption
<1>5. CASE c.kind # "fill" /\ c.shortlist = <<>>
  <2>1. PICK k \in {"none", "possible", "anywhere"} :
           FirstStage(c) = [stage |-> "done", outcome |-> Outcome(k)]
    BY <1>5 DEF FirstStage
  <2>2. QED
    BY <1>1, <1>5, <2>1
<1>6. CASE ~(c.kind # "fill" /\ c.shortlist = <<>>) /\ c.picker = "local"
  BY <1>6, ConsultedAssumption DEF FirstStage
<1>7. CASE /\ ~(c.kind # "fill" /\ c.shortlist = <<>>) /\ c.picker # "local"
           /\ c.kind = "pick" /\ NeedsHierarchical(c.shortlist) /\ ServiceTooLarge(c.shortlist)
  BY <1>1, <1>7 DEF FirstStage, Failed
<1>8. CASE /\ ~(c.kind # "fill" /\ c.shortlist = <<>>) /\ c.picker # "local"
           /\ ~(c.kind = "pick" /\ NeedsHierarchical(c.shortlist) /\ ServiceTooLarge(c.shortlist))
  BY <1>8 DEF FirstStage
<1>9. QED
  BY <1>5, <1>6, <1>7, <1>8

LEMMA AskStep ==
    ASSUME IInv, Ask
    PROVE  IInv'
<1>1. PICK c \in Consulted : asked' = c /\ stage' = FirstStage(c).stage /\ outcome' = FirstStage(c).outcome
  BY DEF Ask
<1>2. /\ attempt' = 0 /\ clock' = 0 /\ began' = 0 /\ hungUp' = FALSE
      /\ remote' = NotYet /\ heard' = None /\ mentioned' = {}
  BY DEF Ask
<1>3. c \in Consultation /\ c # None /\ None \notin Outcomes
  BY ConsultedAssumption, NoneAssumption
<1>4. TypeOK'
  <2>1. 0 \in 0..MaxRetries
    BY TimesAssumption DEF MaxRetries
  <2>2. /\ stage' \in {"done", "local", "remote"}
        /\ outcome' \in Outcomes \union {None} /\ ((outcome' = None) <=> (stage' # "done"))
    BY <1>1, <1>3, FirstStages
  <2>3. remote'.at = 0 /\ remote'.outcome = None
    BY <1>2 DEF NotYet
  <2>4. (attempt \in 0..MaxRetries /\ (stage = "backoff" => attempt < MaxRetries))'
    BY <1>2, <2>1, <2>2 DEF MaxRetries
  <2>5. (asked \in Consulted \union {None} /\ ((asked = None) <=> (stage = "idle")) /\ stage \in Stages)'
    BY <1>1, <1>3, <2>2 DEF Stages
  <2>6. (clock \in Nat /\ began \in Nat /\ mentioned \subseteq Ids \union Builtins)'
    BY <1>2
  <2>7. (hungUp \in BOOLEAN)' /\ heard' = None
    BY <1>2
  <2>8. QED
    BY <2>2, <2>3, <2>4, <2>5, <2>6, <2>7 DEF TypeOK
<1>5. RemoteStages'
  <2>1. (clock <= Deadline)'
    BY <1>2, DeadlineBounds, TimesAssumption DEF Deadline, Earliest
  <2>2. stage' = "remote" => asked'.picker # "local"
    BY <1>1, FirstStages
  <2>3. stage' # "backoff"
    BY <1>1, FirstStages
  <2>4. QED
    BY <1>2, <2>1, <2>2, <2>3 DEF RemoteStages, NotYet
<1>6. LocalStage'
  <2>1. stage' = "local" => asked'.kind = "pick" /\ asked'.picker \in {"hybrid", "local"}
    BY <1>1, FirstStages
  <2>2. QED
    BY <1>2, <2>1, TimesAssumption DEF LocalStage, NotYet
<1>7. AnswersInTime'
  BY <1>2, TimesAssumption DEF AnswersInTime
<1>8. Safety'
  <2>1. CASE stage' # "done"
    BY <1>7, <2>1 DEF Safety, TakesSureRemotePicks, Hybrid, OnlyRemotePicksStray, WholeNamesArePicked, FillsOnlySureValues
  <2>2. CASE stage' = "done"
    <3>1. /\ outcome'.sure = 0 /\ outcome'.kind \in {"none", "possible", "anywhere", "error"} /\ c.kind # "fill"
          /\ c.picker = "hybrid" => outcome'.kind # "error"
      BY <1>1, <2>2, FirstStages
    <3>2. TakesSureRemotePicks'
      BY <1>1, <1>2, <3>1 DEF TakesSureRemotePicks, Hybrid, NotYet
    <3>3. QED
      BY <1>1, <1>2, <1>7, <3>1, <3>2 DEF Safety, OnlyRemotePicksStray, WholeNamesArePicked, FillsOnlySureValues
  <2>3. QED
    BY <2>1, <2>2
<1>9. QED
  BY <1>4, <1>5, <1>6, <1>8 DEF IInv

\* The remote model is given up: on an error, a refusal, the deadline or the browser's leaving.
LEMMA RemoteFailing ==
    ASSUME IInv, stage \in {"remote", "backoff"}, clock' \in Nat, clock' <= Deadline, RemoteFails,
           UNCHANGED <<asked, attempt, hungUp, remote, heard, mentioned>>
    PROVE  IInv'
<1>1. /\ TypeOK /\ asked \in Consulted /\ asked \in Consultation /\ asked # None
      /\ asked.picker # "local" /\ remote = NotYet /\ mentioned = {}
  BY AskedIsConsulted DEF IInv, RemoteStages
<1>2. AnswersInTime'
  <2>1. Deadline \in Nat /\ Deadline <= RequestTimeout /\ (asked.picker = "hybrid" => Deadline <= PickerTimeout)
    BY DeadlineBounds
  <2>2. QED
    BY <1>1, <2>1, TimesAssumption DEF AnswersInTime
<1>3. CASE asked.picker = "hybrid"
  <2>1. stage' = "local" /\ began' = clock' /\ outcome' = outcome
    BY <1>3 DEF RemoteFails, AskLocal
  <2>2. TypeOK'
    BY <1>1, <2>1 DEF TypeOK, Stages
  <2>3. asked.kind = "pick"
    BY <1>1, <1>3, ConsultedAssumption
  <2>4. LocalStage'
    BY <1>1, <1>3, <2>1, <2>3, DeadlineBounds, TimesAssumption DEF LocalStage, NotYet
  <2>5. QED
    BY <1>2, <2>1, <2>2, <2>4
    DEF IInv, RemoteStages, Safety, TakesSureRemotePicks, Hybrid, OnlyRemotePicksStray, WholeNamesArePicked, FillsOnlySureValues
<1>4. CASE asked.picker # "hybrid"
  <2>1. stage' = "done" /\ began' = began /\ outcome' = Failed
    BY <1>4 DEF RemoteFails, Finish
  <2>2. Failed \in Outcomes /\ Failed.kind = "error" /\ Failed # None
    BY OutcomeTyped, NoneAssumption DEF Failed, OutcomeKinds
  <2>3. TypeOK'
    BY <1>1, <2>1, <2>2 DEF TypeOK, Stages
  <2>4. QED
    BY <1>1, <1>2, <1>4, <2>1, <2>2, <2>3
    DEF IInv, RemoteStages, LocalStage, Safety, TakesSureRemotePicks, Hybrid, OnlyRemotePicksStray, WholeNamesArePicked,
        FillsOnlySureValues
<1>5. QED
  BY <1>3, <1>4

\* The local picker has answered, failed, or been given up.
LEMMA LocalEnding ==
    ASSUME IInv, stage = "local", clock' \in Nat, clock' <= began + ChatTimeout,
           NEW answer \in Outcomes, Finish(answer), answer.sure = 0, Offered(asked, answer),
           asked.picker = "hybrid" => answer.kind # "error",
           UNCHANGED <<asked, attempt, hungUp, remote, heard>>,
           mentioned' \subseteq Ids \union Builtins,
           mentioned' # {} => /\ PickedId(answer) \in mentioned'
                              /\ ~\E pair \in PartOf : pair[1] = PickedId(answer) /\ pair[2] \in mentioned'
    PROVE  IInv'
<1>1. TypeOK /\ asked \in Consulted /\ asked # None /\ LocalStage
  BY AskedIsConsulted DEF IInv
<1>2. stage' = "done" /\ began' = began /\ outcome' = answer
  BY DEF Finish
<1>3. TypeOK'
  BY <1>1, <1>2, NoneAssumption DEF TypeOK, Stages
<1>4. AnswersInTime'
  <2>1. /\ asked.picker \in {"hybrid", "local"} /\ began \in Nat
        /\ asked.picker = "local" => began = 0
        /\ asked.picker = "hybrid" => began <= PickerTimeout + 1
    BY <1>1 DEF LocalStage, TypeOK
  <2>2. ChatTimeout \in Nat /\ PickerTimeout \in Nat
    BY TimesAssumption
  <2>3. CASE asked.picker = "hybrid"
    BY <2>1, <2>2, <2>3, ConsultedAssumption, <1>1 DEF AnswersInTime
  <2>4. CASE asked.picker = "local"
    BY <2>1, <2>2, <2>4, ConsultedAssumption, <1>1 DEF AnswersInTime
  <2>5. QED
    BY <2>1, <2>3, <2>4
<1>5. TakesSureRemotePicks'
  BY <1>1, <1>2 DEF TakesSureRemotePicks, Hybrid, LocalStage, IsSure
<1>6. OnlyRemotePicksStray' /\ FillsOnlySureValues'
  BY <1>1, <1>2 DEF OnlyRemotePicksStray, FillsOnlySureValues, Offered, LocalStage
<1>7. WholeNamesArePicked'
  BY <1>2 DEF WholeNamesArePicked, PickedId
<1>8. QED
  BY <1>2, <1>3, <1>4, <1>5, <1>6, <1>7 DEF IInv, RemoteStages, LocalStage, Safety

-----------------------------------------------------------------------------
(* What each step does to it. *)

LEMMA RemoteAnswersStep ==
    ASSUME IInv, RemoteAnswers
    PROVE  IInv'
<1>1. /\ TypeOK /\ asked \in Consulted /\ asked \in Consultation /\ asked # None /\ stage = "remote"
      /\ began = 0 /\ asked.picker # "local" /\ mentioned = {}
  BY AskedIsConsulted DEF IInv, RemoteStages, RemoteAnswers
<1>2. PICK answers \in Answers(asked) :
        /\ heard' = IF asked.kind = "fill" THEN answers ELSE None
        /\ remote' = [at |-> clock', outcome |-> ReadAs(asked, answers)]
        /\ IF asked.picker = "hybrid" /\ ~TakesRemote(ReadAs(asked, answers), clock' > PickerTimeout)
             THEN AskLocal ELSE Finish(ReadAs(asked, answers))
  <2>1. PICK reading \in Readings[asked] :
          /\ heard' = reading.heard
          /\ remote' = [at |-> clock', outcome |-> reading.outcome]
          /\ IF asked.picker = "hybrid" /\ ~TakesRemote(reading.outcome, clock' > PickerTimeout)
               THEN AskLocal ELSE Finish(reading.outcome)
    BY DEF RemoteAnswers
  <2>2. PICK answers \in Answers(asked) :
          reading = [heard |-> IF asked.kind = "fill" THEN answers ELSE None, outcome |-> ReadAs(asked, answers)]
    BY <1>1, <2>1 DEF Readings
  <2>3. reading.heard = (IF asked.kind = "fill" THEN answers ELSE None) /\ reading.outcome = ReadAs(asked, answers)
    BY <2>2
  <2>4. QED
    BY <2>1, <2>3
<1> DEFINE answer == ReadAs(asked, answers)
<1>3. UNCHANGED <<asked, attempt, hungUp, mentioned>>
  BY DEF RemoteAnswers
<1>4. /\ answer \in Outcomes /\ answer # None
      /\ asked.kind = "pick" => Readable(asked, answer)
      /\ asked.kind = "fill" => SureFill(answers, asked.refusal, answer)
  BY <1>1, Reading, NoneAssumption
<1> HIDE DEF answer
<1>5. clock' \in Nat /\ clock' <= Deadline + 1
  <2>1. Deadline + 1 \in Nat /\ clock \in Nat
    BY <1>1, DeadlineBounds DEF TypeOK
  <2>2. QED
    BY <2>1, TimePasses DEF RemoteAnswers
<1>6. AnswersInTime'
  <2>1. Deadline \in Nat /\ Deadline <= RequestTimeout /\ (asked.picker = "hybrid" => Deadline <= PickerTimeout)
    BY DeadlineBounds
  <2>2. QED
    BY <1>1, <1>3, <1>5, <2>1, TimesAssumption DEF AnswersInTime
<1>7. /\ heard' # None => heard' \in Answers(asked) /\ answer = ReadAs(asked, heard')
      /\ remote'.at = clock' /\ remote'.outcome = answer
  BY <1>2 DEF answer
<1>8. CASE asked.picker = "hybrid" /\ ~TakesRemote(answer, clock' > PickerTimeout)
  <2>1. stage' = "local" /\ began' = clock' /\ outcome' = outcome
    BY <1>2, <1>8 DEF AskLocal, answer
  <2>2. TypeOK'
    BY <1>1, <1>3, <1>4, <1>5, <1>7, <2>1 DEF TypeOK, Stages, Answers, ReadAs
  <2>3. asked.kind = "pick"
    BY <1>1, <1>8, ConsultedAssumption
  <2>4. ~(remote'.at <= PickerTimeout /\ IsSure(remote'.outcome))
    BY <1>5, <1>7, <1>8, TimesAssumption DEF TakesRemote, IsSure
  <2>5. clock' <= PickerTimeout + 1
    BY <1>5, <1>8, DeadlineBounds, TimesAssumption
  <2>6. LocalStage'
    BY <1>1, <1>3, <1>5, <1>8, <2>1, <2>3, <2>4, <2>5, TimesAssumption DEF LocalStage
  <2>7. QED
    BY <1>6, <2>1, <2>2, <2>6
    DEF IInv, RemoteStages, Safety, TakesSureRemotePicks, Hybrid, OnlyRemotePicksStray, WholeNamesArePicked, FillsOnlySureValues
<1>9. CASE ~(asked.picker = "hybrid" /\ ~TakesRemote(answer, clock' > PickerTimeout))
  <2>1. stage' = "done" /\ began' = began /\ outcome' = answer
    BY <1>2, <1>9 DEF Finish, answer
  <2>2. TypeOK'
    BY <1>1, <1>3, <1>4, <1>5, <1>7, <2>1 DEF TypeOK, Stages, Answers, ReadAs
  <2>3. TakesSureRemotePicks'
    BY <1>3, <1>4, <1>5, <1>7, <1>9, <2>1, TimesAssumption DEF TakesSureRemotePicks, Hybrid, TakesRemote
  <2>4. OnlyRemotePicksStray'
    <3>1. asked.kind = "pick" => asked.picker \in {"hybrid", "jev"}
      BY <1>1, ConsultedAssumption DEF Consultation
    <3>2. asked.picker = "hybrid" => answer.kind = "operation"
      BY <1>9 DEF TakesRemote
    <3>3. QED
      BY <1>3, <1>4, <1>7, <2>1, <3>1, <3>2 DEF OnlyRemotePicksStray, Readable
  <2>5. FillsOnlySureValues'
    <3>1. asked.kind = "fill" => heard' = answers /\ SureFill(heard', asked.refusal, answer)
      BY <1>2, <1>4
    <3> SUFFICES ASSUME asked.kind = "fill", answer.kind = "call"
                 PROVE  FillsOnlySureValues'
      BY <1>3, <2>1 DEF FillsOnlySureValues
    <3>2. QED
      BY <1>3, <2>1, <3>1 DEF FillsOnlySureValues, SureFill, Answered
  <2>6. WholeNamesArePicked'
    BY <1>1, <1>3 DEF WholeNamesArePicked
  <2>7. QED
    BY <1>6, <2>1, <2>2, <2>3, <2>4, <2>5, <2>6 DEF IInv, RemoteStages, LocalStage, Safety
<1>10. QED
  BY <1>8, <1>9

\* The consultation goes on with the remote model: a pause begins or ends, or the browser goes.
LEMMA RemoteGoesOn ==
    ASSUME IInv, stage \in {"remote", "backoff"}, clock' \in Nat, clock' <= Deadline,
           stage' \in {"remote", "backoff"}, attempt' \in 0..MaxRetries, stage' = "backoff" => attempt' < MaxRetries,
           hungUp' \in BOOLEAN, UNCHANGED <<asked, began, outcome, remote, heard, mentioned>>
    PROVE  IInv'
<1>1. TypeOK /\ RemoteStages /\ asked # None /\ asked.picker # "local" /\ asked \in Consulted
  BY AskedIsConsulted DEF IInv, RemoteStages
<1>2. TypeOK'
  <2>1. MaxRetries' = MaxRetries
    BY DEF MaxRetries
  <2>2. QED
    BY <1>1, <2>1 DEF TypeOK, Stages
<1>3. RemoteStages'
  BY <1>1 DEF RemoteStages, Deadline, Earliest
<1>4. AnswersInTime'
  <2>1. Deadline \in Nat /\ Deadline <= RequestTimeout /\ (asked.picker = "hybrid" => Deadline <= PickerTimeout)
    BY DeadlineBounds
  <2>2. QED
    BY <1>1, <2>1, TimesAssumption DEF AnswersInTime
<1>5. QED
  BY <1>2, <1>3, <1>4
  DEF IInv, LocalStage, Safety, TakesSureRemotePicks, Hybrid, OnlyRemotePicksStray, WholeNamesArePicked, FillsOnlySureValues

LEMMA RemoteStep ==
    ASSUME IInv, RemoteIsBusy \/ RemoteBreaks \/ Retry \/ TimesOut
    PROVE  IInv'
<1>1. /\ TypeOK /\ Deadline \in Nat /\ clock \in Nat /\ MaxRetries \in Nat
      /\ stage \in {"remote", "backoff"} => clock <= Deadline
  BY DeadlineBounds, TimesAssumption DEF IInv, TypeOK, RemoteStages, MaxRetries
<1>2. CASE RemoteIsBusy
  <2>1. stage = "remote" /\ clock' \in Nat /\ clock' <= Deadline
    BY <1>1, <1>2, TimePasses DEF RemoteIsBusy
  <2>2. CASE attempt < MaxRetries
    <3>1. stage' = "backoff" /\ UNCHANGED <<asked, attempt, began, hungUp, outcome, remote, heard, mentioned>>
      BY <1>2, <2>2 DEF RemoteIsBusy
    <3>2. attempt' \in 0..MaxRetries /\ hungUp' \in BOOLEAN
      BY <1>1, <3>1 DEF TypeOK
    <3>3. QED
      BY <2>1, <2>2, <3>1, <3>2, RemoteGoesOn
  <2>3. CASE ~(attempt < MaxRetries)
    BY <1>2, <2>1, <2>3, RemoteFailing DEF RemoteIsBusy
  <2>4. QED
    BY <2>2, <2>3
<1>3. CASE RemoteBreaks
  <2>1. stage = "remote" /\ clock' \in Nat /\ clock' <= Deadline
    BY <1>1, <1>3, TimePasses DEF RemoteBreaks
  <2>2. QED
    BY <1>3, <2>1, RemoteFailing DEF RemoteBreaks
<1>4. CASE Retry
  <2>1. /\ stage = "backoff" /\ stage' = "remote" /\ attempt' = attempt + 1
        /\ clock + Backoffs[attempt + 1] <= Deadline /\ clock' = clock + Backoffs[attempt + 1]
        /\ UNCHANGED <<asked, began, hungUp, outcome, remote, heard, mentioned>>
    BY <1>4 DEF Retry
  <2>2. attempt \in 0..MaxRetries /\ attempt < MaxRetries /\ hungUp' \in BOOLEAN
    BY <1>1, <2>1 DEF TypeOK
  <2>3. attempt' \in 0..MaxRetries
    BY <1>1, <2>1, <2>2
  <2>4. Backoffs[attempt + 1] \in Nat
    BY <1>1, <2>2, TimesAssumption DEF MaxRetries
  <2>5. clock' \in Nat /\ clock' <= Deadline
    BY <1>1, <2>1, <2>4
  <2>6. QED
    BY <2>1, <2>2, <2>3, <2>5, RemoteGoesOn
<1>5. CASE TimesOut
  BY <1>1, <1>5, RemoteFailing DEF TimesOut
<1>6. QED
  BY <1>2, <1>3, <1>4, <1>5

LEMMA LocalStep ==
    ASSUME IInv, LocalReplies \/ LocalSaysNothing \/ LocalBreaks \/ LocalTimesOut
    PROVE  IInv'
<1>1. /\ TypeOK /\ stage = "local" /\ asked \in Consulted /\ asked \in Consultation /\ mentioned = {}
      /\ clock \in Nat /\ began \in Nat /\ ChatTimeout \in Nat /\ began + ChatTimeout \in Nat
  BY AskedIsConsulted, TimesAssumption DEF IInv, TypeOK, LocalStage, LocalReplies, LocalSaysNothing, LocalBreaks, LocalTimesOut
<1>2. clock' \in Nat /\ clock' <= began + ChatTimeout
  <2>1. ASSUME Within(began + ChatTimeout) PROVE clock' \in Nat /\ clock' <= began + ChatTimeout
    BY <1>1, <2>1, TimePasses
  <2>2. QED
    BY <1>1, <2>1 DEF LocalReplies, LocalSaysNothing, LocalBreaks, LocalTimesOut
<1>3. \A k \in {"none", "error"} : Outcome(k) \in Outcomes /\ Outcome(k).kind = k /\ Outcome(k).sure = 0
  BY OutcomeTyped DEF OutcomeKinds
<1>4. CASE LocalReplies
  <2>1. PICK named \in Replies(asked) : mentioned' = named /\ \E answer \in Parsed(asked, named) : Finish(answer)
    BY <1>4 DEF LocalReplies
  <2>2. PICK answer \in Parsed(asked, named) : Finish(answer)
    BY <2>1
  <2>3. UNCHANGED <<asked, attempt, hungUp, remote, heard>>
    BY <1>4 DEF LocalReplies
  <2>4. /\ answer \in Outcomes /\ answer.sure = 0 /\ Offered(asked, answer) /\ answer.kind # "error"
        /\ named \subseteq Ids \union Builtins
        /\ named # {} => /\ PickedId(answer) \in named
                         /\ ~\E pair \in PartOf : pair[1] = PickedId(answer) /\ pair[2] \in named
    BY <1>1, <2>1, <2>2, ReplyParsed
  <2>5. QED
    BY <1>1, <1>2, <2>1, <2>2, <2>3, <2>4, LocalEnding
<1>5. CASE LocalSaysNothing
  BY <1>1, <1>2, <1>3, <1>5, LocalEnding DEF LocalSaysNothing, Offered
<1>6. CASE LocalBreaks \/ LocalTimesOut
  <2>1. Finish(LocalError) /\ UNCHANGED <<asked, attempt, hungUp, remote, heard, mentioned>>
    BY <1>6 DEF LocalBreaks, LocalTimesOut
  <2>2. /\ LocalError \in Outcomes /\ LocalError.sure = 0 /\ Offered(asked, LocalError)
        /\ asked.picker = "hybrid" => LocalError.kind # "error"
    BY <1>3 DEF LocalError, Failed, Offered
  <2>3. QED
    BY <1>1, <1>2, <2>1, <2>2, LocalEnding
<1>7. QED
  BY <1>4, <1>5, <1>6

LEMMA LeavingStep ==
    ASSUME IInv, HangUp \/ Cancelled
    PROVE  IInv'
<1>1. TypeOK /\ clock \in Nat /\ clock' = clock
  BY DEF IInv, TypeOK, HangUp, Cancelled
<1>2. CASE HangUp /\ stage \in {"remote", "backoff"}
  BY <1>1, <1>2, RemoteGoesOn DEF HangUp, IInv, RemoteStages, TypeOK
<1>3. CASE HangUp /\ stage = "local"
  BY <1>3
  DEF HangUp, IInv, TypeOK, RemoteStages, LocalStage, Safety, TakesSureRemotePicks, AnswersInTime, Hybrid,
      OnlyRemotePicksStray, WholeNamesArePicked, FillsOnlySureValues, Answers, ReadAs, Stages
<1>4. CASE Cancelled /\ stage \in {"remote", "backoff"}
  BY <1>1, <1>4, RemoteFailing DEF Cancelled
<1>5. CASE Cancelled /\ stage = "local"
  <2>1. /\ asked \in Consulted /\ mentioned = {} /\ clock <= began + ChatTimeout
    BY <1>5, AskedIsConsulted DEF IInv, LocalStage
  <2>2. Finish(LocalError) /\ UNCHANGED <<asked, attempt, hungUp, remote, heard, mentioned>>
    BY <1>5 DEF Cancelled
  <2>3. \A k \in {"none", "error"} : Outcome(k) \in Outcomes /\ Outcome(k).kind = k /\ Outcome(k).sure = 0
    BY OutcomeTyped DEF OutcomeKinds
  <2>4. /\ LocalError \in Outcomes /\ LocalError.sure = 0 /\ Offered(asked, LocalError)
        /\ asked.picker = "hybrid" => LocalError.kind # "error"
    BY <2>3 DEF LocalError, Failed, Offered
  <2>5. QED
    BY <1>1, <1>5, <2>1, <2>2, <2>4, LocalEnding
<1>6. QED
  BY <1>2, <1>3, <1>4, <1>5 DEF HangUp, Cancelled

LEMMA NextInvariant ==
    ASSUME IInv, [Next]_vars
    PROVE  IInv'
<1>1. CASE Ask
  BY <1>1, AskStep
<1>2. CASE RemoteAnswers
  BY <1>2, RemoteAnswersStep
<1>3. CASE RemoteIsBusy \/ RemoteBreaks \/ Retry \/ TimesOut
  BY <1>3, RemoteStep
<1>4. CASE LocalReplies \/ LocalSaysNothing \/ LocalBreaks \/ LocalTimesOut
  BY <1>4, LocalStep
<1>5. CASE HangUp \/ Cancelled
  BY <1>5, LeavingStep
<1>6. CASE UNCHANGED vars
  <2>1. TypeOK'
    BY <1>6 DEF vars, IInv, TypeOK, Answers, ReadAs, MaxRetries
  <2>2. RemoteStages' /\ LocalStage'
    BY <1>6 DEF vars, IInv, RemoteStages, LocalStage, Deadline, Earliest, IsSure
  <2>3. (TakesSureRemotePicks /\ AnswersInTime)'
    BY <1>6 DEF vars, IInv, Safety, TakesSureRemotePicks, AnswersInTime, Hybrid
  <2>4. OnlyRemotePicksStray'
    BY <1>6 DEF vars, IInv, Safety, OnlyRemotePicksStray
  <2>5. WholeNamesArePicked'
    BY <1>6 DEF vars, IInv, Safety, WholeNamesArePicked, PickedId
  <2>6. FillsOnlySureValues'
    BY <1>6 DEF vars, IInv, Safety, FillsOnlySureValues, Answered
  <2>7. QED
    BY <2>1, <2>2, <2>3, <2>4, <2>5, <2>6 DEF IInv, Safety
<1>7. QED
  BY <1>1, <1>2, <1>3, <1>4, <1>5, <1>6 DEF Next, Step

-----------------------------------------------------------------------------
\* Every consultation keeps the invariant, whatever is asked and answered (Consultations.Spec).
THEOREM Invariant == Spec => []IInv
BY InitInvariant, NextInvariant, PTL DEF Spec

\* The adapters' state keeps its type: retries are counted, an ended consultation has its
\* outcome (client.post, hybrid.Picker.Pick).
THEOREM TypeCorrect == Spec => []TypeOK
<1>1. IInv => TypeOK
  BY DEF IInv
<1>2. QED
  BY <1>1, Invariant, PTL

\* The hybrid picker answers with the remote one's operation exactly when it is sure and in
\* time, and never fails (hybrid.Picker.Pick).
THEOREM TakesSureRemote == Spec => []TakesSureRemotePicks
<1>1. IInv => TakesSureRemotePicks
  BY DEF IInv, Safety
<1>2. QED
  BY <1>1, Invariant, PTL

\* No consultation outlasts its client's time (newClient, chat.NewClient, defaultJevTimeout).
THEOREM InTime == Spec => []AnswersInTime
<1>1. IInv => AnswersInTime
  BY DEF IInv, Safety
<1>2. QED
  BY <1>1, Invariant, PTL

\* An operation that is not in the shortlist comes of the remote model's answer by service
\* alone, and is of a service of it; the hybrid picker proposes no panel without a workspace:
\* for every catalogue, every order of equal scores, and answers that name anything
\* (mapHierarchicalChosen, mapAnswer, fallbackReason, parse).
THEOREM OnlyRemoteStrays == Spec => []OnlyRemotePicksStray
<1>1. IInv => OnlyRemotePicksStray
  BY DEF IInv, Safety
<1>2. QED
  BY <1>1, Invariant, PTL

\* A part of a longer id is never picked for it (parse).
THEOREM WholeNames == Spec => []WholeNamesArePicked
<1>1. IInv => WholeNamesArePicked
  BY DEF IInv, Safety
<1>2. QED
  BY <1>1, Invariant, PTL

\* The filler calls with sure, declared values only, or not at all (mapFillAnswers).
THEOREM FillsSure == Spec => []FillsOnlySureValues
<1>1. IInv => FillsOnlySureValues
  BY DEF IInv, Safety
<1>2. QED
  BY <1>1, Invariant, PTL

-----------------------------------------------------------------------------
(* What EveryConsultationEnds rests on, but for the timers going off. *)

\* How often a consultation can still go on: a call and a pause for every retry that is
\* left, the last call, and the local model's reply.
Left ==
    CASE stage = "remote" -> 2 * (MaxRetries - attempt) + 2
      [] stage = "backoff" -> 2 * (MaxRetries - attempt) + 1
      [] stage = "local" -> 1
      [] OTHER -> 0

Waits == stage \in {"remote", "backoff", "local"}

\* The guards of TimesOut and LocalTimesOut.
TimersAreSet ==
    /\ stage \in {"remote", "backoff"} => clock <= Deadline
    /\ stage = "local" => clock <= began + ChatTimeout

\* Whatever a consultation waits for, the timer of that wait is running and has not passed
\* (client.post, chat's requestTimeout).
THEOREM TimersSet == Spec => []TimersAreSet
<1>1. IInv => TimersAreSet
  BY DEF IInv, RemoteStages, LocalStage, TimersAreSet
<1>2. QED
  BY <1>1, Invariant, PTL

\* Busy answers and the hybrid picker's second try cannot keep a consultation going: every
\* step of it leaves fewer than were left before, and it waits only while some are left.
THEOREM StepsRunOut == Spec => [][(Waits <=> Left > 0) /\ (Step => Left' \in Nat /\ Left' < Left)]_vars
<1>1. ASSUME IInv PROVE Left \in Nat /\ (Waits <=> Left > 0)
  BY <1>1 DEF IInv, TypeOK, Stages, Left, Waits, MaxRetries, TimesAssumption
<1>2. ASSUME IInv, IInv', Step PROVE Left' < Left
  <2>1. MaxRetries \in Nat /\ attempt \in 0..MaxRetries /\ (stage = "backoff" => attempt < MaxRetries)
    BY <1>2, TimesAssumption DEF IInv, TypeOK, MaxRetries
  <2>2. CASE stage' = "done"
    BY <1>2, <2>1, <2>2 DEF Left, Step, RemoteAnswers, RemoteIsBusy, RemoteBreaks, Retry, TimesOut, LocalReplies,
      LocalSaysNothing, LocalBreaks, LocalTimesOut, Cancelled
  <2>3. CASE stage' = "local" /\ stage \in {"remote", "backoff"}
    BY <2>1, <2>3 DEF Left
  <2>4. CASE RemoteIsBusy /\ attempt < MaxRetries
    BY <2>1, <2>4 DEF Left, RemoteIsBusy
  <2>5. CASE Retry
    BY <2>1, <2>5 DEF Left, Retry
  <2>6. QED
    BY <1>2, <2>2, <2>3, <2>4, <2>5 DEF Step, RemoteAnswers, RemoteIsBusy, RemoteBreaks, TimesOut, LocalReplies,
      LocalSaysNothing, LocalBreaks, LocalTimesOut, Cancelled, RemoteFails, Finish, AskLocal
<1>3. IInv /\ [Next]_vars => IInv'
  BY NextInvariant
<1>4. IInv /\ IInv' /\ [Next]_vars => [(Waits <=> Left > 0) /\ (Step => Left' \in Nat /\ Left' < Left)]_vars
  <2>1. ASSUME IInv' PROVE Left' \in Nat
    BY <2>1, TimesAssumption DEF IInv, TypeOK, Stages, Left, MaxRetries
  <2>2. QED
    BY <1>1, <1>2, <2>1
<1>5. QED
  BY <1>3, <1>4, Invariant, PTL DEF Spec
=============================================================================
