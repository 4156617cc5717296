--------------------------- MODULE Consultations ---------------------------
(***************************************************************************)
(* One consultation of the small models beside the planner: the picker     *)
(* (remote, local, or the hybrid of both), the gate, the service router    *)
(* and the filler.  The remote ones share planner/jev's client: a busy     *)
(* answer is retried after a pause, all within one deadline.  The hybrid   *)
(* picker gives the remote one less time than that and turns to the local  *)
(* one whenever it does not get a sure operation.  The browser may go at   *)
(* any moment.  Time is counted in fifths of a second.                     *)
(***************************************************************************)
EXTENDS JevAnswers

CONSTANTS
    Consulted,       \* the consultations a run makes
    PickerTimeout, PickerThreshold,  \* hybrid: jevTimeout and threshold
    RequestTimeout,  \* jev: one consultation, its retries included
    Backoffs,        \* jev: the pauses before its retries
    ChatTimeout,     \* chat: one call of the local model
    Durations,       \* how long a call may take
    Length, PartOf   \* the length of an id, and which id is part of which

MaxRetries == Len(Backoffs)

\* endpoint is the operation the filler fills; refusal its refusalMode.
Consultation == [kind: {"pick", "gate", "route", "fill"}, picker: {"hybrid", "jev", "local", None},
                 shortlist: Seq(Endpoints), workspace: BOOLEAN, fanOut: BOOLEAN,
                 refusal: {"off", "options", "separate"}]

ASSUME ConsultedAssumption ==
    /\ Consulted \subseteq Consultation /\ None \notin {"hybrid", "jev", "local"}
    /\ \A c \in Consulted : /\ (c.kind = "pick") <=> (c.picker # None)
                            /\ c.kind = "fill" => c.shortlist # <<>>
ASSUME TimesAssumption ==
    /\ {PickerTimeout, RequestTimeout, ChatTimeout} \subseteq Nat \ {0} /\ PickerThreshold \in 0..10
    /\ Backoffs \in Seq(Nat \ {0}) /\ Durations \subseteq Nat \ {0}
ASSUME IdsAssumption ==
    /\ Length \in [Ids \union Builtins -> Nat]
    /\ \A pair \in PartOf : pair[1] \in Ids \union Builtins /\ pair[2] \in Ids \union Builtins
                            /\ Length[pair[1]] < Length[pair[2]]

VARIABLES
    asked,      \* the consultation
    stage,      \* what it waits for
    attempt,    \* the retries of the remote call
    clock,      \* the time since it was asked
    began,      \* when the local picker was asked
    hungUp,     \* the browser went
    outcome,    \* the answer, or how it failed
    remote,     \* history: what the remote model's answer was read as, and when
    heard,      \* history: the remote model's answers about a fill
    mentioned   \* history: the ids the local model's reply names

vars == <<asked, stage, attempt, clock, began, hungUp, outcome, remote, heard, mentioned>>

Stages == {"idle", "remote", "backoff", "local", "done"}
NotYet == [at |-> 0, outcome |-> None]

Init ==
    /\ asked = None /\ stage = "idle"
    /\ attempt = 0 /\ clock = 0 /\ began = 0
    /\ hungUp = FALSE
    /\ outcome = None
    /\ remote = NotYet /\ heard = None /\ mentioned = {}

(***************************************************************************)
(* Time.                                                                   *)
(***************************************************************************)
Earliest(a, b) == IF a < b THEN a ELSE b

\* Fault: the hybrid picker leaves the remote one its own time.
RequestDeadline == RequestTimeout

\* context.WithTimeout of a context that has a deadline keeps the earlier one.
Deadline == IF asked.picker = "hybrid" THEN Earliest(PickerTimeout, RequestTimeout) ELSE RequestTimeout

\* What happens while a call or a pause runs takes some of the time that is left of it.
Within(deadline) == \E d \in Durations : clock + d <= deadline /\ clock' = clock + d

Finish(answer) == stage' = "done" /\ outcome' = answer /\ UNCHANGED began

\* The remote adapter's error, or an answer the hybrid picker does not take.
AskLocal == stage' = "local" /\ began' = clock' /\ UNCHANGED outcome

RemoteFails == IF asked.picker = "hybrid" THEN AskLocal ELSE Finish(Failed)

(***************************************************************************)
(* A consultation begins.                                                  *)
(***************************************************************************)
\* An empty shortlist asks nobody; buildHierarchicalRequest refuses a service no question
\* could hold before any call, and the hybrid picker then asks the local one.
FirstStage(c) ==
    IF c.kind # "fill" /\ c.shortlist = <<>>
      THEN [stage |-> "done", outcome |-> Outcome(CASE c.kind = "pick" -> "none" [] c.kind = "gate" -> "possible" [] OTHER -> "anywhere")]
    ELSE IF c.picker = "local" THEN [stage |-> "local", outcome |-> None]
    ELSE IF c.kind = "pick" /\ NeedsHierarchical(c.shortlist) /\ ServiceTooLarge(c.shortlist)
      THEN IF c.picker = "hybrid" THEN [stage |-> "local", outcome |-> None] ELSE [stage |-> "done", outcome |-> Failed]
    ELSE [stage |-> "remote", outcome |-> None]

\* Bound: one consultation at a time; an adapter keeps nothing from one to the next.
Ask ==
    /\ stage \in {"idle", "done"}
    /\ \E c \in Consulted : asked' = c /\ stage' = FirstStage(c).stage /\ outcome' = FirstStage(c).outcome
    /\ attempt' = 0 /\ clock' = 0 /\ began' = 0
    /\ hungUp' = FALSE
    /\ remote' = NotYet /\ heard' = None /\ mentioned' = {}

(***************************************************************************)
(* The remote model.                                                       *)
(***************************************************************************)
Answers(c) ==
    CASE c.kind = "pick" -> IF NeedsHierarchical(c.shortlist) THEN PathAnswers(c.shortlist, c.fanOut)
                            ELSE FlatAnswers(c.shortlist, c.fanOut)
      [] c.kind = "gate" -> Noul(TRUE)
      [] c.kind = "route" -> RouteAnswers(c.shortlist)
      [] c.kind = "fill" -> FillAnswers(c.refusal)

\* The endpoint the filler fills is the one picked of the shortlist: its first.
ReadAs(c, answers) ==
    CASE c.kind = "pick" -> IF NeedsHierarchical(c.shortlist) THEN PathPick(answers, c.shortlist, c.fanOut)
                            ELSE FlatPick(answers, c.shortlist, c.fanOut)
      [] c.kind = "gate" -> GateVerdict(answers)
      [] c.kind = "route" -> MapRouteAnswer(answers)
      [] c.kind = "fill" -> MapFillAnswers(answers, c.shortlist[1], c.refusal)

\* What the answers to a consultation are read as; those about a fill are remembered.
Readings ==
    [c \in {d \in Consulted : d.picker # "local"} |->
        {[heard |-> IF c.kind = "fill" THEN answers ELSE None, outcome |-> ReadAs(c, answers)] : answers \in Answers(c)}]

\* Fault: an answer is taken however late it was read.
SureEnough(answer, late) ==
    answer.kind = "operation" /\ answer.sure >= PickerThreshold * PickerThreshold

\* fallbackReason is "".
TakesRemote(answer, late) ==
    ~late /\ answer.kind = "operation" /\ answer.sure >= PickerThreshold * PickerThreshold

\* The answer came in time; reading it may take what is left and one unit more.
RemoteAnswers ==
    /\ stage = "remote"
    /\ Within(Deadline + 1)
    /\ \E reading \in Readings[asked] :
         /\ heard' = reading.heard
         /\ remote' = [at |-> clock', outcome |-> reading.outcome]
         /\ IF asked.picker = "hybrid" /\ ~TakesRemote(reading.outcome, clock' > PickerTimeout)
              THEN AskLocal ELSE Finish(reading.outcome)
    /\ UNCHANGED <<asked, attempt, hungUp, mentioned>>

\* 429 and 529.
RemoteIsBusy ==
    /\ stage = "remote"
    /\ Within(Deadline)
    /\ IF attempt < MaxRetries THEN stage' = "backoff" /\ UNCHANGED <<outcome, began>> ELSE RemoteFails
    /\ UNCHANGED <<asked, attempt, hungUp, remote, heard, mentioned>>

\* Any other status, a connection that breaks, a body that does not decode.
RemoteBreaks ==
    /\ stage = "remote"
    /\ Within(Deadline)
    /\ RemoteFails
    /\ UNCHANGED <<asked, attempt, hungUp, remote, heard, mentioned>>

Retry ==
    /\ stage = "backoff"
    /\ clock + Backoffs[attempt + 1] <= Deadline
    /\ clock' = clock + Backoffs[attempt + 1]
    /\ attempt' = attempt + 1
    /\ stage' = "remote"
    /\ UNCHANGED <<asked, began, hungUp, outcome, remote, heard, mentioned>>

TimesOut ==
    /\ stage \in {"remote", "backoff"}
    /\ clock <= Deadline /\ clock' = Deadline
    /\ RemoteFails
    /\ UNCHANGED <<asked, attempt, hungUp, remote, heard, mentioned>>

(***************************************************************************)
(* The local picker: pick.Picker over chat.Client.                         *)
(***************************************************************************)
Candidates(c) == IdsOf(c.shortlist) \union (IF c.workspace THEN Builtins ELSE Builtins \ {ProposePanel})

\* The candidates a reply names: one that is part of another is in it too.
Replies(c) ==
    {named \in SUBSET Candidates(c) :
        \A pair \in PartOf : pair[2] \in named /\ pair[1] \in Candidates(c) => pair[1] \in named}

\* Fault: the shortest id is looked for first.
Shortest(named) == {i \in named : \A j \in named : Length[i] <= Length[j]}

Longest(named) == {i \in named : \A j \in named : Length[j] <= Length[i]}

\* parse: ids of one length are in no particular order.
Parsed(c, named) ==
    IF named = {} THEN {Outcome("none")}
    ELSE {IF i \in IdsOf(c.shortlist) THEN Pick("operation", LastServiceOf(c.shortlist, i), i, 0)
            ELSE BuiltinPick(i, 0) : i \in Longest(named)}

LocalReplies ==
    /\ stage = "local"
    /\ Within(began + ChatTimeout)
    /\ \E named \in Replies(asked) :
         /\ mentioned' = named
         /\ \E answer \in Parsed(asked, named) : Finish(answer)
    /\ UNCHANGED <<asked, attempt, hungUp, remote, heard>>

\* Cut off at max_tokens.
LocalSaysNothing ==
    /\ stage = "local"
    /\ Within(began + ChatTimeout)
    /\ Finish(Outcome("none"))
    /\ UNCHANGED <<asked, attempt, hungUp, remote, heard, mentioned>>

\* The hybrid picker has no error path.
LocalError == IF asked.picker = "hybrid" THEN Outcome("none") ELSE Failed

LocalBreaks ==
    /\ stage = "local"
    /\ Within(began + ChatTimeout)
    /\ Finish(LocalError)
    /\ UNCHANGED <<asked, attempt, hungUp, remote, heard, mentioned>>

\* Fault: chat's client has no timeout of its own, and waits until the browser goes.
LocalIsCutOff ==
    /\ stage = "local" /\ hungUp
    /\ clock <= began + ChatTimeout /\ clock' = began + ChatTimeout
    /\ Finish(LocalError)
    /\ UNCHANGED <<asked, attempt, hungUp, remote, heard, mentioned>>

LocalTimesOut ==
    /\ stage = "local"
    /\ clock <= began + ChatTimeout /\ clock' = began + ChatTimeout
    /\ Finish(LocalError)
    /\ UNCHANGED <<asked, attempt, hungUp, remote, heard, mentioned>>

(***************************************************************************)
(* The browser goes: the request's context ends, and every call under it.  *)
(***************************************************************************)
HangUp ==
    /\ stage \in {"remote", "backoff", "local"} /\ ~hungUp
    /\ hungUp' = TRUE
    /\ UNCHANGED <<asked, stage, attempt, clock, began, outcome, remote, heard, mentioned>>

Cancelled ==
    /\ hungUp /\ clock' = clock
    /\ \/ stage \in {"remote", "backoff"} /\ clock <= Deadline /\ RemoteFails
       \/ stage = "local" /\ Finish(LocalError)
    /\ UNCHANGED <<asked, attempt, hungUp, remote, heard, mentioned>>

Step == \/ RemoteAnswers \/ RemoteIsBusy \/ RemoteBreaks \/ Retry \/ TimesOut
        \/ LocalReplies \/ LocalSaysNothing \/ LocalBreaks \/ LocalTimesOut \/ Cancelled

Next == Ask \/ Step \/ HangUp

Spec == Init /\ [][Next]_vars

\* The clients' own timers go off; nothing is asked of the models.
FairSpec == Spec /\ WF_vars(TimesOut) /\ WF_vars(LocalTimesOut)

(***************************************************************************)
(* Properties.                                                             *)
(***************************************************************************)
OutcomeKinds == {"operation", "list", "propose", "none", "impossible", "possible", "service", "anywhere",
                 "call", "ask", "local", "error"}
Outcomes == [kind: OutcomeKinds, service: Services \union {Unknown, None}, id: Ids \union {Unknown, None}, sure: Nat,
             args: SUBSET (ParamNames \X Values), param: ParamNames \union {None}]
ASSUME NoneAssumption == None \notin Outcomes \union Consultation

TypeOK ==
    /\ asked \in Consulted \union {None}
    /\ (asked = None) <=> (stage = "idle")
    /\ stage \in Stages
    /\ attempt \in 0..MaxRetries /\ (stage = "backoff" => attempt < MaxRetries)
    /\ clock \in Nat /\ began \in Nat
    /\ hungUp \in BOOLEAN
    /\ outcome \in Outcomes \union {None}
    /\ (outcome = None) <=> (stage # "done")
    /\ remote.at \in Nat /\ remote.outcome \in Outcomes \union {None}
    /\ heard # None => heard \in Answers(asked) /\ remote.outcome = ReadAs(asked, heard)
    /\ mentioned \subseteq Ids \union Builtins

Hybrid == stage = "done" /\ asked.picker = "hybrid"

\* The hybrid picker answers with the remote one's operation exactly when that is sure and
\* came within 800 ms, retries included; what else it answers is the local one's, and it
\* never fails (hybrid.Picker.Pick, fallbackReason).
TakesSureRemotePicks ==
    Hybrid =>
        IF /\ remote.outcome # None /\ remote.at <= PickerTimeout
           /\ remote.outcome.kind = "operation" /\ remote.outcome.sure >= PickerThreshold * PickerThreshold
          THEN outcome = remote.outcome
          ELSE outcome.kind # "error" /\ outcome.sure = 0

\* A consultation ends within its client's time; the hybrid picker keeps nobody waiting
\* longer than the local one by more than its own 800 ms, the reading of a last answer
\* included (defaultJevTimeout, requestTimeout).
AnswersInTime ==
    /\ asked # None /\ asked.picker = "hybrid" => clock <= PickerTimeout + 1 + ChatTimeout
    /\ asked # None /\ asked.picker = "local" => clock <= ChatTimeout
    /\ asked # None /\ asked.picker \in {"jev", None} => clock <= RequestTimeout + 1

\* Only the remote model picks what was not offered: an operation that is not in the
\* shortlist, of one of its services, where it answered by service; a panel without a
\* workspace, where no hybrid picker looks at the kind of its answer.  A built-in named in a
\* service's answer is never picked as an operation (hierarchicalCandidates,
\* mapHierarchicalChosen, mapAnswer, fallbackReason, candidatesFor).
OnlyRemotePicksStray ==
    stage = "done" /\ asked.kind = "pick" =>
        /\ outcome.kind = "operation" =>
             /\ outcome.service \in ServicesOf(asked.shortlist) /\ outcome.id \notin Builtins
             /\ \/ [service |-> outcome.service, id |-> outcome.id] \in EndpointsOf(asked.shortlist)
                \/ NeedsHierarchical(asked.shortlist) /\ outcome = remote.outcome
        /\ outcome.kind = "propose" => asked.workspace \/ asked.picker = "jev"

PickedId(answer) ==
    CASE answer.kind = "operation" -> answer.id [] answer.kind = "list" -> ListCapabilities
      [] answer.kind = "propose" -> ProposePanel [] OTHER -> NoOperation

\* An id that only stands in the local model's reply as a part of a longer one is not
\* what is picked (parse).
WholeNamesArePicked ==
    stage = "done" /\ mentioned # {} =>
        /\ PickedId(outcome) \in mentioned
        /\ ~\E pair \in PartOf : pair[1] = PickedId(outcome) /\ pair[2] \in mentioned

Answered(p) == heard.params[p]

\* The filler calls with what its enums declare and the model was sure of, every parameter
\* answered, and not when the model refused the request as a whole; one unusable answer
\* leaves all of them to the local fill (mapFillAnswers, fillOutcome.decision).
FillsOnlySureValues ==
    stage = "done" /\ asked.kind = "fill" /\ outcome.kind = "call" =>
        /\ \A pair \in outcome.args : /\ pair[2] \in EnumOf[pair[1]] /\ pair[2] = Answered(pair[1]).choice
        /\ \A p \in ParamNames : /\ Answered(p).confidence >= FillThreshold
                                 /\ Answered(p).choice \notin {Mismatch, Refusal, Capabilities}
                                 /\ Answered(p).choice # Unset => <<p, Answered(p).choice>> \in outcome.args
        /\ asked.refusal = "separate" =>
             \A answer \in {heard.refusal, heard.capabilities} : answer # Missing /\ answer < FillThreshold

\* Every consultation ends, on the clients' timers alone, whatever the models do
\* (client.post's deadline, chat's requestTimeout).
EveryConsultationEnds == (stage \in {"remote", "backoff", "local"}) ~> (stage = "done")
=============================================================================
