# Verification of app-orchestra

Models of app-orchestra in TLA+, checked with TLC, and proofs about them checked
with TLAPS. Source paths are relative to the repository root; `P` stands for
`services/platform/internal`.

- [1. The system](#1-the-system): its parts, their state and what is hard about them
- [2. The modules](#2-the-modules) and how they correspond to the code
- [3. The runs](#3-the-runs): what TLC checks, the bounds, the fairness
- [4. The proofs](#4-the-proofs): what holds for every value of the constants, and why
- [5. What the models showed](#5-what-the-models-showed)
- [6. What is not modelled](#6-what-is-not-modelled)
- [7. The plan](#7-the-plan)

To repeat a check: `tlc -config Workspaces_tenancy.cfg MCWorkspaces`,
`tlapm WorkspacesProofs.tla`.

## 1. The system

A person asks a question in a browser. The platform finds one operation, among
those of the services it knows that this person may call, that answers the question;
it calls the operation if it is safe, and opens a form otherwise. What came of it can
be saved as a panel on a workspace. An admin decides who may call what.

| Part | Where | State | Operations |
| --- | --- | --- | --- |
| Orchestrator | `P/usecase/orchestrator*.go`, `filler.go` | none of its own; per request the catalogue, what was picked, what is called | `Plan`, `Invoke` |
| Planner, picker, gate, filler, service router, narrower | `P/adapter/planner`, `P/adapter/narrowing` | timers and retries of a call in flight | one method each, another process behind it |
| Service invoker | `P/adapter/invoker/http` | none | `Invoke` |
| Catalogue, contracts, rendering | `P/domain`, `P/adapter/specsource`, `P/usecase/catalog.go` | contracts, read once at start-up | lookups; pure functions of a contract |
| Workspaces and panels | `P/usecase/workspaces.go`, `P/adapter/repository/sqlite/store.go` | tables `workspaces`, `panels` | list, create, get, delete; add, update, delete a panel |
| Permissions and accounts | `P/usecase/admin.go`, `P/adapter/repository/sqlite/permissions.go` | table `permissions` | read and replace what an account may call |
| Sessions | `P/adapter/auth/local`, `P/adapter/repository/sqlite/sessions.go`, `users.go` | tables `users`, `sessions` | sign in, sign out, look up |
| Conversations | `web/src/features/conversation` | turns and a pending flag per conversation, held above the screens | ask, choose an alternative or an option, submit a form, start anew |
| Dashboard | `web/src/pages/workspace`, `web/src/entities/workspace` | a card per panel, its catalogue entry, its answer; the arrangement | load, refresh, move, resize |
| Other screens | `web/src/features/session`, `permissions`, `workspaces`, `panels` | forms and lists | load, edit, save |
| Example services, harness, documents | `services/attendance`, `services/inventory`, `harness`, `e2e`, `docs` | records in memory | CRUD; build guards and measurements |

**How they interact.** Every request of the browser is one goroutine of the platform.
Requests share the SQLite file through one pooled connection
(`SetMaxOpenConns(1)`), and nothing else: the orchestrator keeps nothing between
requests, and the conversation a question belongs to is sent along by the browser.
Inside a request the orchestrator consults other processes one after another and
waits for each. In the browser, state is React state; requests are
awaited by the handler that sent them, and the person goes on clicking meanwhile.

**What is hard, and what makes each part correct.**

- *Workspaces.* The ownership check, the permission check and the write are separate
  statements, and the handlers of two requests interleave between any two of them; a
  delete is a transaction others must not see half of; the process may stop anywhere.
  Nobody may see or change what is another's, write over a permission withdrawn
  before they asked, lose another's edit or keep half of a deletion; and what people see
  must be explained by operations that each happen at once (`WorkspaceRegistry`), as what accounts and sessions do must be by
  `SignIns`, and a question by one answer and one call or none (`PlanContract`).
- *Orchestrator.* Six paths lead to a call and five to a form, through collaborators
  that may answer anything, fail, or answer for a catalogue that has since changed. A question
  must never write, never use what the person may not call, never call with a value
  nobody said; an adviser being down must not fail a question.
- *Conversations.* Answers arrive in any order, in conversations that were ended, asked
  again or left meanwhile. An answer must go to its own conversation, take nothing
  away there, and be told to the model as the answer to its own question.
- *Dashboard.* A card calls its operation by being drawn, so it must know first that the
  operation is safe; edits and refreshes overlap calls in flight, and the answer drawn must be
  of the panel drawn.
- *Advisers* (picker, gate, router, filler). A deadline races retries and their pauses; the hybrid picker
  has its own, shorter one, and a second model behind it. Answers name operations by ids two services
  may share and one of which may be a part of another. What was not offered must come of
  the remote model alone, and an answer be taken exactly when it is sure and in time, and come at all.
- *Planners and invoker.* A reply is cut short, refused, late or of no use, and asked for again, in another
  form. What is called in the end must be an operation there is, with each argument in its one place.
- *Sessions and start-up.* The file outlives the process: a start may break off between any two
  statements, and the next one brings another environment. A session ends by the clock, by
  another request or never, and the browser hears of it late or not at all. Nobody's account may be
  overwritten, an admin must be there, and a session must serve its own account until it is over and nobody after.
- *Arrangement.* Changes saved without waiting for each other: not modelled, section 6.

`PROJECT.json` lists each hazard at its line with the properties aimed at it, and those
no property reaches yet with the reason.

## 2. The modules

| Module | Models |
| --- | --- |
| `WorkspaceRegistry` | what saved workspaces promise: each operation one step (abstract) |
| `Workspaces` | the handlers of workspaces and permissions, statement by statement |
| `MCWorkspaces` | the requests its three runs send |
| `WorkspacesProofs`, `RegistryProofs` | its invariant and action properties, the measure of its handlers; that it implements `WorkspaceRegistry` |
| `PlanContract` | what a question is promised: one answer, one call of one service or none (abstract) |
| `Planning` | `Plan` and `Invoke`, from the catalogue to the reply |
| `MCPlanning` | a catalogue of four operations, the questions and the deployments of its runs |
| `PlanningProofs` | its invariant and six safety properties; that it implements `PlanContract` |
| `Conversation` | the conversation store and the controls that change it |
| `MCConversation` | its symmetry |
| `PanelCard` | one panel's card: catalogue lookup, calls, refreshes, edits, form |
| `MCPanelCard` | its instance |
| `PanelCardProofs` | its invariants |
| `Catalogue` | an offer of operations, and the ways an id is looked up in it |
| `JevAnswers` | what the remote model is asked, what it may answer and how that is read |
| `Consultations` | one consultation of the picker, the gate, the router or the filler, in time |
| `MCConsultations` | the operations, ids and consultations of its run |
| `ConsultationsProofs` | its invariant and five safety properties; the measure of a consultation |
| `Contracts` | a contract: its tool's schema, the two checks of arguments, their places in a request |
| `Planners` | one question put to the planning model by either adapter, one confirmed call, and the request to the service |
| `MCPlanners` | three contracts, the arguments and questions of its run |
| `PlannersProofs` | its invariant and four safety properties; the measure of a plan |
| `Startup` | what `config.Load` accepts, and what `seedAccounts` and the constructors of `app.build` accept later |
| `SignIns` | what accounts and sessions promise, whatever stops and starts (abstract) |
| `Sessions` | starts, seeds, stops; sign-in, sign-out and every other request; browsers and the clock |
| `MCSessions` | eight environments |
| `ConversationProofs` | types, ids and the four properties of conversations |
| `SessionsProofs` | which settings load and are never served; its invariant and its properties; that it implements `SignIns` |

**Workspaces.** A request occupies a *slot*; `pc` is the SQL statement its handler
executes next, so one action is one statement with the Go code up to the next. A
statement outside a transaction needs the connection to be free (`Statement`); one
inside needs to hold it (`TxStatement`), and `BeginDelete`, `BeginSet` take it. What a
transaction has done is staged in `local` and reaches the tables at its commit.
`wsRows`, `panels`, `permissions` are the tables. `owner` also remembers deleted
workspaces, and a deleted panel is `Gone`: ids are random and never reused, which
`Arrive` assumes by handing each out once. `req`, `local`, `reply` are the handler's
variables. `Fail` is any error of a statement, or a client that
hangs up (500, rollback); `Crash` stops the process, leaving the tables. `since` is a history
variable: what the caller could call at some moment since the request arrived. The
width stands for the panel's clamped sizes, `view` for the columns that may be NULL; so `PatchedRow`
distinguishes a member that is absent, null and given.

**Planning.** `pc` is the collaborator waited for. Each collaborator is a
nondeterministic choice over everything its interface lets it answer, and failure. A
question is the set of values it *says* (`mentionedInQuestion`) and the answers to
an earlier question back that came with it; arguments are functions from names to values or `None`.
`Call`, `Ask`, `FormFor` and `Propose` are the functions of those names; the paths
(`PlanOrdinary`, `PlanPreferred`, `PlanPicked`, `FillEnum`, `Pick`) call them as the code does, and
`config` is the set of options `app.build` passes. `Regrant` is everybody else:
requests share nothing but the permissions they read, so one request in flight and a table that
changes under it are all the interleavings there are. `since` and `failed` are history variables. Under the mapping to `PlanContract`
(`Visible`) every consultation is a stutter, the endings without a call are `AnswerAlone`, asking the invoker is `CallService`, its answer `Serve`.

**Conversation.** `conversations` is the provider's state, `screen` what is drawn,
`controls` the local state of the option rows and forms that are mounted and locked, by which request.
`requests` are in flight; `Answered` and `Failed` settle one, in any order, as
the `then`, `catch` and `finally` of the code do; what a request tells the model of earlier
questions is kept by their places in the conversation. A question's words are the id of
the turn that first carried them. `asked`, `from`, `by` on a turn and `fresh` are history.

**PanelCard.** `lookup` is `useCatalogEntry`'s answer, `card` the state and the ref of
`usePanelInvoke` with those of the form. The load of `usePanelInvoke` is a passive effect: `LookUp` and
`EditSaved`, which settle a fetch and come of no press, commit the new card and leave the `effect` *due*; calls may settle and controls be
pressed before `RunEffect`. What a press sets is drawn at once, and React runs an effect that is due before it draws anew, so a press makes it
the `next` step, and a second `LookUp`, `EditSaved` or `Close` waits for it. Its clean-up
marks the load before it `cancelled`. `rushed` is history. `Settle` is the rest of an `async` function after
its `await`. A `version` stands for the panel's arguments, which an edit replaces; the operation
of a panel never changes (`PatchWritesNamedColumns`). Cards share no state, so one is modelled.
`unsafe` is an operation with a body, which `domain.Render` draws as a form.

**Consultations.** `stage` is what is waited for: the remote model, the pause before a retry, the local
model. The clock counts fifths of a second, so the hybrid picker's 800 ms are 4, the client's ten seconds 50, its
pauses 5 and 15. Something happens within what is left of a deadline (`Within`) or the timer ends it
(`TimesOut`, `LocalTimesOut`); an answer that came in time may be read one unit later. What is asked
(`FlatAnswers`, `PathAnswers`, `RouteAnswers`, `FillAnswers`) and how it is read (`FlatPick`, `PathPick`,
`MapRouteAnswer`, `MapFillAnswers`) are operators of `JevAnswers`, over every answer the client would decode: questions left
out, names nobody offered (built-ins, other services' operations, names there are none of), any probability of a few levels. What a
name that is never read was given is left out. `Readings` is what all of that comes to, worked out once for each consultation. The local model's reply is the set of the ids that stand in it.
`remote`, `heard`, `mentioned` are history.

**Planners.** `Arrive` takes a question or a confirmed call; `ReadToolCall` and `ReadJson` read a reply of
`toolcall` and `jsonmode`, `ModelRefuses` is the 400 that makes `jsonmode` ask again without a response
format, `CallTimesOut` the client's two minutes, `HangUp` the browser. `attempt`, `plain`, `truncated` are the loop of
`jsonmode.Plan`. A decision of either becomes `Request(contract, args)`: path, query and body as functions from names to
values, printed where the code prints. An argument is a name and a value: one of a few texts, a number
or null; a schema is the set of texts it declares. Time is counted in half minutes.

**Sessions.** `stage` is where a start is: the first account, the seeds one at a time, the constructors, serving. A start
is given any environment of the run; `Loads`, then `SeedAccounts`, then `Builds` decide (`Startup`), each constructor a conjunct
in the order of `app.build`, and `refused` is the first that refuses. The narrower asks its model for every operation while it is
built: without an address that always fails, with one it may. Requests are looked
up (`Find`, which is `requireSession`), then served a statement at a time. `Stop` is a crash, a signal, or a start whose
statement failed; it takes the requests in flight, the file stays. A browser is its cookie; what a page shows is left out, and
any page may send anything. Answers are received in any order or lost. `issued` and `ended` are history: what sessions were
made, and which a sign-out ended. Tokens are random and never reused. Under the mapping to `SignIns` (`Asked`, `Shown`) a request
is what was sent, whom it was recognised as and what it is answered; the step its handler is at is hidden. An account seeded is `MakeAccount`, `Send`
is `Ask`, `Find` is `Recognise`, `TurnAway` or nothing yet, `Authenticate` is `Reject` or nothing yet, `CreateSession` `SignIn`, `EndSession` `SignOut`,
`Receive` `Forget`; `Stop` and `Fail` are `Break`, of all that was pending or one.

A definition commented `Fault:` is the code with one plausible mistake in it; it stands
before the definition it spoils and is used by no specification: each property was seen
to fail with one of them.

## 3. The runs

| Run | Instance | Checks |
| --- | --- | --- |
| `tenancy` | an account and an admin, two workspaces, a panel, two operations of which one is in the catalogue, two slots, every request, grants among them | `TypeOK`, `ReplyShowsOwn`, `OnlyOwnerWrites`, `DeleteTakesEveryPanel`, `SavedUnderGrant`, `PatchWritesNamedColumns`, `GrantsReplacedWhole` |
| `registry` | one admin, one workspace, two panels, every write and a list | `ImplementsRegistry`, `EventuallyReplies` |
| `orphan` | a save against a delete | finds `NoOrphanPanel` violated |
| `planning` | four operations of two services, every kind of question, five deployments | `PlanNeverWrites`, `OnlyUnderGrant`, `NoGuessIsCalled`, `NoTextIsInvented`, `AdvisersNeverFailAPlan`, `ImplementsContract` |
| `declined` | the same | finds `InvokeReportsSuccess` violated |
| `conversation` | chat and one workspace, three requests | `TypeOK`, `ChipsAnswerOnce`, `AnswersComeHome`, `NothingIsLost`, `EndedMeansForgotten` |
| `pairs` | the same | finds `ContextPairsDecisions` violated |
| `card` | one card, five calls, two edits | `FormsWaitForAPerson`, `LoadsAreOfThePanelDrawn`, `SpinnersMeanCalls`, `CallsDoNotPileUp`, `ResultsOutliveFailures` |
| `unsafe` | the same | finds `NeverInvokesUnsafe` violated |
| `advice` | two services that share an id, one id a part of another; picks by the remote, the local and the hybrid picker, gates, routes, fills in every mode | `TakesSureRemotePicks`, `AnswersInTime`, `OnlyRemotePicksStray`, `WholeNamesArePicked`, `FillsOnlySureValues`, `EveryConsultationEnds` |
| `calls` | four operations of three contracts, one with a parameter and a body field of one name and one whose body is no object; both adapters, with and without a workspace; confirmed calls of anything | `CallsAreChecked`, `ArgumentsArriveOnce`, `TruncationIsNoFailure`, `DecidedInTime`, `EveryPlanIsDecided` |
| `accounts` | any number of starts, each with any of eight environments, two accounts, a browser, two requests in flight, two sessions, one tick of the clock, which is when a session ends | `AdminIsThere`, `StartsWhatLoads`, `SessionsDecide`, `ImplementsSignIns` |

**Bounds, and why they are enough.**

- *Slots = 2.* The properties relate one write to one request, or one reply to the
  write that came under it; any violation needs the statements of one handler between
  two of another. That two suffice is proved, not assumed: section 4 has the
  safety properties for any number of slots.
- *One or two workspaces and panels.* Two workspaces of different owners let a request
  name the wrong one; in `registry` two panels make a deletion take more than one.
  Ids are interchangeable, and so are slots: `tenancy` uses
  symmetry. `registry` has a liveness property and uses none.
- *Planning.* The catalogue has one operation of each kind the code distinguishes: safe with an
  enum; safe with required text; unsafe with a body; safe with no arguments, of
  another service. Its grants cut through a service. The deployments
  are some of those `app.build` can produce, thinned to five that between them turn every option on
  and off. Models answer with any argument at all.
- *MaxRequests = 3.* Two requests in flight and a third that carries what they left as
  context; every property of `Conversation` relates at most that many. Four are
  more than twelve million states.
- *MaxCalls = 5, MaxEdits = 2.* A load, the load an edit puts in its place and a refresh beside
  both are three calls; two edits make two cancelled loads, and with a refresh pressed ahead of the first load
  the four calls that `CallsDoNotPileUp` allows. `Room` keeps a call for the effect that is left. The proofs hold for any bounds.

- *Consultations.* Five options stand for the 255 one question may have, so that a shortlist of three is asked about in two
  questions and six operations of a service in none. Probabilities are 0, 5 and 10 tenths against thresholds of 5 and 7 (`Levels`), and those of
  one answer come to one at most (`Total`); the proofs are for any levels and any total. A call
  takes one unit or five, which hits 800 ms exactly and misses it.
- *Planners.* A call takes half a minute or the client's whole two; two attempts, each with and without a response format, are
  all the code makes. Arguments are none, one or two of three names.
- *Sessions.* Starts are not counted: the file is all that outlives one, and it has finitely many states. The clock may tick once
  (`MaxClock`), which is when a session ends. One environment seeds the admin's own name
  with another password and role, which is how a seed meets an account it differs from; one has a seed without a password, one
  JSON mode with Anthropic, and two narrow without the model's address, over operations and over none. One browser with two
  requests has its answers overtake each other, and its cookie outlive its session or the reverse. A second browser
  adds a second cookie, and cookies meet in the table only, where each token is its own. The proofs are for any number.

**Symmetry** is used only where no property is temporal beyond an initial state and `[][A]_vars`: the refinement
of `accounts` states no fairness, so it is of that kind.

**Fairness.** `FairSpec` asks strong fairness of each slot's own `Step`. `database/sql` queues
requests for a connection and hands a freed one to a waiter, so a handler whose next
statement is enabled again and again is served; weak fairness would not do, since the
connection goes from handler to handler. Failures, crashes and new requests have no
fairness. `EventuallyReplies` says that nobody waits for ever: it would fail if a
handler held rows open while it asked for another statement.
`Planning` states no liveness: the invoker uses a client without a timeout, so nothing in the code makes a
service answer. `Conversation` and `PanelCard` state none either: nothing makes an answer arrive.

`Consultations` and `Planners` ask weak fairness of the clients' timers alone: `TimesOut` and `LocalTimesOut` (the deadline of
`client.post`, the two minutes of `chat`), `CallTimesOut` within `TimesOut` of `Planners`. A timer of the runtime fires; no model need answer. So
`EveryConsultationEnds` and `EveryPlanIsDecided` hold whatever the models do, the latter up to the call of the
service, which has no timer. `Sessions` states no fairness: nothing there waits for anything but the database.

Every passing run checks for deadlock. A slot may always take a request or crash, a consultation or a question may follow
another, a person may always go to another screen, or leave the workspace and come back, a stopped process may be started again.

## 4. The proofs

**Assumptions**, all named in the modules and evaluated by TLC on every run:
`AdminsAssumption`/`AccountsAssumption` (admins are accounts), `CatalogueAssumption`,
`RequestsAssumption`, `ContractsAssumption`, `InputsAssumption`, `BoundsAssumption`, `BoundAssumption` (constants have their types),
`SentinelsAssumption`, `RowAssumption`, `NoneAssumption` (the values that mean "nothing" are no others),
`ConsultedAssumption`, `TimesAssumption`, `IdsAssumption`, `ValuesAssumption`, `PlannersAssumption`, `SessionsAssumption` and those of `JevAnswers`
(constants have their types; a part of an id is shorter than the id; the admin's name and role are ones there are).
No set is assumed finite or small.

**Workspaces** (`WorkspacesProofs`). The properties are not inductive: that a write is by the
owner depends on a check made statements earlier. `IInv` says what each handler has
learned that still holds at each of its steps:

- `OneHolder`: at most one handler is inside a transaction.
- `ServesOK`: a slot at a step serves a request whose handler has that step, and what a
  permission transaction has staged is a prefix of what was asked for.
- `OwnsOK`: past the comparison the workspace is the caller's. It survives other
  handlers because `owner` is written once (`StepEvolves`).
- Also `OwnsOK`: in a delete, what is doomed is what the workspace has *now*. It
  survives because nobody writes while the connection is held; this is where the single connection matters.
- `GrantOK`: what the caller can call now is within `since`, and past the check so is the
  operation of the panel. It survives because a panel's operation never changes.

`StepSlotTypes` and `StepTableTypes` prove types, `ActorOK` that the slot that steps keeps
its own clauses, `StepBystanders` that the others keep theirs, one case per action.
`Invariant`, `TypeCorrect`, `OwnerWrites`, `GrantBeforeSave`, `NoLostColumns`,
`DeleteIsWhole`, `GrantsAreWhole`, `RepliesShowOwn` follow.

**What the liveness rests on.** Liveness itself is out of the prover's reach, but of "every request is answered" all is proved save that an enabled
or fair step is taken. `Workspaces`: `Rank` counts the kinds of statement ahead of a handler, `Rounds` the rounds left of a loop, and
`StepsRunOut` shows that a handler's own step lowers the pair and that nobody else's step raises it; the lists looped over are finite
(`ListsAreFinite`) though the ids are not assumed to be. `Consultations` and `Planners`: `Left` is a number that is positive exactly while something
is waited for, and each `StepsRunOut` shows that whatever happens lowers it, busy answers, retries, the second model and the repaired attempt
included; `TimersSet`, that whatever is waited for has a timer that has not passed, which is the guard the fairness of the timers needs.

**Refinement** (`RegistryProofs`): `Implements == Spec => ImplementsRegistry`. Under the mapping a
workspace is held from its insert to the commit of its delete, and the panels shown
are those of workspaces that are there. Beside `IInv` it needs `RowsIssued`:
a row's workspace was handed out. Each write maps to one registry operation
(`CreateMaps`, `DeleteMaps`, `AddMaps`, `ChangeMaps`, `RemoveMaps`, `GrantMaps`); every other step
stutters, the insert of an orphan among them, since nobody is ever shown that row.

**Planning** (`PlanningProofs`). `IInv` is the type invariant, the six properties
(`Outcome`) and `Course`: whatever is left of the catalogue is within `since`, and only
questions reach the model-driven stages. Each operator that ends a step (`Error`, `FormFor`,
`Call`, `Asks`, `Propose`, ...) has a lemma that it establishes `EndOK`, whatever the
models put in; each action then is a choice among endings. The theorems hold for every
catalogue, configuration, question and answer.

`PlanningImplementsContract == Spec => ImplementsContract`: each ending maps to `AnswerAlone` or `CallService` (`Closing`), a consultation
to a stutter. An ending is written under the stage it comes from, so the mapping needs what `Course` does not say, `Insistence`: a question that
insists on an alternative reaches the model only to have that alternative filled, and only once its answers give all the alternative requires
(`MapInvariant`). Without it a form or a call of another operation could not be excluded after the picker's stages.

**PanelCard** (`PanelCardProofs`). `Course` says which calls can be in flight under what the lookup
found (none while it is pending), that once the effect has run a load not cancelled is of the panel drawn, and that until then what is
drawn or may still settle is of an earlier one (`EarlierWhileEffectIsLeft`), which is what makes it safe for the effect to clear the result. Until an edit, or a
refresh ahead of the effect, every call in flight is one `inFlight` or `submitting` knows of (`CallsAreKnown`); after it that is no longer so, and
`FewCalls` counts instead: an edit, an effect that has run and the in-flight mark each make room for one call.

**Consultations** (`ConsultationsProofs`). What the properties say of the end must be known on the way. `RemoteStages`: while
the remote model is waited for, the time spent is within the deadline and nothing was read yet. `LocalStage`: once the local one is asked, the
hybrid picker began it within its 800 ms and the reading of a last answer, and what it did hear it could not take. Each way to an end
(`Finish`, `AskLocal`, `RemoteFails`) has a lemma. `Readable` is what a remote answer may be read as,
whatever it names (`FlatReading`, `PathReading`: any shortlist, order of equal scores and probabilities), `Offered` the stricter fact about what the local
one picks: the longest id that stands in the reply, which cannot be a part of
another there since a part is shorter. What the remote picker answers to six of one service or to nothing is a case each.

**Planners** (`PlannersProofs`). `Sending`: what was sent is the request the contract makes of the decision, which is of an operation there
is. `Waiting`: while the model is waited for, the attempts made bound the time (`Spent`: at most two calls an attempt). `ArriveOnce` is proved
of `SplitArgs` itself, so for every contract and arguments, `SchemasAgree` that a tool shows
the schema a JSON answer is checked with, except for a body that is no object.

**Sessions** (`SessionsProofs`). `WhatLoadsServes` is about the checks of the settings alone: what `Load` accepts can be served exactly when
no seed lacks a password, JSON mode is not given Anthropic, and operations are not to be narrowed without the model's address.
`StartsLoaded == Spec => StartsWhatLoads` is about the starts themselves: one refused after its accounts were made has one of these settings, or a
narrower whose model failed, and none that has one of the three is served. It needs `Starting`: the seeds passed so far have passwords, and
all of them once the constructors are built. `IInv` says that the file holds the sessions made and not ended, as they were
made (`Stored`); that requests and cookies carry tokens that were issued (`Requests`, `Jars`); and that a request once decided
stays decided rightly: `GoodStays` shows that what is known of it survives sessions being made, being ended and expiring, because all three only
grow. A start past the first account has one (`Starting`), which is why seeds can come after it and never before.

`SessionsImplementSignIns == Spec => ImplementsSignIns`: each action maps to one step of `SignIns`, or to none. A sign-in takes two statements, and
`SignIns` makes the session only when the account has the password given at that moment; so the mapping needs `LinkedIn`, that a request whose password was
checked still has its account's password. It holds because accounts never change (`AccountsStay`, which is also `AccountsKept`), through stops,
starts and seeds with other passwords. `BreakMaps` shows that a stop fails exactly what was pending, and that an answer on its way is lost or received as it was.

**Conversation** (`ConversationProofs`). `IInv` says of the turns of every conversation (`GoodTurns`) that ids grow and were minted
before they are used, that a row an alternative was chosen from remembers it, and that no row has two choices: the second choice
would need a row nothing was chosen from, which the first one left none of. Of a conversation that was ended it says that nothing in it is a question
(`NoQuestionIn`), so there is nothing to tell the model, though late answers may stand in it. Every step is `Kept`: of each conversation the turns
that were there are still there (`Extends`), or the person ended it, and what is new is the answer to a request of that conversation (`Homes`);
one lemma per action proves both `IInv'` and `Kept`. The bound on requests plays no part.

**Only model-checked**: `EventuallyReplies`, `EveryConsultationEnds` and `EveryPlanIsDecided`, which are liveness under fairness and out of the prover's reach
beyond the measures above; and the violations, where TLC's trace is the evidence.

## 5. What the models showed

- `orphan`: `AddPanel` checks for the workspace and inserts the panel in two statements; a delete that commits
  between them leaves a panel of no workspace, which its doc says cannot be. Nobody is
  shown it (`Implements`).
- `declined`: a confirmed call the service refuses is answered 200 with an empty
  result, because the handler of `/api/invoke` does not look at the outcome's kind.
- `pairs`: a late answer is put after whatever question now stands last, and the model
  is told it was decided for that one.
- `unsafe`: a catalogue fetch that fails reads as "not listed", which reads as safe, so a
  card over an unsafe operation calls it by being drawn.

Met while modelling, and in the models as the code has it, but no run of their own:

- "What can this do?" is answered from the catalogue as narrowed for that question
  (`P/usecase/orchestrator_staging.go:140`); an answered row of options comes back unlocked when its conversation is drawn again.
- "A no-op while a call is already in flight", the doc of `refresh` says (`src/web/src/entities/workspace/model/usePanelInvoke.ts:14`): a refresh pressed after
  the lookup was drawn and before its effect ran is followed by the load all the same, and after an edit the settling of the cancelled load clears the mark
  of the new one. `CallsDoNotPileUp` states how many calls that makes.
- JSON mode may take four calls of two minutes (`DecidedInTime`), and a staged plan several more, while the server writes an
  answer for 150 s (`P/infra/httpserver/server.go:27`), chosen to exceed a single model call.
- A model's tool call is resolved by the operation's id alone, so of two services that share one the first is called; JSON mode names the service.
- `/api/invoke` checks that the required fields of the body are there and that what has an enum is in it, not types, nor that
  required parameters are there (`P/usecase/orchestrator.go:925`); the comment at
  `P/adapter/planner/jsonmode/planner.go:503` takes it to.
- The remote picker's answer is not held against what was asked: where it answers by service, any id it names there is picked
  (`P/adapter/planner/jev/hierarchical.go:345`), and `propose_panel` is taken without a workspace to propose it in (`hierarchical.go:332`,
  `mapping.go:577`). Only the local and the hybrid picker keep the latter to what was offered (`OnlyRemotePicksStray`). What becomes of it is in
  `Planning`, where picks are arbitrary: the request fails on an operation the catalogue does not have
  (`P/usecase/orchestrator_staging.go:168`), and a proposal is planned without stages, wherever it was asked (`:143`).
- In JSON mode a useless reply followed by one that was cut short is answered "no operation", which the comment at
  `P/adapter/planner/jsonmode/planner.go:290` says of every attempt being cut short.
- A large number in a path or query is printed as `1e+06` (`P/adapter/invoker/http/invoker.go:245`).
- Three settings pass `config.Load` and stop every start after accounts are written: a seed without a password, after the first
  account and the seeds before it (`P/adapter/auth/local/local.go:66`); JSON mode with Anthropic (`pkg/app/app.go:936`); and narrowing
  without `ORCHESTRA_LLM_BASE_URL`, when a contract names an operation (`app.go:898`). `StartsWhatLoads` states that these are all,
  besides a narrowing model that fails.
- A call that a service accepts with data that is no object is answered 500 (`P/adapter/handler/invoke.go:43`, `plan.go:295`), so a write
  that happened reads as one that failed; `ServiceAnswers` and `PlanContract` both have it.
- A sign-in leaves the session the browser had before, which lives on until it expires; expired rows are never deleted.

## 6. What is not modelled

- Edits of a panel's display, and panels of an unsafe operation without a body, in `PanelCard`.
- Reading contracts and migrations, which run before anything is served: in `Sessions` a start that fails on them stops.
- Text: prompts, labels, messages; how a model's JSON is parsed beyond the decision it yields.
- `idAffinity`'s order of the shortlist: `Narrow` lets the shortlist be any part of the catalogue, and no
  property depends on its order.
- Positions and heights of panels, which behave like the width.
- Accounts of the requests: outside `Sessions` the signed-in account of a request is given. `SessionsDecide` says whose it is.
- What a page shows of its session (`SessionProvider`): a late 401 shows the form over a session that lives, a sign-out
  leaves the conversations to the next account. In `Sessions` any page may send any request, so nothing rests on it.
- `Arrangement`: positions and sizes saved without waiting; the PATCHes it sends are those of `Workspaces`, where the last to arrive wins.
- Rendering, narrowing's arithmetic, contract parsing: pure functions, a case for each case of the code; a definition would restate them.
- An option sends its answer alone, so an operation with two guessed enums is asked about in turn: `Conversation` and
  `Planning` each have their half, and they are not composed.
- Listing accounts and reading their permissions: they change nothing.
- In `Planning`, database failures of `catalogFor` are one error; its statement-level behaviour is in `Workspaces`.
- In `Conversation`, the requests' other parameters (the thinking switch, a workspace's
  arguments) are passed along unread.
- The example services, and the harness that builds and measures the project.

## 7. The plan

Done, the most important first: `WorkspaceRegistry` and `Workspaces` with
their proofs and refinement; `Planning` and `PlanContract` with theirs; `Conversation` with its proofs; `PanelCard` with its; `Consultations`,
`Planners`, and `Sessions` with `SignIns`, with theirs.

What would come next, in this order:

1. `Arrangement` over `Workspaces`' PATCH: what is stored last is what was arranged last, also when requests overtake each other or fail.
2. `Dialogue`: `Conversation` and `Planning` together.
3. `Consultations` and `Planners` in place of `Planning`'s free choices, now that `PlanContract` says what must be kept.
