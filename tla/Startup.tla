------------------------------ MODULE Startup ------------------------------
(***************************************************************************)
(* What the environment has to say for the platform to start: config.Load  *)
(* reads it before anything else happens, app.build looks at the same      *)
(* settings again, later and one constructor at a time.                    *)
(***************************************************************************)
EXTENDS Integers, Sequences

CONSTANTS
    People,       \* the names of accounts
    Passwords,
    Roles,
    None

\* A seed without a password, or with a role there is none of, loads.
Seed == [name: People, password: Passwords \union {None}, role: Roles]

\* parsed: every number, threshold, duration, date and choice among words is one.
\* Gate, router and fill are given to jev or to nobody; narrowing takes three variables.
\* url is the model's address; operations says that the services' contracts name one.
Environment ==
    [parsed: BOOLEAN, database: BOOLEAN, admin: Passwords \union {None}, seeds: Seq(Seed),
     mode: {"toolcall", "json"}, provider: {"llamaswap", "anthropic"}, url: BOOLEAN, anthropicKey: BOOLEAN,
     stages: {1, 2}, picker: {"local", "jev", "hybrid"}, gate: BOOLEAN, router: BOOLEAN, fill: BOOLEAN,
     jevKey: BOOLEAN, narrowing: {"none", "part", "all"}, operations: BOOLEAN]

(***************************************************************************)
(* config.Load.                                                            *)
(***************************************************************************)
\* Fault: only the picker's key is asked for.
PickerUsesJev(e) == e.picker \in {"jev", "hybrid"}

\* loadPicker, and loadJevStage for each of the others.
UsesJev(e) == e.picker \in {"jev", "hybrid"} \/ e.gate \/ e.router \/ e.fill

Loads(e) ==
    /\ e.parsed
    /\ e.provider = "anthropic" => e.anthropicKey
    /\ e.narrowing # "part"
    /\ UsesJev(e) => e.jevKey
    /\ e.database /\ e.admin # None

(***************************************************************************)
(* app.build: what each constructor refuses, in their order.               *)
(***************************************************************************)
\* EnsureAccount, whether or not there is such an account.
SeedAccounts(e) == \A i \in DOMAIN e.seeds : e.seeds[i].password # None

LlmConfigured(e) == e.url \/ e.provider # "llamaswap"

NewChatCompleter(e) == e.provider = "anthropic" => e.anthropicKey

\* Without a model the fixtures plan, whatever the mode.
NewPlanner(e) ==
    LlmConfigured(e) => NewChatCompleter(e) /\ (e.mode = "json" => e.provider = "llamaswap")

\* Every operation is embedded, at the address of the model; without one there is no call.
NewNarrowerOption(e) == e.narrowing = "all" /\ e.operations => e.url

NewPicker(e) ==
    /\ e.picker \in {"local", "hybrid"} => NewChatCompleter(e)
    /\ e.picker \in {"jev", "hybrid"} => e.jevKey

NewFillOptions(e) == e.fill => e.jevKey

\* Picker, gate and fill are built for two stages only; a jev picker asks the gate's
\* question itself.
StagingOptions(e) ==
    e.stages = 2 /\ LlmConfigured(e) =>
        /\ NewPicker(e)
        /\ e.gate /\ e.picker # "jev" => e.jevKey
        /\ NewFillOptions(e)

NewServiceRouter(e) == e.router => e.jevKey

Builds(e) == NewPlanner(e) /\ NewNarrowerOption(e) /\ StagingOptions(e) /\ NewServiceRouter(e)

\* Which of them is the first that refuses.
FirstRefusal(e) ==
    CASE ~NewPlanner(e) -> "planner"
      [] NewPlanner(e) /\ ~NewNarrowerOption(e) -> "narrowing"
      [] NewPlanner(e) /\ NewNarrowerOption(e) /\ ~StagingOptions(e) -> "staging"
      [] OTHER -> "router"

\* What can be served, if everything that is asked answers.
Serves(e) == SeedAccounts(e) /\ Builds(e)
=============================================================================
