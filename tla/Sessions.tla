----------------------------- MODULE Sessions -----------------------------
(***************************************************************************)
(* Accounts and sessions, in the file that outlives the process: the       *)
(* platform starts, seeds accounts, serves and stops, each time with the   *)
(* environment somebody gave it; browsers sign in, sign out and ask, and   *)
(* keep a cookie.  A request looks its session up once, before its         *)
(* handler; a handler makes a statement at a time.                         *)
(***************************************************************************)
EXTENDS Startup, FiniteSets

CONSTANTS
    Admin,           \* adminUserName
    AdminRole,       \* domain.RoleAdmin
    Environments,    \* the environments the platform is started with
    Browsers, Slots, \* browsers; requests in flight
    Tokens,          \* newID("sess")
    SessionTTL,
    MaxClock         \* bound of the model

Refusals == {"config", "seeds", "planner", "narrowing", "staging", "router"}

ASSUME SessionsAssumption ==
    /\ Admin \in People /\ AdminRole \in Roles
    /\ None \notin People \union Passwords \union Tokens \union Refusals
    /\ Environments \subseteq Environment
    /\ SessionTTL \in Nat \ {0} /\ MaxClock \in Nat

VARIABLES
    stage, env, left, refused,  \* the process: where its start is, the environment it was started
                                \* with until it serves, the next seed, what refused to start last
    accounts,                   \* users: name, password, role
    sessions,                   \* sessions: token, user, expiry
    requests, jar,              \* requests in flight; the browsers' cookies
    clock,
    issued, ended               \* history: sessions ever made; those ended by a sign-out

vars == <<stage, env, left, refused, accounts, sessions, requests, jar, clock, issued, ended>>

process == <<stage, env, left, refused>>
store == <<accounts, sessions>>
history == <<issued, ended>>

Account == [password: Passwords, role: Roles]
Session == [user: People, expires: Nat]

\* A table: rows by their key.
IsTable(f, keys, rows) == DOMAIN f \subseteq keys /\ f \in [DOMAIN f -> rows]

\* over: history, whether the session was over when the request was sent.
Request ==
    [browser: Browsers, kind: {"signIn", "signOut", "whoAmI", "use"}, token: Tokens \union {None},
     name: People \union {None}, password: Passwords \union {None},
     step: {"sent", "found", "checked", "answered"}, user: People \union {None},
     answer: {"pending", "ok", "unauthorized", "failed"}, made: Tokens \union {None}, over: BOOLEAN]

Cookie == [token: Tokens, until: Nat]

With(f, k, v) == [x \in DOMAIN f \union {k} |-> IF x = k THEN v ELSE f[x]]
Without(f, S) == [x \in DOMAIN f \ S |-> f[x]]

Init ==
    /\ stage = "stopped" /\ env = None /\ left = 1 /\ refused = None
    /\ accounts = [n \in {} |-> None] /\ sessions = [t \in {} |-> None]
    /\ requests = [s \in Slots |-> None] /\ jar = [b \in Browsers |-> None]
    /\ clock = 0
    /\ issued = [t \in {} |-> None] /\ ended = {}

(***************************************************************************)
(* Start: contracts and the file, then the first account, the seeds, and   *)
(* everything that plans.                                                  *)
(***************************************************************************)
\* Fault: seeds come before the first account.
SeedsFirst(s) ==
    CASE s = "stopped" -> "seeds" [] s = "seeds" -> "admin" [] s = "admin" -> "build" [] OTHER -> "serving"
After(s) ==
    CASE s = "stopped" -> "admin" [] s = "admin" -> "seeds" [] s = "seeds" -> "build" [] OTHER -> "serving"

Refuse(what) == stage' = "stopped" /\ refused' = what

\* A start that fails on the contracts or the file is a Stop.
Start ==
    /\ stage = "stopped"
    /\ \E e \in Environments :
         IF Loads(e) THEN stage' = After(stage) /\ env' = e /\ refused' = None
         ELSE Refuse("config") /\ env' = None
    /\ UNCHANGED <<left, store, requests, jar, clock, history>>

\* SeedAdminIfNone.
SeedAdmin ==
    /\ stage = "admin"
    /\ accounts' = IF DOMAIN accounts = {}
                   THEN With(accounts, Admin, [password |-> env.admin, role |-> AdminRole]) ELSE accounts
    /\ stage' = After(stage)
    /\ UNCHANGED <<env, left, refused, sessions, requests, jar, clock, history>>

EnsureAccount(seed) ==
    IF seed.name \in DOMAIN accounts THEN accounts
    ELSE With(accounts, seed.name, [password |-> seed.password, role |-> seed.role])

SeedAccount ==
    /\ stage = "seeds" /\ left <= Len(env.seeds)
    /\ IF env.seeds[left].password = None
       THEN Refuse("seeds") /\ left' = 1 /\ UNCHANGED accounts
       ELSE /\ accounts' = EnsureAccount(env.seeds[left])
            /\ left' = left + 1
            /\ UNCHANGED <<stage, refused>>
    /\ UNCHANGED <<env, sessions, requests, jar, clock, history>>

Seeded ==
    /\ stage = "seeds" /\ left > Len(env.seeds)
    /\ stage' = After(stage) /\ left' = 1
    /\ UNCHANGED <<env, refused, store, requests, jar, clock, history>>

\* The narrower asks its model for every operation; that may fail wherever it is.
Build ==
    /\ stage = "build"
    /\ \/ /\ NewPlanner(env) /\ env.narrowing = "all" /\ env.operations
          /\ Refuse("narrowing") /\ UNCHANGED env
       \/ Builds(env) /\ stage' = After(stage) /\ env' = None /\ UNCHANGED refused
       \/ ~Builds(env) /\ Refuse(FirstRefusal(env)) /\ UNCHANGED env
    /\ UNCHANGED <<left, store, requests, jar, clock, history>>

\* What was sent to sign in is of no more use.
Answered(r, answer) == [r EXCEPT !.step = "answered", !.answer = answer, !.name = None, !.password = None]

InFlight(s) == requests[s] # None /\ requests[s].step # "answered"

\* A crash, a signal, a failing statement of a start: requests in flight end without an
\* answer of the platform.
Stop ==
    /\ stage # "stopped"
    /\ stage' = "stopped" /\ env' = None /\ left' = 1
    /\ requests' = [s \in Slots |-> IF InFlight(s) THEN Answered(requests[s], "failed") ELSE requests[s]]
    /\ UNCHANGED <<refused, store, jar, clock, history>>

(***************************************************************************)
(* Requests.  Any page of a browser may send any of them; what it shows is *)
(* not modelled.  One sent to a platform that does not serve fails without *)
(* a trace, and is left out.                                               *)
(***************************************************************************)
Over(token) == token \in ended \/ clock >= issued[token].expires

\* The browser drops its cookie when its Max-Age is over.
Sent(b) == IF jar[b] # None /\ clock < jar[b].until THEN jar[b].token ELSE None

New(b, kind, token, n, p) ==
    [browser |-> b, kind |-> kind, token |-> token, name |-> n, password |-> p, step |-> "sent",
     user |-> None, answer |-> "pending", made |-> None, over |-> token # None /\ Over(token)]

\* The session a sign-in is sent with is looked up for nothing, and left out.
Send(s, b) ==
    /\ stage = "serving" /\ requests[s] = None
    /\ \/ \E kind \in {"signOut", "whoAmI", "use"} :
            requests' = [requests EXCEPT ![s] = New(b, kind, Sent(b), None, None)]
       \/ \E n \in People, p \in Passwords :
            requests' = [requests EXCEPT ![s] = New(b, "signIn", None, n, p)]
    /\ UNCHANGED <<process, store, jar, clock, history>>

\* Fault: no look at the time.
AnySession(token) == token \in DOMAIN sessions
Live(token) == token \in DOMAIN sessions /\ sessions[token].expires > clock

\* Sessions.User joins the account.
UserOf(token) ==
    IF token # None /\ Live(token) /\ sessions[token].user \in DOMAIN accounts
    THEN sessions[token].user ELSE None

Answer(s, answer) == requests' = [requests EXCEPT ![s] = Answered(@, answer)]

Unauthenticated(r) == r.kind \in {"signIn", "signOut", "whoAmI"}

\* requireSession; who is signed in is all GetSession answers.
Find(s) ==
    /\ stage = "serving" /\ requests[s] # None /\ requests[s].step = "sent"
    /\ LET r == requests[s]
           user == UserOf(r.token)
           answer == IF user # None THEN "ok" ELSE "unauthorized"
       IN requests' = [requests EXCEPT ![s] =
              IF r.kind = "whoAmI" \/ (user = None /\ ~Unauthenticated(r))
              THEN Answered([r EXCEPT !.user = user], answer)
              ELSE [r EXCEPT !.user = user, !.step = "found"]]
    /\ UNCHANGED <<process, store, jar, clock, history>>

\* Any other handler: the account is the one found, whatever becomes of its session.
Use(s) ==
    /\ stage = "serving" /\ requests[s] # None /\ requests[s].step = "found" /\ requests[s].kind = "use"
    /\ Answer(s, "ok")
    /\ UNCHANGED <<process, store, jar, clock, history>>

Matches(r) == r.name \in DOMAIN accounts /\ accounts[r.name].password = r.password

Authenticate(s) ==
    /\ stage = "serving" /\ requests[s] # None /\ requests[s].step = "found" /\ requests[s].kind = "signIn"
    /\ IF Matches(requests[s]) THEN requests' = [requests EXCEPT ![s].step = "checked"]
       ELSE Answer(s, "unauthorized")
    /\ UNCHANGED <<process, store, jar, clock, history>>

\* Sessions.Create; the session the browser had is left alone.
CreateSession(s) ==
    /\ stage = "serving" /\ requests[s] # None /\ requests[s].step = "checked"
    /\ \E token \in Tokens \ DOMAIN issued :
         LET session == [user |-> requests[s].name, expires |-> clock + SessionTTL]
         IN /\ sessions' = With(sessions, token, session)
            /\ issued' = With(issued, token, session)
            /\ requests' = [requests EXCEPT ![s] = Answered([@ EXCEPT !.made = token], "ok")]
    /\ UNCHANGED <<process, accounts, jar, clock, ended>>

\* Fault: every session of the account.
EndsAll(token) == {t \in DOMAIN sessions : token \in DOMAIN sessions /\ sessions[t].user = sessions[token].user}
Ends(token) == {token} \ {None}

EndSession(s) ==
    /\ stage = "serving" /\ requests[s] # None /\ requests[s].step = "found" /\ requests[s].kind = "signOut"
    /\ sessions' = Without(sessions, Ends(requests[s].token))
    /\ ended' = ended \union ({requests[s].token} \ {None})
    /\ Answer(s, "ok")
    /\ UNCHANGED <<process, accounts, jar, clock, issued>>

\* A statement fails, or the browser goes before it.
Fail(s) ==
    /\ stage = "serving" /\ InFlight(s)
    /\ Answer(s, "failed")
    /\ UNCHANGED <<process, store, jar, clock, history>>

\* Set-Cookie, in the order the answers arrive; an answer may be lost on its way.
Receive(s) ==
    /\ requests[s] # None /\ requests[s].step = "answered"
    /\ LET r == requests[s]
       IN \/ UNCHANGED jar
          \/ /\ r.answer = "ok" /\ r.kind = "signIn"
             /\ jar' = [jar EXCEPT ![r.browser] = [token |-> r.made, until |-> clock + SessionTTL]]
          \/ /\ r.answer = "ok" /\ r.kind = "signOut"
             /\ jar' = [jar EXCEPT ![r.browser] = None]
    /\ requests' = [requests EXCEPT ![s] = None]
    /\ UNCHANGED <<process, store, clock, history>>

\* Bound: MaxClock.
Tick ==
    /\ clock < MaxClock /\ clock' = clock + 1
    /\ UNCHANGED <<process, store, requests, jar, history>>

Next ==
    \/ Start \/ SeedAdmin \/ SeedAccount \/ Seeded \/ Build \/ Stop
    \/ \E s \in Slots : \/ Find(s) \/ Use(s) \/ Authenticate(s) \/ CreateSession(s) \/ EndSession(s)
                        \/ Fail(s) \/ Receive(s)
                        \/ \E b \in Browsers : Send(s, b)
    \/ Tick

Spec == Init /\ [][Next]_vars

(***************************************************************************)
(* Properties.                                                             *)
(***************************************************************************)
TypeOK ==
    /\ stage \in {"stopped", "admin", "seeds", "build", "serving"}
    /\ env \in Environments \union {None} /\ left \in Nat \ {0}
    /\ refused \in Refusals \union {None}
    /\ IsTable(accounts, People, Account)
    /\ IsTable(sessions, Tokens, Session) /\ IsTable(issued, Tokens, Session) /\ ended \subseteq Tokens
    /\ requests \in [Slots -> Request \union {None}]
    /\ jar \in [Browsers -> Cookie \union {None}]
    /\ clock \in Nat

\* Whatever the environments, and wherever a start broke off, accounts never come without
\* an admin (SeedAdminIfNone before seedAccounts): nobody could grant anybody anything.
AdminIsThere ==
    /\ DOMAIN accounts # {} => Admin \in DOMAIN accounts /\ accounts[Admin].role = AdminRole
    /\ stage = "serving" => DOMAIN accounts # {}

\* An account keeps the password and the role it was made with: a later environment never
\* overwrites what is there (SeedAdminIfNone, EnsureAccount).
AccountsAreKept ==
    [][/\ DOMAIN accounts \subseteq DOMAIN accounts'
       /\ \A n \in DOMAIN accounts : accounts'[n] = accounts[n]]_vars

\* Settings that load, name accounts to make, and can never be served.
BlankSeed(e) == \E i \in DOMAIN e.seeds : e.seeds[i].password = None
NoJsonMode(e) == e.mode = "json" /\ e.provider = "anthropic"
NothingToNarrowWith(e) == e.narrowing = "all" /\ e.operations /\ ~e.url

\* What config.Load accepts can be refused once accounts are in the file: seedAccounts
\* refuses a seed without a password, app.build JSON mode with a provider that has none,
\* narrowing without the model's address and narrowing whose model fails.  Nothing else is
\* refused then, and no setting with one of the first three is ever served.
StartsWhatLoads ==
    [][/\ stage \in {"seeds", "build"} /\ stage' = "stopped" /\ refused' # None =>
             /\ DOMAIN accounts # {}
             /\ \/ BlankSeed(env) \/ NoJsonMode(env) \/ NothingToNarrowWith(env)
                \/ refused' = "narrowing" /\ env.narrowing = "all" /\ env.operations
       /\ stage # "serving" /\ stage' = "serving" =>
             ~BlankSeed(env) /\ ~NoJsonMode(env) /\ ~NothingToNarrowWith(env)]_vars

\* A session serves the account that signed in, from then until it is ended or expires,
\* across restarts, and nobody after that, whether the browser heard of its end or not.
SessionsDecide ==
    \A s \in Slots : requests[s] # None /\ requests[s].step # "sent" =>
        LET r == requests[s]
        IN /\ r.user # None => r.token # None /\ r.user = issued[r.token].user /\ ~r.over
           /\ r.user = None => r.token = None \/ Over(r.token) \/ r.answer = "failed"
           /\ r.kind = "signOut" /\ r.answer = "ok" => r.token = None \/ Over(r.token)

\* What a browser can tell of its requests.
Shown(r) ==
    [kind |-> r.kind, token |-> r.token, name |-> r.name, password |-> r.password,
     user |-> r.user, answer |-> r.answer, made |-> r.made]

\* None is no request.
ASSUME NoneAssumption ==
    None \notin Request \union
        [kind: {"signIn", "signOut", "whoAmI", "use"}, token: Tokens \union {None},
         name: People \union {None}, password: Passwords \union {None}, user: People \union {None},
         answer: {"pending", "ok", "unauthorized", "failed"}, made: Tokens \union {None}]

Asked == [s \in Slots |-> IF requests[s] = None THEN None ELSE Shown(requests[s])]

Promise == INSTANCE SignIns WITH used <- DOMAIN issued, asked <- Asked

\* Across starts that break off, seeds, stops and statements of other requests in between,
\* each request takes effect at one moment: a session is made when its account has the
\* password given, one request's sign-out is the end of the session for all, and accounts
\* are made once, the admin's first, and never change.
ImplementsSignIns == Promise!Spec
=============================================================================
