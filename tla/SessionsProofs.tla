-------------------------- MODULE SessionsProofs --------------------------
(***************************************************************************)
(* Proofs that accounts and sessions keep their invariants, whatever the   *)
(* environments the platform is started with, wherever a start breaks off  *)
(* and however many browsers ask.                                          *)
(***************************************************************************)
EXTENDS Sessions, TLAPS

\* Over and SessionsDecide, of any tables and time.
OverIn(token, made, over, now) == token \in over \/ now >= made[token].expires

DecidedIn(r, made, over, now) ==
    r.step # "sent" =>
        /\ r.user # None => r.token # None /\ r.user = made[r.token].user /\ ~r.over
        /\ r.user = None => r.token = None \/ OverIn(r.token, made, over, now) \/ r.answer = "failed"
        /\ r.kind = "signOut" /\ r.answer = "ok" => r.token = None \/ OverIn(r.token, made, over, now)

\* A request carries tokens that were issued, and an answer only when it is answered.
GoodIn(r, made, over, now) ==
    /\ r \in Request
    /\ r.token \in DOMAIN made \union {None}
    /\ r.answer = "ok" /\ r.kind = "signIn" => r.made \in DOMAIN made
    /\ r.step # "answered" => r.answer = "pending"
    /\ r.step = "sent" => r.user = None
    /\ r.step = "checked" => r.kind = "signIn"
    /\ r.over => r.token # None /\ OverIn(r.token, made, over, now)
    /\ DecidedIn(r, made, over, now)

Good(r) == GoodIn(r, issued, ended, clock)

Requests ==
    /\ requests \in [Slots -> Request \union {None}]
    /\ \A s \in Slots : requests[s] # None =>
         /\ Good(requests[s])
         /\ requests[s].step = "checked" => requests[s].name \in DOMAIN accounts

\* The file holds the sessions that were made and not ended, as they were made.
Stored ==
    /\ ended \subseteq DOMAIN issued
    /\ DOMAIN sessions = DOMAIN issued \ ended
    /\ \A t \in DOMAIN sessions : sessions[t] = issued[t]
    /\ \A t \in DOMAIN issued : issued[t].user \in DOMAIN accounts

Jars == \A b \in Browsers : jar[b] # None => jar[b].token \in DOMAIN issued

\* A start that got past the first account has one, and past a seed has made it; a refusal
\* stops it.
Starting ==
    /\ stage \in {"admin", "seeds", "build"} => env \in Environments /\ Loads(env)
    /\ stage \in {"seeds", "build", "serving"} => DOMAIN accounts # {}
    /\ refused # None => stage = "stopped"
    /\ stage = "seeds" => \A i \in 1..(left - 1) : env.seeds[i].password # None
    /\ stage = "build" => SeedAccounts(env)
    /\ stage # "seeds" => left = 1

IInv == TypeOK /\ Requests /\ Stored /\ Jars /\ Starting /\ AdminIsThere

-----------------------------------------------------------------------------
(* The settings. *)

\* Checked twice, by two packages: what config.Load accepts, app.build can serve unless a
\* seed has no password, JSON mode is given the provider that has none, or operations are to
\* be narrowed without the model's address; these it never serves.
THEOREM WhatLoadsServes ==
    ASSUME NEW e \in Environment, Loads(e)
    PROVE  Serves(e) <=> ~BlankSeed(e) /\ ~NoJsonMode(e) /\ ~NothingToNarrowWith(e)
<1>1. /\ e.provider = "anthropic" => e.anthropicKey
      /\ UsesJev(e) => e.jevKey
  BY DEF Loads
<1>2. NewChatCompleter(e)
  BY <1>1 DEF NewChatCompleter
<1>3. NewPicker(e) /\ NewServiceRouter(e) /\ StagingOptions(e)
  BY <1>1, <1>2 DEF NewPicker, NewServiceRouter, NewFillOptions, StagingOptions, UsesJev
<1>4. e.provider \in {"llamaswap", "anthropic"}
  BY DEF Environment
<1>5. NewPlanner(e) <=> ~NoJsonMode(e)
  BY <1>2, <1>4 DEF NewPlanner, LlmConfigured, NoJsonMode
<1>6. NewNarrowerOption(e) <=> ~NothingToNarrowWith(e)
  BY DEF NewNarrowerOption, NothingToNarrowWith
<1>7. SeedAccounts(e) <=> ~BlankSeed(e)
  BY DEF SeedAccounts, BlankSeed
<1>8. QED
  BY <1>3, <1>5, <1>6, <1>7 DEF Builds, Serves

LEMMA FirstRefusalTyped ==
    ASSUME NEW e
    PROVE  FirstRefusal(e) \in Refusals \ {"config", "seeds"}
BY DEF FirstRefusal, Refusals

-----------------------------------------------------------------------------
(* Tables and requests. *)

LEMMA WithFacts ==
    ASSUME NEW S, NEW T, NEW f, IsTable(f, S, T), NEW k \in S, NEW v \in T
    PROVE  /\ IsTable(With(f, k, v), S, T)
           /\ DOMAIN With(f, k, v) = DOMAIN f \union {k} /\ With(f, k, v)[k] = v
           /\ \A x \in DOMAIN f : x # k => With(f, k, v)[x] = f[x]
BY DEF IsTable, With

LEMMA WithoutFacts ==
    ASSUME NEW S, NEW T, NEW f, IsTable(f, S, T), NEW gone
    PROVE  /\ IsTable(Without(f, gone), S, T)
           /\ DOMAIN Without(f, gone) = DOMAIN f \ gone
           /\ \A x \in DOMAIN f \ gone : Without(f, gone)[x] = f[x]
BY DEF IsTable, Without

\* What is known of a request stays true as sessions are made and end and time passes.
LEMMA GoodStays ==
    ASSUME NEW r, NEW made, NEW over, NEW now \in Nat, NEW made2, NEW over2, NEW now2 \in Nat,
           IsTable(made, Tokens, Session), DOMAIN made \subseteq DOMAIN made2,
           \A t \in DOMAIN made : made2[t] = made[t], over \subseteq over2, now <= now2,
           GoodIn(r, made, over, now)
    PROVE  GoodIn(r, made2, over2, now2)
<1>1. \A t \in DOMAIN made : OverIn(t, made, over, now) => OverIn(t, made2, over2, now2)
  <2>1. \A t \in DOMAIN made : made[t].expires \in Nat
    BY DEF IsTable, Session
  <2>2. QED
    BY <2>1 DEF OverIn
<1>2. DecidedIn(r, made2, over2, now2)
  BY <1>1 DEF GoodIn, DecidedIn
<1>3. QED
  BY <1>1, <1>2 DEF GoodIn

LEMMA AnsweredTyped ==
    ASSUME NEW r \in Request, NEW answer \in {"ok", "unauthorized", "failed"}
    PROVE  /\ Answered(r, answer) \in Request
           /\ Answered(r, answer).step = "answered" /\ Answered(r, answer).answer = answer
           /\ Answered(r, answer).kind = r.kind /\ Answered(r, answer).token = r.token
           /\ Answered(r, answer).user = r.user /\ Answered(r, answer).over = r.over
           /\ Answered(r, answer).made = r.made
BY DEF Answered, Request

\* Sessions and time only grow.
Grows ==
    /\ DOMAIN issued \subseteq DOMAIN issued' /\ \A t \in DOMAIN issued : issued'[t] = issued[t]
    /\ ended \subseteq ended' /\ clock <= clock' /\ clock' \in Nat
    /\ DOMAIN accounts \subseteq DOMAIN accounts'

LEMMA OneRequest ==
    ASSUME IInv, Grows, NEW s \in Slots, NEW r, requests' = [requests EXCEPT ![s] = r],
           r \in Request \union {None},
           r # None => GoodIn(r, issued', ended', clock') /\ (r.step = "checked" => r.name \in DOMAIN accounts')
    PROVE  Requests'
<1>1. requests' \in [Slots -> Request \union {None}] /\ requests'[s] = r
      /\ \A x \in Slots : x # s => requests'[x] = requests[x]
  BY DEF IInv, Requests
<1>2. ASSUME NEW x \in Slots, requests'[x] # None
      PROVE  /\ GoodIn(requests'[x], issued', ended', clock')
             /\ requests'[x].step = "checked" => requests'[x].name \in DOMAIN accounts'
  <2>1. CASE x = s
    BY <1>1, <1>2, <2>1
  <2>2. CASE x # s
    <3>1. requests'[x] = requests[x] /\ GoodIn(requests[x], issued, ended, clock)
          /\ (requests[x].step = "checked" => requests[x].name \in DOMAIN accounts)
      BY <1>1, <1>2, <2>2 DEF IInv, Requests, Good
    <3>2. GoodIn(requests[x], issued', ended', clock')
      BY <3>1, GoodStays DEF Grows, IInv, TypeOK
    <3>3. QED
      BY <3>1, <3>2 DEF Grows
  <2>3. QED
    BY <2>1, <2>2
<1>3. QED
  BY <1>1, <1>2 DEF Requests, Good

LEMMA NoRequest ==
    ASSUME IInv, Grows, UNCHANGED requests
    PROVE  Requests'
<1>1. ASSUME NEW x \in Slots, requests[x] # None
      PROVE  GoodIn(requests[x], issued', ended', clock')
  BY <1>1, GoodStays DEF IInv, Requests, Good, Grows, TypeOK
<1>2. QED
  BY <1>1 DEF IInv, Requests, Good, Grows

\* A step of a request changes nothing else.
LEMMA OnlyRequests ==
    ASSUME IInv, UNCHANGED <<process, store, jar, clock, history>>, Requests'
    PROVE  IInv'
<1>1. TypeOK'
  BY DEF IInv, TypeOK, Requests, process, store, history
<1>2. Stored' /\ Jars'
  BY DEF IInv, Stored, Jars, process, store, history
<1>3. Starting' /\ AdminIsThere'
  BY DEF IInv, Starting, AdminIsThere, process, store, history
<1>4. QED
  BY <1>1, <1>2, <1>3 DEF IInv

\* A step of the process that leaves the tables and the requests alone.
LEMMA OnlyProcess ==
    ASSUME IInv, UNCHANGED <<store, requests, jar, clock, history>>,
           stage' \in {"stopped", "admin", "seeds", "build", "serving"},
           env' \in Environments \union {None}, left' \in Nat \ {0},
           refused' \in Refusals \union {None},
           Starting'
    PROVE  IInv'
<1>1. TypeOK'
  BY DEF IInv, TypeOK, store, history
<1>2. Grows
  BY DEF Grows, store, history, IInv, TypeOK
<1>3. Requests'
  BY <1>2, NoRequest
<1>4. Stored' /\ Jars'
  BY DEF IInv, Stored, Jars, store, history
<1>5. AdminIsThere'
  BY DEF IInv, AdminIsThere, Starting, store
<1>6. QED
  BY <1>1, <1>3, <1>4, <1>5 DEF IInv

-----------------------------------------------------------------------------
(* The invariant holds at first. *)

LEMMA InitInvariant == ASSUME Init PROVE IInv
<1>1. TypeOK
  <2>1. IsTable(accounts, People, Account) /\ IsTable(sessions, Tokens, Session) /\ IsTable(issued, Tokens, Session)
    BY DEF Init, IsTable
  <2>2. requests \in [Slots -> Request \union {None}] /\ jar \in [Browsers -> Cookie \union {None}]
    BY DEF Init
  <2>3. QED
    BY <2>1, <2>2 DEF Init, TypeOK
<1>2. Requests
  BY <1>1 DEF Init, Requests, TypeOK
<1>3. Stored /\ Jars
  BY DEF Init, Stored, Jars
<1>4. Starting
  BY DEF Init, Starting
<1>5. AdminIsThere
  BY DEF Init, AdminIsThere
<1>6. QED
  BY <1>1, <1>2, <1>3, <1>4, <1>5 DEF IInv

-----------------------------------------------------------------------------
(* Starting. *)

LEMMA StartStep == ASSUME IInv, Start PROVE IInv'
<1>1. PICK e \in Environments :
        IF Loads(e) THEN stage' = After(stage) /\ env' = e /\ refused' = None
        ELSE Refuse("config") /\ env' = None
  BY DEF Start
<1>2. left' = 1
  BY DEF Start, IInv, Starting
<1>3. CASE Loads(e)
  <2>1. stage' = "admin" /\ env' = e /\ refused' = None
    BY <1>1, <1>3 DEF Start, After
  <2>2. Starting'
    BY <1>2, <1>3, <2>1 DEF Starting
  <2>3. QED
    BY <1>2, <2>1, <2>2, OnlyProcess DEF Start
<1>4. CASE ~Loads(e)
  <2>1. stage' = "stopped" /\ env' = None /\ refused' = "config"
    BY <1>1, <1>4 DEF Refuse
  <2>2. Starting'
    BY <1>2, <2>1 DEF Starting
  <2>3. QED
    BY <1>2, <2>1, <2>2, OnlyProcess DEF Start, Refusals
<1>5. QED
  BY <1>3, <1>4

\* Accounts are only added; the first is the admin.
LEMMA AddAccount ==
    ASSUME IInv, NEW n \in People, NEW a \in Account, accounts' = With(accounts, n, a),
           n \notin DOMAIN accounts,
           DOMAIN accounts = {} => n = Admin /\ a.role = AdminRole,
           UNCHANGED <<sessions, requests, jar, clock, history>>
    PROVE  /\ IsTable(accounts', People, Account) /\ Requests' /\ Stored' /\ Jars'
           /\ Admin \in DOMAIN accounts' /\ accounts'[Admin].role = AdminRole
<1> IsTable(accounts, People, Account)
  BY DEF IInv, TypeOK
<1> DEFINE table == With(accounts, n, a)
<1>0. /\ IsTable(table, People, Account)
      /\ DOMAIN table = DOMAIN accounts \union {n} /\ table[n] = a
      /\ \A x \in DOMAIN accounts : x # n => table[x] = accounts[x]
  BY DEF IsTable, With
<1>1. /\ IsTable(accounts', People, Account)
      /\ DOMAIN accounts' = DOMAIN accounts \union {n} /\ accounts'[n] = a
      /\ \A x \in DOMAIN accounts : x # n => accounts'[x] = accounts[x]
  BY <1>0
<1>2. Grows
  BY <1>1 DEF Grows, history, IInv, TypeOK
<1>3. Requests'
  BY <1>2, NoRequest
<1>4. Stored' /\ Jars'
  BY <1>1 DEF IInv, Stored, Jars, history
<1>5. Admin \in DOMAIN accounts' /\ accounts'[Admin].role = AdminRole
  BY <1>1 DEF IInv, AdminIsThere
<1>6. QED
  BY <1>1, <1>3, <1>4, <1>5

LEMMA SeedAdminStep == ASSUME IInv, SeedAdmin PROVE IInv'
<1>1. stage = "admin" /\ stage' = "seeds" /\ UNCHANGED <<env, left, refused, sessions, requests, jar, clock, history>>
  BY DEF SeedAdmin, After
<1>2. env \in Environments /\ Loads(env) /\ refused' = None
  BY <1>1 DEF IInv, Starting
<1>3. left = 1 /\ \A i \in 1..(left - 1) : env.seeds[i].password # None
  BY <1>1 DEF IInv, Starting
<1>4. CASE DOMAIN accounts = {}
  <2> DEFINE a == [password |-> env.admin, role |-> AdminRole]
  <2>1. a \in Account /\ a.role = AdminRole /\ Admin \in People
    BY <1>2, SessionsAssumption DEF Account, Loads, Environment
  <2>2. accounts' = With(accounts, Admin, a)
    BY <1>4 DEF SeedAdmin
  <2>3. /\ IsTable(accounts', People, Account) /\ Requests' /\ Stored' /\ Jars'
        /\ Admin \in DOMAIN accounts' /\ accounts'[Admin].role = AdminRole
    BY <1>1, <1>4, <2>1, <2>2, AddAccount
  <2>4. Starting' /\ AdminIsThere'
    BY <1>1, <1>2, <1>3, <2>3 DEF Starting, AdminIsThere
  <2>5. TypeOK'
    BY <1>1, <2>3 DEF IInv, TypeOK, history
  <2>6. QED
    BY <2>3, <2>4, <2>5 DEF IInv
<1>5. CASE DOMAIN accounts # {}
  <2>1. UNCHANGED <<store, requests, jar, clock, history>>
    BY <1>1, <1>5 DEF SeedAdmin, store
  <2>2. Starting'
    BY <1>1, <1>2, <1>3, <1>5, <2>1 DEF Starting, store
  <2>3. QED
    BY <1>1, <1>2, <2>1, <2>2, OnlyProcess DEF IInv, TypeOK
<1>6. QED
  BY <1>4, <1>5

LEMMA SeedAccountStep == ASSUME IInv, SeedAccount PROVE IInv'
<1> DEFINE seed == env.seeds[left]
<1>1. /\ stage = "seeds" /\ left \in 1..Len(env.seeds)
      /\ env \in Environments /\ Loads(env) /\ refused = None /\ DOMAIN accounts # {}
      /\ \A i \in 1..(left - 1) : env.seeds[i].password # None
      /\ UNCHANGED <<env, sessions, requests, jar, clock, history>>
  BY DEF SeedAccount, IInv, Starting, TypeOK
<1>2. seed \in Seed
  BY <1>1, SessionsAssumption DEF Environment
<1>3. CASE seed.password = None
  <2>1. stage' = "stopped" /\ refused' = "seeds" /\ left' = 1 /\ UNCHANGED <<store, requests, jar, clock, history>>
    BY <1>1, <1>3 DEF SeedAccount, Refuse, store
  <2>2. Starting'
    BY <2>1 DEF Starting
  <2>3. QED
    BY <1>1, <2>1, <2>2, OnlyProcess DEF Refusals, IInv, TypeOK
<1>4. CASE seed.password # None
  <2>1. /\ accounts' = EnsureAccount(seed) /\ left' = left + 1 /\ stage' = "seeds" /\ refused' = None
    BY <1>1, <1>4 DEF SeedAccount
  <2>2. left' \in Nat \ {0}
    BY <1>1, <2>1
  <2>3. \A i \in 1..(left' - 1) : env'.seeds[i].password # None
    <3>1. \A i \in 1..(left' - 1) : i = left \/ i \in 1..(left - 1)
      BY <1>1, <2>1
    <3>2. QED
      BY <1>1, <1>4, <3>1
  <2>4. CASE seed.name \in DOMAIN accounts
    <3>1. UNCHANGED <<store, requests, jar, clock, history>>
      BY <1>1, <2>1, <2>4 DEF EnsureAccount, store
    <3>2. Starting'
      BY <1>1, <2>1, <2>3, <3>1 DEF Starting, store
    <3>3. QED
      BY <1>1, <2>1, <2>2, <3>1, <3>2, OnlyProcess DEF IInv, TypeOK
  <2>5. CASE seed.name \notin DOMAIN accounts
    <3> DEFINE a == [password |-> seed.password, role |-> seed.role]
    <3>1. a \in Account /\ seed.name \in People
      BY <1>2, <1>4 DEF Account, Seed
    <3>2. accounts' = With(accounts, seed.name, a)
      BY <2>1, <2>5 DEF EnsureAccount
    <3>3. /\ IsTable(accounts', People, Account) /\ Requests' /\ Stored' /\ Jars'
          /\ Admin \in DOMAIN accounts' /\ accounts'[Admin].role = AdminRole
      BY <1>1, <2>5, <3>1, <3>2, AddAccount
    <3>4. Starting' /\ AdminIsThere'
      BY <1>1, <2>1, <2>3, <3>3 DEF Starting, AdminIsThere
    <3>5. TypeOK'
      BY <1>1, <2>1, <2>2, <3>3 DEF IInv, TypeOK, history
    <3>6. QED
      BY <3>3, <3>4, <3>5 DEF IInv
  <2>6. QED
    BY <2>4, <2>5
<1>5. QED
  BY <1>3, <1>4

LEMMA SeededStep == ASSUME IInv, Seeded PROVE IInv'
<1>1. stage = "seeds" /\ stage' = "build" /\ left' = 1 /\ UNCHANGED <<env, refused, store, requests, jar, clock, history>>
  BY DEF Seeded, After
<1>2. SeedAccounts(env)
  <2>1. env.seeds \in Seq(Seed) /\ left > Len(env.seeds) /\ left \in Nat
    BY <1>1, SessionsAssumption DEF Seeded, IInv, Starting, TypeOK, Environment
  <2>2. \A i \in DOMAIN env.seeds : i \in 1..(left - 1)
    BY <2>1
  <2>3. QED
    BY <1>1, <2>2 DEF IInv, Starting, SeedAccounts
<1>3. Starting'
  BY <1>1, <1>2 DEF IInv, Starting, SeedAccounts, store
<1>4. QED
  BY <1>1, <1>3, OnlyProcess DEF IInv, TypeOK

LEMMA BuildStep == ASSUME IInv, Build PROVE IInv'
<1>1. /\ stage = "build" /\ env \in Environments /\ env \in Environment /\ Loads(env)
      /\ DOMAIN accounts # {} /\ refused = None /\ left = 1
      /\ UNCHANGED <<left, store, requests, jar, clock, history>>
  BY SessionsAssumption DEF Build, IInv, Starting
<1>2. CASE Refuse("narrowing") /\ UNCHANGED env
  <2>1. Starting'
    BY <1>1, <1>2 DEF Refuse, Starting
  <2>2. QED
    BY <1>1, <1>2, <2>1, OnlyProcess DEF Refuse, Refusals, IInv, TypeOK
<1>3. CASE Builds(env) /\ stage' = After(stage) /\ env' = None /\ UNCHANGED refused
  <2>1. stage' = "serving" /\ env' = None /\ refused' = None
    BY <1>1, <1>3 DEF After
  <2>2. Starting'
    BY <1>1, <2>1 DEF Starting, store
  <2>3. QED
    BY <1>1, <2>1, <2>2, OnlyProcess DEF IInv, TypeOK
<1>4. CASE ~Builds(env) /\ Refuse(FirstRefusal(env)) /\ UNCHANGED env
  <2>1. stage' = "stopped" /\ refused' = FirstRefusal(env) /\ UNCHANGED env
    BY <1>4 DEF Refuse
  <2>2. refused' \in Refusals
    BY <2>1, FirstRefusalTyped
  <2>3. Starting'
    BY <1>1, <2>1 DEF Starting
  <2>4. QED
    BY <1>1, <2>1, <2>2, <2>3, OnlyProcess DEF IInv, TypeOK
<1>5. QED
  BY <1>2, <1>3, <1>4 DEF Build

LEMMA StopStep == ASSUME IInv, Stop PROVE IInv'
<1>1. /\ stage # "stopped" /\ stage' = "stopped" /\ env' = None /\ left' = 1
      /\ UNCHANGED <<refused, store, jar, clock, history>>
  BY DEF Stop
<1>2. refused = None
  BY <1>1 DEF IInv, Starting
<1>3. Grows
  BY <1>1 DEF Grows, store, history, IInv, TypeOK
<1>4. ASSUME NEW s \in Slots, InFlight(s)
      PROVE  Answered(requests[s], "failed") \in Request /\ Good(Answered(requests[s], "failed"))
             /\ Answered(requests[s], "failed").step = "answered"
  <2>1. requests[s] \in Request /\ Good(requests[s])
    BY <1>4 DEF InFlight, IInv, Requests, Good, GoodIn
  <2>2. QED
    BY <2>1, AnsweredTyped DEF Good, GoodIn, DecidedIn
<1>5. requests' \in [Slots -> Request \union {None}]
  BY <1>4 DEF Stop, IInv, Requests
<1>6. ASSUME NEW s \in Slots, requests'[s] # None
      PROVE  /\ GoodIn(requests'[s], issued', ended', clock')
             /\ requests'[s].step = "checked" => requests'[s].name \in DOMAIN accounts'
  <2>1. UNCHANGED <<issued, ended, clock, accounts>>
    BY <1>1 DEF store, history
  <2>2. CASE InFlight(s)
    <3>1. requests'[s] = Answered(requests[s], "failed")
      BY <2>2 DEF Stop
    <3>2. QED
      BY <1>4, <2>1, <2>2, <3>1 DEF Good
  <2>3. CASE ~InFlight(s)
    <3>1. requests'[s] = requests[s] /\ requests[s] # None
      BY <1>6, <2>3 DEF Stop
    <3>2. QED
      BY <2>1, <3>1 DEF IInv, Requests, Good
  <2>4. QED
    BY <2>2, <2>3
<1>7. Requests'
  BY <1>5, <1>6 DEF Requests, Good
<1>8. TypeOK'
  BY <1>1, <1>5 DEF IInv, TypeOK, store, history
<1>9. Stored' /\ Jars'
  BY <1>1 DEF IInv, Stored, Jars, store, history
<1>10. Starting' /\ AdminIsThere'
  BY <1>1, <1>2, SessionsAssumption DEF IInv, Starting, AdminIsThere, Refusals, store
<1>11. QED
  BY <1>7, <1>8, <1>9, <1>10 DEF IInv

-----------------------------------------------------------------------------
(* Requests. *)

\* What a cookie holds was issued.
LEMMA SentIssued == ASSUME IInv, NEW b \in Browsers PROVE Sent(b) \in DOMAIN issued \union {None}
BY DEF Sent, IInv, Jars

LEMMA NewGood ==
    ASSUME IInv, NEW b \in Browsers, NEW kind \in {"signIn", "signOut", "whoAmI", "use"},
           NEW token \in DOMAIN issued \union {None},
           NEW n \in People \union {None}, NEW p \in Passwords \union {None}
    PROVE  New(b, kind, token, n, p) \in Request /\ Good(New(b, kind, token, n, p))
           /\ New(b, kind, token, n, p).step = "sent"
<1> DEFINE r == New(b, kind, token, n, p)
<1>1. token \in Tokens \union {None}
  BY DEF IInv, TypeOK, IsTable
<1>2. (token # None /\ Over(token)) \in BOOLEAN
  BY DEF Over
<1>3. r \in Request
  BY <1>1, <1>2 DEF New, Request
<1>4. /\ r.token = token /\ r.step = "sent" /\ r.user = None /\ r.answer = "pending"
      /\ r.over = (token # None /\ Over(token))
  BY DEF New
<1>5. r.over => r.token # None /\ OverIn(r.token, issued, ended, clock)
  BY <1>4 DEF Over, OverIn
<1>6. QED
  BY <1>3, <1>4, <1>5 DEF Good, GoodIn, DecidedIn

\* A step of one request: what stands afterwards is a good request or none.
LEMMA RequestStep ==
    ASSUME IInv, NEW s \in Slots, NEW r \in Request, Good(r),
           r.step = "checked" => r.name \in DOMAIN accounts,
           requests' = [requests EXCEPT ![s] = r],
           UNCHANGED <<process, store, jar, clock, history>>
    PROVE  IInv'
<1>1. Grows
  BY DEF Grows, store, history, IInv, TypeOK
<1>2. GoodIn(r, issued', ended', clock') /\ (r.step = "checked" => r.name \in DOMAIN accounts')
  BY DEF Good, store, history
<1>3. Requests'
  BY <1>1, <1>2, OneRequest
<1>4. QED
  BY <1>3, OnlyRequests

LEMMA SendStep == ASSUME IInv, NEW s \in Slots, NEW b \in Browsers, Send(s, b) PROVE IInv'
<1>1. CASE \E kind \in {"signOut", "whoAmI", "use"} :
             requests' = [requests EXCEPT ![s] = New(b, kind, Sent(b), None, None)]
  <2>1. PICK kind \in {"signOut", "whoAmI", "use"} :
             requests' = [requests EXCEPT ![s] = New(b, kind, Sent(b), None, None)]
    BY <1>1
  <2> DEFINE r == New(b, kind, Sent(b), None, None)
  <2>2. r \in Request /\ Good(r) /\ r.step = "sent"
    <3>1. Sent(b) \in DOMAIN issued \union {None} /\ kind \in {"signIn", "signOut", "whoAmI", "use"}
      BY SentIssued
    <3> HIDE DEF r
    <3>2. QED
      BY <3>1, NewGood DEF r
  <2>3. QED
    BY <2>1, <2>2, RequestStep DEF Send
<1>2. CASE \E n \in People, p \in Passwords :
             requests' = [requests EXCEPT ![s] = New(b, "signIn", None, n, p)]
  <2>1. PICK n \in People, p \in Passwords :
             requests' = [requests EXCEPT ![s] = New(b, "signIn", None, n, p)]
    BY <1>2
  <2> DEFINE r == New(b, "signIn", None, n, p)
  <2>2. r \in Request /\ Good(r) /\ r.step = "sent"
    BY NewGood
  <2>3. QED
    BY <2>1, <2>2, RequestStep DEF Send
<1>3. QED
  BY <1>1, <1>2 DEF Send

\* The look-up: the account that signed in, exactly while its session is not over.
LEMMA UserFacts ==
    ASSUME IInv, NEW token \in DOMAIN issued \union {None}
    PROVE  /\ UserOf(token) \in People \union {None}
           /\ UserOf(token) # None => token # None /\ UserOf(token) = issued[token].user /\ ~Over(token)
           /\ UserOf(token) = None => token = None \/ Over(token)
<1>1. CASE token # None
  <2>1. issued[token].user \in People /\ issued[token].expires \in Nat /\ clock \in Nat
    BY <1>1 DEF IInv, TypeOK, IsTable, Session
  <2>2. Live(token) <=> ~Over(token)
    BY <1>1, <2>1 DEF Live, Over, IInv, Stored
  <2>3. Live(token) => sessions[token] = issued[token] /\ issued[token].user \in DOMAIN accounts
    BY <1>1 DEF Live, IInv, Stored
  <2>4. None \notin People
    BY SessionsAssumption
  <2>5. QED
    BY <1>1, <2>1, <2>2, <2>3, <2>4 DEF UserOf
<1>2. CASE token = None
  BY <1>2 DEF UserOf
<1>3. QED
  BY <1>1, <1>2

LEMMA FindStep == ASSUME IInv, NEW s \in Slots, Find(s) PROVE IInv'
<1> DEFINE r == requests[s]
           user == UserOf(r.token)
           answer == IF user # None THEN "ok" ELSE "unauthorized"
           found == [r EXCEPT !.user = user, !.step = "found"]
           asked == [r EXCEPT !.user = user]
<1>1. /\ r \in Request /\ Good(r) /\ r.step = "sent" /\ r.answer = "pending"
      /\ r.token \in DOMAIN issued \union {None}
      /\ UNCHANGED <<process, store, jar, clock, history>>
  BY DEF Find, IInv, Requests, Good, GoodIn
<1>2. /\ user \in People \union {None}
      /\ user # None => r.token # None /\ user = issued[r.token].user /\ ~Over(r.token)
      /\ user = None => r.token = None \/ Over(r.token)
  BY <1>1, UserFacts
<1>3. r.over => Over(r.token)
  BY <1>1 DEF Good, GoodIn, Over, OverIn
<1>4. CASE r.kind = "whoAmI" \/ (user = None /\ ~Unauthenticated(r))
  <2>1. asked \in Request /\ asked.user = user /\ asked.token = r.token /\ asked.kind = r.kind
        /\ asked.over = r.over /\ asked.made = r.made
    BY <1>1, <1>2 DEF Request
  <2> HIDE DEF asked
  <2> DEFINE done == Answered(asked, answer)
  <2>2. answer \in {"ok", "unauthorized", "failed"}
    OBVIOUS
  <2>3. done \in Request /\ done.step = "answered" /\ done.answer = answer /\ done.kind = r.kind
        /\ done.token = r.token /\ done.user = user /\ done.over = r.over /\ done.made = r.made
    BY <2>1, <2>2, AnsweredTyped
  <2>4. requests' = [requests EXCEPT ![s] = done]
    BY <1>4 DEF Find, asked
  <2>5. done.kind \notin {"signIn", "signOut"}
    BY <1>4, <2>3 DEF Unauthenticated
  <2> HIDE DEF done, user
  <2>6. Good(done)
    BY <1>1, <1>2, <1>3, <2>3, <2>5 DEF Good, GoodIn, DecidedIn, Over, OverIn
  <2>7. QED
    BY <1>1, <2>3, <2>4, <2>6, RequestStep
<1>5. CASE ~(r.kind = "whoAmI" \/ (user = None /\ ~Unauthenticated(r)))
  <2>1. found \in Request /\ found.user = user /\ found.token = r.token /\ found.kind = r.kind
        /\ found.over = r.over /\ found.step = "found" /\ found.answer = "pending"
    BY <1>1, <1>2 DEF Request
  <2>2. requests' = [requests EXCEPT ![s] = found]
    BY <1>5 DEF Find
  <2> HIDE DEF found, user
  <2>3. Good(found)
    BY <1>1, <1>2, <1>3, <2>1 DEF Good, GoodIn, DecidedIn, Over, OverIn
  <2>4. QED
    BY <1>1, <2>1, <2>2, <2>3, RequestStep
<1>6. QED
  BY <1>4, <1>5

\* A request that is answered, other than by a new session.
LEMMA AnswerStep ==
    ASSUME IInv, NEW s \in Slots, InFlight(s), NEW answer \in {"ok", "unauthorized", "failed"},
           answer = "ok" => requests[s].kind \notin {"signIn", "signOut"},
           requests[s].step # "sent" \/ answer = "failed",
           Answer(s, answer), UNCHANGED <<process, store, jar, clock, history>>
    PROVE  IInv'
<1> DEFINE r == requests[s]
           done == Answered(r, answer)
<1>1. r \in Request /\ Good(r) /\ r.step # "answered"
  BY DEF InFlight, IInv, Requests, Good, GoodIn
<1>2. done \in Request /\ done.step = "answered" /\ done.answer = answer /\ done.kind = r.kind
      /\ done.token = r.token /\ done.user = r.user /\ done.over = r.over /\ done.made = r.made
  BY <1>1, AnsweredTyped
<1>3. requests' = [requests EXCEPT ![s] = done]
  BY DEF Answer
<1> HIDE DEF done
<1>4. r.user = None => r.token = None \/ OverIn(r.token, issued, ended, clock) \/ answer = "failed"
  BY <1>1 DEF Good, GoodIn, DecidedIn, Request
<1>5. Good(done)
  BY <1>1, <1>2, <1>4 DEF Good, GoodIn, DecidedIn
<1>6. QED
  BY <1>2, <1>3, <1>5, RequestStep

LEMMA UseStep == ASSUME IInv, NEW s \in Slots, Use(s) PROVE IInv'
BY AnswerStep DEF Use, InFlight

LEMMA AuthenticateStep == ASSUME IInv, NEW s \in Slots, Authenticate(s) PROVE IInv'
<1> DEFINE r == requests[s]
           checked == [r EXCEPT !.step = "checked"]
<1>1. CASE Matches(r)
  <2>1. r \in Request /\ Good(r) /\ r.step = "found" /\ r.kind = "signIn" /\ r.name \in DOMAIN accounts
    BY <1>1 DEF Authenticate, Matches, IInv, Requests, Good, GoodIn
  <2>2. checked \in Request /\ checked.kind = r.kind /\ checked.token = r.token /\ checked.user = r.user
        /\ checked.over = r.over /\ checked.made = r.made /\ checked.step = "checked"
        /\ checked.answer = r.answer /\ checked.name = r.name
    BY <2>1 DEF Request
  <2>3. requests' = [requests EXCEPT ![s] = checked]
    BY <1>1 DEF Authenticate
  <2> HIDE DEF checked
  <2>4. Good(checked)
    BY <2>1, <2>2 DEF Good, GoodIn, DecidedIn
  <2>5. QED
    BY <2>1, <2>2, <2>3, <2>4, RequestStep DEF Authenticate
<1>2. CASE ~Matches(r)
  <2>1. Answer(s, "unauthorized") /\ InFlight(s) /\ r.step # "sent"
    BY <1>2 DEF Authenticate, InFlight
  <2>2. QED
    BY <2>1, AnswerStep DEF Authenticate
<1>3. QED
  BY <1>1, <1>2

LEMMA FailStep == ASSUME IInv, NEW s \in Slots, Fail(s) PROVE IInv'
BY AnswerStep DEF Fail

LEMMA CreateSessionStep == ASSUME IInv, NEW s \in Slots, CreateSession(s) PROVE IInv'
<1> DEFINE r == requests[s]
           session == [user |-> r.name, expires |-> clock + SessionTTL]
<1>1. PICK token \in Tokens \ DOMAIN issued :
        /\ sessions' = With(sessions, token, session)
        /\ issued' = With(issued, token, session)
        /\ requests' = [requests EXCEPT ![s] = Answered([@ EXCEPT !.made = token], "ok")]
  BY DEF CreateSession
<1> DEFINE made == [r EXCEPT !.made = token]
           done == Answered(made, "ok")
<1>2. r \in Request /\ Good(r) /\ r.step = "checked" /\ r.name \in DOMAIN accounts
  BY DEF CreateSession, IInv, Requests, Good, GoodIn
<1>3. session \in Session /\ session.user \in DOMAIN accounts
  BY <1>2, SessionsAssumption DEF IInv, TypeOK, IsTable, Session
<1>4. IsTable(issued, Tokens, Session) /\ IsTable(sessions, Tokens, Session)
  BY DEF IInv, TypeOK
<1> HIDE DEF session
<1>5. /\ IsTable(issued', Tokens, Session) /\ DOMAIN issued' = DOMAIN issued \union {token}
      /\ issued'[token] = session /\ \A t \in DOMAIN issued : issued'[t] = issued[t]
  BY <1>1, <1>3, <1>4 DEF IsTable, With
<1>6. /\ IsTable(sessions', Tokens, Session) /\ DOMAIN sessions' = DOMAIN sessions \union {token}
      /\ sessions'[token] = session /\ \A t \in DOMAIN sessions \ {token} : sessions'[t] = sessions[t]
  BY <1>1, <1>3, <1>4 DEF IsTable, With
<1>7. UNCHANGED <<process, accounts, jar, clock, ended>>
  BY DEF CreateSession
<1>8. Grows
  BY <1>5, <1>7 DEF Grows, IInv, TypeOK
<1>9. done \in Request /\ GoodIn(done, issued', ended', clock') /\ done.step = "answered"
  <2>1. made \in Request /\ made.made = token /\ made.kind = r.kind /\ made.token = r.token
        /\ made.user = r.user /\ made.over = r.over
    BY <1>2 DEF Request
  <2> HIDE DEF made
  <2>2. done \in Request /\ done.step = "answered" /\ done.answer = "ok" /\ done.kind = r.kind
        /\ done.token = r.token /\ done.user = r.user /\ done.over = r.over /\ done.made = token
    BY <2>1, AnsweredTyped
  <2> HIDE DEF done
  <2>3. GoodIn(r, issued', ended', clock')
    BY <1>2, <1>4, <1>5, <1>8, GoodStays DEF Good, Grows, IInv, TypeOK
  <2>4. r.answer = "pending" /\ r.kind = "signIn"
    BY <1>2 DEF Good, GoodIn
  <2>5. QED
    BY <1>2, <1>5, <2>2, <2>3, <2>4 DEF GoodIn, DecidedIn
<1>10. requests' = [requests EXCEPT ![s] = done]
  BY <1>1
<1> HIDE DEF done
<1>11. Requests'
  BY <1>8, <1>9, <1>10, OneRequest
<1>12. Stored'
  <2>1. token \notin DOMAIN issued /\ token \notin ended /\ token \notin DOMAIN sessions
    BY <1>1 DEF IInv, Stored
  <2>2. QED
    BY <1>3, <1>5, <1>6, <1>7, <2>1 DEF IInv, Stored
<1>13. TypeOK'
  BY <1>5, <1>6, <1>7, <1>11 DEF IInv, TypeOK, Requests, process
<1>14. Jars' /\ Starting' /\ AdminIsThere'
  BY <1>5, <1>7 DEF IInv, Jars, Starting, AdminIsThere, process
<1>15. QED
  BY <1>11, <1>12, <1>13, <1>14 DEF IInv

LEMMA EndSessionStep == ASSUME IInv, NEW s \in Slots, EndSession(s) PROVE IInv'
<1> DEFINE r == requests[s]
           done == Answered(r, "ok")
<1>1. /\ r \in Request /\ Good(r) /\ r.step = "found" /\ r.kind = "signOut"
      /\ r.token \in DOMAIN issued \union {None}
      /\ UNCHANGED <<process, accounts, jar, clock, issued>>
  BY DEF EndSession, IInv, Requests, Good, GoodIn
<1>2. ended' = ended \union ({r.token} \ {None}) /\ sessions' = Without(sessions, {r.token} \ {None})
  BY DEF EndSession, Ends
<1>3. /\ IsTable(sessions', Tokens, Session) /\ DOMAIN sessions' = DOMAIN sessions \ ({r.token} \ {None})
      /\ \A t \in DOMAIN sessions' : sessions'[t] = sessions[t]
  BY <1>2 DEF IsTable, Without, IInv, TypeOK
<1>4. ended' \subseteq DOMAIN issued /\ DOMAIN issued \subseteq Tokens
  BY <1>1, <1>2 DEF IInv, Stored, TypeOK, IsTable
<1>5. Grows
  BY <1>1, <1>2 DEF Grows, process, IInv, TypeOK
<1>6. done \in Request /\ done.step = "answered" /\ done.answer = "ok" /\ done.kind = "signOut"
      /\ done.token = r.token /\ done.user = r.user /\ done.over = r.over /\ done.made = r.made
  BY <1>1, AnsweredTyped
<1>7. requests' = [requests EXCEPT ![s] = done]
  BY DEF EndSession, Answer
<1> HIDE DEF done
<1>8. GoodIn(r, issued', ended', clock')
  BY <1>1, <1>5, GoodStays DEF Good, Grows, IInv, TypeOK
<1>9. r.token = None \/ OverIn(r.token, issued', ended', clock')
  BY <1>2 DEF OverIn
<1>10. GoodIn(done, issued', ended', clock')
  BY <1>1, <1>6, <1>8, <1>9 DEF GoodIn, DecidedIn
<1>11. Requests'
  BY <1>5, <1>6, <1>7, <1>10, OneRequest
<1>12. Stored'
  BY <1>1, <1>2, <1>3, <1>4 DEF IInv, Stored
<1>13. TypeOK'
  BY <1>1, <1>3, <1>4, <1>11 DEF IInv, TypeOK, Requests, process
<1>14. Jars' /\ Starting' /\ AdminIsThere'
  BY <1>1 DEF IInv, Jars, Starting, AdminIsThere, process
<1>15. QED
  BY <1>11, <1>12, <1>13, <1>14 DEF IInv

LEMMA ReceiveStep == ASSUME IInv, NEW s \in Slots, Receive(s) PROVE IInv'
<1> DEFINE r == requests[s]
<1>1. /\ r \in Request /\ Good(r) /\ r.step = "answered"
      /\ requests' = [requests EXCEPT ![s] = None]
      /\ UNCHANGED <<process, store, clock, history>>
  BY DEF Receive, IInv, Requests, Good, GoodIn
<1>2. jar' \in [Browsers -> Cookie \union {None}] /\ Jars'
  <2>1. UNCHANGED issued /\ r.browser \in Browsers
    BY <1>1 DEF history, Request
  <2>2. CASE UNCHANGED jar
    BY <2>1, <2>2 DEF IInv, TypeOK, Jars
  <2>3. CASE /\ r.answer = "ok" /\ r.kind = "signIn"
             /\ jar' = [jar EXCEPT ![r.browser] = [token |-> r.made, until |-> clock + SessionTTL]]
    <3> DEFINE cookie == [token |-> r.made, until |-> clock + SessionTTL]
    <3>1. r.made \in DOMAIN issued /\ DOMAIN issued \subseteq Tokens
      BY <1>1, <2>3 DEF Good, GoodIn, IInv, TypeOK, IsTable
    <3>2. cookie \in Cookie /\ cookie.token \in DOMAIN issued
      BY <3>1, SessionsAssumption DEF Cookie, IInv, TypeOK
    <3> HIDE DEF cookie
    <3>3. jar' = [jar EXCEPT ![r.browser] = cookie]
      BY <2>3 DEF cookie
    <3>4. QED
      BY <2>1, <3>2, <3>3 DEF IInv, TypeOK, Jars
  <2>4. CASE r.answer = "ok" /\ r.kind = "signOut" /\ jar' = [jar EXCEPT ![r.browser] = None]
    BY <2>1, <2>4 DEF IInv, TypeOK, Jars
  <2>5. QED
    BY <2>2, <2>3, <2>4 DEF Receive
<1>3. Grows
  BY <1>1 DEF Grows, store, history, IInv, TypeOK
<1>4. Requests'
  BY <1>1, <1>3, OneRequest
<1>5. TypeOK'
  BY <1>1, <1>2, <1>4 DEF IInv, TypeOK, Requests, process, store, history
<1>6. Stored' /\ Starting' /\ AdminIsThere'
  BY <1>1 DEF IInv, Stored, Starting, AdminIsThere, process, store, history
<1>7. QED
  BY <1>2, <1>4, <1>5, <1>6 DEF IInv

LEMMA TickStep == ASSUME IInv, Tick PROVE IInv'
<1>1. clock' = clock + 1 /\ clock' \in Nat /\ clock <= clock' /\ UNCHANGED <<process, store, requests, jar, history>>
  BY DEF Tick, IInv, TypeOK
<1>2. Grows
  BY <1>1 DEF Grows, store, history
<1>3. Requests'
  BY <1>1, <1>2, NoRequest
<1>4. TypeOK'
  BY <1>1 DEF IInv, TypeOK, process, store, history
<1>5. Stored' /\ Jars' /\ Starting' /\ AdminIsThere'
  BY <1>1 DEF IInv, Stored, Jars, Starting, AdminIsThere, process, store, history
<1>6. QED
  BY <1>3, <1>4, <1>5 DEF IInv

-----------------------------------------------------------------------------
(* The theorems. *)

LEMMA StepInvariant == ASSUME IInv, [Next]_vars PROVE IInv'
<1>1. CASE Start
  BY <1>1, StartStep
<1>2. CASE SeedAdmin
  BY <1>2, SeedAdminStep
<1>3. CASE SeedAccount
  BY <1>3, SeedAccountStep
<1>4. CASE Seeded
  BY <1>4, SeededStep
<1>5. CASE Build
  BY <1>5, BuildStep
<1>6. CASE Stop
  BY <1>6, StopStep
<1>7. CASE Tick
  BY <1>7, TickStep
<1>8. ASSUME NEW s \in Slots, Find(s) \/ Use(s) \/ Authenticate(s) \/ CreateSession(s) \/ EndSession(s)
      PROVE  IInv'
  BY <1>8, FindStep, UseStep, AuthenticateStep, CreateSessionStep, EndSessionStep
<1>9. ASSUME NEW s \in Slots, Fail(s) \/ Receive(s) \/ \E b \in Browsers : Send(s, b)
      PROVE  IInv'
  BY <1>9, FailStep, ReceiveStep, SendStep
<1>10. CASE UNCHANGED vars
  <2>1. Requests' /\ UNCHANGED <<process, store, jar, clock, history>>
    BY <1>10 DEF vars, process, store, history, IInv, Requests, Good
  <2>2. QED
    BY <2>1, OnlyRequests
<1>11. QED
  BY <1>1, <1>2, <1>3, <1>4, <1>5, <1>6, <1>7, <1>8, <1>9, <1>10 DEF Next

\* The inductive invariant: the state is typed, what the requests carry was issued, the file
\* holds the sessions that did not end.
THEOREM Invariant == Spec => []IInv
<1>1. QED
  BY InitInvariant, StepInvariant, PTL DEF Spec

\* Every state is typed.
THEOREM TypeCorrect == Spec => []TypeOK
<1>1. IInv => TypeOK
  BY DEF IInv
<1>2. QED
  BY <1>1, Invariant, PTL

\* Accounts never come without an admin.
THEOREM AdminStays == Spec => []AdminIsThere
<1>1. IInv => AdminIsThere
  BY DEF IInv
<1>2. QED
  BY <1>1, Invariant, PTL

\* A session serves who signed in until it is over, and nobody after.
THEOREM SessionsDecided == Spec => []SessionsDecide
<1>1. ASSUME IInv PROVE SessionsDecide
  BY <1>1 DEF IInv, Requests, Good, GoodIn, DecidedIn, SessionsDecide, Over, OverIn
<1>2. QED
  BY <1>1, Invariant, PTL

Kept ==
    /\ DOMAIN accounts \subseteq DOMAIN accounts'
    /\ \A n \in DOMAIN accounts : accounts'[n] = accounts[n]

LEMMA AccountsStay == ASSUME [Next]_vars PROVE Kept
<1>1. CASE SeedAdmin
  BY <1>1 DEF Kept, SeedAdmin, With
<1>2. CASE SeedAccount
  BY <1>2 DEF Kept, SeedAccount, EnsureAccount, With
<1>3. CASE UNCHANGED accounts
  BY <1>3 DEF Kept
<1>4. QED
  BY <1>1, <1>2, <1>3 DEF Next, Start, Seeded, Build, Stop, Tick, Find, Use, Authenticate,
    CreateSession, EndSession, Fail, Receive, Send, vars, store

\* Accounts are kept as they were made.
THEOREM AccountsKept == Spec => AccountsAreKept
<1>1. QED
  BY AccountsStay, PTL DEF Spec, AccountsAreKept, Kept

\* The step of a start that StartsWhatLoads speaks of.
Refused == stage \in {"seeds", "build"} /\ stage' = "stopped" /\ refused' # None
Barred(e) == BlankSeed(e) \/ NoJsonMode(e) \/ NothingToNarrowWith(e)
RefusedFor ==
    \/ Barred(env)
    \/ refused' = "narrowing" /\ env.narrowing = "all" /\ env.operations
ServesNow == stage # "serving" /\ stage' = "serving"

LEMMA BuildRefuses ==
    ASSUME IInv, Build
    PROVE  (Refused => RefusedFor) /\ (ServesNow => ~Barred(env))
<1>1. stage = "build" /\ env \in Environment /\ Loads(env) /\ SeedAccounts(env)
  BY SessionsAssumption DEF Build, IInv, Starting
<1>2. Builds(env) <=> ~Barred(env)
  <2>1. Serves(env) <=> ~Barred(env)
    BY <1>1, WhatLoadsServes DEF Barred
  <2>2. Serves(env) <=> Builds(env)
    BY <1>1 DEF Serves
  <2>3. QED
    BY <2>1, <2>2
<1>3. CASE Refuse("narrowing") /\ env.narrowing = "all" /\ env.operations
  BY <1>3 DEF Refuse, RefusedFor, ServesNow
<1>4. CASE Builds(env) /\ stage' = After(stage)
  BY <1>1, <1>2, <1>4 DEF After, Refused
<1>5. CASE ~Builds(env) /\ Refuse(FirstRefusal(env))
  BY <1>2, <1>5 DEF Refuse, RefusedFor, ServesNow
<1>6. QED
  BY <1>3, <1>4, <1>5 DEF Build

LEMMA StartRefuses ==
    ASSUME IInv, [Next]_vars
    PROVE  /\ Refused => DOMAIN accounts # {} /\ RefusedFor
           /\ ServesNow => ~Barred(env)
<1>1. Refused => DOMAIN accounts # {} /\ refused = None
  BY DEF Refused, IInv, Starting
<1>2. CASE Build
  BY <1>1, <1>2, BuildRefuses
<1>3. CASE SeedAccount
  <2>1. stage = "seeds" /\ left \in DOMAIN env.seeds
    BY <1>3, SessionsAssumption DEF SeedAccount, IInv, Starting, TypeOK, Environment
  <2>2. Refused => Barred(env)
    <3>1. CASE env.seeds[left].password = None
      BY <2>1, <3>1 DEF BlankSeed, Barred
    <3>2. CASE env.seeds[left].password # None
      BY <1>3, <2>1, <3>2 DEF SeedAccount, Refused
    <3>3. QED
      BY <3>1, <3>2
  <2>3. ~ServesNow
    BY <1>3, <2>1 DEF SeedAccount, Refuse, ServesNow
  <2>4. QED
    BY <1>1, <2>2, <2>3 DEF RefusedFor
<1>4. CASE Start \/ SeedAdmin \/ Seeded \/ Stop
  <2>1. ~ServesNow
    BY <1>4 DEF Start, SeedAdmin, Seeded, Stop, After, Refuse, ServesNow
  <2>2. ~Refused
    BY <1>1, <1>4 DEF Start, SeedAdmin, Seeded, Stop, After, Refused
  <2>3. QED
    BY <2>1, <2>2
<1>5. CASE UNCHANGED stage
  BY <1>5 DEF Refused, ServesNow
<1>6. QED
  BY <1>2, <1>3, <1>4, <1>5 DEF Next, Tick, Find, Use, Authenticate, CreateSession, EndSession,
    Fail, Receive, Send, vars, process

\* A start that app.build or seedAccounts refuses, its accounts made, has a seed without a
\* password, JSON mode with a provider that has none, or operations to narrow (without an
\* address, or with a model that fails); none that has one of the first three is served.
THEOREM StartsLoaded == Spec => StartsWhatLoads
<1>1. QED
  BY Invariant, StartRefuses, PTL
    DEF Spec, StartsWhatLoads, Refused, Barred, RefusedFor, ServesNow

-----------------------------------------------------------------------------
(* Sessions implements SignIns. *)

MatchesIn(r, table) == r.name \in DOMAIN table /\ table[r.name].password = r.password

\* What a request's step says of it; the password it was checked with is its account's still.
LinkedIn(r, table) ==
    /\ r.step = "answered" => r.answer # "pending"
    /\ r.kind = "signIn" => r.token = None
    /\ r.kind = "use" /\ r.step = "found" => r.user # None
    /\ r.kind = "whoAmI" => r.step \in {"sent", "answered"}
    /\ r.step = "checked" => MatchesIn(r, table)

Links == \A s \in Slots : requests[s] # None => LinkedIn(requests[s], accounts)

MapInv == IInv /\ Links

LEMMA LinkStays ==
    ASSUME Kept, NEW r, LinkedIn(r, accounts)
    PROVE  LinkedIn(r, accounts')
BY DEF Kept, LinkedIn, MatchesIn

LEMMA OneLink ==
    ASSUME MapInv, Kept, NEW s \in Slots, NEW r, requests' = [requests EXCEPT ![s] = r],
           r = None \/ LinkedIn(r, accounts')
    PROVE  Links'
<1>1. requests'[s] = r /\ \A x \in Slots : x # s => requests'[x] = requests[x]
  BY DEF MapInv, IInv, Requests
<1>2. \A x \in Slots : requests[x] # None => LinkedIn(requests[x], accounts')
  BY LinkStays DEF MapInv, Links
<1>3. QED
  BY <1>1, <1>2 DEF Links

LEMMA NoLink == ASSUME MapInv, Kept, UNCHANGED requests PROVE Links'
BY LinkStays DEF MapInv, Links

\* The request that a slot shows.
LEMMA ShownTyped ==
    ASSUME NEW r \in Request
    PROVE  /\ r # None /\ Shown(r) # None
           /\ Shown(r).kind = r.kind /\ Shown(r).token = r.token /\ Shown(r).user = r.user
           /\ Shown(r).answer = r.answer /\ Shown(r).name = r.name /\ Shown(r).password = r.password
BY NoneAssumption DEF Shown, Request

LEMMA AskedAt ==
    ASSUME IInv, NEW s \in Slots
    PROVE  /\ requests[s] = None => Asked[s] = None
           /\ requests[s] # None =>
                /\ requests[s] \in Request
                /\ Asked[s] = Shown(requests[s]) /\ Asked[s] # None
BY ShownTyped DEF Asked, IInv, Requests

LEMMA AskedBecomes ==
    ASSUME IInv, NEW s \in Slots, NEW r \in Request, requests' = [requests EXCEPT ![s] = r]
    PROVE  Promise!Becomes(s, Shown(r)) /\ Asked'[s] = Shown(r)
<1>1. requests'[s] = r /\ r # None /\ \A x \in Slots : x # s => requests'[x] = requests[x]
  BY ShownTyped DEF IInv, Requests
<1>2. Asked' = [Asked EXCEPT ![s] = Shown(r)]
  <2>1. /\ Asked = [x \in Slots |-> Asked[x]] /\ Asked' = [x \in Slots |-> Asked'[x]]
        /\ Asked'[s] = Shown(r) /\ \A x \in Slots : x # s => Asked'[x] = Asked[x]
    BY <1>1 DEF Asked
  <2> HIDE DEF Asked
  <2>2. QED
    BY <2>1
<1>3. QED
  BY <1>1, <1>2 DEF Promise!Becomes, Asked

LEMMA ShownAnswered ==
    ASSUME NEW r \in Request, NEW answer \in {"ok", "unauthorized", "failed"}
    PROVE  Shown(Answered(r, answer)) = Promise!Answered(Shown(r), answer)
<1> DEFINE done == [kind |-> r.kind, token |-> r.token, name |-> None, password |-> None,
                    user |-> r.user, answer |-> answer, made |-> r.made]
<1>1. Shown(Answered(r, answer)) = done
  <2>1. Answered(r, answer).name = None /\ Answered(r, answer).password = None
    BY DEF Answered, Request
  <2>2. QED
    BY <2>1, AnsweredTyped DEF Shown
<1>2. Promise!Answered(Shown(r), answer) = done
  <2> DEFINE x == Shown(r)
             y == [x EXCEPT !.answer = answer]
             z == [y EXCEPT !.name = None]
  <2>1. y = [kind |-> r.kind, token |-> r.token, name |-> r.name, password |-> r.password,
             user |-> r.user, answer |-> answer, made |-> r.made]
    BY DEF Shown
  <2> HIDE DEF y
  <2>2. z = [kind |-> r.kind, token |-> r.token, name |-> None, password |-> r.password,
             user |-> r.user, answer |-> answer, made |-> r.made]
    BY <2>1
  <2> HIDE DEF z
  <2>3. [z EXCEPT !.password = None] = done
    BY <2>2
  <2>4. QED
    BY <2>3 DEF Promise!Answered, y, z
<1>3. QED
  BY <1>1, <1>2

\* A step of the process, or one a request does not show.
LEMMA Unseen ==
    ASSUME UNCHANGED <<store, requests, clock, history>>
    PROVE  UNCHANGED Promise!signIns
BY DEF store, history, Asked, Promise!signIns

LEMMA InitMaps == ASSUME Init PROVE MapInv /\ Promise!Init
<1>1. IInv
  BY InitInvariant
<1>2. Links
  BY DEF Init, Links
<1>3. Promise!Init
  BY DEF Init, Promise!Init, Asked
<1>4. QED
  BY <1>1, <1>2, <1>3 DEF MapInv

Maps == Links' /\ [Promise!Next]_(Promise!signIns)

LEMMA AddMaps ==
    ASSUME MapInv, Kept, NEW n \in People \ DOMAIN accounts, NEW p \in Passwords, NEW role \in Roles,
           DOMAIN accounts = {} => n = Admin /\ role = AdminRole,
           accounts' = With(accounts, n, [password |-> p, role |-> role]),
           UNCHANGED <<sessions, requests, clock, history>>
    PROVE  Maps
<1>1. Links'
  BY NoLink
<1>2. n \in DOMAIN accounts'
  BY DEF With
<1>3. Promise!MakeAccount
  BY <1>2 DEF Promise!MakeAccount, Promise!With, With, Asked, history
<1>4. QED
  BY <1>1, <1>3 DEF Maps, Promise!Next

LEMMA SeedAdminMaps == ASSUME MapInv, Kept, SeedAdmin PROVE Maps
<1>1. env \in Environments /\ Loads(env) /\ UNCHANGED <<sessions, requests, clock, history>>
  BY DEF SeedAdmin, MapInv, IInv, Starting
<1>2. CASE DOMAIN accounts = {}
  <2>1. env.admin \in Passwords /\ Admin \in People \ DOMAIN accounts /\ AdminRole \in Roles
    BY <1>1, <1>2, SessionsAssumption DEF Loads, Environment
  <2>2. QED
    BY <1>1, <1>2, <2>1, AddMaps DEF SeedAdmin
<1>3. CASE DOMAIN accounts # {}
  <2>1. UNCHANGED <<store, requests, clock, history>>
    BY <1>1, <1>3 DEF SeedAdmin, store
  <2>2. QED
    BY <2>1, NoLink, Unseen DEF Maps
<1>4. QED
  BY <1>2, <1>3

LEMMA SeedAccountMaps == ASSUME MapInv, Kept, SeedAccount PROVE Maps
<1> DEFINE seed == env.seeds[left]
<1>1. /\ left \in 1..Len(env.seeds) /\ env \in Environments /\ DOMAIN accounts # {}
      /\ UNCHANGED <<sessions, requests, clock, history>>
  BY DEF SeedAccount, MapInv, IInv, Starting, TypeOK
<1>2. seed \in Seed
  BY <1>1, SessionsAssumption DEF Environment
<1>3. CASE seed.password # None /\ seed.name \notin DOMAIN accounts
  <2>1. accounts' = With(accounts, seed.name, [password |-> seed.password, role |-> seed.role])
    BY <1>3 DEF SeedAccount, EnsureAccount
  <2>2. seed.name \in People \ DOMAIN accounts /\ seed.password \in Passwords /\ seed.role \in Roles
    BY <1>2, <1>3 DEF Seed
  <2>3. QED
    BY <1>1, <2>1, <2>2, AddMaps
<1>4. CASE seed.password = None \/ seed.name \in DOMAIN accounts
  <2>1. UNCHANGED <<store, requests, clock, history>>
    BY <1>1, <1>4 DEF SeedAccount, EnsureAccount, store
  <2>2. QED
    BY <2>1, NoLink, Unseen DEF Maps
<1>5. QED
  BY <1>3, <1>4

\* Requests that are broken off, at once or one alone.
LEMMA PendingInFlight ==
    ASSUME MapInv, NEW s \in Slots
    PROVE  Promise!Pending(Asked[s]) <=> InFlight(s)
<1>1. CASE requests[s] = None
  BY <1>1, AskedAt DEF MapInv, Promise!Pending, InFlight
<1>2. CASE requests[s] # None
  <2>1. requests[s] \in Request /\ Asked[s] = Shown(requests[s]) /\ Asked[s] # None
        /\ Asked[s].answer = requests[s].answer
    BY <1>2, AskedAt, ShownTyped DEF MapInv
  <2>2. requests[s].answer = "pending" <=> requests[s].step # "answered"
    BY <1>2 DEF MapInv, Links, LinkedIn, IInv, Requests, Good, GoodIn
  <2>3. QED
    BY <1>2, <2>1, <2>2 DEF Promise!Pending, InFlight
<1>3. QED
  BY <1>1, <1>2

LEMMA BreakMaps ==
    ASSUME MapInv, Kept, NEW S \in SUBSET Slots, \A s \in S : InFlight(s),
           requests' = [s \in Slots |-> IF s \in S THEN Answered(requests[s], "failed") ELSE requests[s]],
           UNCHANGED <<store, clock, history>>
    PROVE  Maps
<1>1. ASSUME NEW s \in S
      PROVE  /\ requests[s] \in Request /\ Asked[s] = Shown(requests[s])
             /\ requests'[s] = Answered(requests[s], "failed") /\ requests'[s] \in Request
             /\ LinkedIn(requests'[s], accounts')
             /\ Asked'[s] = Promise!Answered(Asked[s], "failed")
  <2>1. requests[s] \in Request /\ Asked[s] = Shown(requests[s]) /\ requests[s] # None
    BY AskedAt DEF MapInv, InFlight
  <2> DEFINE done == Answered(requests[s], "failed")
  <2>2. requests'[s] = done
    OBVIOUS
  <2>3. done \in Request /\ done.step = "answered" /\ done.answer = "failed" /\ done.kind = requests[s].kind
        /\ done.token = requests[s].token
    BY <2>1, AnsweredTyped
  <2>4. Shown(done) = Promise!Answered(Shown(requests[s]), "failed")
    BY <2>1, ShownAnswered
  <2> HIDE DEF done
  <2>5. LinkedIn(requests[s], accounts)
    BY <2>1 DEF MapInv, Links
  <2>6. LinkedIn(requests'[s], accounts')
    BY <2>2, <2>3, <2>5 DEF LinkedIn
  <2>7. Asked'[s] = Shown(done)
    BY <2>2, <2>3, ShownTyped DEF Asked
  <2>8. QED
    BY <2>1, <2>2, <2>3, <2>4, <2>6, <2>7 DEF done
<1>2. ASSUME NEW s \in Slots \ S
      PROVE  requests'[s] = requests[s] /\ Asked'[s] = Asked[s]
  BY DEF Asked
<1>3. Links'
  <2>1. ASSUME NEW s \in Slots \ S, requests'[s] # None PROVE LinkedIn(requests'[s], accounts')
    BY <1>2, <2>1, LinkStays DEF MapInv, Links
  <2>2. QED
    BY <1>1, <2>1 DEF Links
<1>4. Promise!Break
  <2>1. S \in SUBSET {s \in Slots : Promise!Pending(Asked[s])}
    BY PendingInFlight
  <2>2. Asked' = [s \in Slots |-> Asked'[s]]
    BY DEF Asked
  <2> DEFINE broken == [s \in Slots |-> IF s \in S THEN Promise!Answered(Asked[s], "failed") ELSE Asked[s]]
  <2> HIDE DEF Asked
  <2>3. \A s \in Slots : Asked'[s] = broken[s]
    BY <1>1, <1>2
  <2>4. Asked' = broken
    BY <2>2, <2>3
  <2>5. UNCHANGED <<accounts, sessions, DOMAIN issued, clock>>
    BY DEF store, history
  <2>6. QED
    BY <2>1, <2>4, <2>5 DEF Promise!Break
<1>5. QED
  BY <1>3, <1>4 DEF Maps, Promise!Next

LEMMA StopMaps == ASSUME MapInv, Kept, Stop PROVE Maps
<1> DEFINE S == {s \in Slots : InFlight(s)}
<1>1. requests' = [s \in Slots |-> IF s \in S THEN Answered(requests[s], "failed") ELSE requests[s]]
  BY DEF Stop
<1>2. QED
  BY <1>1, BreakMaps DEF Stop

LEMMA FailMaps == ASSUME MapInv, Kept, NEW s \in Slots, Fail(s) PROVE Maps
<1>1. InFlight(s) /\ UNCHANGED <<store, clock, history>>
  BY DEF Fail
<1> DEFINE S == {s}
           broken == [x \in Slots |-> IF x \in S THEN Answered(requests[x], "failed") ELSE requests[x]]
<1>2. requests' = broken
  <2> DEFINE done == Answered(requests[s], "failed")
  <2>1. requests' = [requests EXCEPT ![s] = done]
    BY DEF Fail, Answer
  <2>2. requests = [x \in Slots |-> requests[x]]
    BY DEF MapInv, IInv, Requests
  <2>3. \A x \in Slots : broken[x] = IF x = s THEN done ELSE requests[x]
    OBVIOUS
  <2> HIDE DEF done
  <2>4. requests' = [x \in Slots |-> IF x = s THEN done ELSE requests[x]]
    BY <2>1, <2>2
  <2>5. QED
    BY <2>3, <2>4
<1>3. S \in SUBSET Slots /\ \A x \in S : InFlight(x)
  BY <1>1
<1> HIDE DEF S
<1>4. QED
  BY <1>1, <1>2, <1>3, BreakMaps

LEMMA ReceiveMaps == ASSUME MapInv, Kept, NEW s \in Slots, Receive(s) PROVE Maps
<1>1. /\ requests[s] # None /\ ~InFlight(s) /\ requests' = [requests EXCEPT ![s] = None]
      /\ UNCHANGED <<store, clock, history>>
  BY DEF Receive, InFlight
<1>2. Links'
  BY <1>1, OneLink
<1>3. Asked[s] # None /\ ~Promise!Pending(Asked[s])
  BY <1>1, AskedAt, PendingInFlight DEF MapInv
<1>4. Promise!Becomes(s, None) /\ Asked'[s] = None
  <2>1. requests'[s] = None /\ \A x \in Slots : x # s => requests'[x] = requests[x]
    BY <1>1 DEF MapInv, IInv, Requests
  <2>2. /\ Asked = [x \in Slots |-> Asked[x]] /\ Asked' = [x \in Slots |-> Asked'[x]]
        /\ Asked'[s] = None /\ \A x \in Slots : x # s => Asked'[x] = Asked[x]
    BY <2>1 DEF Asked
  <2> HIDE DEF Asked
  <2>3. QED
    BY <2>2 DEF Promise!Becomes
<1>5. UNCHANGED <<accounts, sessions, DOMAIN issued, clock>>
  BY <1>1 DEF store, history
<1>6. Promise!Step(s, Asked[s])
  BY <1>3, <1>4, <1>5 DEF Promise!Step, Promise!Forget
<1>7. QED
  BY <1>2, <1>3, <1>4, <1>6 DEF Maps, Promise!Next

-----------------------------------------------------------------------------
(* The steps of one request. *)

\* A request of a slot that is not answered yet.
LEMMA Unanswered ==
    ASSUME MapInv, NEW s \in Slots, requests[s] # None, requests[s].step # "answered"
    PROVE  /\ requests[s] \in Request /\ requests[s].answer = "pending"
           /\ LinkedIn(requests[s], accounts) /\ Good(requests[s])
           /\ Asked[s] = Shown(requests[s]) /\ Asked[s].answer = "pending" /\ Promise!Pending(Asked[s])
<1>1. requests[s] \in Request /\ requests[s].answer = "pending" /\ Good(requests[s])
      /\ LinkedIn(requests[s], accounts)
  BY DEF MapInv, IInv, Requests, Good, GoodIn, Links
<1>2. Asked[s] = Shown(requests[s]) /\ Asked[s].answer = "pending" /\ Asked[s] # None
  BY <1>1, AskedAt, ShownTyped DEF MapInv
<1>3. QED
  BY <1>1, <1>2 DEF Promise!Pending

LEMMA OneStep ==
    ASSUME Links', NEW s \in Slots, Promise!Step(s, Asked[s]), Asked'[s] # Asked[s]
    PROVE  Maps
BY DEF Maps, Promise!Next

\* An answer, of a request as the step leaves it.
LEMMA Replied ==
    ASSUME MapInv, Kept, NEW s \in Slots, requests[s] # None, requests[s].step # "answered",
           NEW q \in Request, q.kind = requests[s].kind, q.token = requests[s].token,
           NEW answer \in {"ok", "unauthorized", "failed"},
           requests' = [requests EXCEPT ![s] = Answered(q, answer)]
    PROVE  /\ Promise!Becomes(s, Promise!Answered(Shown(q), answer))
           /\ Asked'[s] # Asked[s] /\ Links'
<1> DEFINE done == Answered(q, answer)
<1>1. Asked[s].answer = "pending" /\ LinkedIn(requests[s], accounts)
  BY Unanswered
<1>2. done \in Request /\ done.step = "answered" /\ done.answer = answer /\ done.kind = q.kind
      /\ done.token = q.token
  BY AnsweredTyped
<1>3. Shown(done) = Promise!Answered(Shown(q), answer)
  BY ShownAnswered
<1>4. requests' = [requests EXCEPT ![s] = done]
  OBVIOUS
<1> HIDE DEF done
<1>5. Promise!Becomes(s, Shown(done)) /\ Asked'[s] = Shown(done)
  BY <1>2, <1>4, AskedBecomes DEF MapInv
<1>6. Shown(done).answer # "pending"
  BY <1>2, ShownTyped
<1>7. LinkedIn(done, accounts')
  BY <1>1, <1>2 DEF LinkedIn
<1>8. Links'
  BY <1>4, <1>7, OneLink
<1>9. QED
  BY <1>1, <1>3, <1>5, <1>6, <1>8

\* A step that a slot does not show.
LEMMA SameShown ==
    ASSUME MapInv, Kept, NEW s \in Slots, NEW q \in Request, requests' = [requests EXCEPT ![s] = q],
           requests[s] # None, Shown(q) = Shown(requests[s]), LinkedIn(q, accounts'),
           UNCHANGED <<store, clock, history>>
    PROVE  Maps
<1>1. Links'
  BY OneLink
<1>2. Asked' = Asked
  <2>1. requests'[s] = q /\ q # None /\ \A x \in Slots : x # s => requests'[x] = requests[x]
    BY ShownTyped DEF MapInv, IInv, Requests
  <2>2. /\ Asked = [x \in Slots |-> Asked[x]] /\ Asked' = [x \in Slots |-> Asked'[x]]
        /\ \A x \in Slots : Asked'[x] = Asked[x]
    BY <2>1 DEF Asked
  <2> HIDE DEF Asked
  <2>3. QED
    BY <2>2
<1>3. UNCHANGED Promise!signIns
  BY <1>2 DEF Promise!signIns, store, history
<1>4. QED
  BY <1>1, <1>3 DEF Maps

LEMMA SendMaps == ASSUME MapInv, Kept, NEW s \in Slots, NEW b \in Browsers, Send(s, b) PROVE Maps
<1>1. requests[s] = None /\ UNCHANGED <<store, clock, history>>
  BY DEF Send
<1>2. ASSUME NEW kind \in {"signIn", "signOut", "whoAmI", "use"}, NEW token \in DOMAIN issued \union {None},
             NEW n \in People \union {None}, NEW p \in Passwords \union {None},
             requests' = [requests EXCEPT ![s] = New(b, kind, token, n, p)],
             kind = "signIn" => token = None
      PROVE  Links' /\ Promise!Becomes(s, Promise!Request(kind, token, n, p)) /\ Asked'[s] # Asked[s]
  <2> DEFINE r == New(b, kind, token, n, p)
  <2>1. r \in Request
    BY NewGood DEF MapInv
  <2>2. r.step = "sent" /\ r.kind = kind /\ r.token = token
    BY DEF New
  <2>3. Shown(r) = Promise!Request(kind, token, n, p)
    BY DEF New, Shown, Promise!Request
  <2> HIDE DEF r
  <2>4. requests' = [requests EXCEPT ![s] = r]
    BY <1>2 DEF r
  <2>5. Promise!Becomes(s, Shown(r)) /\ Asked'[s] = Shown(r)
    BY <2>1, <2>4, AskedBecomes DEF MapInv
  <2>6. Asked[s] = None /\ Shown(r) # None
    BY <1>1, <2>1, AskedAt, ShownTyped DEF MapInv
  <2>7. LinkedIn(r, accounts')
    BY <1>2, <2>2 DEF LinkedIn
  <2>8. Links'
    BY <2>4, <2>7, OneLink
  <2>9. QED
    BY <2>3, <2>5, <2>6, <2>8
<1>3. Asked[s] = None /\ UNCHANGED <<accounts, sessions, DOMAIN issued, clock>>
  BY <1>1, AskedAt DEF MapInv, store, history
<1>4. CASE \E kind \in {"signOut", "whoAmI", "use"} :
             requests' = [requests EXCEPT ![s] = New(b, kind, Sent(b), None, None)]
  <2>1. PICK kind \in {"signOut", "whoAmI", "use"} :
             requests' = [requests EXCEPT ![s] = New(b, kind, Sent(b), None, None)]
    BY <1>4
  <2>2. Sent(b) \in DOMAIN issued \union {None}
    BY SentIssued DEF MapInv
  <2>3. Links' /\ Promise!Becomes(s, Promise!Request(kind, Sent(b), None, None)) /\ Asked'[s] # Asked[s]
    BY <1>2, <2>1, <2>2
  <2>4. Promise!Step(s, Asked[s])
    BY <1>3, <2>2, <2>3 DEF Promise!Step, Promise!Ask
  <2>5. QED
    BY <2>3, <2>4, OneStep
<1>5. CASE \E n \in People, p \in Passwords :
             requests' = [requests EXCEPT ![s] = New(b, "signIn", None, n, p)]
  <2>1. PICK n \in People, p \in Passwords :
             requests' = [requests EXCEPT ![s] = New(b, "signIn", None, n, p)]
    BY <1>5
  <2>2. Links' /\ Promise!Becomes(s, Promise!Request("signIn", None, n, p)) /\ Asked'[s] # Asked[s]
    BY <1>2, <2>1
  <2>3. Promise!Step(s, Asked[s])
    BY <1>3, <2>2 DEF Promise!Step, Promise!Ask
  <2>4. QED
    BY <2>2, <2>3, OneStep
<1>6. QED
  BY <1>4, <1>5 DEF Send

LEMMA UseMaps == ASSUME MapInv, Kept, NEW s \in Slots, Use(s) PROVE Maps
<1> DEFINE r == requests[s]
<1>1. /\ r # None /\ r.step = "found" /\ r.kind = "use"
      /\ requests' = [requests EXCEPT ![s] = Answered(r, "ok")]
      /\ UNCHANGED <<store, clock, history>>
  BY DEF Use, Answer
<1>2. r \in Request /\ r.user # None /\ Asked[s] = Shown(r) /\ Promise!Pending(Asked[s])
  BY <1>1, Unanswered DEF LinkedIn
<1>3. Shown(r).kind = "use" /\ Shown(r).user # None
  BY <1>1, <1>2, ShownTyped
<1>4. Promise!Becomes(s, Promise!Answered(Shown(r), "ok")) /\ Asked'[s] # Asked[s] /\ Links'
  BY <1>1, <1>2, Replied
<1>5. Promise!Serve(s, Asked[s])
  BY <1>1, <1>2, <1>3, <1>4 DEF Promise!Serve, store, history
<1>6. QED
  BY <1>2, <1>4, <1>5, OneStep DEF Promise!Step

\* The look-up is of the session in the file.
LEMMA LooksUp ==
    ASSUME IInv, NEW token \in DOMAIN issued \union {None}
    PROVE  /\ UserOf(token) # None <=> Promise!Live(token)
           /\ UserOf(token) # None => UserOf(token) = sessions[token].user
<1>1. DOMAIN sessions \subseteq Tokens /\ None \notin Tokens /\ None \notin People
  BY SessionsAssumption DEF IInv, TypeOK, IsTable
<1>2. CASE token \in DOMAIN sessions
  <2>1. sessions[token].user \in People /\ sessions[token].user \in DOMAIN accounts
        /\ sessions[token].expires \in Nat /\ clock \in Nat
    BY <1>2 DEF IInv, TypeOK, IsTable, Session, Stored
  <2>2. Live(token) <=> Promise!Live(token)
    BY <2>1 DEF Live, Promise!Live
  <2>3. QED
    BY <1>1, <1>2, <2>1, <2>2 DEF UserOf
<1>3. CASE token \notin DOMAIN sessions
  BY <1>3 DEF UserOf, Live, Promise!Live
<1>4. QED
  BY <1>2, <1>3

Known(r, u) == [r EXCEPT !.user = u]
Found(r, u) == [r EXCEPT !.user = u, !.step = "found"]

LEMMA KnownTyped ==
    ASSUME NEW r \in Request, NEW u \in People \union {None}
    PROVE  /\ Known(r, u) \in Request /\ Known(r, u).user = u /\ Known(r, u).kind = r.kind
           /\ Known(r, u).token = r.token /\ Known(r, u).name = r.name /\ Known(r, u).made = r.made
           /\ Known(r, u).password = r.password /\ Known(r, u).answer = r.answer
BY DEF Known, Request

LEMMA FoundTyped ==
    ASSUME NEW r \in Request, NEW u \in People \union {None}
    PROVE  /\ Found(r, u) \in Request /\ Found(r, u).user = u /\ Found(r, u).kind = r.kind
           /\ Found(r, u).token = r.token /\ Found(r, u).name = r.name /\ Found(r, u).made = r.made
           /\ Found(r, u).password = r.password /\ Found(r, u).answer = r.answer
           /\ Found(r, u).step = "found"
BY DEF Found, Request

LEMMA ShownUser ==
    ASSUME NEW r \in Request, NEW u \in People \union {None}
    PROVE  /\ Shown(Known(r, u)) = [Shown(r) EXCEPT !.user = u]
           /\ Shown(Found(r, u)) = [Shown(r) EXCEPT !.user = u]
           /\ r.user = u => Shown(Known(r, u)) = Shown(r) /\ Shown(Found(r, u)) = Shown(r)
<1> DEFINE shown == [kind |-> r.kind, token |-> r.token, name |-> r.name, password |-> r.password,
                     user |-> u, answer |-> r.answer, made |-> r.made]
<1>1. Shown(Known(r, u)) = shown /\ Shown(Found(r, u)) = shown
  BY KnownTyped, FoundTyped DEF Shown
<1>2. [Shown(r) EXCEPT !.user = u] = shown /\ (r.user = u => Shown(r) = shown)
  BY DEF Shown
<1>3. QED
  BY <1>1, <1>2

LEMMA FindMaps == ASSUME MapInv, Kept, NEW s \in Slots, Find(s) PROVE Maps
<1> DEFINE r == requests[s]
           user == UserOf(r.token)
           answer == IF user # None THEN "ok" ELSE "unauthorized"
<1>1. /\ r # None /\ r.step = "sent" /\ UNCHANGED <<store, clock, history>>
      /\ requests' = [requests EXCEPT ![s] =
             IF r.kind = "whoAmI" \/ (user = None /\ ~Unauthenticated(r))
             THEN Answered(Known(r, user), answer) ELSE Found(r, user)]
  BY DEF Find, Known, Found
<1>2. /\ r \in Request /\ r.user = None /\ LinkedIn(r, accounts) /\ r.token \in DOMAIN issued \union {None}
      /\ Asked[s] = Shown(r) /\ Promise!Pending(Asked[s])
  BY <1>1, Unanswered DEF Good, GoodIn
<1>3. /\ user \in People \union {None}
      /\ user # None <=> Promise!Live(r.token)
      /\ user # None => user = sessions[r.token].user
      /\ r.token = None => user = None
  BY <1>2, UserFacts, LooksUp DEF MapInv
<1>4. /\ Asked[s].kind = r.kind /\ Asked[s].token = r.token /\ Asked[s].user = None
  BY <1>2, ShownTyped
<1>5. UNCHANGED <<accounts, sessions, DOMAIN issued, clock>>
  BY <1>1 DEF store, history
<1> DEFINE known == Known(r, user)
           found == Found(r, user)
<1>6. /\ known \in Request /\ known.kind = r.kind /\ known.token = r.token
      /\ found \in Request /\ found.kind = r.kind /\ found.token = r.token /\ found.user = user
      /\ found.step = "found" /\ found.answer = r.answer
  BY <1>2, <1>3, KnownTyped, FoundTyped
<1>7. /\ Shown(known) = [Asked[s] EXCEPT !.user = user] /\ Shown(found) = Shown(known)
      /\ user = None => Shown(known) = Asked[s]
  BY <1>2, <1>3, ShownUser
<1>8. r.kind \in {"signIn", "signOut", "whoAmI", "use"}
  BY <1>2 DEF Request
<1> HIDE DEF known, found, user
<1>9. CASE r.kind = "whoAmI" \/ (user = None /\ ~Unauthenticated(r))
  <2>1. requests' = [requests EXCEPT ![s] = Answered(known, answer)]
    BY <1>1, <1>9 DEF known, user
  <2>2. answer \in {"ok", "unauthorized", "failed"}
    OBVIOUS
  <2>3. /\ Promise!Becomes(s, Promise!Answered(Shown(known), answer)) /\ Asked'[s] # Asked[s] /\ Links'
    BY <1>1, <1>6, <2>1, <2>2, Replied
  <2>4. CASE user # None
    <3>1. r.kind = "whoAmI" /\ answer = "ok"
      BY <1>9, <2>4
    <3>2. Promise!Recognise(s, Asked[s])
      BY <1>3, <1>4, <1>5, <1>7, <2>3, <2>4, <3>1 DEF Promise!Recognise
    <3>3. QED
      BY <1>2, <2>3, <3>2, OneStep DEF Promise!Step
  <2>5. CASE user = None
    <3>1. r.kind \in {"whoAmI", "use"} /\ answer = "unauthorized"
      BY <1>8, <1>9, <2>5 DEF Unauthenticated
    <3>2. Promise!TurnAway(s, Asked[s])
      BY <1>3, <1>4, <1>5, <1>7, <2>3, <2>5, <3>1 DEF Promise!TurnAway
    <3>3. QED
      BY <1>2, <2>3, <3>2, OneStep DEF Promise!Step
  <2>6. QED
    BY <2>4, <2>5
<1>10. CASE ~(r.kind = "whoAmI" \/ (user = None /\ ~Unauthenticated(r)))
  <2>1. requests' = [requests EXCEPT ![s] = found]
    BY <1>1, <1>10 DEF found, user
  <2>2. LinkedIn(found, accounts')
    BY <1>2, <1>6, <1>10 DEF LinkedIn, Unauthenticated
  <2>3. CASE user = None
    BY <1>1, <1>2, <1>6, <1>7, <2>1, <2>2, <2>3, SameShown
  <2>4. CASE user # None
    <3>1. r.kind \notin {"signIn", "whoAmI"}
      BY <1>2, <1>3, <1>10, <2>4 DEF LinkedIn
    <3>2. Promise!Becomes(s, Shown(found)) /\ Asked'[s] = Shown(found)
      BY <1>6, <2>1, AskedBecomes DEF MapInv
    <3>3. Shown(found).user # None
      BY <1>6, <2>4, ShownTyped
    <3>4. Promise!Recognise(s, Asked[s])
      BY <1>3, <1>4, <1>5, <1>7, <2>4, <3>1, <3>2 DEF Promise!Recognise
    <3>5. Links'
      BY <2>1, <2>2, OneLink
    <3>6. Promise!Step(s, Asked[s])
      BY <1>2, <3>4 DEF Promise!Step
    <3>7. QED
      BY <1>4, <3>2, <3>3, <3>5, <3>6, OneStep
  <2>5. QED
    BY <2>3, <2>4
<1>11. QED
  BY <1>9, <1>10

LEMMA MatchesShown ==
    ASSUME NEW r \in Request
    PROVE  Matches(r) <=> Promise!Matches(Shown(r))
BY ShownTyped DEF Matches, Promise!Matches

LEMMA AuthenticateMaps == ASSUME MapInv, Kept, NEW s \in Slots, Authenticate(s) PROVE Maps
<1> DEFINE r == requests[s]
           checked == [r EXCEPT !.step = "checked"]
<1>1. r # None /\ r.step = "found" /\ r.kind = "signIn" /\ UNCHANGED <<store, clock, history>>
  BY DEF Authenticate
<1>2. /\ r \in Request /\ LinkedIn(r, accounts) /\ Asked[s] = Shown(r) /\ Promise!Pending(Asked[s])
  BY <1>1, Unanswered
<1>3. CASE Matches(r)
  <2>1. requests' = [requests EXCEPT ![s] = checked]
    BY <1>3 DEF Authenticate
  <2>2. /\ checked \in Request /\ checked.step = "checked" /\ checked.kind = r.kind
        /\ checked.token = r.token /\ checked.name = r.name /\ checked.password = r.password
        /\ checked.user = r.user /\ checked.answer = r.answer /\ checked.made = r.made
    BY <1>2 DEF Request
  <2> HIDE DEF checked
  <2>3. Shown(checked) = Shown(r)
    BY <2>2 DEF Shown
  <2>4. LinkedIn(checked, accounts')
    BY <1>1, <1>2, <1>3, <2>2 DEF LinkedIn, Matches, MatchesIn, store
  <2>5. QED
    BY <1>1, <2>1, <2>2, <2>3, <2>4, SameShown
<1>4. CASE ~Matches(r)
  <2>1. requests' = [requests EXCEPT ![s] = Answered(r, "unauthorized")]
    BY <1>4 DEF Authenticate, Answer
  <2>2. Promise!Becomes(s, Promise!Answered(Shown(r), "unauthorized")) /\ Asked'[s] # Asked[s] /\ Links'
    BY <1>1, <1>2, <2>1, Replied
  <2>3. Shown(r).kind = "signIn" /\ ~Promise!Matches(Shown(r))
    BY <1>1, <1>2, <1>4, ShownTyped, MatchesShown
  <2>4. Promise!Reject(s, Asked[s])
    BY <1>1, <1>2, <2>2, <2>3 DEF Promise!Reject, store, history
  <2>5. QED
    BY <1>2, <2>2, <2>4, OneStep DEF Promise!Step
<1>5. QED
  BY <1>3, <1>4

LEMMA CreateSessionMaps == ASSUME MapInv, Kept, NEW s \in Slots, CreateSession(s) PROVE Maps
<1> DEFINE r == requests[s]
           session == [user |-> r.name, expires |-> clock + SessionTTL]
<1>1. PICK token \in Tokens \ DOMAIN issued :
        /\ sessions' = With(sessions, token, session)
        /\ issued' = With(issued, token, session)
        /\ requests' = [requests EXCEPT ![s] = Answered([r EXCEPT !.made = token], "ok")]
  BY DEF CreateSession
<1> DEFINE made == [r EXCEPT !.made = token]
<1>2. r # None /\ r.step = "checked" /\ UNCHANGED <<accounts, clock>>
  BY DEF CreateSession
<1>3. /\ r \in Request /\ r.kind = "signIn" /\ Matches(r)
      /\ Asked[s] = Shown(r) /\ Promise!Pending(Asked[s])
  BY <1>2, Unanswered DEF LinkedIn, Matches, MatchesIn, Good, GoodIn
<1>4. /\ Asked[s].kind = "signIn" /\ Promise!Matches(Asked[s]) /\ Asked[s].name = r.name
  BY <1>3, ShownTyped, MatchesShown
<1>5. /\ made \in Request /\ made.kind = r.kind /\ made.token = r.token /\ made.name = r.name
      /\ made.password = r.password /\ made.user = r.user /\ made.answer = r.answer /\ made.made = token
  BY <1>3 DEF Request
<1>6. Shown(made) = [Asked[s] EXCEPT !.made = token]
  <2> HIDE DEF made
  <2>1. QED
    BY <1>3, <1>5 DEF Shown
<1>7. requests' = [requests EXCEPT ![s] = Answered(made, "ok")]
  BY <1>1
<1> HIDE DEF made
<1>8. Promise!Becomes(s, Promise!Answered(Shown(made), "ok")) /\ Asked'[s] # Asked[s] /\ Links'
  BY <1>2, <1>5, <1>7, Replied
<1>9. DOMAIN issued' = DOMAIN issued \union {token} /\ sessions' = Promise!With(sessions, token, session)
  BY <1>1 DEF With, Promise!With
<1>10. Promise!SignIn(s, Asked[s])
  BY <1>1, <1>2, <1>4, <1>6, <1>8, <1>9 DEF Promise!SignIn
<1>11. QED
  BY <1>3, <1>8, <1>10, OneStep DEF Promise!Step

LEMMA EndSessionMaps == ASSUME MapInv, Kept, NEW s \in Slots, EndSession(s) PROVE Maps
<1> DEFINE r == requests[s]
<1>1. /\ r # None /\ r.step = "found" /\ r.kind = "signOut" /\ UNCHANGED <<accounts, clock, issued>>
      /\ sessions' = Without(sessions, {r.token} \ {None})
      /\ requests' = [requests EXCEPT ![s] = Answered(r, "ok")]
  BY DEF EndSession, Ends, Answer
<1>2. r \in Request /\ Asked[s] = Shown(r) /\ Promise!Pending(Asked[s])
  BY <1>1, Unanswered
<1>3. Asked[s].kind = "signOut" /\ Asked[s].token = r.token
  BY <1>1, <1>2, ShownTyped
<1>4. Promise!Becomes(s, Promise!Answered(Shown(r), "ok")) /\ Asked'[s] # Asked[s] /\ Links'
  BY <1>1, <1>2, Replied
<1>5. sessions' = [t \in DOMAIN sessions \ {r.token} |-> sessions[t]]
  <2>1. None \notin DOMAIN sessions
    BY SessionsAssumption DEF MapInv, IInv, TypeOK, IsTable
  <2>2. DOMAIN sessions \ ({r.token} \ {None}) = DOMAIN sessions \ {r.token}
    BY <2>1
  <2>3. QED
    BY <1>1, <2>2 DEF Without
<1>6. Promise!SignOut(s, Asked[s])
  BY <1>1, <1>2, <1>3, <1>4, <1>5 DEF Promise!SignOut
<1>7. QED
  BY <1>2, <1>4, <1>6, OneStep DEF Promise!Step

LEMMA TickMaps == ASSUME MapInv, Kept, Tick PROVE Maps
<1>1. Links'
  BY NoLink DEF Tick
<1>2. Promise!Tick
  BY DEF Tick, Promise!Tick, Asked, store, history
<1>3. QED
  BY <1>1, <1>2 DEF Maps, Promise!Next

LEMMA StepMaps == ASSUME MapInv, [Next]_vars PROVE MapInv' /\ Maps
<1>1. Kept /\ IInv'
  BY AccountsStay, StepInvariant DEF MapInv
<1>2. CASE SeedAdmin \/ SeedAccount \/ Stop \/ Tick
  BY <1>1, <1>2, SeedAdminMaps, SeedAccountMaps, StopMaps, TickMaps DEF Maps, MapInv
<1>3. CASE Start \/ Seeded \/ Build \/ UNCHANGED vars
  <2>1. UNCHANGED <<store, requests, clock, history>>
    BY <1>3 DEF Start, Seeded, Build, vars, store, history
  <2>2. QED
    BY <1>1, <2>1, NoLink, Unseen DEF Maps, MapInv
<1>4. ASSUME NEW s \in Slots, Find(s) \/ Use(s) \/ Authenticate(s) \/ CreateSession(s) \/ EndSession(s)
      PROVE  MapInv' /\ Maps
  <2>1. Maps
    BY <1>1, <1>4, FindMaps, UseMaps, AuthenticateMaps, CreateSessionMaps, EndSessionMaps
  <2>2. QED
    BY <1>1, <2>1 DEF Maps, MapInv
<1>5. ASSUME NEW s \in Slots, Fail(s) \/ Receive(s) \/ \E b \in Browsers : Send(s, b)
      PROVE  MapInv' /\ Maps
  <2>1. Maps
    BY <1>1, <1>5, FailMaps, ReceiveMaps, SendMaps
  <2>2. QED
    BY <1>1, <2>1 DEF Maps, MapInv
<1>6. QED
  BY <1>2, <1>3, <1>4, <1>5 DEF Next

\* What the steps of a request say of it holds in every state.
THEOREM LinksHold == Spec => []MapInv
<1>1. MapInv /\ [Next]_vars => MapInv'
  BY StepMaps
<1>2. Init => MapInv
  BY InitMaps
<1>3. QED
  BY <1>1, <1>2, PTL DEF Spec

\* However the process starts, breaks off and stops, each request takes effect at one
\* moment, and accounts are made once: Sessions implements SignIns.
THEOREM SessionsImplementSignIns == Spec => ImplementsSignIns
<1>1. Init => Promise!Init
  BY InitMaps
<1>2. MapInv /\ [Next]_vars => [Promise!Next]_(Promise!signIns)
  BY StepMaps DEF Maps
<1>3. QED
  BY <1>1, <1>2, LinksHold, PTL DEF Spec, ImplementsSignIns, Promise!Spec
=============================================================================
