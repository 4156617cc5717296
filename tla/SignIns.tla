------------------------------ MODULE SignIns ------------------------------
(***************************************************************************)
(* What accounts and sessions promise, however often the process behind    *)
(* them is stopped, started and configured anew: an account is made once,  *)
(* the admin's first; a request takes effect at one moment, under the      *)
(* accounts and sessions of that moment, or never.  Sessions implements    *)
(* it.                                                                     *)
(***************************************************************************)
EXTENDS Integers

CONSTANTS People, Passwords, Roles, Admin, AdminRole, Slots, Tokens, SessionTTL, None

VARIABLES
    accounts,    \* password and role, by name
    sessions,    \* account and expiry of those that were not ended, by token
    used,        \* the tokens ever handed out
    asked,       \* requests: who was recognised, what is answered
    clock

signIns == <<accounts, sessions, used, asked, clock>>

Init ==
    /\ accounts = [n \in {} |-> None] /\ sessions = [t \in {} |-> None] /\ used = {}
    /\ asked = [s \in Slots |-> None]
    /\ clock = 0

With(f, k, v) == [x \in DOMAIN f \union {k} |-> IF x = k THEN v ELSE f[x]]

\* Nobody comes before the admin, and nobody's account is made twice.
MakeAccount ==
    /\ accounts' # accounts
    /\ \E n \in People \ DOMAIN accounts, p \in Passwords, role \in Roles :
         /\ DOMAIN accounts = {} => n = Admin /\ role = AdminRole
         /\ accounts' = With(accounts, n, [password |-> p, role |-> role])
    /\ UNCHANGED <<sessions, used, asked, clock>>

Becomes(s, r) == asked' = [asked EXCEPT ![s] = r]

Request(kind, token, n, p) ==
    [kind |-> kind, token |-> token, name |-> n, password |-> p,
     user |-> None, answer |-> "pending", made |-> None]

Ask(s) ==
    /\ \/ \E kind \in {"signOut", "whoAmI", "use"}, token \in used \union {None} :
            Becomes(s, Request(kind, token, None, None))
       \/ \E n \in People, p \in Passwords : Becomes(s, Request("signIn", None, n, p))
    /\ UNCHANGED <<accounts, sessions, used, clock>>

\* What was sent to sign in is of no more use.
Answered(r, answer) == [r EXCEPT !.answer = answer, !.name = None, !.password = None]

Live(token) == token \in DOMAIN sessions /\ clock < sessions[token].expires

\* The session decides who asks; who only wanted to know that is answered.
Recognise(s, r) ==
    /\ r.kind # "signIn" /\ r.user = None /\ Live(r.token)
    /\ LET known == [r EXCEPT !.user = sessions[r.token].user]
       IN Becomes(s, IF r.kind = "whoAmI" THEN Answered(known, "ok") ELSE known)
    /\ UNCHANGED <<accounts, sessions, used, clock>>

TurnAway(s, r) ==
    /\ r.kind \in {"whoAmI", "use"} /\ ~Live(r.token)
    /\ Becomes(s, Answered(r, "unauthorized"))
    /\ UNCHANGED <<accounts, sessions, used, clock>>

Serve(s, r) ==
    /\ r.kind = "use" /\ r.user # None
    /\ Becomes(s, Answered(r, "ok"))
    /\ UNCHANGED <<accounts, sessions, used, clock>>

Matches(r) == r.name \in DOMAIN accounts /\ accounts[r.name].password = r.password

\* At the moment a session is made its account is there and has the password given.
SignIn(s, r) ==
    /\ r.kind = "signIn" /\ Matches(r)
    /\ \E token \in Tokens \ used :
         /\ used' = used \union {token}
         /\ sessions' = With(sessions, token, [user |-> r.name, expires |-> clock + SessionTTL])
         /\ Becomes(s, Answered([r EXCEPT !.made = token], "ok"))
    /\ UNCHANGED <<accounts, clock>>

Reject(s, r) ==
    /\ r.kind = "signIn" /\ ~Matches(r)
    /\ Becomes(s, Answered(r, "unauthorized"))
    /\ UNCHANGED <<accounts, sessions, used, clock>>

\* The session is no more for anybody, and no other is touched.
SignOut(s, r) ==
    /\ r.kind = "signOut"
    /\ sessions' = [t \in DOMAIN sessions \ {r.token} |-> sessions[t]]
    /\ Becomes(s, Answered(r, "ok"))
    /\ UNCHANGED <<accounts, used, clock>>

Forget(s) ==
    /\ Becomes(s, None)
    /\ UNCHANGED <<accounts, sessions, used, clock>>

Pending(r) == r # None /\ r.answer = "pending"

Step(s, r) ==
    \/ r = None /\ Ask(s)
    \/ Pending(r) /\ (\/ Recognise(s, r) \/ TurnAway(s, r) \/ Serve(s, r)
                     \/ SignIn(s, r) \/ Reject(s, r) \/ SignOut(s, r))
    \/ r # None /\ ~Pending(r) /\ Forget(s)

\* Requests fail, one alone or all that are pending at once, and leave nothing behind.
Break ==
    /\ \E S \in SUBSET {s \in Slots : Pending(asked[s])} :
         asked' = [s \in Slots |-> IF s \in S THEN Answered(asked[s], "failed") ELSE asked[s]]
    /\ UNCHANGED <<accounts, sessions, used, clock>>

Tick ==
    /\ clock' = clock + 1
    /\ UNCHANGED <<accounts, sessions, used, asked>>

Next ==
    \/ Tick \/ MakeAccount \/ Break
    \/ \E s \in Slots : asked'[s] # asked[s] /\ Step(s, asked[s])

Spec == Init /\ [][Next]_signIns
=============================================================================
