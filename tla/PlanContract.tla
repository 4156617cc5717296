---------------------------- MODULE PlanContract ----------------------------
(***************************************************************************)
(* What POST /api/plan and POST /api/invoke promise whoever asks, however  *)
(* many collaborators are consulted on the way: one answer to a request,   *)
(* and on the way to it one call of one service or none.  Planning         *)
(* implements it.                                                          *)
(***************************************************************************)
EXTENDS Integers, FiniteSets

CONSTANTS Users, Admins, Operations, Safe, Params, ParamsOf, BodyOf, Required, Enums, Texts,
          EnumValues, Values, Requests, Grants, None

VARIABLES
    permissions,    \* the operations each account holds
    stage,          \* "idle", "open", "calling", "answered"
    request,
    may,            \* what the caller could call at some moment of the request
    call, service,  \* the one call, and how the service answered
    reply

contract == <<permissions, stage, request, may, call, service, reply>>

Args == [Params -> Values \union {None}]

Init ==
    /\ permissions = [u \in Users |-> {}]
    /\ stage = "idle" /\ request = None /\ may = {}
    /\ call = None /\ service = None /\ reply = None

Callable(u) == IF u \in Admins THEN Operations ELSE permissions[u]

Said(v) == v \in request.says \/ \E p \in Params : request.answers[p] = v

Insisted == request.kind = "plan" /\ request.preferred # None

Says(kind, op, args, param, named) ==
    reply' = [kind |-> kind, op |-> op, args |-> args, param |-> param, named |-> named]

Bare(kind, param, named) == Says(kind, None, [p \in Params |-> None], param, named)

Ask ==
    /\ stage = "idle" /\ stage' = "open"
    /\ request' \in Requests /\ may' = Callable(request'.user)
    /\ UNCHANGED <<permissions, call, service, reply>>

\* A form for what may be called, of the alternative when one is insisted on; its free
\* text is the person's.
OpensForm ==
    \E op \in may, args \in Args :
        /\ Says("form", op, args, None, {})
        /\ Insisted => op = request.preferred
        /\ \A p \in Texts \intersect (ParamsOf[op] \union BodyOf[op]) : args[p] # None => Said(args[p])

\* What a question that insists on nothing may be told besides.
Responds ==
    \/ Bare("none", None, {})
    \/ \E ops \in SUBSET may : Bare("capabilities", None, ops)
    \/ request.workspace /\ \E op \in may, args \in Args : Says("proposal", op, args, None, {})

\* No service hears of it.  A confirmed call is only ever refused this way.
AnswerAlone ==
    /\ stage = "open" /\ stage' = "answered"
    /\ \/ Bare("error", None, {})
       \/ request.kind = "plan" /\ (OpensForm \/ \E p \in Params \union {None} : Bare("ask", p, {}))
       \/ request.kind = "plan" /\ ~Insisted /\ Responds
    /\ UNCHANGED <<permissions, request, may, call, service>>

\* A question calls what is safe with nothing guessed, and the alternative insisted on
\* only when the answers give all it requires.
MayAsk(op, args) ==
    /\ op \in Safe
    /\ \A p \in ParamsOf[op] \intersect Enums : args[p] \in EnumValues => Said(args[p])
    /\ Insisted => op = request.preferred /\ \A p \in Required[op] : request.answers[p] # None

\* A confirmed call is carried out as it was confirmed.
CallService ==
    /\ stage = "open" /\ stage' = "calling"
    /\ \E op \in may, args \in Args :
         /\ IF request.kind = "plan" THEN MayAsk(op, args) ELSE op = request.op /\ args = request.args
         /\ call' = [op |-> op, args |-> args]
    /\ UNCHANGED <<permissions, request, may, service, reply>>

\* The call made is what is shown, with two alternatives at most to a question that
\* insisted on none.
ShowResult ==
    \E named \in SUBSET (may \ {call.op}) :
        /\ Cardinality(named) <= 2
        /\ request.kind = "invoke" \/ Insisted => named = {}
        /\ Says("result", call.op, call.args, None, named)

\* A confirmed call that was declined is answered as one that was not; one that was accepted
\* may still be answered with an error.
Serve ==
    /\ stage = "calling" /\ stage' = "answered"
    /\ \/ service' = "accepted" /\ (ShowResult \/ Bare("error", None, {}))
       \/ service' = "declined" /\ (IF request.kind = "plan" THEN Bare("none", None, {}) ELSE ShowResult)
       \/ service' = "failed" /\ Bare("error", None, {})
    /\ UNCHANGED <<permissions, request, may, call>>

Close ==
    /\ stage = "answered"
    /\ stage' = "idle" /\ request' = None /\ may' = {}
    /\ call' = None /\ service' = None /\ reply' = None
    /\ UNCHANGED permissions

Regrant(u, ops) ==
    /\ permissions' = [permissions EXCEPT ![u] = ops]
    /\ may' = IF stage \in {"open", "calling"} /\ request.user = u THEN may \union ops ELSE may
    /\ UNCHANGED <<stage, request, call, service, reply>>

Next ==
    \/ Ask \/ AnswerAlone \/ CallService \/ Serve \/ Close
    \/ \E u \in Users, ops \in Grants : Regrant(u, ops)

Spec == Init /\ [][Next]_contract
=============================================================================
