-------------------------- MODULE MCConsultations --------------------------
(***************************************************************************)
(* Instances of Consultations for TLC: a stock service with a list and a   *)
(* listing whose id contains the list's, an attendance service with an     *)
(* operation of the same id; a filled operation of two enums.              *)
(***************************************************************************)
EXTENDS Consultations

CONSTANTS stock, attendance, list, listItems, list_capabilities, propose_panel, none, status, kind, open, closed

At(service, id) == [service |-> service, id |-> id]
OfId(a, b, c, d, e) ==
    [i \in {list, listItems, list_capabilities, propose_panel, none} |->
        CASE i = list -> a [] i = listItems -> b [] i = list_capabilities -> c [] i = propose_panel -> d [] OTHER -> e]

IdLengths == OfId(4, 9, 17, 13, 4)
Parts == {<<list, listItems>>, <<list, list_capabilities>>}
Ranks == [k \in ({stock, attendance} \X OpOptions) \union ({None} \X Builtins) |->
             IF k[1] = None THEN OfId(0, 0, 0, 2, 1)[k[2]]
             ELSE (IF k[2] = Unknown THEN 5 ELSE OfId(0, 1, 2, 4, 3)[k[2]]) + (IF k[1] = stock THEN 9 ELSE 3)]

ParamList == <<status, kind>>
Enums == [p \in {status, kind} |-> IF p = status THEN {open, closed} ELSE {open}]
Pauses == <<5, 15>>

\* MaxChoiceOptions 5 stands for 255: two endpoints are asked about in one question,
\* three in two, and six of one service in none.
Short == <<At(stock, list), At(stock, listItems)>>
Shared == <<At(stock, list), At(attendance, list)>>
Long == <<At(stock, list), At(attendance, list), At(stock, listItems)>>
Twice == <<At(stock, list), At(stock, listItems), At(stock, list)>>
TooLarge == [i \in 1..6 |-> At(stock, list)]

A(k, picker, shortlist, workspace, fanOut, refusal) ==
    [kind |-> k, picker |-> picker, shortlist |-> shortlist, workspace |-> workspace, fanOut |-> fanOut, refusal |-> refusal]

Everything ==
    {A("pick", p, s, w, FALSE, "off") : p \in {"hybrid", "jev", "local"}, s \in {Short, Shared, Twice}, w \in BOOLEAN}
    \union {A("pick", p, Long, FALSE, FALSE, "off") : p \in {"hybrid", "jev", "local"}}
    \union {A("pick", p, s, FALSE, TRUE, "off") : p \in {"hybrid", "jev"}, s \in {Short, Twice}}
    \union {A("pick", p, s, TRUE, FALSE, "off") : p \in {"hybrid", "jev", "local"}, s \in {<<>>, TooLarge}}
    \union {A(k, None, s, FALSE, FALSE, "off") : k \in {"gate", "route"}, s \in {<<>>, Shared}}
    \union {A("fill", None, Short, FALSE, FALSE, r) : r \in {"off", "options", "separate"}}
=============================================================================
