---------------------------- MODULE MCPlanning ----------------------------
(***************************************************************************)
(* Instances of Planning for TLC: a stock service with a list that takes   *)
(* an enum, a search that requires free text and a create with a body, and *)
(* a clock service whose one operation takes nothing.                      *)
(***************************************************************************)
EXTENDS Planning

CONSTANTS list, search, create, clock, stock, attendance, status, name, open, box

OperationIds == {list, search, create, clock}
Service  == [op \in OperationIds |-> IF op = clock THEN attendance ELSE stock]
Takes    == [op \in OperationIds |-> IF op = list \/ op = create THEN {status}
                                     ELSE IF op = search THEN {name} ELSE {}]
Carries  == [op \in OperationIds |-> IF op = create THEN {name} ELSE {}]
Requires == [op \in OperationIds |-> IF op = create \/ op = search THEN {name} ELSE {}]

\* Questions that say nothing, the enum's value or the text, alone or answering an ask.
Questions ==
    [kind: {"plan"}, user: Users, says: {{}, {box}}, workspace: BOOLEAN, preferred: {None, list, create},
     answers: {[p \in {status, name} |-> None], [p \in {status, name} |-> IF p = status THEN open ELSE None]}]
Confirmed ==
    [kind: {"invoke"}, user: Users, op: {list, create},
     args: {[p \in {status, name} |-> None], [p \in {status, name} |-> IF p = status THEN open ELSE box]}]
Everything == Questions \union Confirmed

\* Nothing, half of one service and the other, or the rest of the first.
Given == {{}, {list, create, clock}, {search, create}}

Plain == [staged |-> FALSE, picker |-> FALSE, gate |-> FALSE, router |-> FALSE,
          fillSkip |-> FALSE, fillEnum |-> FALSE, shortlist |-> 0]

\* One call over the whole catalogue or over a shortlist; the two stages with and
\* without their advisers; and the two stages asked for without a picker.
Deployments ==
    {Plain,
     [Plain EXCEPT !.router = TRUE, !.shortlist = 3],
     [Plain EXCEPT !.staged = TRUE, !.picker = TRUE, !.shortlist = 3],
     [Plain EXCEPT !.staged = TRUE, !.picker = TRUE, !.gate = TRUE, !.fillSkip = TRUE, !.fillEnum = TRUE],
     [Plain EXCEPT !.staged = TRUE]}
============================================================================
