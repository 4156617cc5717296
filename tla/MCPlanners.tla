---------------------------- MODULE MCPlanners ----------------------------
(***************************************************************************)
(* Instances of Planners for TLC.  Two services share the id find: one of  *)
(* them takes a status that is open or 1, the other a free one.  edit has  *)
(* the place of what it changes in its path and a status of its own in its *)
(* body; load carries a body that is no object.                            *)
(***************************************************************************)
EXTENDS Planners

CONSTANTS stock, clocks, find, edit, load, status, place, open, one, shut

At(s, i) == [service |-> s, id |-> i]
Offer == <<At(stock, find), At(clocks, find), At(stock, edit), At(clocks, load)>>

Plainly(names) == [n \in names |-> {}]
Finding(values) ==
    [parameters |-> [n \in {status} |-> values], path |-> {}, required |-> {}, body |-> "none",
     properties |-> Plainly({}), needs |-> {}, safe |-> TRUE]
Editing ==
    [parameters |-> [n \in {place, status} |-> IF n = status THEN {open, shut} ELSE {}],
     path |-> {place}, required |-> {place}, body |-> "object",
     properties |-> [n \in {status} |-> {open}], needs |-> {status}, safe |-> FALSE]
Loading ==
    [parameters |-> Plainly({place}), path |-> {place}, required |-> {place}, body |-> "plain",
     properties |-> Plainly({}), needs |-> {}, safe |-> FALSE]
Contracted ==
    [e \in Endpoints |-> IF e.id = edit THEN Editing ELSE IF e.id = load THEN Loading
                         ELSE IF e.service = stock THEN Finding({open, one}) ELSE Finding({})]

\* Nothing, one argument, or two.
Arg(n, v) == [m \in {n} |-> v]
Writes ==
    {NoArgs} \union {Arg(status, v) : v \in {open, shut, Number, Null}} \union {Arg(place, open), Arg(BodyName, one)}
    \union {[m \in {place, status} |-> IF m = place THEN v ELSE open] : v \in {Number, Null}}
    \union {[m \in {place, status} |-> shut]}

Requested ==
    [kind: {"plan"}, adapter: {"toolcall", "jsonmode"}, shortlist: {Offer, <<At(clocks, find)>>}, workspace: BOOLEAN]
    \union [kind: {"invoke"}, service: Services \union {Unknown}, id: Ids, args: Writes]
=============================================================================
