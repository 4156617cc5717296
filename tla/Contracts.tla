----------------------------- MODULE Contracts -----------------------------
(***************************************************************************)
(* What the platform keeps of an operation's contract, and what it does    *)
(* with arguments given for it: the tool a model is shown, the two checks  *)
(* of the arguments, and their places in the request to the service.       *)
(***************************************************************************)
EXTENDS Integers

CONSTANTS
    Names,             \* the names of parameters and of fields of a body
    Texts,             \* the strings arguments hold
    Number, Digits,    \* a number, and the text it is printed as
    Null,              \* an argument given as null
    BodyName,          \* "body", which carries a body that is no object
    None

ASSUME ValuesAssumption ==
    /\ Digits \in Texts /\ Number \notin Texts /\ Null \notin Texts /\ Number # Null
    /\ BodyName \in Names

\* A field's schema is the set of the values it declares, {} when it declares none.
Fields == UNION {[names -> SUBSET Texts] : names \in SUBSET Names}
Values == Texts \union {Number, Null}
Arguments == UNION {[names -> Values] : names \in SUBSET Names}

Contract == [parameters: Fields, path: SUBSET Names, required: SUBSET Names,
             body: {"none", "object", "plain"}, properties: Fields, needs: SUBSET Names,
             safe: BOOLEAN]

\* fmt.Sprint; null prints as a text no contract declares.
Printed(value) == IF value = Number THEN Digits ELSE value

\* maps.Copy onto: the names of upper win.
Over(lower, upper) ==
    [n \in DOMAIN lower \union DOMAIN upper |-> IF n \in DOMAIN upper THEN upper[n] ELSE lower[n]]

(***************************************************************************)
(* The tool of an operation.                                               *)
(***************************************************************************)
BodyProperties(c) ==
    CASE c.body = "object" -> c.properties [] c.body = "plain" -> [n \in {BodyName} |-> {}]
      [] OTHER -> [n \in {} |-> {}]

ToolProperties(c) == Over(c.parameters, BodyProperties(c))

(***************************************************************************)
(* The checks of a reply in JSON mode and of a confirmed call.             *)
(***************************************************************************)
ArgSchemas(c) == IF c.body = "object" THEN Over(c.parameters, c.properties) ELSE c.parameters

\* jsonmode.validateArgs: an argument that is no string passes.
PlannedValid(c, args) ==
    \A n \in DOMAIN args \intersect DOMAIN ArgSchemas(c) :
        \/ ArgSchemas(c)[n] = {} \/ args[n] \notin Texts \/ args[n] \in ArgSchemas(c)[n]

ValidEnumArgs(schemas, args) ==
    \A n \in DOMAIN args \intersect DOMAIN schemas :
        schemas[n] = {} \/ Printed(args[n]) \in schemas[n]

\* Fault: only the body is checked.
BodyOnlyValid(c, args) ==
    c.body # "none" => c.needs \subseteq DOMAIN args /\ ValidEnumArgs(c.properties, args)

\* orchestrator.validateArgs: a required parameter is not looked for, and null is there.
ConfirmedValid(c, args) ==
    /\ c.body # "none" => c.needs \subseteq DOMAIN args /\ ValidEnumArgs(c.properties, args)
    /\ ValidEnumArgs(c.parameters, args)

(***************************************************************************)
(* The request to the service.                                             *)
(***************************************************************************)
Given(args) == {n \in DOMAIN args : args[n] # Null}

\* Fault: an argument of a parameter stays in the body.
AllInBody(c, args) ==
    CASE c.body = "object" -> Given(args) [] c.body = "plain" -> Given(args) \intersect {BodyName} [] OTHER -> {}

\* An argument no parameter takes; no body is sent when there is none.
InBody(c, args) ==
    LET others == Given(args) \ DOMAIN c.parameters
    IN CASE c.body = "object" -> others [] c.body = "plain" -> others \intersect {BodyName} [] OTHER -> {}

\* A name of the path that was not given stays in it as "{name}".
SplitArgs(c, args) ==
    LET parameters == Given(args) \intersect DOMAIN c.parameters
    IN [path  |-> [n \in parameters \intersect c.path |-> Printed(args[n])],
        query |-> [n \in parameters \ c.path |-> Printed(args[n])],
        body  |-> [n \in InBody(c, args) |-> args[n]]]

Request == [path: Arguments, query: Arguments, body: Arguments]
=============================================================================
