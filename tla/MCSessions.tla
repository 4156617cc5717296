---------------------------- MODULE MCSessions ----------------------------
(***************************************************************************)
(* Instances of Sessions for TLC.                                          *)
(***************************************************************************)
EXTENDS Sessions, TLC

CONSTANTS root, ann, old, new, admin, member, s1, s2, t1, t2

Normal ==
    [parsed |-> TRUE, database |-> TRUE, admin |-> old, seeds |-> <<>>, mode |-> "toolcall",
     provider |-> "llamaswap", url |-> TRUE, anthropicKey |-> FALSE, stages |-> 2, picker |-> "local",
     gate |-> FALSE, router |-> FALSE, fill |-> FALSE, jevKey |-> FALSE, narrowing |-> "none", operations |-> TRUE]

Seeding(n, p, r) == [name |-> n, password |-> p, role |-> r]

\* A restart may seed the admin's name with another password and role, or a name without a
\* password, and have settings whose keys or companions are missing; narrowing has
\* nothing to ask, or nothing to ask about.
Started ==
    {Normal, [Normal EXCEPT !.admin = None],
     [Normal EXCEPT !.seeds = <<Seeding(ann, old, member), Seeding(root, new, member)>>,
                    !.narrowing = "all", !.picker = "hybrid", !.jevKey = TRUE],
     [Normal EXCEPT !.seeds = <<Seeding(ann, None, member)>>], [Normal EXCEPT !.fill = TRUE],
     [Normal EXCEPT !.mode = "json", !.provider = "anthropic", !.anthropicKey = TRUE],
     [Normal EXCEPT !.narrowing = "all", !.url = FALSE],
     [Normal EXCEPT !.narrowing = "all", !.url = FALSE, !.operations = FALSE]}

Symmetric == Permutations({s1, s2}) \union Permutations({t1, t2})
=============================================================================
