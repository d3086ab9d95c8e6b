-------------------------- MODULE MCGraphQLResponse --------------------------
(* Two error lists and three expressions: one that selects the first list,  *)
(* one that selects every list, one that fails on the second.  The keys     *)
(* stand for 200, 404, 422 and a key that is no number.                     *)
EXTENDS GraphQLResponse

CONSTANTS denied, invalid, isDenied, always, typo, broken

MCKeys == 1..4
MCStatusOf == <<200, 404, 422, NotANumber>>
MCErrorLists == {denied, invalid}
MCExpressions == {isDenied, always, typo, broken}
MCCompilable == {isDenied, always, typo}
MCVerdicts ==
  [x \in MCCompilable \X (MCErrorLists \cup {"blank"}) |->
     CASE x[1] = isDenied -> IF x[2] = denied THEN "true" ELSE "false"
       [] x[1] = always -> "true"
       [] x[1] = typo -> "fails"]
MCStatuses == {200, 302}

Rule(keys, exprs) == [keys -> exprs]

MCRules ==
  Rule({}, {}) \cup Rule({2}, {{isDenied}, {typo, isDenied}, {}, {broken, always}})
  \cup Rule({4}, {{always}}) \cup Rule({1, 2}, {{isDenied}, {always}})
  \cup Rule({2, 3}, {{isDenied}, {always}, {typo}})
  \cup Rule({1, 2, 3}, {{isDenied}, {always}})

MCConfigs ==
  {[code |-> c, rules |-> r, contentType |-> t, body |-> b] :
     c \in {NoCode, 100, 400}, r \in MCRules, t \in {"json", "other"}, b \in BOOLEAN}
=============================================================================
