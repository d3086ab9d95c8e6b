----------------------------- MODULE MCDeepObject -----------------------------
(* Queries of a few keys below one parameter: indexes, names and "[ ]" at   *)
(* two levels, two texts of one number, and a key that does not parse.      *)
EXTENDS DeepObject, TLC

MCTexts == {"a", "b", "x", "0", "01", "1"}
MCNumber == "0" :> 0 @@ "01" :> 1 @@ "1" :> 1 @@ [t \in {"a", "b", "x"} |-> NotANumber]
MCRank == "0" :> 1 @@ "01" :> 2 @@ "1" :> 3 @@ "a" :> 4 @@ "b" :> 5 @@ "x" :> 6

A == Key("a")
Zero == Key("0")
One == Key("1")
X == Key("x")

Pool ==
  { <<A>>, <<A, Bracket>>, <<A, Zero>>, <<A, One>>, <<A, Key("01")>>, <<A, X>>,
    <<A, Bracket, X>>, <<A, Zero, X>>, <<A, One, X>>, <<A, One, Key("b")>>,
    <<A, Zero, Bracket>>, <<A, X, Bracket>>, <<A, X, Zero>>, <<A, X, One>>,
    <<One, Bracket>>, <<Key("01"), X>>, <<Bracket>>, Unparsable }

MaxKeys == 4

MCQueries == {q \in SUBSET Pool : Cardinality(q) \in 1..MaxKeys}
=============================================================================
