----------------------------- MODULE MCRouteTree -----------------------------
(* Documents of up to three paths over two static segments, two parameter   *)
(* names and two regular expressions, and requests of up to four segments.  *)
EXTENDS RouteTree

CONSTANTS GET, POST

\* Texts: 1 = "posts", 2 = "new", 3 = "42", 4 = a text no parameter decodes.
\* Keys of parameters: 1 = "id", 2 = "name".
Posts == Static(1)
New == Static(2)
Id == Param(1)
Name == Param(2)
Digits == Regexp(1, 1)
Words == Regexp(1, 2)

MCMethods == {GET, POST}
MCAccepts == <<{3}, {2, 3, 4}>>
MCUndecodable == {Empty, 4}

Item(pattern, methods) == [pattern |-> pattern, methods |-> methods, valid |-> TRUE]

GoodItems ==
  { Item(<<End>>, {GET}), Item(<<Posts>>, {GET}),
    Item(<<Posts, New>>, {POST}), Item(<<Posts, Id>>, {GET}),
    Item(<<Posts, Id, End>>, {POST}), Item(<<Posts, Name, New>>, {GET, POST}),
    Item(<<Posts, Digits>>, {GET}), Item(<<Posts, Words>>, {GET, POST}),
    Item(<<Posts, CatchAll>>, {GET}), Item(<<Id, Id>>, {GET}),
    Item(<<Id, CatchAll>>, {GET, POST}), Item(<<CatchAll>>, {GET}),
    Item(<<Posts, Name>>, {}) }

BadItems ==
  { Item(<<Malformed>>, {GET}), Item(<<Posts, CatchAll, End>>, {GET}),
    [Item(<<New>>, {GET}) EXCEPT !.valid = FALSE] }

Injections(S, n) == {s \in [1..n -> S] : \A i, j \in 1..n : i # j => s[i] # s[j]}

MCDocuments ==
  Injections(GoodItems, 3) \cup {<<g, b>> : g \in GoodItems, b \in BadItems}

\* The same path twice, with and without its trailing slash.
MCTwiceDocuments ==
  {<<Item(<<Posts>>, {GET}), Item(<<Posts, End>>, m), x>> :
     m \in {{GET}, {POST}}, x \in GoodItems \ {Item(<<Posts>>, {GET})}}

MCRequests ==
  { <<Empty>>, <<1>>, <<1, Empty>>, <<2>>, <<1, 2>>, <<1, 3>>, <<1, 4>>,
    <<1, 3, Empty>>, <<3, 4>>, <<1, 2, 2>>, <<1, 3, 2>>, <<1, 3, 3>>,
    <<3, 1, 2, 2>>, <<Empty, 1, 3>>, <<1, Empty, 2>> }
=============================================================================
