------------------------------- MODULE DeepObject -------------------------------
(***************************************************************************)
(* The tree of a deep-object query (oasvalidator/parameter): the keys      *)
(* "a[x]", "a[0][y]", "a[]" of a query string are inserted into a tree and *)
(* the tree is normalized, before its nodes are decoded by their schema.   *)
(*                                                                         *)
(* The query is a Go map, so the keys come in an order of the runtime's    *)
(* choice, a different one for every request.  The parser turns "[0]" into *)
(* a property name; only its siblings tell whether it is an array index.   *)
(***************************************************************************)
EXTENDS Integers, Sequences, FiniteSets, Functions

CONSTANTS
  Texts,       \* the texts between brackets
  Number,      \* the number strconv.Atoi reads in each of them, if any
  Rank,        \* the order of the texts as strings
  NotANumber,
  Queries      \* the query strings: sets of parsed keys

(* A selector is a ParamKey or a ParamIndex; "[ ]" is the index -1.         *)
Key(text) == [kind |-> "key", text |-> text]
Index(number) == [kind |-> "index", number |-> number]
Bracket == Index(-1)

Keys == [kind : {"key"}, text : Texts]
Selectors == Keys \cup [kind : {"index"}, number : Int]

(* A parsed key, and the values it carries, which are told apart by it.     *)
Paths == Seq(Keys \cup {Bracket})
Unparsable == <<>>
NoValues == <<>>
NoKey == Bracket

ASSUME TextsAssumption ==
  /\ Number \in [Texts -> Int \cup {NotANumber}]
  /\ NotANumber \notin Int
  /\ Rank \in [Texts -> Int]
  /\ \A s, t \in Texts : Rank[s] = Rank[t] => s = t
ASSUME QueriesAssumption == Queries \subseteq SUBSET Paths

VARIABLES
  query,     \* the keys of the query string
  pending,   \* the keys that are not inserted yet
  nodes,     \* the nodes in the order of their creation; the first is the list
  walk,      \* the insertion in progress: [at, rest, path]
  failed,    \* some key was rejected
  phase,     \* "insert", "normalize", "done" or "rejected"
  todo       \* the nodes Normalize is called on

vars == <<query, pending, nodes, walk, failed, phase, todo>>

-----------------------------------------------------------------------------
Root == 1
Ids == 1..Len(nodes)
Idle == [at |-> 0, rest |-> <<>>, path |-> <<>>]

Nodes == [key : Selectors, values : Paths, items : Seq(Nat \ {0})]

TypeOK ==
  /\ query \in Queries
  /\ pending \subseteq query
  /\ nodes \in Seq(Nodes)
  /\ \A n \in Ids : Range(nodes[n].items) \subseteq Ids
  /\ walk \in [at : Ids \cup {0}, rest : Paths, path : Paths]
  /\ failed \in BOOLEAN
  /\ phase \in {"insert", "normalize", "done", "rejected"}
  /\ todo \subseteq Ids

Init ==
  /\ query \in Queries
  /\ pending = query
  /\ nodes = <<[key |-> NoKey, values |-> NoValues, items |-> <<>>]>>
  /\ walk = Idle
  /\ failed = FALSE
  /\ phase = "insert"
  /\ todo = {}

-----------------------------------------------------------------------------
(* parseDeepObjectNodes: some key of the map is next. *)
TakeKey ==
  /\ phase = "insert" /\ walk = Idle
  /\ \E path \in pending :
       /\ pending' = pending \ {path}
       /\ IF path = Unparsable
            THEN failed' = TRUE /\ walk' = Idle
            ELSE failed' = failed /\ walk' = [at |-> Root, rest |-> path, path |-> path]
  /\ UNCHANGED <<query, nodes, phase, todo>>

IsNumber(key) == Number[key.text] # NotANumber
ToIndex(key) == Index(Number[key.text])

FirstKey(n) == nodes[nodes[n].items[1]].key
HasItems(n) == nodes[n].items # <<>>

(* The children of a node (never the top level) are of the other kind. *)
Clash(n, s) == n # Root /\ HasItems(n) /\ FirstKey(n).kind # s.kind

Mixed_Never(n, s) == FALSE

Mixed_AnyClash(n, s) == Clash(n, s)

(* A property name that is no number meets an index: an error. *)
Mixed(n, s) ==
  /\ Clash(n, s)
  /\ ~IsNumber(IF s.kind = "key" THEN s ELSE FirstKey(n))

(* A numeric name that meets an index becomes one: the selector itself, ... *)
Coerced(n, s) == IF Clash(n, s) /\ s.kind = "key" THEN ToIndex(s) ELSE s

(* ... or the first child, and no other child. *)
Retyped(n, s) ==
  IF Clash(n, s) /\ s.kind = "index"
    THEN [nodes EXCEPT ![nodes[n].items[1]].key = ToIndex(@)]
    ELSE nodes

Reject_Unreported ==
  /\ walk.rest # <<>>
  /\ Mixed(walk.at, Head(walk.rest))
  /\ walk' = Idle
  /\ UNCHANGED <<query, pending, nodes, failed, phase, todo>>

Reject ==
  /\ walk.rest # <<>>
  /\ Mixed(walk.at, Head(walk.rest))
  /\ failed' = TRUE
  /\ walk' = Idle
  /\ UNCHANGED <<query, pending, nodes, phase, todo>>

(* One level of InsertNode, or of Insert at the top: the child with the key *)
(* of the selector, or a new one behind the others.                         *)
Descend ==
  /\ walk.rest # <<>>
  /\ ~Mixed(walk.at, Head(walk.rest))
  /\ LET s == Coerced(walk.at, Head(walk.rest))
         tree == Retyped(walk.at, Head(walk.rest))
         same == {c \in Range(tree[walk.at].items) : tree[c].key = s}
         new == Len(tree) + 1
         Enter(child) == walk' = [walk EXCEPT !.at = child, !.rest = Tail(@)]
     IN \/ \E child \in same : Enter(child) /\ nodes' = tree
        \/ /\ same = {}
           /\ Enter(new)
           /\ nodes' = Append([tree EXCEPT ![walk.at].items = Append(@, new)],
                              [key |-> s, values |-> NoValues, items |-> <<>>])
  /\ UNCHANGED <<query, pending, failed, phase, todo>>

StoreValues_Once ==
  /\ walk # Idle /\ walk.rest = <<>>
  /\ nodes' = IF HasItems(walk.at) THEN nodes
              ELSE [nodes EXCEPT ![walk.at].values = walk.path]
  /\ walk' = Idle
  /\ UNCHANGED <<query, pending, failed, phase, todo>>

StoreValues ==
  /\ walk # Idle /\ walk.rest = <<>>
  /\ nodes' = [nodes EXCEPT ![walk.at].values = walk.path]
  /\ walk' = Idle
  /\ UNCHANGED <<query, pending, failed, phase, todo>>

(* Every key is inserted, also after an error. *)
EndInsertion ==
  /\ phase = "insert" /\ walk = Idle /\ pending = {}
  /\ phase' = IF failed THEN "rejected" ELSE "normalize"
  /\ todo' = IF failed THEN {} ELSE Range(nodes[Root].items)
  /\ UNCHANGED <<query, pending, nodes, walk, failed>>

-----------------------------------------------------------------------------
(* compareParameterNodes: indexes by number, -1 last, before names. *)
Less(a, b) ==
  \/ a.kind = "index" /\ b.kind = "key"
  \/ /\ a.kind = "index" /\ b.kind = "index"
     /\ a.number # -1
     /\ b.number = -1 \/ a.number < b.number
  \/ a.kind = "key" /\ b.kind = "key" /\ Rank[a.text] < Rank[b.text]

(* slices.SortFunc, which is stable for the few items of a query. *)
Sorted(items) ==
  LET Before(i, j) ==
        LET a == nodes[items[i]].key
            b == nodes[items[j]].key
        IN Less(a, b) \/ (~Less(b, a) /\ i < j)
      Place(i) == 1 + Cardinality({j \in DOMAIN items : Before(j, i)})
  IN [k \in DOMAIN items |-> items[CHOOSE i \in DOMAIN items : Place(i) = k]]

IsLeaf(n) == ~HasItems(n)
OnlyItem(n) == nodes[n].items[1]

Collapses_Nested(n) == Len(nodes[n].items) = 1 /\ FirstKey(n).kind = "index"

(* An array of one element that is a leaf is hoisted into its parent. *)
Collapses(n) ==
  Len(nodes[n].items) = 1 /\ FirstKey(n).kind = "index" /\ IsLeaf(OnlyItem(n))

(* A numeric name without siblings becomes an index. *)
Promoted(n) ==
  IF FirstKey(n).kind = "key" /\ IsNumber(FirstKey(n))
    THEN [nodes EXCEPT ![OnlyItem(n)].key = ToIndex(@)]
    ELSE nodes

Arranged(n) ==
  IF FirstKey(n).kind = "index"
    THEN [nodes EXCEPT ![n].items = Sorted(@)]
    ELSE nodes

(* Normalize, on a node before its children. *)
Normalize ==
  /\ phase = "normalize"
  /\ \E n \in todo :
       /\ \A m \in todo : n <= m
       /\ nodes' = IF IsLeaf(n) THEN nodes
                   ELSE IF Collapses(n) THEN
                     [nodes EXCEPT ![n].values = nodes[OnlyItem(n)].values,
                                   ![n].items = <<>>]
                   ELSE IF Len(nodes[n].items) = 1 THEN Promoted(n)
                   ELSE Arranged(n)
       /\ todo' = (todo \ {n}) \cup Range(nodes'[n].items)
  /\ UNCHANGED <<query, pending, walk, failed, phase>>

EndNormalize ==
  /\ phase = "normalize" /\ todo = {}
  /\ phase' = "done"
  /\ UNCHANGED <<query, pending, nodes, walk, failed, todo>>

Next ==
  \/ TakeKey \/ Reject \/ Descend \/ StoreValues \/ EndInsertion
  \/ Normalize \/ EndNormalize

Spec == Init /\ [][Next]_vars

-----------------------------------------------------------------------------
(* What the tree says: the path from the top to each node that is left.     *)

Below(n) == Range(nodes[n].items)
HasParent(n) == \E m \in Ids : n \in Below(m)
Parent(n) == CHOOSE m \in Ids : n \in Below(m)

PathOf[n \in Ids] ==
  IF ~HasParent(n) THEN <<>> ELSE Append(PathOf[Parent(n)], nodes[n].key)

Valued == {n \in Ids : HasParent(n) /\ nodes[n].values # NoValues}

(* A path up to the two ways to read a numeric name; the name of the        *)
(* parameter itself, at the top, has one way only.                          *)
Reading(s) == IF s.kind = "key" /\ IsNumber(s) THEN ToIndex(s) ELSE s
Read(path) == [i \in DOMAIN path |-> IF i = 1 THEN path[i] ELSE Reading(path[i])]

Prefix(path, i) == SubSeq(path, 1, i)

Inserted == query \ (pending \cup {walk.path, Unparsable})

(* As long as nothing is rejected the tree is the query and nothing more:   *)
(* every key's values are at the key's place, up to the reading of numbers, *)
(* unless a key that reads the same replaced them, and every value in the   *)
(* tree is at its place.  Once normalized, a single "[ ]" may have given    *)
(* its values to its parent (param_node.go:48-213).                         *)
AtPlace(n) ==
  LET path == nodes[n].values
  IN \/ Read(PathOf[n]) = Read(path)
     \/ /\ phase \in {"normalize", "done"}
        /\ Read(Append(PathOf[n], Bracket)) = Read(path)

Holds(n, path) ==
  \/ Read(nodes[n].values) = Read(path)
  \/ /\ phase \in {"normalize", "done"}
     /\ Read(nodes[n].values) = Read(Append(path, Bracket))

TreeHoldsTheQuery ==
  ~failed =>
    /\ \A n \in Valued : nodes[n].values \in Inserted /\ AtPlace(n)
    /\ \A path \in Inserted : \E n \in Valued : Holds(n, path)

(* Two keys of a query meet at a level below the top. *)
Meet(p, q, i) ==
  i \in 2..Len(p) /\ i <= Len(q) /\ Read(Prefix(p, i - 1)) = Read(Prefix(q, i - 1))

IsName(s) == s.kind = "key" /\ ~IsNumber(s)
IsNumeral(s) == s.kind = "key" /\ IsNumber(s)

(* In no order of its keys is a query rejected unless it is malformed or    *)
(* has a "[ ]" beside a property name (param_node.go:172-196).              *)
RejectedOnlyIfMixed ==
  phase = "rejected" =>
    \/ Unparsable \in query
    \/ \E p, q \in query : \E i \in DOMAIN p :
         Meet(p, q, i) /\ p[i] = Bracket /\ IsName(q[i])

(* In every order of its keys a query is rejected that is malformed or has  *)
(* a "[ ]" beside a property name, below names and at a level where there   *)
(* are no numbers: numbers hide the conflict in some orders.                *)
MixedIsRejected ==
  phase = "done" =>
    /\ Unparsable \notin query
    /\ \A p, q \in query : \A i \in DOMAIN p :
         Meet(p, q, i) /\ p[i] = Bracket /\ IsName(q[i]) =>
           \E r \in query : \E j \in DOMAIN r :
             j <= i /\ Meet(p, r, j) /\ IsNumeral(r[j])

(* The siblings of a key at one of its levels. *)
Siblings(path, i) ==
  {p[i] : p \in {q \in query : Len(q) >= i /\ Prefix(q, i - 1) = Prefix(path, i - 1)}}

Extended(path) == \E q \in query : Len(q) > Len(path) /\ Prefix(q, Len(path)) = path

(* Where a key that meets no "[ ]" ends: numbers alone are indexes, a "[ ]" *)
(* alone is its parent, anything else stays as it is written.               *)
Settled(path) ==
  LET Alone(i) == i > 1 /\ Siblings(path, i) = {path[i]}
      last == Len(path)
      full == [i \in DOMAIN path |-> IF Alone(i) THEN Reading(path[i]) ELSE path[i]]
  IN IF Alone(last) /\ path[last] = Bracket /\ ~Extended(path)
       THEN Prefix(full, last - 1) ELSE full

Plain ==
  /\ Unparsable \notin query
  /\ \A path \in query :
       /\ \A i \in 2..Len(path) :
            Bracket \in Siblings(path, i) => Siblings(path, i) = {Bracket}
       /\ Append(path, Bracket) \notin query

(* A query that mixes "[ ]" with nothing ends in one tree whatever the      *)
(* order of its keys: each key's values at the place it settles at, and     *)
(* nothing else (param_node.go:125-213).                                    *)
PlainQueriesSettle ==
  phase \in {"done", "rejected"} /\ Plain =>
    /\ phase = "done"
    /\ {<<PathOf[n], nodes[n].values>> : n \in Valued} =
         {<<Settled(path), path>> : path \in query}

(* param_node.go:124 "Multi-element arrays are sorted by index so later     *)
(* schema validation sees items in order."                                  *)
ArraysAreInOrder ==
  phase = "done" =>
    \A n \in Ids \ {Root} :
      LET items == nodes[n].items
          at(i) == Reading(nodes[items[i]].key)
      IN (\A i \in DOMAIN items : at(i).kind = "index") =>
           \A i, j \in DOMAIN items : i < j => ~Less(at(j), at(i))
=============================================================================
