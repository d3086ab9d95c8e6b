---------------------------- MODULE DeepObjectProofs ----------------------------
(***************************************************************************)
(* What the tree of a deep-object query holds and which queries are        *)
(* rejected, for any texts, any queries and any order of their keys.       *)
(*                                                                         *)
(* Every node of the tree has a place: the path from the top to it, with   *)
(* the numeric names below the top read as numbers.  A place is given to a *)
(* node when it is created and never changes, while the key of the node    *)
(* may: a name becomes an index when a "[ ]" joins it, or when the tree is *)
(* normalized.  The invariant PlacesInv says that there is an assignment   *)
(* of places to the nodes that fits the tree, the walk of the insertion,   *)
(* the keys of the query that made the nodes and the values they hold.     *)
(***************************************************************************)
EXTENDS DeepObject, FiniteSetTheorems, SequenceTheorems, WellFoundedInduction, TLAPS

(* A selector as it is read at a level of a path, and a key of the query    *)
(* that runs along a place.                                                 *)
ReadAt(s, i) == IF i = 1 THEN s ELSE Reading(s)

Spells(path, w) ==
  Len(w) <= Len(path) /\ \A i \in 1..Len(w) : w[i] = ReadAt(path[i], i)

Places == [Ids -> Seq(Selectors)]

-----------------------------------------------------------------------------
(* The parts of the invariant.                                              *)

(* A walk is in progress at a node, and during the insertion only.          *)
AtInv == walk # Idle => walk.at \in Ids /\ phase = "insert"

TypeInv == TypeOK /\ Root \in Ids /\ AtInv

(* The shape of the tree: a child is younger than its parent, has one       *)
(* parent and is one selector further; only what hangs in the tree has      *)
(* children.                                                                *)
TreeInv(place) ==
  /\ place[Root] = <<>>
  /\ \A n \in Ids : \A c \in Below(n) :
       c > n /\ place[c] = Append(place[n], ReadAt(nodes[c].key, Len(place[n]) + 1))
  /\ \A m, n \in Ids : \A c \in Below(m) \cap Below(n) : m = n

ParentInv == phase = "insert" => \A c \in Ids \ {Root} : HasParent(c)

AttachedInv == \A n \in Ids : HasItems(n) => n = Root \/ HasParent(n)

(* The walk is at a node that its key runs along, with the rest to come.    *)
WalkInv(place) ==
  walk # Idle =>
    /\ phase = "insert"
    /\ walk.path \in query \ pending
    /\ walk.path # Unparsable
    /\ walk.at \in Ids
    /\ Spells(walk.path, place[walk.at])
    /\ walk.rest = SubSeq(walk.path, Len(place[walk.at]) + 1, Len(walk.path))

(* What Normalize is still called on hangs below a node it is done with.    *)
TodoInv ==
  /\ phase = "insert" => todo = {}
  /\ \A m \in todo : \E p \in Ids : m \in Below(p) /\ \A t \in todo : p < t

ShapeInv(place) ==
  /\ TreeInv(place)
  /\ ParentInv
  /\ AttachedInv
  /\ WalkInv(place)
  /\ TodoInv

(* Where the nodes come from: each has the selector of a key of the query,  *)
(* or the number of it; and where a child is an index below the top, some   *)
(* key of the query has a "[ ]" at its level.                               *)
SourceInv(place) ==
  phase = "insert" =>
    \A c \in Ids \ {Root} : \E q \in query :
      /\ Spells(q, place[c])
      /\ LET s == q[Len(place[c])]
         IN nodes[c].key = s \/ (Len(place[c]) > 1 /\ IsNumeral(s) /\ nodes[c].key = ToIndex(s))

BracketInv(place) ==
  phase = "insert" =>
    \A n \in Ids \ {Root} : \A c \in Below(n) :
      nodes[c].key.kind = "index" =>
        \E q \in query : /\ Spells(q, place[n])
                         /\ Len(place[n]) + 1 \in DOMAIN q
                         /\ q[Len(place[n]) + 1] = Bracket

MixedQuery ==
  \/ Unparsable \in query
  \/ \E p, q \in query : \E i \in DOMAIN p :
       Meet(p, q, i) /\ p[i] = Bracket /\ IsName(q[i])

FailedInv == (failed \/ phase = "rejected") => MixedQuery

SourcesInv(place) == SourceInv(place) /\ BracketInv(place) /\ FailedInv

(* No numeric name meets the path w at a level up to k: there nothing is    *)
(* read as a number, so that a place has one node and the children of a     *)
(* node are of one kind.                                                    *)
Clear(w, k) ==
  \A r \in query : \A j \in 2..k :
     j <= Len(r) /\ Spells(r, Prefix(w, j - 1)) => ~IsNumeral(r[j])

UniqueInv(place) ==
  phase = "insert" /\ ~failed =>
    /\ \A m, n \in Ids : place[m] = place[n] /\ Clear(place[m], Len(place[m])) => m = n
    /\ \A n \in Ids \ {Root} : Clear(place[n], Len(place[n]) + 1) =>
         \A c, d \in Below(n) : nodes[c].key.kind = nodes[d].key.kind

(* A key that is inserted has a node at each of its levels.                 *)
InsertedInv(place) ==
  phase = "insert" /\ ~failed =>
    /\ \A path \in Inserted : \A i \in 1..Len(path) :
          \E n \in Ids : Len(place[n]) = i /\ Spells(path, place[n])
    /\ walk # Idle => \A i \in 1..Len(place[walk.at]) :
          \E n \in Ids : Len(place[n]) = i /\ Spells(walk.path, place[n])

UnparsableInv == Unparsable \in query => failed \/ (phase = "insert" /\ Unparsable \in pending)

(* A query that is not rejected has its conflicts, if any, below numbers.   *)
HiddenOnly ==
  /\ Unparsable \notin query
  /\ \A p, q \in query : \A i \in DOMAIN p :
       Meet(p, q, i) /\ p[i] = Bracket /\ IsName(q[i]) =>
         \E r \in query : \E j \in DOMAIN r :
           j <= i /\ Meet(p, r, j) /\ IsNumeral(r[j])

DoneInv ==
  /\ phase \in {"normalize", "done"} => HiddenOnly /\ ~failed /\ walk = Idle
  /\ phase = "done" => todo = {}
  /\ phase = "rejected" => failed

ConflictInv(place) ==
  /\ UniqueInv(place)
  /\ InsertedInv(place)
  /\ UnparsableInv
  /\ DoneInv

(* A node Normalize has not been called on yet: its values are those of its *)
(* own place.  An only child that is an index is then a "[ ]", and a leaf   *)
(* has values, so that what is hoisted are values of a "[ ]" below.         *)
Fresh(n) == phase = "insert" \/ \E t \in todo : t <= n

SingleInv ==
  \A n \in Ids \ {Root} :
    Fresh(n) /\ Len(nodes[n].items) = 1 /\ FirstKey(n).kind = "index" => FirstKey(n) = Bracket

LeafInv ==
  ~failed => \A n \in Ids \ {Root} :
    IsLeaf(n) /\ n # walk.at /\ HasParent(n) => nodes[n].values # NoValues

ValueInv(place) ==
  ~failed =>
    /\ \A n \in Valued :
         /\ nodes[n].values \in Inserted
         /\ \/ Read(nodes[n].values) = place[n]
            \/ ~Fresh(n) /\ Read(nodes[n].values) = Append(place[n], Bracket)
    /\ \A path \in Inserted : \E n \in Valued :
         \/ Read(nodes[n].values) = Read(path)
         \/ ~Fresh(n) /\ Read(nodes[n].values) = Append(Read(path), Bracket)

ContentInv(place) == SingleInv /\ LeafInv /\ ValueInv(place)

PlacesInv ==
  \E place \in Places :
    ShapeInv(place) /\ SourcesInv(place) /\ ConflictInv(place) /\ ContentInv(place)

-----------------------------------------------------------------------------
(* A sequence with one element replaced is the same elsewhere. *)
LEMMA Updated ==
  ASSUME NEW S, NEW s \in Seq(S), NEW i \in 1..Len(s), NEW e \in S
  PROVE  LET t == [s EXCEPT ![i] = e]
         IN  /\ t \in Seq(S)
             /\ Len(t) = Len(s)
             /\ t[i] = e
             /\ \A j \in 1..Len(s) \ {i} : t[j] = s[j]
  OBVIOUS

(* A selector is a name or an index; a numeral reads as its number, and     *)
(* everything else reads as itself.                                         *)
LEMMA SelectorKinds ==
  ASSUME NEW s \in Selectors
  PROVE  /\ s.kind = "key" => s \in Keys /\ s.text \in Texts
         /\ s.kind = "index" => s.number \in Int /\ s = Index(s.number)
         /\ s.kind \in {"key", "index"}
         /\ IsNumeral(s) => ToIndex(s) \in Selectors /\ ToIndex(s).kind = "index" /\ Reading(s) = ToIndex(s)
         /\ ~IsNumeral(s) => Reading(s) = s
         /\ Reading(s) \in Selectors
         /\ Reading(ToIndex(s)) = ToIndex(s)
  BY TextsAssumption DEF Selectors, Keys, Index, IsNumeral, IsNumber, ToIndex, Reading

(* The parts of a node and its children have their types. *)
LEMMA NodeTypes ==
  ASSUME TypeOK, NEW n \in Ids
  PROVE  /\ nodes[n] \in Nodes
         /\ nodes[n].key \in Selectors
         /\ nodes[n].values \in Paths
         /\ nodes[n].items \in Seq(Nat \ {0})
         /\ Below(n) \subseteq Ids
         /\ \A i \in 1..Len(nodes[n].items) : nodes[n].items[i] \in Below(n)
<1>1. nodes[n] \in Nodes
  BY DEF TypeOK, Ids
<1>2. nodes[n].key \in Selectors /\ nodes[n].values \in Paths /\ nodes[n].items \in Seq(Nat \ {0})
  BY <1>1 DEF Nodes
<1>3. Below(n) \subseteq Ids
  BY DEF TypeOK, Below
<1>4. \A i \in 1..Len(nodes[n].items) : nodes[n].items[i] \in Below(n)
  BY <1>2 DEF Below, Range
<1>5. QED
  BY <1>1, <1>2, <1>3, <1>4

(* A node with children has a first child, which decides the kind of the    *)
(* level.                                                                   *)
LEMMA FirstItem ==
  ASSUME TypeOK, NEW n \in Ids, HasItems(n)
  PROVE  /\ nodes[n].items[1] \in Ids
         /\ nodes[n].items[1] \in Below(n)
         /\ FirstKey(n) \in Selectors
         /\ FirstKey(n) = nodes[nodes[n].items[1]].key
<1>1. 1 \in 1..Len(nodes[n].items)
  BY NodeTypes DEF HasItems
<1>2. nodes[n].items[1] \in Below(n) /\ nodes[n].items[1] \in Ids
  BY <1>1, NodeTypes
<1>3. QED
  BY <1>2, NodeTypes DEF FirstKey

(* The selector of a key stays as it is when it enters a node, except for   *)
(* a numeral that meets an index.                                           *)
LEMMA CoercedSelector ==
  ASSUME TypeOK, NEW n \in Ids, NEW s \in Keys \cup {Bracket}, ~Mixed(n, s)
  PROVE  /\ Coerced(n, s) \in Selectors
         /\ \/ Coerced(n, s) = s
            \/ /\ n # Root /\ HasItems(n) /\ FirstKey(n).kind = "index"
               /\ IsNumeral(s)
               /\ Coerced(n, s) = ToIndex(s)
  BY FirstItem, SelectorKinds DEF Coerced, Clash, Mixed, IsNumeral, Selectors, Keys, Bracket, Index

(* Retyping changes at most the key of the first child, from a numeral to   *)
(* its number, and only for a "[ ]".                                        *)
LEMMA RetypedTree ==
  ASSUME TypeOK, NEW n \in Ids, NEW s \in Keys \cup {Bracket}, ~Mixed(n, s)
  PROVE  /\ Retyped(n, s) \in Seq(Nodes)
         /\ Len(Retyped(n, s)) = Len(nodes)
         /\ \A m \in Ids :
              /\ Retyped(n, s)[m].items = nodes[m].items
              /\ Retyped(n, s)[m].values = nodes[m].values
              /\ \/ Retyped(n, s)[m].key = nodes[m].key
                 \/ /\ n # Root /\ HasItems(n) /\ m = nodes[n].items[1]
                    /\ s = Bracket /\ IsNumeral(nodes[m].key)
                    /\ Retyped(n, s)[m].key = ToIndex(nodes[m].key)
<1>1. CASE Clash(n, s) /\ s.kind = "index"
  <2> DEFINE c == nodes[n].items[1]
  <2>1. c \in Ids /\ nodes[c].key \in Selectors /\ HasItems(n) /\ n # Root
    BY <1>1, FirstItem DEF Clash
  <2>2. IsNumeral(nodes[c].key) /\ ToIndex(nodes[c].key) \in Selectors
    BY <1>1, <2>1, SelectorKinds DEF Mixed, Clash, IsNumeral, FirstKey
  <2>3. Retyped(n, s) = [nodes EXCEPT ![c].key = ToIndex(@)]
    BY <1>1 DEF Retyped
  <2>4. s = Bracket
    BY <1>1 DEF Keys
  <2> DEFINE e == [nodes[c] EXCEPT !.key = ToIndex(nodes[c].key)]
  <2>5. /\ e \in Nodes
        /\ e.items = nodes[c].items /\ e.values = nodes[c].values
        /\ e.key = ToIndex(nodes[c].key)
    BY <2>1, <2>2, NodeTypes DEF Nodes
  <2>6. Retyped(n, s) = [nodes EXCEPT ![c] = e]
    BY <2>3
  <2>7. nodes \in Seq(Nodes)
    BY DEF TypeOK
  <2> HIDE DEF e
  <2>8. /\ Retyped(n, s) \in Seq(Nodes)
        /\ Len(Retyped(n, s)) = Len(nodes)
        /\ Retyped(n, s)[c] = e
        /\ \A j \in Ids \ {c} : Retyped(n, s)[j] = nodes[j]
    <3> HIDE DEF c
    <3>1. QED
      BY <2>1, <2>5, <2>6, <2>7, Updated DEF Ids
  <2>9. QED
    BY <2>1, <2>2, <2>4, <2>5, <2>8
<1>2. CASE ~(Clash(n, s) /\ s.kind = "index")
  BY <1>2 DEF Retyped, TypeOK
<1> QED BY <1>1, <1>2
-----------------------------------------------------------------------------
(* What a step of the insertion may do to a node that exists: retype it. *)
Relabelled(n) ==
  /\ nodes'[n].values = nodes[n].values
  /\ \/ nodes'[n].key = nodes[n].key
     \/ /\ walk.at # Root /\ HasItems(walk.at) /\ n = nodes[walk.at].items[1]
        /\ Head(walk.rest) = Bracket /\ IsNumeral(nodes[n].key)
        /\ nodes'[n].key = ToIndex(nodes[n].key)

(* The selector the child that is entered has. *)
Selected == Coerced(walk.at, Head(walk.rest))

(* The walk enters a child that exists, ... *)
Entered ==
  /\ Len(nodes') = Len(nodes)
  /\ \A n \in Ids : nodes'[n].items = nodes[n].items
  /\ walk'.at \in Below(walk.at)
  /\ nodes'[walk'.at].key = Selected

(* ... or a new one behind its siblings, none of which has its key. *)
Grown ==
  /\ Len(nodes') = Len(nodes) + 1
  /\ \A n \in Ids \ {walk.at} : nodes'[n].items = nodes[n].items
  /\ nodes'[walk.at].items = Append(nodes[walk.at].items, Len(nodes'))
  /\ nodes'[Len(nodes')] = [key |-> Selected, values |-> NoValues, items |-> <<>>]
  /\ \A c \in Below(walk.at) : nodes'[c].key # Selected
  /\ walk'.at = Len(nodes')

(* The head and the tail of a sequence that is not empty. *)
LEMMA HeadTail ==
  ASSUME NEW S, NEW s \in Seq(S), s # <<>>
  PROVE  /\ Head(s) \in S /\ Tail(s) \in Seq(S) /\ Head(s) = s[1]
         /\ Len(Tail(s)) = Len(s) - 1
         /\ \A i \in 1..Len(Tail(s)) : Tail(s)[i] = s[i + 1]
  OBVIOUS

(* While some of a key is left, the walk is at a node of the tree. *)
LEMMA WalkTypes ==
  ASSUME TypeOK, AtInv, walk.rest # <<>>
  PROVE  /\ walk.at \in Ids
         /\ walk # Idle
         /\ phase = "insert"
         /\ Head(walk.rest) \in Keys \cup {Bracket}
         /\ Tail(walk.rest) \in Paths
         /\ walk.rest \in Paths
         /\ walk.path \in Paths
<1>1. walk \in [at : Ids \cup {0}, rest : Paths, path : Paths]
  BY DEF TypeOK
<1>2. walk.rest \in Seq(Keys \cup {Bracket}) /\ walk.path \in Paths
  BY <1>1 DEF Paths
<1>3. Head(walk.rest) \in Keys \cup {Bracket} /\ Tail(walk.rest) \in Seq(Keys \cup {Bracket})
  BY <1>2, HeadTail
<1>4. walk # Idle
  BY DEF Idle
<1>5. QED
  BY <1>2, <1>3, <1>4 DEF AtInv, Paths

(* A level of InsertNode retypes at most one node and then enters a child   *)
(* or adds one.                                                             *)
LEMMA DescendShape ==
  ASSUME TypeOK, AtInv, Descend
  PROVE  /\ walk' = [at |-> walk'.at, rest |-> Tail(walk.rest), path |-> walk.path]
         /\ nodes' \in Seq(Nodes)
         /\ \A n \in Ids : Relabelled(n)
         /\ Entered \/ Grown
<1> DEFINE at == walk.at
           head == Head(walk.rest)
           tree == Retyped(at, head)
           new == Len(tree) + 1
<1>1. walk.rest # <<>> /\ ~Mixed(at, head)
  BY DEF Descend
<1>2. at \in Ids /\ head \in Keys \cup {Bracket}
  BY <1>1, WalkTypes
<1>3. walk \in [at : Ids \cup {0}, rest : Paths, path : Paths]
  BY DEF TypeOK
<1>4. /\ tree \in Seq(Nodes)
      /\ Len(tree) = Len(nodes)
      /\ \A m \in Ids :
           /\ tree[m].items = nodes[m].items
           /\ tree[m].values = nodes[m].values
           /\ \/ tree[m].key = nodes[m].key
              \/ /\ at # Root /\ HasItems(at) /\ m = nodes[at].items[1]
                 /\ head = Bracket /\ IsNumeral(nodes[m].key)
                 /\ tree[m].key = ToIndex(nodes[m].key)
  BY <1>1, <1>2, RetypedTree
<1>5. Selected \in Selectors
  BY <1>1, <1>2, CoercedSelector DEF Selected
<1>6. Below(at) = Range(tree[at].items)
  BY <1>2, <1>4 DEF Below
<1>7. CASE \E child \in Below(at) :
             /\ tree[child].key = Selected
             /\ walk' = [walk EXCEPT !.at = child, !.rest = Tail(@)]
             /\ nodes' = tree
  <2>1. PICK child \in Below(at) :
             /\ tree[child].key = Selected
             /\ walk' = [walk EXCEPT !.at = child, !.rest = Tail(@)]
             /\ nodes' = tree
    BY <1>7
  <2>2. walk'.at = child /\ walk' = [at |-> child, rest |-> Tail(walk.rest), path |-> walk.path]
    BY <1>3, <2>1
  <2>3. Entered
    BY <1>4, <2>1, <2>2 DEF Entered
  <2>4. \A n \in Ids : Relabelled(n)
    BY <1>4, <2>1 DEF Relabelled
  <2>5. QED
    BY <1>4, <2>1, <2>2, <2>3, <2>4
<1>8. CASE /\ \A c \in Below(at) : tree[c].key # Selected
           /\ walk' = [walk EXCEPT !.at = new, !.rest = Tail(@)]
           /\ nodes' = Append([tree EXCEPT ![at].items = Append(@, new)],
                              [key |-> Selected, values |-> NoValues, items |-> <<>>])
  <2> DEFINE e == [tree[at] EXCEPT !.items = Append(tree[at].items, new)]
             wider == [tree EXCEPT ![at] = e]
             leaf == [key |-> Selected, values |-> NoValues, items |-> <<>>]
  <2>1. tree[at] \in Nodes /\ at \in 1..Len(tree)
    BY <1>2, <1>4 DEF Ids
  <2>2. new \in Nat \ {0} /\ tree[at].items \in Seq(Nat \ {0})
    BY <1>4, <2>1 DEF Nodes
  <2>3. /\ e \in Nodes /\ e.items = Append(tree[at].items, new)
        /\ e.key = tree[at].key /\ e.values = tree[at].values
    <3>1. Append(tree[at].items, new) \in Seq(Nat \ {0})
      BY <2>2
    <3> HIDE DEF tree, new
    <3>2. QED
      BY <2>1, <3>1 DEF Nodes
  <2>4. nodes' = Append(wider, leaf)
    BY <1>8
  <2>5. /\ wider \in Seq(Nodes)
        /\ Len(wider) = Len(nodes)
        /\ wider[at] = e
        /\ \A j \in Ids \ {at} : wider[j] = tree[j]
    <3> HIDE DEF e, tree
    <3>1. QED
      BY <1>4, <2>1, <2>3, Updated DEF Ids
  <2>6. leaf \in Nodes
    BY <1>5 DEF Nodes, NoValues, Paths
  <2>7. /\ nodes' \in Seq(Nodes)
        /\ Len(nodes') = Len(nodes) + 1
        /\ nodes'[Len(nodes')] = leaf
        /\ \A j \in Ids : nodes'[j] = wider[j]
    <3> HIDE DEF wider, leaf
    <3>1. QED
      BY <2>4, <2>5, <2>6, AppendProperties DEF Ids
  <2>8. walk'.at = new /\ walk' = [at |-> new, rest |-> Tail(walk.rest), path |-> walk.path]
    BY <1>3, <1>8
  <2>9. \A n \in Ids :
          /\ nodes'[n].key = tree[n].key
          /\ nodes'[n].values = tree[n].values
          /\ nodes'[n].items = IF n = at THEN Append(nodes[at].items, new) ELSE nodes[n].items
    <3>1. \A n \in Ids \ {at} : nodes'[n] = tree[n]
      BY <2>5, <2>7
    <3>2. nodes'[at] = e
      BY <1>2, <2>5, <2>7
    <3> HIDE DEF tree, new, e
    <3>3. QED
      BY <1>2, <1>4, <2>3, <3>1, <3>2
  <2>10. \A n \in Ids : Relabelled(n)
    BY <1>4, <2>9 DEF Relabelled
  <2>11. Grown
    <3>1. Below(at) \subseteq Ids
      BY <1>2, NodeTypes
    <3>2. QED
      BY <1>2, <1>4, <1>8, <2>7, <2>8, <2>9, <3>1 DEF Grown
  <2>12. QED
    BY <2>7, <2>8, <2>10, <2>11
<1>9. QED
  BY <1>2, <1>6, <1>7, <1>8 DEF Descend, Selected
-----------------------------------------------------------------------------
(* The ranks of the elements of a strict total order on 1..k are the        *)
(* numbers 1..k, each taken once.                                           *)
LEMMA Ranks ==
  ASSUME NEW k \in Nat, NEW low \in [1..k -> SUBSET (1..k)],
         \A i \in 1..k : i \notin low[i],
         \A h, i, j \in 1..k : h \in low[i] /\ i \in low[j] => h \in low[j],
         \A i, j \in 1..k : i # j => i \in low[j] \/ j \in low[i]
  PROVE  /\ \A i \in 1..k : 1 + Cardinality(low[i]) \in 1..k
         /\ \A i, j \in 1..k : 1 + Cardinality(low[i]) = 1 + Cardinality(low[j]) => i = j
         /\ \A p \in 1..k : \E i \in 1..k : 1 + Cardinality(low[i]) = p
<1> DEFINE size(i) == Cardinality(low[i])
           rank == [i \in 1..k |-> 1 + size(i)]
<1>1. IsFiniteSet(1..k) /\ Cardinality(1..k) = k
  BY FS_Interval
<1>2. ASSUME NEW i \in 1..k PROVE IsFiniteSet(low[i]) /\ size(i) \in Nat
  <2>1. low[i] \in SUBSET (1..k)
    OBVIOUS
  <2>2. IsFiniteSet(low[i])
    BY <1>1, <2>1, FS_Subset
  <2>3. QED
    BY <2>2, FS_CardinalityType
<1>3. ASSUME NEW i \in 1..k PROVE size(i) <= k - 1
  <2>1. low[i] \in SUBSET ((1..k) \ {i})
    OBVIOUS
  <2>2. IsFiniteSet((1..k) \ {i}) /\ Cardinality((1..k) \ {i}) = k - 1
    BY <1>1, FS_RemoveElement
  <2>3. size(i) <= Cardinality((1..k) \ {i})
    BY <2>1, <2>2, FS_Subset
  <2>4. QED
    BY <2>2, <2>3
<1>4. ASSUME NEW i \in 1..k, NEW j \in 1..k, i \in low[j] PROVE size(i) < size(j)
  <2>1. i \notin low[i] /\ low[i] \cup {i} \in SUBSET low[j]
    BY <1>4
  <2>2. Cardinality(low[i] \cup {i}) = size(i) + 1
    BY <1>2, <2>1, FS_AddElement
  <2>3. Cardinality(low[i] \cup {i}) <= size(j)
    BY <1>2, <2>1, FS_Subset
  <2>4. size(i) \in Nat /\ size(j) \in Nat
    BY <1>2
  <2> HIDE DEF size
  <2>5. QED
    BY <2>2, <2>3, <2>4
<1> HIDE DEF size
<1>5. \A i \in 1..k : rank[i] \in 1..k /\ rank[i] = 1 + size(i)
  BY <1>2, <1>3
<1>6. \A i, j \in 1..k : size(i) = size(j) => i = j
  <2>1. SUFFICES ASSUME NEW i \in 1..k, NEW j \in 1..k, size(i) = size(j), i # j PROVE FALSE
    OBVIOUS
  <2>2. size(i) \in Int /\ size(j) \in Int
    BY <1>2
  <2>3. size(i) < size(j) \/ size(j) < size(i)
    BY <1>4, <2>1
  <2>4. QED
    BY <2>1, <2>2, <2>3
<1> HIDE DEF rank
<1>7. rank \in [1..k -> 1..k]
  BY <1>5 DEF rank
<1>8. \A i, j \in 1..k : rank[i] = rank[j] => i = j
  BY <1>2, <1>5, <1>6
<1>9. rank \in Injection(1..k, 1..k)
  BY <1>7, <1>8 DEF Injection, IsInjective
<1>10. rank \in Surjection(1..k, 1..k)
  BY <1>1, <1>9, FS_Injection
<1>11. \A p \in 1..k : \E i \in 1..k : rank[i] = p
  BY <1>10 DEF Surjection
<1>12. \A i \in 1..k : rank[i] = 1 + Cardinality(low[i])
  BY <1>5 DEF size
<1>13. QED
  <2>1. \A i \in 1..k : 1 + Cardinality(low[i]) \in 1..k
    BY <1>5, <1>12
  <2>2. \A i, j \in 1..k : 1 + Cardinality(low[i]) = 1 + Cardinality(low[j]) => i = j
    BY <1>8, <1>12
  <2>3. \A p \in 1..k : \E i \in 1..k : 1 + Cardinality(low[i]) = p
    BY <1>11, <1>12
  <2>4. QED
    BY <2>1, <2>2, <2>3

(* compareParameterNodes is a strict weak order: slices.SortFunc may be     *)
(* given it.                                                                *)
LEMMA LessIsOrder ==
  ASSUME NEW a \in Selectors, NEW b \in Selectors, NEW c \in Selectors
  PROVE  /\ ~Less(a, a)
         /\ Less(a, b) => ~Less(b, a)
         /\ Less(a, b) /\ Less(b, c) => Less(a, c)
         /\ ~Less(b, a) /\ ~Less(c, b) => ~Less(c, a)
<1>1. \A s \in Selectors :
        /\ s.kind \in {"key", "index"}
        /\ s.kind = "key" => Rank[s.text] \in Int
        /\ s.kind = "index" => s.number \in Int
  BY SelectorKinds, TextsAssumption
<1>2. ~Less(a, a) /\ (Less(a, b) => ~Less(b, a))
  BY <1>1 DEF Less
<1>3. Less(a, b) /\ Less(b, c) => Less(a, c)
  BY <1>1 DEF Less
<1>4. ~Less(b, a) /\ ~Less(c, b) => ~Less(c, a)
  BY <1>1 DEF Less
<1>5. QED
  BY <1>2, <1>3, <1>4

(* Sorting the children of a node loses none and doubles none. *)
LEMMA SortedItems ==
  ASSUME TypeOK, NEW n \in Ids
  PROVE  /\ Sorted(nodes[n].items) \in Seq(Nat \ {0})
         /\ Len(Sorted(nodes[n].items)) = Len(nodes[n].items)
         /\ Range(Sorted(nodes[n].items)) = Below(n)
<1> DEFINE items == nodes[n].items
           k == Len(items)
           key(i) == nodes[items[i]].key
           before(i, j) == Less(key(i), key(j)) \/ (~Less(key(j), key(i)) /\ i < j)
           rank(i) == 1 + Cardinality({j \in DOMAIN items : before(j, i)})
           low == [i \in 1..k |-> {j \in DOMAIN items : before(j, i)}]
<1>1. items \in Seq(Nat \ {0}) /\ k \in Nat /\ DOMAIN items = 1..k
  BY NodeTypes
<1>2. \A i \in 1..k : key(i) \in Selectors
  BY NodeTypes
<1>3. Sorted(items) = [p \in DOMAIN items |-> items[CHOOSE i \in DOMAIN items : rank(i) = p]]
  BY DEF Sorted
<1> HIDE DEF items, k, key
<1>4. /\ \A i \in 1..k : ~before(i, i)
      /\ \A h, i, j \in 1..k : before(h, i) /\ before(i, j) => before(h, j)
      /\ \A i, j \in 1..k : i # j => before(i, j) \/ before(j, i)
  BY <1>1, <1>2, LessIsOrder
<1> HIDE DEF before
<1>5. /\ low \in [1..k -> SUBSET (1..k)]
      /\ \A i, j \in 1..k : j \in low[i] <=> before(j, i)
      /\ \A i \in 1..k : rank(i) = 1 + Cardinality(low[i])
  BY <1>1
<1> HIDE DEF low, rank
<1>6. /\ \A i \in 1..k : i \notin low[i]
      /\ \A h, i, j \in 1..k : h \in low[i] /\ i \in low[j] => h \in low[j]
      /\ \A i, j \in 1..k : i # j => i \in low[j] \/ j \in low[i]
  BY <1>4, <1>5
<1>7. /\ \A i \in 1..k : 1 + Cardinality(low[i]) \in 1..k
      /\ \A i, j \in 1..k : 1 + Cardinality(low[i]) = 1 + Cardinality(low[j]) => i = j
      /\ \A p \in 1..k : \E i \in 1..k : 1 + Cardinality(low[i]) = p
  <2>1. k \in Nat /\ low \in [1..k -> SUBSET (1..k)]
    BY <1>1, <1>5
  <2>2. QED
    BY <1>6, <2>1, Ranks
<1>8. /\ \A i \in 1..k : rank(i) \in 1..k
      /\ \A i, j \in 1..k : rank(i) = rank(j) => i = j
      /\ \A p \in 1..k : \E i \in 1..k : rank(i) = p
  BY <1>5, <1>7
<1>9. \A p \in 1..k : (CHOOSE i \in DOMAIN items : rank(i) = p) \in 1..k
  BY <1>1, <1>8
<1>10. \A i \in 1..k : (CHOOSE j \in DOMAIN items : rank(j) = rank(i)) = i
  BY <1>1, <1>8
<1> DEFINE at(p) == CHOOSE i \in DOMAIN items : rank(i) = p
<1>11. Sorted(items) = [p \in 1..k |-> items[at(p)]]
  BY <1>1, <1>3
<1> HIDE DEF at
<1>12. Sorted(items) \in Seq(Nat \ {0}) /\ Len(Sorted(items)) = k
  <2>1. \A p \in 1..k : items[at(p)] \in Nat \ {0}
    <3>1. \A p \in 1..k : at(p) \in 1..k
      BY <1>9 DEF at
    <3>2. \A i \in 1..k : items[i] \in Nat \ {0}
      BY <1>1, ElementOfSeq
    <3>3. QED
      BY <3>1, <3>2
  <2>2. Sorted(items) \in [1..k -> Nat \ {0}]
    BY <1>11, <2>1
  <2>3. QED
    BY <1>1, <2>2
<1>13. Range(Sorted(items)) = Range(items)
  <2>1. \A p \in 1..k : at(p) \in 1..k
    BY <1>9 DEF at
  <2>2. \A i \in 1..k : rank(i) \in 1..k /\ at(rank(i)) = i
    BY <1>8, <1>10 DEF at
  <2>3. QED
    BY <1>1, <1>11, <2>1, <2>2 DEF Range
<1>14. QED
  BY <1>12, <1>13 DEF Below, items, k

-----------------------------------------------------------------------------
(* Storing values changes nothing but the values of the node the walk is    *)
(* at.                                                                      *)
LEMMA StoreShape ==
  ASSUME TypeOK, AtInv, StoreValues
  PROVE  /\ walk.at \in Ids /\ walk.path \in Paths
         /\ nodes' \in Seq(Nodes)
         /\ Len(nodes') = Len(nodes)
         /\ \A n \in Ids : /\ nodes'[n].key = nodes[n].key
                           /\ nodes'[n].items = nodes[n].items
                           /\ n # walk.at => nodes'[n].values = nodes[n].values
         /\ nodes'[walk.at].values = walk.path
<1> DEFINE e == [nodes[walk.at] EXCEPT !.values = walk.path]
<1>1. walk.at \in Ids /\ walk.path \in Paths
  BY DEF StoreValues, AtInv, TypeOK
<1>2. /\ e \in Nodes /\ e.values = walk.path
      /\ e.key = nodes[walk.at].key /\ e.items = nodes[walk.at].items
  BY <1>1, NodeTypes DEF Nodes
<1>3. nodes' = [nodes EXCEPT ![walk.at] = e]
  BY DEF StoreValues
<1>4. nodes \in Seq(Nodes)
  BY DEF TypeOK
<1> HIDE DEF e
<1>5. /\ nodes' \in Seq(Nodes) /\ Len(nodes') = Len(nodes)
      /\ nodes'[walk.at] = e
      /\ \A n \in Ids \ {walk.at} : nodes'[n] = nodes[n]
  BY <1>1, <1>2, <1>3, <1>4, Updated DEF Ids
<1>6. QED
  BY <1>1, <1>2, <1>5

(* What Normalize does to a node: hoist its only child, ... *)
Collapsed(n) ==
  /\ Collapses(n)
  /\ nodes'[n].items = <<>>
  /\ nodes'[n].values = nodes[OnlyItem(n)].values

(* ... or rename or sort its children. *)
Ordered(n) ==
  /\ ~Collapses(n)
  /\ Range(nodes'[n].items) = Below(n)
  /\ Len(nodes'[n].items) = Len(nodes[n].items)
  /\ nodes'[n].values = nodes[n].values

(* Normalize handles the oldest node of those left, changes nothing of      *)
(* the others but the key of a child, and goes on with the children that    *)
(* are left.                                                                *)
LEMMA NormalizeShape ==
  ASSUME TypeOK, Normalize
  PROVE  \E n \in todo :
           /\ \A m \in todo : n <= m
           /\ todo' = (todo \ {n}) \cup Range(nodes'[n].items)
           /\ nodes' \in Seq(Nodes)
           /\ Len(nodes') = Len(nodes)
           /\ \A m \in Ids \ {n} : /\ nodes'[m].items = nodes[m].items
                                   /\ nodes'[m].values = nodes[m].values
           /\ \A m \in Ids : \/ nodes'[m].key = nodes[m].key
                             \/ /\ m \in Below(n) /\ IsNumeral(nodes[m].key)
                                /\ nodes'[m].key = ToIndex(nodes[m].key)
           /\ Collapsed(n) \/ Ordered(n)
<1>1. PICK n \in todo :
        /\ \A m \in todo : n <= m
        /\ nodes' = IF IsLeaf(n) THEN nodes
                    ELSE IF Collapses(n) THEN
                      [nodes EXCEPT ![n].values = nodes[OnlyItem(n)].values,
                                    ![n].items = <<>>]
                    ELSE IF Len(nodes[n].items) = 1 THEN Promoted(n)
                    ELSE Arranged(n)
        /\ todo' = (todo \ {n}) \cup Range(nodes'[n].items)
  BY DEF Normalize
<1>2. n \in Ids /\ nodes \in Seq(Nodes)
  BY DEF TypeOK
<1>3. SUFFICES /\ nodes' \in Seq(Nodes)
               /\ Len(nodes') = Len(nodes)
               /\ \A m \in Ids \ {n} : /\ nodes'[m].items = nodes[m].items
                                       /\ nodes'[m].values = nodes[m].values
               /\ \A m \in Ids : \/ nodes'[m].key = nodes[m].key
                                 \/ /\ m \in Below(n) /\ IsNumeral(nodes[m].key)
                                    /\ nodes'[m].key = ToIndex(nodes[m].key)
               /\ Collapsed(n) \/ Ordered(n)
  BY <1>1
<1>4. CASE nodes' = nodes /\ ~Collapses(n)
  BY <1>2, <1>4 DEF Ordered, Below
<1>5. CASE ~IsLeaf(n) /\ Collapses(n)
  <2> DEFINE c == OnlyItem(n)
             e == [nodes[n] EXCEPT !.values = nodes[c].values, !.items = <<>>]
  <2>1. c \in Ids
    BY <1>2, <1>5, FirstItem DEF IsLeaf, OnlyItem
  <2>2. nodes' = [nodes EXCEPT ![n] = e]
    BY <1>1, <1>5
  <2>3. /\ e \in Nodes /\ e.values = nodes[c].values
        /\ e.key = nodes[n].key /\ e.items = <<>>
    <3> HIDE DEF c
    <3>1. nodes[n] \in Nodes /\ nodes[c].values \in Paths /\ <<>> \in Seq(Nat \ {0})
      BY <1>2, <2>1, NodeTypes
    <3>2. QED
      BY <3>1 DEF Nodes
  <2> HIDE DEF e
  <2>4. /\ nodes' \in Seq(Nodes) /\ Len(nodes') = Len(nodes)
        /\ nodes'[n] = e
        /\ \A m \in Ids \ {n} : nodes'[m] = nodes[m]
    BY <1>2, <2>2, <2>3, Updated DEF Ids
  <2>5. QED
    BY <1>5, <2>3, <2>4 DEF Collapsed
<1>6. CASE ~IsLeaf(n) /\ ~Collapses(n) /\ FirstKey(n).kind = "key" /\ IsNumber(FirstKey(n))
           /\ nodes' = [nodes EXCEPT ![OnlyItem(n)].key = ToIndex(@)]
  <2> DEFINE c == OnlyItem(n)
             e == [nodes[c] EXCEPT !.key = ToIndex(nodes[c].key)]
  <2>1. c \in Ids /\ c \in Below(n) /\ FirstKey(n) = nodes[c].key
    BY <1>2, <1>6, FirstItem DEF IsLeaf, OnlyItem
  <2>2. nodes' = [nodes EXCEPT ![c] = e]
    BY <1>6
  <2>3. IsNumeral(nodes[c].key) /\ ToIndex(nodes[c].key) \in Selectors
    BY <1>6, <2>1, NodeTypes, SelectorKinds DEF IsNumeral
  <2>4. /\ e \in Nodes /\ e.values = nodes[c].values /\ e.items = nodes[c].items
        /\ e.key = ToIndex(nodes[c].key)
    BY <2>1, <2>3, NodeTypes DEF Nodes
  <2> HIDE DEF e, c
  <2>5. /\ nodes' \in Seq(Nodes) /\ Len(nodes') = Len(nodes)
        /\ nodes'[c] = e
        /\ \A m \in Ids \ {c} : nodes'[m] = nodes[m]
    BY <1>2, <2>1, <2>2, <2>4, Updated DEF Ids
  <2>6. \A m \in Ids : nodes'[m].items = nodes[m].items /\ nodes'[m].values = nodes[m].values
    BY <2>4, <2>5
  <2>7. Ordered(n)
    BY <1>2, <1>6, <2>6 DEF Ordered, Below
  <2>8. QED
    BY <2>1, <2>3, <2>4, <2>5, <2>6, <2>7
<1>7. CASE ~IsLeaf(n) /\ ~Collapses(n)
           /\ nodes' = [nodes EXCEPT ![n].items = Sorted(@)]
  <2> DEFINE e == [nodes[n] EXCEPT !.items = Sorted(nodes[n].items)]
  <2>1. nodes' = [nodes EXCEPT ![n] = e]
    BY <1>7
  <2>2. /\ e \in Nodes /\ e.values = nodes[n].values /\ e.key = nodes[n].key
        /\ e.items = Sorted(nodes[n].items)
    BY <1>2, NodeTypes, SortedItems DEF Nodes
  <2> HIDE DEF e
  <2>3. /\ nodes' \in Seq(Nodes) /\ Len(nodes') = Len(nodes)
        /\ nodes'[n] = e
        /\ \A m \in Ids \ {n} : nodes'[m] = nodes[m]
    BY <1>2, <2>1, <2>2, Updated DEF Ids
  <2>4. Ordered(n)
    BY <1>2, <1>7, <2>2, <2>3, SortedItems DEF Ordered
  <2>5. QED
    BY <2>2, <2>3, <2>4
<1>8. IsLeaf(n) => ~Collapses(n)
  <2>1. IsLeaf(n) => Len(nodes[n].items) = 0
    BY DEF IsLeaf, HasItems
  <2>2. Collapses(n) => Len(nodes[n].items) = 1
    BY DEF Collapses
  <2>3. QED
    BY <2>1, <2>2
<1>9. CASE ~IsLeaf(n) /\ ~Collapses(n)
  BY <1>1, <1>4, <1>6, <1>7, <1>9 DEF Promoted, Arranged
<1>10. QED
  BY <1>1, <1>4, <1>5, <1>8, <1>9

-----------------------------------------------------------------------------
(* The initial tree is one node without children. *)
LEMMA TypeInit == Init => TypeInv
<1>1. SUFFICES ASSUME Init PROVE TypeInv
  OBVIOUS
<1>2. /\ nodes \in Seq(Nodes) /\ Len(nodes) = 1
      /\ nodes[1].items = <<>>
  BY <1>1 DEF Init, Nodes, NoKey, Bracket, Index, Selectors, NoValues, Paths
<1>3. Range(nodes[1].items) = {}
  BY <1>2 DEF Range
<1>4. walk \in [at : Ids \cup {0}, rest : Paths, path : Paths]
  BY <1>1 DEF Init, Idle, Paths
<1>5. Ids = {1} /\ \A n \in Ids : Range(nodes[n].items) \subseteq Ids
  BY <1>2, <1>3 DEF Ids
<1>6. TypeOK
  BY <1>1, <1>2, <1>4, <1>5 DEF Init, TypeOK
<1>7. QED
  BY <1>1, <1>5, <1>6 DEF Init, TypeInv, AtInv, Root

(* Every step keeps the types, and the children of a node nodes of the      *)
(* tree.                                                                    *)
LEMMA TypeStep ==
  ASSUME TypeInv, [Next]_vars
  PROVE  TypeInv'
<1>1. TypeOK /\ AtInv /\ Root \in Ids
  BY DEF TypeInv
<1>2. \A n \in Ids : Below(n) \subseteq Ids
  BY <1>1, NodeTypes
<1>3. CASE TakeKey
  <2>1. PICK path \in pending :
          /\ pending' = pending \ {path}
          /\ IF path = Unparsable
               THEN failed' = TRUE /\ walk' = Idle
               ELSE failed' = failed /\ walk' = [at |-> Root, rest |-> path, path |-> path]
    BY <1>3 DEF TakeKey
  <2>2. path \in Paths
    BY <1>1, QueriesAssumption DEF TypeOK
  <2>3. phase = "insert" /\ UNCHANGED <<query, nodes, phase, todo>>
    BY <1>3 DEF TakeKey
  <2>4. walk' \in [at : Ids \cup {0}, rest : Paths, path : Paths]
    <3>1. Idle \in [at : Ids \cup {0}, rest : Paths, path : Paths]
      BY DEF Idle, Paths
    <3>2. [at |-> Root, rest |-> path, path |-> path] \in [at : Ids \cup {0}, rest : Paths, path : Paths]
      BY <1>1, <2>2
    <3>3. QED
      BY <2>1, <3>1, <3>2
  <2>5. failed' \in BOOLEAN /\ AtInv'
    <3>1. failed' \in BOOLEAN /\ (walk' = Idle \/ walk'.at = Root)
      <4>1. failed \in BOOLEAN
        BY <1>1 DEF TypeOK
      <4>2. CASE path = Unparsable
        BY <2>1, <4>2
      <4>3. CASE path # Unparsable
        BY <2>1, <4>1, <4>3
      <4>4. QED
        BY <4>2, <4>3
    <3>2. QED
      BY <1>1, <2>3, <3>1 DEF AtInv, Ids
  <2>6. QED
    BY <1>1, <2>1, <2>3, <2>4, <2>5 DEF TypeInv, TypeOK, Ids
<1>4. CASE Reject
  BY <1>1, <1>4 DEF Reject, TypeInv, TypeOK, AtInv, Ids, Idle, Paths
<1>5. CASE Descend
  <2>1. /\ walk.at \in Ids /\ phase = "insert"
        /\ Tail(walk.rest) \in Paths /\ walk.path \in Paths
    BY <1>1, <1>5, WalkTypes DEF Descend
  <2>2. UNCHANGED <<query, pending, failed, phase, todo>>
    BY <1>5 DEF Descend
  <2>3. Ids \subseteq Ids' /\ walk'.at \in Ids'
    BY <1>1, <1>2, <1>5, <2>1, DescendShape DEF Entered, Grown, Ids
  <2>4. ASSUME NEW n \in Ids' PROVE Range(nodes'[n].items) \subseteq Ids'
    <3>1. CASE Entered
      <4>1. n \in Ids /\ nodes'[n].items = nodes[n].items
        BY <3>1 DEF Entered, Ids
      <4>2. QED
        BY <1>2, <2>3, <4>1 DEF Below
    <3>2. CASE Grown
      <4>1. CASE n \in Ids \ {walk.at}
        BY <1>2, <2>3, <3>2, <4>1 DEF Grown, Below
      <4>2. CASE n = walk.at
        <5>1. nodes'[n].items = Append(nodes[n].items, Len(nodes'))
          BY <3>2, <4>2 DEF Grown
        <5>2. nodes[n].items \in Seq(Nat \ {0}) /\ Range(nodes[n].items) \subseteq Ids
          BY <1>1, <1>2, <2>1, <4>2, NodeTypes DEF Below
        <5>3. Len(nodes') \in Ids'
          BY <1>1, <3>2 DEF Grown, Ids, TypeOK
        <5>4. Range(nodes'[n].items) \subseteq Range(nodes[n].items) \cup {Len(nodes')}
          <6> DEFINE old == nodes[n].items
                     new == nodes'[n].items
          <6>1. old \in Seq(Nat \ {0}) /\ new = Append(old, Len(nodes'))
            BY <5>1, <5>2
          <6> HIDE DEF old, new
          <6>2. Range(new) \subseteq Range(old) \cup {Len(nodes')}
            BY <6>1 DEF Range
          <6>3. QED
            BY <6>2 DEF old, new
        <5>5. QED
          BY <2>3, <5>2, <5>3, <5>4
      <4>3. CASE n = Len(nodes')
        <5>1. nodes'[n].items = <<>>
          BY <3>2, <4>3 DEF Grown
        <5>2. QED
          BY <5>1 DEF Range
      <4>4. n \in Ids \/ n = Len(nodes')
        <5>1. Len(nodes) \in Nat /\ Len(nodes') = Len(nodes) + 1
          BY <1>1, <3>2 DEF Grown, TypeOK
        <5>2. n \in 1..Len(nodes')
          BY DEF Ids
        <5>3. QED
          BY <5>1, <5>2 DEF Ids
      <4>5. QED
        BY <4>1, <4>2, <4>3, <4>4
    <3>3. QED
      BY <1>1, <1>5, <3>1, <3>2, DescendShape
  <2>5. walk' \in [at : Ids' \cup {0}, rest : Paths, path : Paths]
    <3>1. [at |-> walk'.at, rest |-> Tail(walk.rest), path |-> walk.path]
             \in [at : Ids' \cup {0}, rest : Paths, path : Paths]
      BY <2>1, <2>3
    <3>2. walk' = [at |-> walk'.at, rest |-> Tail(walk.rest), path |-> walk.path]
      BY <1>1, <1>5, DescendShape
    <3>3. QED
      BY <3>1, <3>2
  <2>6. nodes' \in Seq(Nodes)
    BY <1>1, <1>5, DescendShape
  <2>7. QED
    BY <1>1, <2>1, <2>2, <2>3, <2>4, <2>5, <2>6 DEF TypeInv, TypeOK, AtInv
<1>6. CASE StoreValues
  <2>1. Ids' = Ids /\ nodes' \in Seq(Nodes)
    BY <1>1, <1>6, StoreShape DEF Ids
  <2>2. \A n \in Ids' : Range(nodes'[n].items) \subseteq Ids'
    BY <1>1, <1>2, <1>6, <2>1, StoreShape DEF Below
  <2>3. QED
    BY <1>1, <1>6, <2>1, <2>2 DEF StoreValues, TypeInv, TypeOK, AtInv, Idle, Paths
<1>7. CASE EndInsertion
  <2>1. todo' \subseteq Ids
    BY <1>1, <1>2, <1>7 DEF EndInsertion, Below
  <2>2. phase' \in {"rejected", "normalize"} /\ UNCHANGED <<query, pending, nodes, walk, failed>>
    BY <1>7 DEF EndInsertion
  <2>3. AtInv'
    BY <1>7 DEF EndInsertion, AtInv, Idle
  <2>4. QED
    BY <1>1, <2>1, <2>2, <2>3 DEF TypeInv, TypeOK, Ids
<1>8. CASE Normalize
  <2>1. PICK n \in todo :
         /\ todo' = (todo \ {n}) \cup Range(nodes'[n].items)
         /\ nodes' \in Seq(Nodes)
         /\ Len(nodes') = Len(nodes)
         /\ \A m \in Ids \ {n} : nodes'[m].items = nodes[m].items
         /\ Collapsed(n) \/ Ordered(n)
    BY <1>1, <1>8, NormalizeShape
  <2>2. Ids' = Ids /\ n \in Ids
    BY <1>1, <2>1 DEF Ids, TypeOK
  <2>3. Range(nodes'[n].items) \subseteq Ids
    BY <1>2, <2>1, <2>2 DEF Collapsed, Ordered, Range
  <2>4. \A m \in Ids' : Range(nodes'[m].items) \subseteq Ids'
    BY <1>2, <2>1, <2>2, <2>3 DEF Below
  <2>5. phase = "normalize" /\ UNCHANGED <<query, pending, walk, failed, phase>>
    BY <1>8 DEF Normalize
  <2>6. QED
    BY <1>1, <2>1, <2>2, <2>3, <2>4, <2>5 DEF TypeInv, TypeOK, AtInv
<1>9. CASE EndNormalize
  BY <1>1, <1>9 DEF EndNormalize, TypeInv, TypeOK, AtInv, Ids
<1>10. CASE UNCHANGED vars
  BY <1>1, <1>10 DEF vars, TypeInv, TypeOK, AtInv, Ids
<1>11. QED
  BY <1>3, <1>4, <1>5, <1>6, <1>7, <1>8, <1>9, <1>10 DEF Next

(* The types hold in every state. *)
LEMMA TypeAlways == Spec => []TypeInv
<1>1. TypeInv /\ [Next]_vars => TypeInv'
  BY TypeStep
<1>2. QED
  BY <1>1, TypeInit, PTL DEF Spec

(* Type correctness of the deep-object tree: children are nodes of the      *)
(* tree, the walk is at one and Normalize is called on nodes only           *)
(* (param_node.go:48-213).                                                  *)
THEOREM TypeCorrect == Spec => []TypeOK
  BY TypeAlways, PTL DEF TypeInv
-----------------------------------------------------------------------------
(* During the insertion every node but the list at the top has a parent,    *)
(* and the place of its parent and its key.                                 *)
LEMMA RootIsTop ==
  ASSUME TypeInv, NEW place \in Places, TreeInv(place), ParentInv, phase = "insert",
         NEW n \in Ids
  PROVE  /\ place[n] \in Seq(Selectors)
         /\ n = Root => place[n] = <<>>
         /\ n # Root => \E m \in Ids : /\ n \in Below(m)
                                      /\ place[n] = Append(place[m], ReadAt(nodes[n].key, Len(place[m]) + 1))
         /\ n # Root => Len(place[n]) > 0
<1>1. place[n] \in Seq(Selectors)
  BY DEF Places
<1>2. n = Root => place[n] = <<>>
  BY DEF TreeInv
<1>3. n # Root => \E m \in Ids : n \in Below(m)
  BY DEF ParentInv, HasParent
<1>4. \A m \in Ids : n \in Below(m) => place[n] = Append(place[m], ReadAt(nodes[n].key, Len(place[m]) + 1))
  BY DEF TreeInv
<1>5. \A m \in Ids : place[m] \in Seq(Selectors)
  BY DEF Places
<1>6. \A m \in Ids : n \in Below(m) => Len(place[n]) = Len(place[m]) + 1 /\ Len(place[m]) \in Nat
  <2>1. TAKE m \in Ids
  <2>2. HAVE n \in Below(m)
  <2>3. ReadAt(nodes[n].key, Len(place[m]) + 1) \in Selectors
    BY NodeTypes, SelectorKinds DEF ReadAt, TypeInv
  <2>4. QED
    BY <1>4, <1>5, <2>2, <2>3, AppendProperties
<1>7. QED
  BY <1>1, <1>2, <1>3, <1>4, <1>6

(* A level of InsertNode leaves the reading of every key, and below other   *)
(* nodes the key itself.                                                    *)
LEMMA Labels ==
  ASSUME TypeInv, Descend, NEW n \in Ids
  PROVE  /\ nodes'[n].key \in Selectors
         /\ Reading(nodes'[n].key) = Reading(nodes[n].key)
         /\ walk.at = Root \/ n \notin Below(walk.at) => nodes'[n].key = nodes[n].key
<1>1. TypeOK /\ AtInv
  BY DEF TypeInv
<1>2. Relabelled(n) /\ walk.at \in Ids
  BY <1>1, DescendShape, WalkTypes DEF Descend
<1>3. nodes[n].key \in Selectors
  BY <1>1, NodeTypes
<1>4. HasItems(walk.at) => nodes[walk.at].items[1] \in Below(walk.at)
  BY <1>1, <1>2, FirstItem
<1>5. QED
  BY <1>2, <1>3, <1>4, SelectorKinds DEF Relabelled

(* The children after a level of InsertNode. *)
LEMMA DescendBelow ==
  ASSUME TypeInv, Descend
  PROVE  /\ walk.at \in Ids /\ Ids \subseteq Ids' /\ Ids' = Ids \cup {walk'.at}
         /\ \A n \in Ids : Below(n)' = IF n = walk.at THEN Below(n) \cup {walk'.at} ELSE Below(n)
         /\ \A n \in Ids' \ Ids : Below(n)' = {}
         /\ walk'.at \notin Ids => walk'.at > walk.at
         /\ nodes'[walk'.at].key = Selected
<1>1. TypeOK /\ AtInv /\ Len(nodes) \in Nat
  BY DEF TypeInv, TypeOK
<1>2. walk.at \in Ids
  BY <1>1, WalkTypes DEF Descend
<1>3. \A n \in Ids : nodes[n].items \in Seq(Nat \ {0}) /\ Below(n) \subseteq Ids
  BY <1>1, NodeTypes
<1>4. CASE Entered
  <2>1. Ids' = Ids /\ \A n \in Ids : Below(n)' = Below(n)
    BY <1>4 DEF Entered, Ids, Below
  <2>2. QED
    BY <1>2, <1>3, <1>4, <2>1 DEF Entered
<1>5. CASE Grown
  <2>1. Ids' = Ids \cup {Len(nodes')} /\ Len(nodes') \notin Ids /\ Len(nodes') > walk.at
    BY <1>1, <1>2, <1>5 DEF Grown, Ids
  <2>2. \A n \in Ids \ {walk.at} : Below(n)' = Below(n)
    BY <1>5 DEF Grown, Below
  <2>3. Range(nodes'[walk.at].items) = Below(walk.at) \cup {Len(nodes')}
    <3> DEFINE old == nodes[walk.at].items
               new == nodes'[walk.at].items
    <3>1. old \in Seq(Nat \ {0}) /\ new = Append(old, Len(nodes'))
      BY <1>2, <1>3, <1>5 DEF Grown
    <3> HIDE DEF old, new
    <3>2. Range(new) = Range(old) \cup {Len(nodes')}
      BY <3>1 DEF Range
    <3>3. QED
      BY <3>2 DEF Below, old, new
  <2>4. Range(nodes'[Len(nodes')].items) = {}
    <3>1. nodes'[Len(nodes')].items = <<>>
      BY <1>5 DEF Grown
    <3>2. QED
      BY <3>1 DEF Range
  <2>5. \A n \in Ids : n = walk.at => Below(n)' = Below(n) \cup {Len(nodes')}
    BY <2>3 DEF Below
  <2>6. \A n \in Ids' \ Ids : Below(n)' = {}
    BY <2>1, <2>4 DEF Below
  <2>7. walk'.at = Len(nodes') /\ nodes'[walk'.at].key = Selected
    BY <1>5 DEF Grown
  <2>8. QED
    BY <1>2, <2>1, <2>2, <2>5, <2>6, <2>7
<1>6. QED
  BY <1>1, <1>4, <1>5, DescendShape

(* The selector of a node reads as the one of the key it was made for,      *)
(* and is that one unless the first child there is an index.                *)
LEMMA SelectedReads ==
  ASSUME TypeInv, Descend
  PROVE  /\ Head(walk.rest) \in Keys \cup {Bracket}
         /\ Head(walk.rest) \in Selectors
         /\ Selected \in Selectors
         /\ Reading(Selected) = Reading(Head(walk.rest))
         /\ walk.at = Root => Selected = Head(walk.rest)
         /\ \/ Selected = Head(walk.rest)
            \/ /\ walk.at # Root /\ HasItems(walk.at) /\ FirstKey(walk.at).kind = "index"
               /\ IsNumeral(Head(walk.rest)) /\ Selected = ToIndex(Head(walk.rest))
<1>1. TypeOK /\ AtInv /\ walk.rest # <<>> /\ ~Mixed(walk.at, Head(walk.rest))
  BY DEF TypeInv, Descend
<1>2. walk.at \in Ids /\ Head(walk.rest) \in Keys \cup {Bracket}
  BY <1>1, WalkTypes
<1>3. Head(walk.rest) \in Selectors
  BY <1>2 DEF Selectors, Bracket, Index
<1>4. QED
  BY <1>1, <1>2, <1>3, CoercedSelector, SelectorKinds DEF Selected

(* The place of the child the walk enters, and the others where they were. *)
Extends(place, next) ==
  /\ \A n \in Ids : next[n] = place[n]
  /\ next[walk'.at] = Append(place[walk.at], ReadAt(Head(walk.rest), Len(place[walk.at]) + 1))

(* After a level of InsertNode the places of the nodes still fit the        *)
(* tree, with the place of a new node added.                                *)
LEMMA DescendPlaces ==
  ASSUME TypeInv, Descend, NEW place \in Places, TreeInv(place), ParentInv
  PROVE  \E next \in Places' : Extends(place, next) /\ TreeInv(next)'
<1> DEFINE at == walk.at
           to == walk'.at
           head == Head(walk.rest)
           new == Append(place[at], ReadAt(head, Len(place[at]) + 1))
<1>1. /\ at \in Ids /\ Ids \subseteq Ids' /\ Ids' = Ids \cup {to}
      /\ \A n \in Ids : Below(n)' = IF n = at THEN Below(n) \cup {to} ELSE Below(n)
      /\ \A n \in Ids' \ Ids : Below(n)' = {}
      /\ to \notin Ids => to > at
      /\ nodes'[to].key = Selected
  BY DescendBelow
<1>2. phase = "insert" /\ TypeOK /\ AtInv /\ Root \in Ids
  BY WalkTypes DEF TypeInv, Descend
<1>3. \A n \in Ids : place[n] \in Seq(Selectors)
  BY DEF Places
<1>4. ReadAt(head, Len(place[at]) + 1) \in Selectors /\ new \in Seq(Selectors)
  BY <1>1, <1>3, SelectedReads, SelectorKinds DEF ReadAt
<1>5. at # Root => Len(place[at]) > 0
  BY <1>1, <1>2, RootIsTop
<1>6. ReadAt(Selected, Len(place[at]) + 1) = ReadAt(head, Len(place[at]) + 1)
  <2>1. CASE at = Root
    BY <2>1, SelectedReads
  <2>2. CASE at # Root
    BY <1>1, <1>3, <1>5, <2>2, SelectedReads DEF ReadAt
  <2>3. QED
    BY <2>1, <2>2
<1>7. ASSUME NEW n \in Ids, NEW c \in Below(n)
      PROVE  ReadAt(nodes'[c].key, Len(place[n]) + 1) = ReadAt(nodes[c].key, Len(place[n]) + 1)
  <2>1. c \in Ids
    BY <1>2, NodeTypes
  <2>2. CASE at = Root \/ c \notin Below(at)
    BY <2>1, <2>2, Labels
  <2>3. CASE at # Root /\ c \in Below(at)
    <3>1. n = at
      BY <1>1, <2>3 DEF TreeInv
    <3>2. QED
      BY <1>1, <1>3, <1>5, <2>1, <2>3, <3>1, Labels DEF ReadAt
  <2>4. QED
    BY <2>2, <2>3
<1>8. to \in Ids => to \in Below(at) /\ place[to] = new
  <2>1. SUFFICES ASSUME to \in Ids PROVE to \in Below(at) /\ place[to] = new
    OBVIOUS
  <2>2. to \in Below(at)
    BY <1>2, <2>1, DescendShape DEF Entered, Grown, Ids, TypeOK
  <2>3. place[to] = Append(place[at], ReadAt(nodes[to].key, Len(place[at]) + 1))
    BY <1>1, <2>2 DEF TreeInv
  <2>4. QED
    BY <1>1, <1>6, <1>7, <2>2, <2>3
<1>9. PICK next : next = [n \in Ids' |-> IF n \in Ids THEN place[n] ELSE new]
  OBVIOUS
<1>10. next \in Places' /\ Extends(place, next)
  BY <1>1, <1>3, <1>4, <1>8, <1>9 DEF Places, Extends
<1>11. TreeInv(next)'
  <2>1. next[Root] = <<>>
    BY <1>2, <1>9, <1>1 DEF TreeInv
  <2>2. ASSUME NEW n \in Ids', NEW c \in Below(n)'
        PROVE  c > n /\ next[c] = Append(next[n], ReadAt(nodes'[c].key, Len(next[n]) + 1))
    <3>1. n \in Ids
      BY <1>1, <2>2
    <3>2. CASE c \in Below(n)
      <4>1. c \in Ids /\ c > n /\ place[c] = Append(place[n], ReadAt(nodes[c].key, Len(place[n]) + 1))
        BY <1>2, <3>1, <3>2, NodeTypes DEF TreeInv
      <4>2. QED
        BY <1>1, <1>7, <1>9, <3>1, <3>2, <4>1
    <3>3. CASE c \notin Below(n)
      <4>1. n = at /\ c = to /\ to \notin Ids
        BY <1>1, <1>8, <2>2, <3>1, <3>3
      <4>2. QED
        BY <1>1, <1>6, <1>9, <4>1
    <3>4. QED
      BY <3>2, <3>3
  <2>3. ASSUME NEW m \in Ids', NEW n \in Ids', NEW c \in Below(m)' \cap Below(n)'
        PROVE  m = n
    <3>1. m \in Ids /\ n \in Ids
      BY <1>1, <2>3
    <3>2. \A k \in Ids : Below(k) \subseteq Ids
      BY <1>2, NodeTypes
    <3>3. CASE c \in Ids
      <4>1. c \in Below(m) /\ c \in Below(n)
        BY <1>1, <1>8, <2>3, <3>1, <3>3
      <4>2. QED
        BY <3>1, <4>1 DEF TreeInv
    <3>4. CASE c \notin Ids
      BY <1>1, <2>3, <3>1, <3>2, <3>4
    <3>5. QED
      BY <3>3, <3>4
  <2>4. QED
    BY <2>1, <2>2, <2>3 DEF TreeInv
<1>12. QED
  BY <1>10, <1>11
-----------------------------------------------------------------------------
(* The places after a step: a new node has one more. *)
Follows(place, next) ==
  /\ next \in Places'
  /\ IF Descend THEN Extends(place, next) ELSE next = place

(* A step that leaves the tree as it is, values aside. *)
Quiet ==
  /\ Ids' = Ids
  /\ \A n \in Ids : nodes'[n].key = nodes[n].key /\ nodes'[n].items = nodes[n].items
  /\ \A n \in Ids : Below(n)' = Below(n)

(* Only Descend and Normalize change the tree. *)
LEMMA QuietSteps ==
  ASSUME TypeInv, [Next]_vars, ~Descend, ~Normalize
  PROVE  Quiet
<1>1. TypeOK /\ AtInv
  BY DEF TypeInv
<1>2. CASE StoreValues
  <2>1. Ids' = Ids /\ \A n \in Ids : nodes'[n].key = nodes[n].key /\ nodes'[n].items = nodes[n].items
    BY <1>1, <1>2, StoreShape DEF Ids
  <2>2. QED
    BY <2>1 DEF Quiet, Below
<1>3. CASE nodes' = nodes
  BY <1>3 DEF Quiet, Below, Ids
<1>4. QED
  BY <1>2, <1>3 DEF Next, TakeKey, Reject, EndInsertion, EndNormalize, vars

(* A key runs along a longer place when it has the selector there. *)
LEMMA SpellsMore ==
  ASSUME NEW path \in Paths, NEW w \in Seq(Selectors), NEW e \in Selectors
  PROVE  Spells(path, Append(w, e)) <=>
           /\ Spells(path, w)
           /\ Len(w) + 1 \in 1..Len(path)
           /\ e = ReadAt(path[Len(w) + 1], Len(w) + 1)
<1>1. /\ Append(w, e) \in Seq(Selectors)
      /\ Len(w) \in Nat /\ Len(Append(w, e)) = Len(w) + 1
      /\ \A i \in 1..Len(w) : Append(w, e)[i] = w[i]
      /\ Append(w, e)[Len(w) + 1] = e
  OBVIOUS
<1>2. Len(path) \in Nat
  BY DEF Paths
<1> DEFINE v == Append(w, e)
<1> HIDE DEF v
<1>3. QED
  BY <1>1, <1>2 DEF Spells, v

(* The selectors of a key are names and "[ ]"s. *)
LEMMA PathTypes ==
  ASSUME NEW path \in Paths
  PROVE  /\ Len(path) \in Nat
         /\ \A i \in 1..Len(path) : path[i] \in Keys \cup {Bracket} /\ path[i] \in Selectors
  BY DEF Paths, Selectors, Bracket, Index

(* A level of InsertNode takes the walk one selector further along its      *)
(* key.                                                                     *)
LEMMA WalkStep ==
  ASSUME TypeInv, Descend, NEW place \in Places, TreeInv(place), ParentInv, WalkInv(place),
         NEW next \in Places', Extends(place, next)
  PROVE  /\ walk.path \in query \ pending /\ walk.path \in Paths
         /\ Spells(walk.path, place[walk.at])
         /\ Len(place[walk.at]) + 1 \in 1..Len(walk.path)
         /\ walk.path[Len(place[walk.at]) + 1] = Head(walk.rest)
         /\ Spells(walk.path, next[walk'.at])
         /\ Len(next[walk'.at]) = Len(place[walk.at]) + 1
         /\ ParentInv'
         /\ WalkInv(next)'
<1> DEFINE w == place[walk.at]
           path == walk.path
           head == Head(walk.rest)
<1>1. TypeOK /\ AtInv /\ walk.rest # <<>>
  BY DEF TypeInv, Descend
<1>2. /\ walk.at \in Ids /\ walk # Idle /\ path \in Paths /\ phase = "insert"
  BY <1>1, WalkTypes
<1>3. /\ path \in query \ pending /\ path # Unparsable
      /\ Spells(path, w)
      /\ walk.rest = SubSeq(path, Len(w) + 1, Len(path))
  BY <1>2 DEF WalkInv
<1>4. w \in Seq(Selectors) /\ Len(w) \in Nat /\ Len(w) <= Len(path) /\ Len(path) \in Nat
  BY <1>2, <1>3, PathTypes DEF Places, Spells
<1>5. Len(w) + 1 \in 1..Len(path) /\ head = path[Len(w) + 1]
      /\ Tail(walk.rest) = SubSeq(path, Len(w) + 2, Len(path))
  <2> HIDE DEF w, path
  <2>1. path \in Seq(Keys \cup {Bracket})
    BY <1>2 DEF Paths
  <2>2. Len(w) + 1 <= Len(path)
    BY <1>1, <1>3, <1>4, <2>1
  <2>3. QED
    BY <1>3, <1>4, <2>1, <2>2
<1>6. ReadAt(head, Len(w) + 1) \in Selectors
  BY SelectedReads, SelectorKinds DEF ReadAt
<1>7. next[walk'.at] = Append(w, ReadAt(head, Len(w) + 1))
  BY DEF Extends
<1>8. Spells(path, next[walk'.at])
  BY <1>2, <1>3, <1>4, <1>5, <1>6, <1>7, SpellsMore
<1>9. Len(next[walk'.at]) = Len(w) + 1
  BY <1>4, <1>6, <1>7, AppendProperties
<1>10. WalkInv(next)'
  <2>1. PICK a : walk' = [at |-> a, rest |-> Tail(walk.rest), path |-> path]
    BY <1>1, DescendShape
  <2>2. walk'.rest = SubSeq(path, Len(w) + 2, Len(path)) /\ walk'.path = path
    BY <1>5, <2>1
  <2>3. UNCHANGED <<query, pending, phase>>
    BY DEF Descend
  <2>4. walk'.at \in Ids'
    BY DescendBelow
  <2>5. Len(next[walk'.at]) + 1 = Len(w) + 2
    BY <1>4, <1>9
  <2> HIDE DEF w, path
  <2>6. QED
    BY <1>2, <1>3, <1>8, <2>2, <2>3, <2>4, <2>5 DEF WalkInv
<1>11. ParentInv'
  <2>1. ASSUME NEW c \in Ids' \ {Root} PROVE \E m \in Ids' : c \in Below(m)'
    <3>1. CASE c \in Ids
      <4>1. PICK m \in Ids : c \in Below(m)
        BY <1>2, <3>1 DEF ParentInv, HasParent
      <4>2. QED
        BY <4>1, DescendBelow
    <3>2. CASE c \notin Ids
      BY <3>2, DescendBelow
    <3>3. QED
      BY <3>1, <3>2
  <2>2. QED
    BY <2>1 DEF ParentInv, HasParent
<1>12. QED
  BY <1>2, <1>3, <1>5, <1>8, <1>9, <1>10, <1>11

(* A node with one item has one child. *)
LEMMA OnlyChild ==
  ASSUME TypeOK, NEW n \in Ids, Len(nodes[n].items) = 1, NEW c \in Below(n)
  PROVE  c = OnlyItem(n)
<1>1. nodes[n].items \in Seq(Nat \ {0})
  BY NodeTypes
<1> DEFINE items == nodes[n].items
<1> HIDE DEF items
<1>2. \A i \in DOMAIN items : Len(items) = 1 => i = 1
  BY <1>1 DEF items
<1>3. QED
  <2>1. PICK i \in DOMAIN items : c = items[i]
    BY DEF Below, Range, items
  <2>2. i = 1
    BY <1>2, <2>1 DEF items
  <2>3. QED
    BY <2>1, <2>2 DEF OnlyItem, items

(* Every step keeps the shape of the tree: with the places after it, the    *)
(* places of a node, its key and its parent fit.                            *)
LEMMA ShapeStep ==
  ASSUME TypeInv, [Next]_vars, NEW place \in Places, ShapeInv(place)
  PROVE  \E next : Follows(place, next) /\ ShapeInv(next)'
<1>1. TypeOK /\ AtInv /\ Root \in Ids
  BY DEF TypeInv
<1>2. CASE Descend
  <2>1. PICK next \in Places' : Extends(place, next) /\ TreeInv(next)'
    BY <1>2, DescendPlaces DEF ShapeInv
  <2>2. ParentInv' /\ WalkInv(next)'
    BY <1>2, <2>1, WalkStep DEF ShapeInv
  <2>3. phase = "insert" /\ UNCHANGED <<phase, todo>>
    BY <1>1, <1>2, WalkTypes DEF Descend
  <2>4. AttachedInv'
    BY <2>2, <2>3 DEF ParentInv, AttachedInv
  <2>5. TodoInv'
    BY <2>3 DEF TodoInv, ShapeInv
  <2>6. QED
    BY <1>2, <2>1, <2>2, <2>4, <2>5 DEF Follows, ShapeInv
<1>3. CASE Normalize
  <2>1. phase = "normalize" /\ UNCHANGED <<query, pending, walk, failed, phase>>
    BY <1>3 DEF Normalize
  <2>2. PICK n \in todo :
           /\ \A m \in todo : n <= m
           /\ todo' = (todo \ {n}) \cup Range(nodes'[n].items)
           /\ nodes' \in Seq(Nodes)
           /\ Len(nodes') = Len(nodes)
           /\ \A m \in Ids \ {n} : nodes'[m].items = nodes[m].items
           /\ \A m \in Ids : \/ nodes'[m].key = nodes[m].key
                             \/ /\ m \in Below(n) /\ IsNumeral(nodes[m].key)
                                /\ nodes'[m].key = ToIndex(nodes[m].key)
           /\ Collapsed(n) \/ Ordered(n)
    BY <1>1, <1>3, NormalizeShape
  <2>3. Ids' = Ids /\ n \in Ids /\ todo \subseteq Ids
    BY <1>1, <2>2 DEF Ids, TypeOK
  <2>4. /\ \A m \in Ids \ {n} : Below(m)' = Below(m)
        /\ Below(n)' = {} \/ Below(n)' = Below(n)
        /\ todo' = (todo \ {n}) \cup Below(n)'
    <3>1. \A m \in Ids \ {n} : Below(m)' = Below(m)
      BY <2>2 DEF Below
    <3>2. Range(<<>>) = {}
      BY DEF Range
    <3>3. Below(n)' = {} \/ Below(n)' = Below(n)
      BY <2>2, <3>2 DEF Collapsed, Ordered, Below
    <3>4. QED
      BY <2>2, <3>1, <3>3 DEF Below
  <2>5. \A m \in Ids : Below(m) \subseteq Ids
    BY <1>1, NodeTypes
  <2>6. \A m \in Ids : place[m] \in Seq(Selectors) /\ Len(place[m]) \in Nat
    BY DEF Places
  <2>7. PICK p \in Ids : n \in Below(p) /\ \A t \in todo : p < t
    BY DEF ShapeInv, TodoInv
  <2>8. Len(place[n]) > 0
    <3>1. place[n] = Append(place[p], ReadAt(nodes[n].key, Len(place[p]) + 1))
      BY <2>3, <2>7 DEF ShapeInv, TreeInv
    <3>2. ReadAt(nodes[n].key, Len(place[p]) + 1) \in Selectors
      BY <1>1, <2>3, NodeTypes, SelectorKinds DEF ReadAt
    <3>3. QED
      BY <2>6, <2>7, <3>1, <3>2, AppendProperties
  <2>9. ASSUME NEW m \in Ids, NEW c \in Below(m)
        PROVE  ReadAt(nodes'[c].key, Len(place[m]) + 1) = ReadAt(nodes[c].key, Len(place[m]) + 1)
    <3>1. CASE nodes'[c].key = nodes[c].key
      BY <3>1
    <3>2. CASE c \in Below(n) /\ IsNumeral(nodes[c].key) /\ nodes'[c].key = ToIndex(nodes[c].key)
      <4>1. m = n /\ c \in Ids
        BY <2>3, <2>5, <3>2 DEF ShapeInv, TreeInv
      <4>2. QED
        BY <1>1, <2>6, <2>8, <3>2, <4>1, NodeTypes, SelectorKinds DEF ReadAt
    <3>3. QED
      BY <2>2, <2>5, <3>1, <3>2
  <2>10. TreeInv(place)'
    BY <2>3, <2>4, <2>9 DEF ShapeInv, TreeInv
  <2>11. ParentInv' /\ WalkInv(place)'
    BY <2>1 DEF ParentInv, WalkInv, ShapeInv
  <2>12. AttachedInv'
    <3>1. SUFFICES ASSUME NEW m \in Ids, m # Root, nodes'[m].items # <<>>
                   PROVE  \E q \in Ids : m \in Below(q)'
      BY <2>3 DEF AttachedInv, HasItems, HasParent
    <3>2. nodes[m].items # <<>>
      <4>1. CASE m # n
        BY <2>2, <3>1, <4>1
      <4>2. CASE m = n
        <5>1. Ordered(n) /\ nodes'[n] \in Nodes
          BY <2>2, <2>3, <3>1, <4>2 DEF Collapsed, Ids
        <5>2. nodes'[n].items \in Seq(Nat \ {0}) /\ Len(nodes'[n].items) # 0
          BY <3>1, <4>2, <5>1 DEF Nodes
        <5>3. QED
          BY <4>2, <5>1, <5>2 DEF Ordered
      <4>3. QED
        BY <4>1, <4>2
    <3>3. PICK q \in Ids : m \in Below(q)
      BY <3>1, <3>2 DEF ShapeInv, AttachedInv, HasItems, HasParent
    <3>4. ~(Collapsed(n) /\ m \in Below(n))
      <4>1. SUFFICES ASSUME Collapses(n), m \in Below(n) PROVE FALSE
        BY DEF Collapsed
      <4>2. m = OnlyItem(n)
        BY <1>1, <2>3, <4>1, OnlyChild DEF Collapses
      <4>3. QED
        BY <3>2, <4>1, <4>2 DEF Collapses, IsLeaf, HasItems
    <3>5. CASE q # n
      BY <2>4, <3>3, <3>5
    <3>6. CASE q = n
      <4>1. Below(n)' = Below(n)
        BY <2>2, <3>3, <3>4, <3>6 DEF Ordered, Below
      <4>2. QED
        BY <3>3, <3>6, <4>1
    <3>7. QED
      BY <3>5, <3>6
  <2>13. TodoInv'
    <3>1. ASSUME NEW m \in todo'
          PROVE  \E q \in Ids : m \in Below(q)' /\ \A t \in todo' : q < t
      <4>1. \A t \in Below(n)' : t \in Ids /\ n < t
        BY <2>3, <2>4, <2>5 DEF ShapeInv, TreeInv
      <4>2. CASE m \in todo \ {n}
        <5>1. PICK q \in Ids : m \in Below(q) /\ \A t \in todo : q < t
          BY <4>2 DEF ShapeInv, TodoInv
        <5>2. q < n
          BY <5>1
        <5>3. \A t \in Below(n)' : q < t
          BY <2>3, <4>1, <5>2 DEF Ids
        <5>4. m \in Below(q)'
          BY <2>3, <2>4, <5>1, <5>2 DEF Ids
        <5>5. QED
          BY <2>4, <5>1, <5>3, <5>4
      <4>3. CASE m \in Below(n)'
        <5>1. \A t \in todo \ {n} : n < t
          BY <2>2, <2>3 DEF Ids
        <5>2. QED
          BY <2>3, <2>4, <4>1, <4>3, <5>1
      <4>4. QED
        BY <2>4, <4>2, <4>3
    <3>2. QED
      BY <2>1, <2>3, <3>1 DEF TodoInv
  <2>14. ~Descend
    BY <1>1, <2>1, WalkTypes DEF Descend
  <2>15. QED
    BY <2>14, <2>3, <2>10, <2>11, <2>12, <2>13 DEF Follows, ShapeInv, Places
<1>4. CASE ~Descend /\ ~Normalize
  <2>1. Quiet
    BY <1>4, QuietSteps
  <2>2. \A n \in Ids : HasParent(n)' = HasParent(n) /\ HasItems(n)' = HasItems(n)
    BY <2>1 DEF Quiet, HasParent, HasItems
  <2>3. TreeInv(place)'
    <3>1. \A n \in Ids : Below(n) \subseteq Ids
      BY <1>1, NodeTypes
    <3>2. \A n \in Ids : \A c \in Below(n) : ReadAt(nodes'[c].key, Len(place[n]) + 1) = ReadAt(nodes[c].key, Len(place[n]) + 1)
      BY <2>1, <3>1 DEF Quiet
    <3>3. QED
      BY <2>1, <3>2 DEF Quiet, ShapeInv, TreeInv
  <2>9. AttachedInv'
    BY <2>1, <2>2 DEF Quiet, ShapeInv, AttachedInv
  <2>4. phase' = "insert" => phase = "insert"
    BY <1>1, <1>4 DEF Next, TakeKey, Reject, StoreValues, EndInsertion, EndNormalize, vars, TypeOK
  <2>5. ParentInv'
    BY <2>1, <2>2, <2>4 DEF Quiet, ShapeInv, ParentInv
  <2>6. WalkInv(place)'
    <3>1. CASE TakeKey
      <4>1. PICK path \in pending :
              /\ pending' = pending \ {path}
              /\ IF path = Unparsable
                   THEN failed' = TRUE /\ walk' = Idle
                   ELSE failed' = failed /\ walk' = [at |-> Root, rest |-> path, path |-> path]
        BY <3>1 DEF TakeKey
      <4>2. path \in query /\ path \in Paths
        BY <1>1, QueriesAssumption DEF TypeOK
      <4>3. CASE path = Unparsable
        BY <4>1, <4>3 DEF WalkInv
      <4>4. CASE path # Unparsable
        <5>1. walk'.at = Root /\ walk'.rest = path /\ walk'.path = path
          BY <4>1, <4>4
        <5>2. phase' = "insert" /\ path \in query' \ pending'
          BY <3>1, <4>1, <4>2 DEF TakeKey
        <5>3. Root \in Ids'
          BY <1>1, <2>1 DEF Quiet
        <5>4. place[Root] = <<>> /\ Len(place[Root]) = 0
          BY DEF ShapeInv, TreeInv
        <5>5. Spells(path, place[Root])
          BY <4>2, <5>4, PathTypes DEF Spells
        <5>6. path = SubSeq(path, 1, Len(path))
          BY <4>2 DEF Paths
        <5>7. QED
          BY <4>4, <5>1, <5>2, <5>3, <5>4, <5>5, <5>6 DEF WalkInv
      <4>5. QED
        BY <4>3, <4>4
    <3>2. CASE walk' = Idle
      BY <3>2 DEF WalkInv
    <3>3. CASE UNCHANGED <<query, pending, walk, phase>>
      BY <2>1, <3>3 DEF WalkInv, ShapeInv, Quiet
    <3>4. CASE EndInsertion \/ EndNormalize
      <4>1. walk = Idle /\ walk' = walk
        BY <1>1, <3>4 DEF AtInv, EndInsertion, EndNormalize
      <4>2. QED
        BY <4>1 DEF WalkInv
    <3>5. QED
      BY <1>4, <3>1, <3>2, <3>3, <3>4 DEF Next, Reject, StoreValues, vars
  <2>7. TodoInv'
    <3>1. CASE EndInsertion
      <4>1. phase' # "insert" /\ todo' \subseteq Below(Root)
        BY <3>1 DEF EndInsertion, Below
      <4>2. \A t \in Below(Root) : Root < t
        BY <1>1 DEF ShapeInv, TreeInv
      <4>3. QED
        BY <1>1, <2>1, <4>1, <4>2 DEF Quiet, TodoInv
    <3>2. CASE UNCHANGED todo
      BY <2>1, <2>4, <3>2 DEF Quiet, ShapeInv, TodoInv
    <3>3. QED
      BY <1>4, <3>1, <3>2 DEF Next, TakeKey, Reject, StoreValues, EndNormalize, vars
  <2>8. QED
    BY <1>4, <2>1, <2>3, <2>5, <2>6, <2>7, <2>9 DEF Follows, ShapeInv, Places, Quiet
<1>5. QED
  BY <1>2, <1>3, <1>4
-----------------------------------------------------------------------------
(* The query never changes, an error stays, and the insertion is not        *)
(* taken up again.                                                          *)
LEMMA StepFrame ==
  ASSUME TypeInv, [Next]_vars
  PROVE  /\ query' = query
         /\ phase' = "insert" => phase = "insert" /\ ~Normalize
         /\ failed => failed'
         /\ Descend => ~Normalize /\ UNCHANGED <<pending, failed, phase, todo>>
<1>1. TypeOK /\ AtInv
  BY DEF TypeInv
<1>2. Descend => ~Normalize /\ UNCHANGED <<query, pending, failed, phase, todo>>
  <2>1. Descend => phase = "insert"
    BY <1>1, WalkTypes DEF Descend
  <2>2. QED
    BY <2>1 DEF Descend, Normalize
<1>3. phase' = "insert" => phase = "insert" /\ ~Normalize
  <2>1. Normalize => phase = "normalize" /\ phase' = phase
    BY DEF Normalize
  <2>2. QED
    BY <1>1, <1>2, <2>1 DEF Next, TakeKey, Reject, StoreValues, EndInsertion, EndNormalize, vars, TypeOK
<1>4. query' = query
  BY <1>2 DEF Next, TakeKey, Reject, StoreValues, EndInsertion, Normalize, EndNormalize, vars
<1>5. failed => failed'
  <2>1. TakeKey => failed' = TRUE \/ failed' = failed
    BY DEF TakeKey
  <2>2. ~TakeKey => failed' = TRUE \/ failed' = failed
    BY <1>2 DEF Next, Reject, StoreValues, EndInsertion, Normalize, EndNormalize, vars
  <2>3. QED
    BY <2>1, <2>2
<1>6. QED
  BY <1>2, <1>3, <1>4, <1>5

(* Two keys that run along one place meet at the level below it. *)
LEMMA SpellsMeet ==
  ASSUME NEW p \in Paths, NEW q \in Paths, NEW w \in Seq(Selectors),
         Len(w) > 0, Spells(p, w), Spells(q, w),
         Len(w) + 1 \in DOMAIN p, Len(w) + 1 \in DOMAIN q
  PROVE  Meet(p, q, Len(w) + 1)
<1> DEFINE k == Len(w)
<1>1. k \in Nat /\ k > 0 /\ k + 1 <= Len(p) /\ k + 1 <= Len(q)
  BY PathTypes DEF Paths
<1>2. k + 1 \in 2..Len(p) /\ k + 1 - 1 = k
  BY <1>1, PathTypes
<1>3. /\ DOMAIN Prefix(p, k) = 1..k /\ DOMAIN Prefix(q, k) = 1..k
      /\ \A i \in 1..k : Prefix(p, k)[i] = p[i] /\ Prefix(q, k)[i] = q[i]
  BY <1>1 DEF Prefix, Paths
<1>4. \A i \in 1..k : ReadAt(p[i], i) = w[i] /\ ReadAt(q[i], i) = w[i]
  BY DEF Spells
<1>5. Read(Prefix(p, k)) = [i \in 1..k |-> w[i]] /\ Read(Prefix(q, k)) = [i \in 1..k |-> w[i]]
  BY <1>3, <1>4 DEF Read, ReadAt
<1>6. QED
  BY <1>1, <1>2, <1>5 DEF Meet

(* InsertNode reports an error only where a "[ ]" of the query meets a      *)
(* name of the query: the first child below is an index for a "[ ]" only,   *)
(* and a name for a name only.                                              *)
LEMMA RejectedIsMixed ==
  ASSUME TypeInv, NEW place \in Places, ShapeInv(place), SourcesInv(place), Reject
  PROVE  MixedQuery
<1> DEFINE at == walk.at
           head == Head(walk.rest)
           w == place[at]
           first == nodes[at].items[1]
           path == walk.path
<1>1. TypeOK /\ AtInv /\ query \subseteq Paths
  BY QueriesAssumption DEF TypeInv, TypeOK
<1>2. walk.rest # <<>> /\ Mixed(at, head)
  BY DEF Reject
<1>3. /\ at \in Ids /\ walk # Idle /\ phase = "insert" /\ head \in Keys \cup {Bracket}
  BY <1>1, <1>2, WalkTypes
<1>4. /\ at # Root /\ HasItems(at) /\ FirstKey(at).kind # head.kind
      /\ ~IsNumber(IF head.kind = "key" THEN head ELSE FirstKey(at))
  BY <1>2 DEF Mixed, Clash
<1>5. /\ path \in query /\ path \in Paths
      /\ Spells(path, w)
      /\ walk.rest = SubSeq(path, Len(w) + 1, Len(path))
  BY <1>1, <1>3 DEF ShapeInv, WalkInv
<1>6. w \in Seq(Selectors) /\ Len(w) > 0 /\ Len(w) <= Len(path)
  BY <1>3, <1>4, <1>5, RootIsTop DEF ShapeInv, Spells
<1>7. Len(w) + 1 \in DOMAIN path /\ path[Len(w) + 1] = head
  <2> HIDE DEF w, path
  <2>1. path \in Seq(Keys \cup {Bracket})
    BY <1>5 DEF Paths
  <2>2. QED
    BY <1>2, <1>5, <1>6, <2>1
<1>8. first \in Ids /\ first \in Below(at) /\ FirstKey(at) = nodes[first].key /\ FirstKey(at) \in Selectors
  BY <1>1, <1>3, <1>4, FirstItem
<1>9. CASE head.kind = "key"
  <2>1. FirstKey(at).kind = "index" /\ IsName(head)
    BY <1>4, <1>8, <1>9, SelectorKinds DEF IsName
  <2>2. PICK p \in query : /\ Spells(p, w)
                           /\ Len(w) + 1 \in DOMAIN p
                           /\ p[Len(w) + 1] = Bracket
    BY <1>3, <1>4, <1>8, <2>1 DEF SourcesInv, BracketInv
  <2>3. Meet(p, path, Len(w) + 1)
    BY <1>1, <1>5, <1>6, <1>7, <2>2, SpellsMeet
  <2>4. QED
    BY <1>5, <1>7, <2>1, <2>2, <2>3 DEF MixedQuery
<1>10. CASE head.kind # "key"
  <2>1. head = Bracket
    BY <1>3, <1>10 DEF Keys
  <2>2. FirstKey(at).kind = "key" /\ IsName(FirstKey(at))
    BY <1>4, <1>8, <1>10, <2>1, SelectorKinds DEF IsName, Bracket, Index
  <2>3. first # Root /\ place[first] = Append(w, ReadAt(nodes[first].key, Len(w) + 1))
    <3>1. first > at /\ place[first] = Append(w, ReadAt(nodes[first].key, Len(w) + 1))
      BY <1>3, <1>8 DEF ShapeInv, TreeInv
    <3>2. first # Root
      BY <1>3, <1>8, <3>1 DEF Ids, Root
    <3>3. QED
      BY <3>1, <3>2
  <2>4. ReadAt(nodes[first].key, Len(w) + 1) \in Selectors
    BY <1>8, SelectorKinds DEF ReadAt
  <2>5. Len(place[first]) = Len(w) + 1
    BY <1>6, <2>3, <2>4, AppendProperties
  <2>6. PICK q \in query :
          /\ Spells(q, place[first])
          /\ LET s == q[Len(place[first])]
             IN \/ nodes[first].key = s
                \/ Len(place[first]) > 1 /\ IsNumeral(s) /\ nodes[first].key = ToIndex(s)
    BY <1>3, <1>8, <2>3 DEF SourcesInv, SourceInv
  <2>7. q \in Paths /\ Spells(q, w) /\ Len(w) + 1 \in 1..Len(q)
    BY <1>1, <1>6, <2>3, <2>4, <2>6, SpellsMore
  <2>8. q[Len(w) + 1] = FirstKey(at)
    BY <1>8, <2>2, <2>5, <2>6 DEF ToIndex, Index
  <2>9. Len(w) + 1 \in DOMAIN q
    BY <2>7 DEF Paths
  <2>10. Meet(path, q, Len(w) + 1)
    BY <1>5, <1>6, <1>7, <2>7, <2>9, SpellsMeet
  <2>11. QED
    BY <1>5, <1>7, <2>1, <2>2, <2>8, <2>10 DEF MixedQuery
<1>11. QED
  BY <1>9, <1>10

(* Every step keeps the origins of the nodes: the keys of the query they    *)
(* were made for.                                                           *)
LEMMA SourcesStep ==
  ASSUME TypeInv, [Next]_vars, NEW place \in Places, ShapeInv(place), SourcesInv(place),
         NEW next, Follows(place, next)
  PROVE  SourcesInv(next)'
<1> DEFINE at == walk.at
           to == walk'.at
           head == Head(walk.rest)
           w == place[at]
<1>1. TypeOK /\ AtInv /\ query \subseteq Paths
  BY QueriesAssumption DEF TypeInv, TypeOK
<1>2. query' = query
  BY StepFrame
<1>3. CASE Descend
  <2>1. /\ phase = "insert" /\ at \in Ids /\ Extends(place, next) /\ next \in Places'
    BY <1>1, <1>3, WalkTypes DEF Descend, Follows
  <2>2. /\ walk.path \in query /\ walk.path \in Paths
        /\ Spells(walk.path, w)
        /\ Len(w) + 1 \in 1..Len(walk.path)
        /\ walk.path[Len(w) + 1] = head
        /\ Spells(walk.path, next[to])
        /\ Len(next[to]) = Len(w) + 1
    BY <1>3, <2>1, WalkStep DEF ShapeInv
  <2>3. at # Root => Len(w) > 0
    BY <2>1, RootIsTop DEF ShapeInv
  <2>4. SourceInv(next)'
    <3>1. ASSUME NEW c \in Ids' \ {Root}
          PROVE  \E q \in query :
                   /\ Spells(q, next[c])
                   /\ LET s == q[Len(next[c])]
                      IN \/ nodes'[c].key = s
                         \/ Len(next[c]) > 1 /\ IsNumeral(s) /\ nodes'[c].key = ToIndex(s)
      <4>1. CASE c \in Ids
        <5>1. next[c] = place[c] /\ Relabelled(c)
          BY <1>1, <1>3, <2>1, <4>1, DescendShape DEF Extends
        <5>2. PICK q \in query :
                /\ Spells(q, place[c])
                /\ LET s == q[Len(place[c])]
                   IN \/ nodes[c].key = s
                      \/ Len(place[c]) > 1 /\ IsNumeral(s) /\ nodes[c].key = ToIndex(s)
          BY <2>1, <4>1 DEF SourcesInv, SourceInv
        <5>3. CASE nodes'[c].key = nodes[c].key
          BY <5>1, <5>2, <5>3
        <5>4. CASE nodes'[c].key # nodes[c].key
          <6>1. /\ at # Root /\ HasItems(at) /\ c = nodes[at].items[1]
                /\ IsNumeral(nodes[c].key) /\ nodes'[c].key = ToIndex(nodes[c].key)
            BY <5>1, <5>4 DEF Relabelled
          <6>2. nodes[c].key = q[Len(place[c])]
            <7>1. nodes[c].key.kind = "key"
              BY <6>1 DEF IsNumeral
            <7>2. \A s : ToIndex(s).kind = "index"
              BY DEF ToIndex, Index
            <7>3. QED
              BY <5>2, <7>1, <7>2
          <6>3. Len(place[c]) > 1
            <7>1. c \in Below(at)
              BY <1>1, <2>1, <6>1, FirstItem
            <7>2. place[c] = Append(w, ReadAt(nodes[c].key, Len(w) + 1))
              BY <2>1, <7>1 DEF ShapeInv, TreeInv
            <7>3. w \in Seq(Selectors) /\ ReadAt(nodes[c].key, Len(w) + 1) \in Selectors
              BY <1>1, <2>1, <4>1, NodeTypes, SelectorKinds DEF Places, ReadAt
            <7>4. Len(place[c]) = Len(w) + 1 /\ Len(w) \in Nat
              BY <7>2, <7>3, AppendProperties
            <7>5. QED
              BY <2>3, <6>1, <7>4
          <6>4. QED
            BY <5>1, <5>2, <6>1, <6>2, <6>3
        <5>5. QED
          BY <5>3, <5>4
      <4>2. CASE c \notin Ids
        <5>1. c = to /\ nodes'[c].key = Selected
          BY <1>3, <4>2, DescendBelow
        <5>2. walk.path[Len(next[c])] = head
          BY <2>2, <5>1
        <5>3. Selected = head \/ (at # Root /\ IsNumeral(head) /\ Selected = ToIndex(head))
          BY <1>3, SelectedReads
        <5>4. at # Root => Len(next[c]) > 1
          BY <2>2, <2>3, <5>1
        <5>5. QED
          BY <2>2, <5>1, <5>2, <5>3, <5>4
      <4>3. QED
        BY <4>1, <4>2
    <3>2. QED
      BY <1>2, <3>1 DEF SourceInv
  <2>5. BracketInv(next)'
    <3>1. ASSUME NEW n \in Ids' \ {Root}, NEW c \in Below(n)', nodes'[c].key.kind = "index"
          PROVE  \E q \in query : /\ Spells(q, next[n])
                                  /\ Len(next[n]) + 1 \in DOMAIN q
                                  /\ q[Len(next[n]) + 1] = Bracket
      <4>1. n \in Ids /\ next[n] = place[n]
        BY <1>3, <2>1, <3>1, DescendBelow DEF Extends
      <4>2. \A d \in Below(n) : nodes[d].key.kind = "index" =>
              \E q \in query : /\ Spells(q, place[n])
                               /\ Len(place[n]) + 1 \in DOMAIN q
                               /\ q[Len(place[n]) + 1] = Bracket
        BY <2>1, <3>1, <4>1 DEF SourcesInv, BracketInv
      <4>3. CASE c \in Below(n)
        <5>1. c \in Ids /\ Relabelled(c)
          BY <1>1, <1>3, <4>1, <4>3, NodeTypes, DescendShape
        <5>2. CASE nodes'[c].key = nodes[c].key
          BY <3>1, <4>1, <4>2, <4>3, <5>2
        <5>3. CASE nodes'[c].key # nodes[c].key
          <6>1. HasItems(at) /\ c = nodes[at].items[1] /\ head = Bracket
            BY <5>1, <5>3 DEF Relabelled
          <6>2. n = at
            BY <1>1, <2>1, <4>1, <4>3, <6>1, FirstItem DEF ShapeInv, TreeInv
          <6>3. Len(w) + 1 \in DOMAIN walk.path
            BY <2>2 DEF Paths
          <6>4. QED
            BY <2>2, <4>1, <6>1, <6>2, <6>3
        <5>4. QED
          BY <5>2, <5>3
      <4>4. CASE c \notin Below(n)
        <5>1. n = at /\ c = to /\ nodes'[c].key = Selected
          BY <1>3, <3>1, <4>1, <4>4, DescendBelow
        <5>2. CASE Selected = head
          <6>1. head = Bracket
            BY <1>3, <3>1, <5>1, <5>2, SelectedReads DEF Keys
          <6>2. Len(w) + 1 \in DOMAIN walk.path
            BY <2>2 DEF Paths
          <6>3. QED
            BY <2>2, <4>1, <5>1, <6>1, <6>2
        <5>3. CASE HasItems(at) /\ FirstKey(at).kind = "index"
          <6>1. nodes[at].items[1] \in Below(at) /\ FirstKey(at) = nodes[nodes[at].items[1]].key
            BY <1>1, <2>1, <5>3, FirstItem
          <6>2. QED
            BY <4>1, <4>2, <5>1, <5>3, <6>1
        <5>4. QED
          BY <1>3, <5>2, <5>3, SelectedReads
      <4>5. QED
        BY <4>3, <4>4
    <3>2. QED
      BY <1>2, <3>1 DEF BracketInv
  <2>6. FailedInv'
    BY <1>2, <1>3, <2>1 DEF SourcesInv, FailedInv, Descend, MixedQuery
  <2>7. QED
    BY <2>4, <2>5, <2>6 DEF SourcesInv
<1>4. CASE Normalize
  <2>1. phase = "normalize" /\ UNCHANGED <<failed, phase>>
    BY <1>4 DEF Normalize
  <2>2. QED
    BY <1>2, <2>1 DEF SourcesInv, SourceInv, BracketInv, FailedInv, MixedQuery
<1>5. CASE ~Descend /\ ~Normalize
  <2>1. Quiet /\ next = place
    BY <1>5, QuietSteps DEF Follows
  <2>2. SourceInv(place)' /\ BracketInv(place)'
    <3>1. \A n \in Ids : Below(n) \subseteq Ids
      BY <1>1, NodeTypes
    <3>2. phase' = "insert" => phase = "insert"
      BY StepFrame
    <3>3. SourceInv(place)'
      BY <1>2, <2>1, <3>2 DEF SourcesInv, SourceInv, Quiet
    <3>4. BracketInv(place)'
      BY <1>2, <2>1, <3>1, <3>2 DEF SourcesInv, BracketInv, Quiet
    <3>5. QED
      BY <3>3, <3>4
  <2>3. FailedInv'
    <3>1. CASE TakeKey
      <4>1. phase' = "insert" /\ (failed' = failed \/ Unparsable \in pending)
        BY <3>1 DEF TakeKey
      <4>2. QED
        BY <1>1, <1>2, <4>1 DEF TypeOK, FailedInv, SourcesInv, MixedQuery
    <3>2. CASE Reject
      <4>1. MixedQuery
        BY <3>2, RejectedIsMixed
      <4>2. QED
        BY <1>2, <4>1 DEF FailedInv, MixedQuery
    <3>3. CASE ~TakeKey /\ ~Reject
      BY <1>1, <1>2, <1>5, <3>3 DEF Next, StoreValues, EndInsertion, EndNormalize, vars, TypeOK, FailedInv, SourcesInv, MixedQuery
    <3>4. QED
      BY <3>1, <3>2, <3>3
  <2>4. QED
    BY <2>1, <2>2, <2>3 DEF SourcesInv
<1>6. QED
  BY <1>3, <1>4, <1>5
-----------------------------------------------------------------------------
(* A prefix of a place. *)
LEMMA PrefixFacts ==
  ASSUME NEW w \in Seq(Selectors), NEW k \in 0..Len(w)
  PROVE  /\ Prefix(w, k) \in Seq(Selectors)
         /\ Len(Prefix(w, k)) = k
         /\ \A i \in 1..k : Prefix(w, k)[i] = w[i]
         /\ Prefix(w, Len(w)) = w
  BY DEF Prefix

(* A prefix of a place is one of the places below. *)
LEMMA PrefixOfAppend ==
  ASSUME NEW w \in Seq(Selectors), NEW e \in Selectors, NEW k \in 0..Len(w)
  PROVE  Prefix(Append(w, e), k) = Prefix(w, k)
  BY DEF Prefix

(* A key that runs along a place runs along its prefixes. *)
LEMMA SpellsPrefix ==
  ASSUME NEW path \in Paths, NEW w \in Seq(Selectors), Spells(path, w), NEW k \in 0..Len(w)
  PROVE  Spells(path, Prefix(w, k))
<1>1. Len(w) \in Nat /\ Len(path) \in Nat
  BY PathTypes
<1>2. QED
  BY <1>1, PrefixFacts DEF Spells

(* Whether numbers are met up to a level depends on the levels above it. *)
LEMMA ClearAppend ==
  ASSUME NEW w \in Seq(Selectors), NEW e \in Selectors, NEW k \in Nat, k <= Len(w) + 1
  PROVE  Clear(Append(w, e), k) <=> Clear(w, k)
<1>1. \A j \in 2..k : j - 1 \in 0..Len(w)
  OBVIOUS
<1>2. \A j \in 2..k : Prefix(Append(w, e), j - 1) = Prefix(w, j - 1)
  BY <1>1, PrefixOfAppend
<1>3. QED
  BY <1>2 DEF Clear

(* Where no numeral is met, a node has the key of the query as it is        *)
(* written.                                                                 *)
LEMMA ClearKeys ==
  ASSUME TypeInv, phase = "insert", NEW place \in Places, ShapeInv(place), SourcesInv(place),
         NEW c \in Ids \ {Root}, Clear(place[c], Len(place[c]))
  PROVE  /\ ReadAt(nodes[c].key, Len(place[c])) = nodes[c].key
         /\ Len(place[c]) > 1 => ~IsNumeral(nodes[c].key)
<1> DEFINE w == place[c]
           k == Len(place[c])
<1>1. w \in Seq(Selectors) /\ k \in Nat /\ k > 0
  BY RootIsTop DEF ShapeInv
<1>2. PICK q \in query :
        /\ Spells(q, w)
        /\ LET s == q[k]
           IN nodes[c].key = s \/ (k > 1 /\ IsNumeral(s) /\ nodes[c].key = ToIndex(s))
  BY DEF SourcesInv, SourceInv
<1>3. q \in Paths /\ Len(q) \in Nat /\ k <= Len(q) /\ nodes[c].key \in Selectors
  BY <1>2, QueriesAssumption, PathTypes, NodeTypes DEF TypeInv, TypeOK, Spells
<1>4. CASE k = 1
  BY <1>2, <1>4 DEF ReadAt
<1>5. CASE k > 1
  <2>1. k - 1 \in 0..Len(w) /\ k \in 2..k
    BY <1>1, <1>5
  <2>2. Spells(q, Prefix(w, k - 1))
    BY <1>1, <1>2, <1>3, <2>1, SpellsPrefix
  <2>3. ~IsNumeral(q[k])
    BY <1>3, <2>1, <2>2 DEF Clear
  <2>4. nodes[c].key = q[k]
    BY <1>2, <2>3
  <2>5. ~IsNumeral(nodes[c].key)
    BY <2>3, <2>4
  <2>6. Reading(nodes[c].key) = nodes[c].key
    BY <1>3, <2>5, SelectorKinds
  <2>7. QED
    BY <1>5, <2>5, <2>6 DEF ReadAt
<1>6. k = 1 \/ k > 1
  <2>1. k \in Nat /\ k > 0
    BY <1>1
  <2> HIDE DEF k
  <2>2. QED
    BY <2>1
<1>7. QED
  BY <1>4, <1>5, <1>6

(* A level of InsertNode makes no second node for a place where no          *)
(* numeral is met, and no child of the other kind below it.                 *)
LEMMA UniqueStep ==
  ASSUME TypeInv, Descend, ~failed, NEW place \in Places, ShapeInv(place), SourcesInv(place),
         UniqueInv(place), NEW next, Follows(place, next)
  PROVE  UniqueInv(next)'
<1> DEFINE at == walk.at
           to == walk'.at
           head == Head(walk.rest)
           w == place[at]
           k == Len(w) + 1
<1>1. TypeOK /\ AtInv /\ query \subseteq Paths /\ walk.rest # <<>> /\ query' = query
  BY QueriesAssumption DEF TypeInv, TypeOK, Descend
<1>2. /\ phase = "insert" /\ at \in Ids /\ Extends(place, next) /\ next \in Places'
  BY <1>1, WalkTypes DEF Follows
<1>3. /\ walk.path \in query /\ walk.path \in Paths
      /\ Spells(walk.path, w)
      /\ k \in 1..Len(walk.path)
      /\ walk.path[k] = head
      /\ Len(next[to]) = k
  BY <1>2, WalkStep DEF ShapeInv
<1>4. w \in Seq(Selectors) /\ k \in Nat /\ (at = Root => w = <<>>) /\ (at # Root => Len(w) > 0)
  BY <1>2, RootIsTop DEF ShapeInv
<1>5. ReadAt(head, k) \in Selectors /\ next[to] = Append(w, ReadAt(head, k))
  BY <1>2, SelectedReads, SelectorKinds DEF Extends, ReadAt
<1>6. ASSUME Clear(w, k), at # Root PROVE ~IsNumeral(head) /\ Selected = head
  <2>1. k \in 2..k /\ k - 1 = Len(w) /\ k <= Len(walk.path)
    BY <1>3, <1>4, <1>6
  <2>2. Spells(walk.path, Prefix(w, k - 1))
    BY <1>3, <1>4, <2>1, PrefixFacts
  <2>3. ~IsNumeral(head)
    BY <1>3, <1>6, <2>1, <2>2 DEF Clear
  <2>4. QED
    BY <2>3, SelectedReads
<1>7. ASSUME Clear(w, k), NEW c \in Below(at)
      PROVE  /\ c \in Ids \ {Root}
             /\ place[c] = Append(w, ReadAt(nodes[c].key, k))
             /\ ReadAt(nodes[c].key, k) = nodes[c].key
             /\ nodes'[c].key = nodes[c].key
             /\ at # Root => ~IsNumeral(nodes[c].key)
  <2>1. c \in Ids /\ c > at /\ place[c] = Append(w, ReadAt(nodes[c].key, k))
    BY <1>1, <1>2, <1>7, NodeTypes DEF ShapeInv, TreeInv
  <2>2. c # Root
    BY <1>2, <2>1 DEF Ids, Root
  <2>3. ReadAt(nodes[c].key, k) \in Selectors
    BY <1>1, <2>1, NodeTypes, SelectorKinds DEF ReadAt
  <2>4. Len(place[c]) = k /\ Clear(place[c], k)
    BY <1>4, <1>7, <2>1, <2>3, AppendProperties, ClearAppend
  <2>5. /\ ReadAt(nodes[c].key, Len(place[c])) = nodes[c].key
        /\ Len(place[c]) > 1 => ~IsNumeral(nodes[c].key)
    <3>1. c \in Ids \ {Root} /\ Clear(place[c], Len(place[c]))
      BY <2>1, <2>2, <2>4
    <3>2. QED
      BY <1>2, <3>1, ClearKeys
  <2>8. at # Root => Len(place[c]) > 1
    BY <1>4, <2>4
  <2>6. nodes'[c].key = nodes[c].key
    BY <1>1, <2>1, <2>5, <2>8, DescendShape DEF Relabelled
  <2>7. QED
    BY <2>1, <2>2, <2>4, <2>5, <2>6, <2>8
<1>8. ASSUME NEW m \in Ids, place[m] = next[to], Clear(next[to], k), to \notin Ids
      PROVE  FALSE
  <2>1. Clear(w, k)
    BY <1>4, <1>5, <1>8, ClearAppend
  <2>2. PICK p \in Ids : /\ m \in Below(p)
                         /\ place[m] = Append(place[p], ReadAt(nodes[m].key, Len(place[p]) + 1))
    <3>1. Len(place[m]) > 0 /\ place[Root] = <<>>
      BY <1>3, <1>4, <1>8 DEF ShapeInv, TreeInv
    <3>2. m # Root
      BY <3>1
    <3>3. QED
      BY <1>2, <3>2, RootIsTop DEF ShapeInv
  <2>3. place[p] = w /\ ReadAt(nodes[m].key, k) = ReadAt(head, k)
    <3>1. place[p] \in Seq(Selectors) /\ ReadAt(nodes[m].key, Len(place[p]) + 1) \in Selectors
      BY <1>1, NodeTypes, SelectorKinds DEF Places, ReadAt
    <3>2. Append(place[p], ReadAt(nodes[m].key, Len(place[p]) + 1)) = Append(w, ReadAt(head, k))
      BY <1>5, <1>8, <2>2
    <3>3. place[p] = w /\ ReadAt(nodes[m].key, Len(place[p]) + 1) = ReadAt(head, k)
      <4> DEFINE v == place[p]
                 e == ReadAt(nodes[m].key, Len(place[p]) + 1)
                 f == ReadAt(head, k)
      <4>1. v \in Seq(Selectors) /\ w \in Seq(Selectors) /\ e \in Selectors /\ f \in Selectors
        BY <1>4, <1>5, <3>1
      <4>2. Append(v, e) = Append(w, f)
        BY <3>2
      <4>3. v = w /\ e = f
        <5> HIDE DEF v, e, f, w
        <5>1. QED
          BY <4>1, <4>2, AppendInjective
      <4>4. QED
        BY <4>3
    <3>4. QED
      BY <3>3
  <2>4. p = at
    <3>1. Clear(place[p], Len(place[p]))
      BY <1>4, <2>1, <2>3 DEF Clear
    <3>2. QED
      BY <1>2, <2>3, <3>1 DEF UniqueInv
  <2>5. nodes'[m].key = nodes[m].key /\ ReadAt(nodes[m].key, k) = nodes[m].key
    BY <1>7, <2>1, <2>2, <2>4
  <2>6. Selected = head /\ ReadAt(head, k) = head
    <3>1. CASE at = Root
      BY <1>4, <3>1, SelectedReads DEF ReadAt
    <3>2. CASE at # Root
      BY <1>6, <2>1, <3>2, SelectedReads, SelectorKinds DEF ReadAt
    <3>3. QED
      BY <3>1, <3>2
  <2>7. Grown
    BY <1>1, <1>2, <1>8, NodeTypes, DescendShape DEF Entered
  <2>8. QED
    BY <2>2, <2>3, <2>4, <2>5, <2>6, <2>7 DEF Grown
<1>9. ASSUME NEW m \in Ids', NEW n \in Ids', next[m] = next[n], Clear(next[m], Len(next[m]))
      PROVE  m = n
  <2>1. Ids' = Ids \cup {to} /\ \A i \in Ids : next[i] = place[i]
    BY <1>2, DescendBelow DEF Extends
  <2>2. CASE m \in Ids /\ n \in Ids
    BY <1>2, <1>9, <2>1, <2>2 DEF UniqueInv
  <2>3. CASE m \notin Ids \/ n \notin Ids
    BY <1>3, <1>8, <1>9, <2>1, <2>3
  <2>4. QED
    BY <2>2, <2>3
<1>10. ASSUME NEW n \in Ids' \ {Root}, Clear(next[n], Len(next[n]) + 1),
              NEW c \in Below(n)', NEW d \in Below(n)'
       PROVE  nodes'[c].key.kind = nodes'[d].key.kind
  <2>1. n \in Ids /\ next[n] = place[n] /\ Clear(place[n], Len(place[n]) + 1)
    BY <1>2, <1>10, DescendBelow DEF Extends
  <2>2. \A a, b \in Below(n) : nodes[a].key.kind = nodes[b].key.kind
    BY <1>2, <1>10, <2>1 DEF UniqueInv
  <2>3. Below(n) \subseteq Ids
    BY <1>1, <2>1, NodeTypes
  <2>4. CASE n # at
    <3>1. Below(n)' = Below(n)
      BY <2>1, <2>4, DescendBelow
    <3>2. \A a \in Below(n) : nodes'[a].key = nodes[a].key
      BY <1>2, <2>1, <2>3, <2>4, Labels DEF ShapeInv, TreeInv
    <3>3. QED
      BY <1>10, <2>2, <3>1, <3>2
  <2>5. CASE n = at
    <3>1. Below(n)' = Below(at) \cup {to} /\ nodes'[to].key = Selected
      BY <2>1, <2>5, DescendBelow
    <3>2. /\ ~IsNumeral(head) /\ Selected = head
          /\ \A a \in Below(at) : nodes'[a].key = nodes[a].key /\ ~IsNumeral(nodes[a].key)
      BY <1>6, <1>7, <1>10, <2>1, <2>5
    <3>3. CASE ~HasItems(at)
      <4>1. Below(at) = {}
        BY <3>3 DEF HasItems, Below, Range
      <4>2. QED
        BY <1>10, <3>1, <4>1
    <3>4. CASE HasItems(at)
      <4>1. nodes[at].items[1] \in Below(at) /\ FirstKey(at) = nodes[nodes[at].items[1]].key
            /\ FirstKey(at) \in Selectors
        BY <1>1, <1>2, <3>4, FirstItem
      <4>2. ~Mixed(at, head)
        BY DEF Descend
      <4>3. FirstKey(at).kind = head.kind
        <5>1. at # Root
          BY <1>10, <2>5
        <5>2. ~IsNumeral(head) /\ ~IsNumeral(FirstKey(at))
          BY <3>2, <4>1
        <5>3. Clash(at, head) => IsNumber(IF head.kind = "key" THEN head ELSE FirstKey(at))
          BY <4>2 DEF Mixed
        <5>4. head \in Selectors
          BY SelectedReads
        <5>5. QED
          BY <3>4, <4>1, <5>1, <5>2, <5>3, <5>4, SelectorKinds DEF Clash, IsNumeral
      <4>4. \A a \in Below(n)' : nodes'[a].key.kind = head.kind
        BY <2>2, <2>5, <3>1, <3>2, <4>1, <4>3
      <4>5. QED
        BY <1>10, <4>4
    <3>5. QED
      BY <3>3, <3>4
  <2>6. QED
    BY <2>4, <2>5
<1>11. QED
  BY <1>1, <1>9, <1>10 DEF UniqueInv, Clear

(* The reading of a path, selector by selector. *)
LEMMA ReadFacts ==
  ASSUME NEW path \in Seq(Selectors)
  PROVE  /\ Read(path) \in Seq(Selectors)
         /\ Len(Read(path)) = Len(path)
         /\ \A i \in 1..Len(path) : Read(path)[i] = ReadAt(path[i], i)
<1>1. DOMAIN path = 1..Len(path) /\ Len(path) \in Nat /\ \A i \in 1..Len(path) : path[i] \in Selectors
  OBVIOUS
<1>2. \A i \in 1..Len(path) : ReadAt(path[i], i) \in Selectors
  BY <1>1, SelectorKinds DEF ReadAt
<1>3. Read(path) = [i \in 1..Len(path) |-> ReadAt(path[i], i)]
  BY <1>1 DEF Read, ReadAt
<1> DEFINE full == [i \in 1..Len(path) |-> ReadAt(path[i], i)]
<1>4. full \in Seq(Selectors) /\ Len(full) = Len(path)
  BY <1>1, <1>2
<1>5. QED
  BY <1>3, <1>4

(* Keys are sequences of selectors. *)
LEMMA SelectorPaths == Paths \subseteq Seq(Selectors)
<1>1. Keys \cup {Bracket} \subseteq Selectors
  BY DEF Selectors, Bracket, Index
<1>2. QED
  BY <1>1 DEF Paths

(* The reading of a longer path. *)
LEMMA ReadAppend ==
  ASSUME NEW path \in Seq(Selectors), NEW s \in Selectors
  PROVE  Read(Append(path, s)) = Append(Read(path), ReadAt(s, Len(path) + 1))
<1> DEFINE long == Append(path, s)
           left == Read(long)
           right == Append(Read(path), ReadAt(s, Len(path) + 1))
<1>1. /\ long \in Seq(Selectors) /\ Len(long) = Len(path) + 1
      /\ \A i \in 1..Len(path) : long[i] = path[i]
      /\ long[Len(path) + 1] = s
      /\ Len(path) \in Nat
  OBVIOUS
<1>2. ReadAt(s, Len(path) + 1) \in Selectors
  BY SelectorKinds DEF ReadAt
<1>3. /\ Read(path) \in Seq(Selectors) /\ Len(Read(path)) = Len(path)
      /\ \A i \in 1..Len(path) : Read(path)[i] = ReadAt(path[i], i)
  BY ReadFacts
<1>4. /\ right \in Seq(Selectors) /\ Len(right) = Len(path) + 1
      /\ \A i \in 1..Len(path) : right[i] = Read(path)[i]
      /\ right[Len(path) + 1] = ReadAt(s, Len(path) + 1)
  BY <1>2, <1>3, AppendProperties
<1> HIDE DEF long
<1>5. /\ left \in Seq(Selectors) /\ Len(left) = Len(long)
      /\ \A i \in 1..Len(long) : left[i] = ReadAt(long[i], i)
  BY <1>1, ReadFacts
<1> HIDE DEF left, right
<1>6. \A i \in 1..Len(left) : left[i] = right[i]
  BY <1>1, <1>3, <1>4, <1>5
<1>7. left = right
  BY <1>1, <1>4, <1>5, <1>6, SeqEqual
<1>8. QED
  BY <1>7 DEF left, right, long

(* Values are stored at the end of their key: at the place that reads as    *)
(* it.                                                                      *)
LEMMA StoredPlace ==
  ASSUME TypeInv, StoreValues, NEW place \in Places, ShapeInv(place)
  PROVE  /\ walk.path \in query \ pending /\ walk.path # Unparsable
         /\ walk.at \in Ids \ {Root}
         /\ Len(walk.path) = Len(place[walk.at])
         /\ Spells(walk.path, place[walk.at])
         /\ Read(walk.path) = place[walk.at]
<1> DEFINE path == walk.path
           w == place[walk.at]
<1>1. walk # Idle /\ walk.rest = <<>>
  BY DEF StoreValues
<1>2. /\ path \in query \ pending /\ path # Unparsable
      /\ walk.at \in Ids /\ phase = "insert"
      /\ Spells(path, w)
      /\ walk.rest = SubSeq(path, Len(w) + 1, Len(path))
  BY <1>1 DEF ShapeInv, WalkInv
<1>3. path \in Paths /\ w \in Seq(Selectors)
  BY <1>2 DEF TypeInv, TypeOK, Places
<1>4. Len(path) = Len(w)
  <2>1. Len(w) <= Len(path) /\ Len(w) \in Nat /\ Len(path) \in Nat
    BY <1>2, <1>3, PathTypes DEF Spells
  <2>2. path \in Seq(Keys \cup {Bracket})
    BY <1>3 DEF Paths
  <2> HIDE DEF w, path
  <2>3. Len(w) + 1 <= Len(path) => Len(SubSeq(path, Len(w) + 1, Len(path))) = Len(path) - Len(w)
    BY <2>1, <2>2
  <2>4. Len(SubSeq(path, Len(w) + 1, Len(path))) = 0
    <3>1. Len(<<>>) = 0
      OBVIOUS
    <3>2. SubSeq(path, Len(w) + 1, Len(path)) = <<>>
      BY <1>1, <1>2
    <3>3. QED
      BY <3>1, <3>2
  <2>5. QED
    BY <2>1, <2>3, <2>4
<1>5. path \in Seq(Selectors)
  BY <1>3, SelectorPaths
<1>6. walk.at # Root
  <2>1. path # <<>>
    BY <1>2 DEF Unparsable
  <2>2. Len(path) # 0
    <3> HIDE DEF path
    <3>1. QED
      BY <1>5, <2>1
  <2>3. walk.at = Root => Len(w) = 0
    BY DEF ShapeInv, TreeInv
  <2>4. QED
    BY <1>4, <2>2, <2>3
<1>7. Read(path) = w
  <2>1. /\ Read(path) \in Seq(Selectors) /\ Len(Read(path)) = Len(w)
        /\ \A i \in 1..Len(w) : Read(path)[i] = ReadAt(path[i], i)
    BY <1>4, <1>5, ReadFacts
  <2>2. \A i \in 1..Len(Read(path)) : Read(path)[i] = w[i]
    BY <1>2, <2>1 DEF Spells
  <2> HIDE DEF path, w
  <2>3. QED
    BY <1>3, <2>1, <2>2, SeqEqual
<1>8. QED
  BY <1>2, <1>4, <1>6, <1>7

(* Every step of the insertion leaves a node at each level of each key      *)
(* that is inserted.                                                        *)
LEMMA InsertedStep ==
  ASSUME TypeInv, [Next]_vars, ~failed', phase' = "insert",
         NEW place \in Places, ShapeInv(place), InsertedInv(place),
         NEW next, Follows(place, next)
  PROVE  InsertedInv(next)'
<1>1. TypeOK /\ AtInv /\ query \subseteq Paths /\ Root \in Ids
  BY QueriesAssumption DEF TypeInv, TypeOK
<1>2. query' = query /\ phase = "insert" /\ ~failed /\ ~Normalize
  BY StepFrame
<1>3. /\ \A path \in Inserted : \A i \in 1..Len(path) :
           \E n \in Ids : Len(place[n]) = i /\ Spells(path, place[n])
      /\ walk # Idle => \A i \in 1..Len(place[walk.at]) :
           \E n \in Ids : Len(place[n]) = i /\ Spells(walk.path, place[n])
  BY <1>2 DEF InsertedInv
<1>4. CASE Descend
  <2>1. walk.at \in Ids /\ walk # Idle /\ Extends(place, next)
    BY <1>1, <1>4, WalkTypes DEF Descend, Follows
  <2>2. /\ Ids \subseteq Ids' /\ walk'.at \in Ids'
        /\ \A n \in Ids : next[n] = place[n]
    BY <1>4, <2>1, DescendBelow DEF Extends
  <2>3. walk'.path = walk.path /\ pending' = pending
    BY <1>1, <1>4, DescendShape, StepFrame
  <2>4. Inserted' = Inserted
    BY <1>2, <2>3 DEF Inserted
  <2>5. Spells(walk.path, next[walk'.at]) /\ Len(next[walk'.at]) = Len(place[walk.at]) + 1
    BY <1>4, <2>1, WalkStep DEF ShapeInv, Follows
  <2>6. Len(place[walk.at]) \in Nat
    BY <2>1 DEF Places
  <2>7. ASSUME NEW i \in 1..Len(next[walk'.at])
        PROVE  \E n \in Ids' : Len(next[n]) = i /\ Spells(walk.path, next[n])
    <3>1. CASE i \in 1..Len(place[walk.at])
      BY <1>3, <2>1, <2>2, <3>1
    <3>2. CASE i = Len(next[walk'.at])
      BY <2>2, <2>5, <3>2
    <3>3. QED
      BY <2>5, <2>6, <2>7, <3>1, <3>2
  <2>8. \A path \in Inserted : \A i \in 1..Len(path) :
          \E n \in Ids' : Len(next[n]) = i /\ Spells(path, next[n])
    BY <1>3, <2>2
  <2>9. QED
    BY <2>3, <2>4, <2>7, <2>8 DEF InsertedInv
<1>5. CASE ~Descend
  <2>1. Ids' = Ids /\ next = place
    BY <1>2, <1>5, QuietSteps DEF Quiet, Follows
  <2>2. CASE TakeKey
    <3>1. PICK path \in pending :
            /\ pending' = pending \ {path}
            /\ IF path = Unparsable
                 THEN failed' = TRUE /\ walk' = Idle
                 ELSE failed' = failed /\ walk' = [at |-> Root, rest |-> path, path |-> path]
      BY <2>2 DEF TakeKey
    <3>2. walk'.at = Root /\ walk'.path = path /\ walk = Idle
      BY <2>2, <3>1 DEF TakeKey
    <3>3. Inserted' \subseteq Inserted
      BY <1>2, <3>1, <3>2 DEF Inserted, Idle, Unparsable
    <3>4. Len(place[Root]) = 0
      BY DEF ShapeInv, TreeInv
    <3>5. QED
      BY <1>3, <2>1, <3>2, <3>3, <3>4 DEF InsertedInv
  <2>3. CASE StoreValues
    <3>1. walk # Idle /\ walk.rest = <<>> /\ walk' = Idle /\ pending' = pending
      BY <2>3 DEF StoreValues
    <3>2. Inserted' \subseteq Inserted \cup {walk.path}
      BY <1>2, <3>1 DEF Inserted, Idle, Unparsable
    <3>3. Len(walk.path) = Len(place[walk.at])
      BY <2>3, StoredPlace
    <3>4. QED
      BY <1>3, <2>1, <3>1, <3>2, <3>3 DEF InsertedInv
  <2>4. CASE UNCHANGED <<query, pending, walk>>
    <3>1. Inserted' = Inserted
      BY <2>4 DEF Inserted
    <3>2. QED
      BY <1>3, <2>1, <2>4, <3>1 DEF InsertedInv
  <2>5. QED
    BY <1>2, <1>5, <2>2, <2>3, <2>4 DEF Next, Reject, EndInsertion, EndNormalize, vars
<1>6. QED
  BY <1>4, <1>5

(* The node of a key at a level below the top hangs below the node of the   *)
(* level above, and has the key as it is read when no numeral is met.       *)
LEMMA SpelledKey ==
  ASSUME TypeInv, phase = "insert", NEW place \in Places, ShapeInv(place), SourcesInv(place),
         NEW path \in Paths, NEW i \in 2..Len(path),
         NEW n \in Ids, Len(place[n]) = i, Spells(path, place[n])
  PROVE  \E m \in Ids \ {Root} :
           /\ n \in Below(m)
           /\ place[m] \in Seq(Selectors) /\ Len(place[m]) = i - 1
           /\ Spells(path, place[m])
           /\ Clear(place[m], i) => nodes[n].key = Reading(path[i])
<1>1. i \in Nat /\ i > 1 /\ n # Root /\ TypeOK
  <2>1. i \in Nat /\ i > 1 /\ Len(path) \in Nat
    BY PathTypes
  <2>2. n = Root => Len(place[n]) = 0
    BY DEF ShapeInv, TreeInv
  <2>3. QED
    BY <2>1, <2>2 DEF TypeInv
<1>2. PICK m \in Ids : /\ n \in Below(m)
                       /\ place[n] = Append(place[m], ReadAt(nodes[n].key, Len(place[m]) + 1))
  BY <1>1, RootIsTop DEF ShapeInv
<1> DEFINE e == ReadAt(nodes[n].key, Len(place[m]) + 1)
<1>3. place[m] \in Seq(Selectors) /\ e \in Selectors /\ place[n] = Append(place[m], e)
  BY <1>1, <1>2, NodeTypes, SelectorKinds DEF Places, ReadAt
<1>4. Len(place[m]) = i - 1
  <2> HIDE DEF e
  <2>1. Len(place[n]) = Len(place[m]) + 1 /\ Len(place[m]) \in Nat
    BY <1>3, AppendProperties
  <2>2. QED
    BY <2>1
<1>5. m # Root
  <2>1. m = Root => Len(place[m]) = 0
    BY DEF ShapeInv, TreeInv
  <2>2. QED
    BY <1>1, <1>4, <2>1
<1>6. Spells(path, place[m]) /\ e = ReadAt(path[i], i)
  BY <1>1, <1>3, <1>4, SpellsMore
<1>7. Clear(place[m], i) => nodes[n].key = Reading(path[i])
  <2>1. SUFFICES ASSUME Clear(place[m], i) PROVE nodes[n].key = Reading(path[i])
    OBVIOUS
  <2>2. Clear(place[n], Len(place[n]))
    BY <1>1, <1>3, <1>4, <2>1, ClearAppend
  <2>3. ReadAt(nodes[n].key, Len(place[n])) = nodes[n].key
    BY <1>1, <2>2, ClearKeys
  <2>4. QED
    BY <1>1, <1>4, <1>6, <2>3 DEF ReadAt
<1>8. QED
  BY <1>2, <1>3, <1>4, <1>5, <1>6, <1>7

(* When all keys are inserted without an error, no "[ ]" is beside a name   *)
(* at a level without numerals: both would be children of one node, and     *)
(* those are of one kind.                                                   *)
LEMMA AllInserted ==
  ASSUME TypeInv, phase = "insert", walk = Idle, pending = {}, ~failed,
         NEW place \in Places, ShapeInv(place), SourcesInv(place), ConflictInv(place)
  PROVE  HiddenOnly
<1>1. TypeOK /\ query \subseteq Paths
  BY QueriesAssumption DEF TypeInv, TypeOK
<1>2. Unparsable \notin query
  BY DEF ConflictInv, UnparsableInv
<1>3. ASSUME NEW p \in query, NEW q \in query, NEW i \in DOMAIN p,
             Meet(p, q, i), p[i] = Bracket, IsName(q[i]),
             \A r \in query : \A j \in DOMAIN r : j <= i /\ Meet(p, r, j) => ~IsNumeral(r[j])
      PROVE  FALSE
  <2>1. p \in Paths /\ q \in Paths /\ p \in Inserted /\ q \in Inserted
    BY <1>1, <1>2 DEF Inserted, Idle, Unparsable
  <2>2. /\ i \in 2..Len(p) /\ i \in 2..Len(q) /\ i \in Nat /\ i - 1 \in Nat
        /\ Len(p) \in Nat /\ Len(q) \in Nat
        /\ Read(Prefix(p, i - 1)) = Read(Prefix(q, i - 1))
    BY <1>3, <2>1, PathTypes DEF Meet
  <2>3. PICK np \in Ids : Len(place[np]) = i /\ Spells(p, place[np])
    BY <2>1, <2>2 DEF ConflictInv, InsertedInv
  <2>4. PICK nq \in Ids : Len(place[nq]) = i /\ Spells(q, place[nq])
    BY <2>1, <2>2 DEF ConflictInv, InsertedInv
  <2>5. PICK mp \in Ids \ {Root} :
          /\ np \in Below(mp)
          /\ place[mp] \in Seq(Selectors) /\ Len(place[mp]) = i - 1
          /\ Spells(p, place[mp])
          /\ Clear(place[mp], i) => nodes[np].key = Reading(p[i])
    <3>1. p \in Paths /\ i \in 2..Len(p)
      BY <2>1, <2>2
    <3>2. np \in Ids /\ Len(place[np]) = i /\ Spells(p, place[np])
      BY <2>3
    <3>3. QED
      BY <3>1, <3>2, SpelledKey
  <2>6. PICK mq \in Ids \ {Root} :
          /\ nq \in Below(mq)
          /\ place[mq] \in Seq(Selectors) /\ Len(place[mq]) = i - 1
          /\ Spells(q, place[mq])
          /\ Clear(place[mq], i) => nodes[nq].key = Reading(q[i])
    <3>1. q \in Paths /\ i \in 2..Len(q)
      BY <2>1, <2>2
    <3>2. nq \in Ids /\ Len(place[nq]) = i /\ Spells(q, place[nq])
      BY <2>4
    <3>3. QED
      BY <3>1, <3>2, SpelledKey
  <2>7. place[mp] = place[mq]
    <3>1. \A j \in 1..(i - 1) : place[mp][j] = ReadAt(p[j], j) /\ place[mq][j] = ReadAt(q[j], j)
      BY <2>5, <2>6 DEF Spells
    <3>2. /\ DOMAIN Prefix(p, i - 1) = 1..(i - 1) /\ DOMAIN Prefix(q, i - 1) = 1..(i - 1)
          /\ \A j \in 1..(i - 1) : Prefix(p, i - 1)[j] = p[j] /\ Prefix(q, i - 1)[j] = q[j]
      BY <2>1, <2>2 DEF Prefix, Paths
    <3>3. \A j \in 1..(i - 1) : /\ Read(Prefix(p, i - 1))[j] = ReadAt(p[j], j)
                                /\ Read(Prefix(q, i - 1))[j] = ReadAt(q[j], j)
      BY <3>2 DEF Read, ReadAt
    <3>4. \A j \in 1..(i - 1) : place[mp][j] = place[mq][j]
      BY <2>2, <3>1, <3>3
    <3> DEFINE v == place[mp]
               w == place[mq]
    <3>5. v \in Seq(Selectors) /\ w \in Seq(Selectors) /\ Len(v) = Len(w)
          /\ \A j \in 1..Len(v) : v[j] = w[j]
      BY <2>5, <2>6, <3>4
    <3>6. v = w
      <4> HIDE DEF v, w
      <4>1. QED
        BY <3>5, SeqEqual
    <3>7. QED
      BY <3>6
  <2>8. Clear(place[mp], i)
    <3>1. SUFFICES ASSUME NEW r \in query, NEW j \in 2..i, j <= Len(r),
                          Spells(r, Prefix(place[mp], j - 1))
                   PROVE  ~IsNumeral(r[j])
      BY DEF Clear
    <3>2. r \in Paths /\ Len(r) \in Nat /\ j \in 1..Len(r) /\ j \in DOMAIN r
      BY <1>1, <3>1, PathTypes DEF Paths
    <3>3. j - 1 \in 0..Len(place[mp]) /\ j - 1 > 0 /\ j - 1 + 1 = j
      BY <2>2, <2>5
    <3> DEFINE v == Prefix(place[mp], j - 1)
    <3>4. v \in Seq(Selectors) /\ Len(v) = j - 1 /\ Spells(p, v)
      BY <2>1, <2>5, <3>3, PrefixFacts, SpellsPrefix
    <3>5. j \in DOMAIN p
      BY <2>1, <2>2 DEF Paths
    <3>6. Meet(p, r, j)
      <4>1. Len(v) + 1 = j /\ Len(v) > 0
        BY <3>3, <3>4
      <4> HIDE DEF v
      <4>2. QED
        BY <2>1, <3>1, <3>2, <3>4, <3>5, <4>1, SpellsMeet DEF v
    <3>7. QED
      BY <1>3, <2>2, <3>2, <3>6
  <2>9. Clear(place[mp], Len(place[mp]))
    BY <2>2, <2>5, <2>8 DEF Clear
  <2>10. mp = mq
    BY <2>5, <2>7, <2>9 DEF ConflictInv, UniqueInv
  <2>11. nodes[np].key.kind = nodes[nq].key.kind
    BY <2>5, <2>6, <2>8, <2>10, <2>2 DEF ConflictInv, UniqueInv
  <2>12. nodes[np].key = Reading(Bracket) /\ nodes[nq].key = Reading(q[i])
    BY <1>3, <2>5, <2>6, <2>7, <2>8
  <2>13. QED
    BY <1>3, <2>11, <2>12 DEF IsName, Reading, Bracket, Index
<1>4. QED
  BY <1>2, <1>3 DEF HiddenOnly

(* Every step keeps this: what is not rejected has no open conflict. *)
LEMMA ConflictStep ==
  ASSUME TypeInv, [Next]_vars, NEW place \in Places,
         ShapeInv(place), SourcesInv(place), ConflictInv(place),
         NEW next, Follows(place, next)
  PROVE  ConflictInv(next)'
<1>1. TypeOK /\ AtInv /\ query' = query
  BY StepFrame DEF TypeInv
<1>2. UniqueInv(next)'
  <2>1. SUFFICES ASSUME phase' = "insert", ~failed' PROVE UniqueInv(next)'
    BY DEF UniqueInv
  <2>2. phase = "insert" /\ ~failed /\ ~Normalize
    BY <2>1, StepFrame
  <2>3. CASE Descend
    BY <2>2, <2>3, UniqueStep DEF ConflictInv
  <2>4. CASE ~Descend
    <3>1. Quiet /\ next = place
      BY <2>2, <2>4, QuietSteps DEF Follows
    <3>2. \A n \in Ids : Below(n) \subseteq Ids
      BY <1>1, NodeTypes
    <3>3. \A w, k : Clear(w, k)' <=> Clear(w, k)
      BY <1>1 DEF Clear
    <3>4. QED
      BY <2>2, <3>1, <3>2, <3>3 DEF Quiet, ConflictInv, UniqueInv
  <2>5. QED
    BY <2>3, <2>4
<1>3. InsertedInv(next)'
  <2>1. CASE ~failed' /\ phase' = "insert"
    BY <2>1, InsertedStep DEF ConflictInv
  <2>2. QED
    BY <2>1 DEF InsertedInv
<1>4. Descend => phase = "insert" /\ UNCHANGED <<pending, failed, phase, todo>>
  BY <1>1, StepFrame, WalkTypes DEF Descend
<1>5. UnparsableInv'
  <2>1. SUFFICES ASSUME Unparsable \in query, phase = "insert", Unparsable \in pending, ~failed'
                 PROVE  phase' = "insert" /\ Unparsable \in pending'
    BY <1>1, StepFrame DEF UnparsableInv, ConflictInv
  <2>2. CASE TakeKey
    <3>1. PICK path \in pending :
            /\ pending' = pending \ {path}
            /\ path = Unparsable => failed' = TRUE
      BY <2>2 DEF TakeKey
    <3>2. QED
      BY <2>1, <2>2, <3>1 DEF TakeKey
  <2>3. QED
    BY <1>4, <2>1, <2>2 DEF Next, Reject, StoreValues, EndInsertion, Normalize, EndNormalize, vars
<1>6. DoneInv'
  <2>1. HiddenOnly' <=> HiddenOnly
    BY <1>1 DEF HiddenOnly
  <2>2. CASE EndInsertion
    <3>1. CASE failed
      BY <2>2, <3>1 DEF EndInsertion, DoneInv
    <3>2. CASE ~failed
      <4>1. HiddenOnly
        BY <2>2, <3>2, AllInserted DEF EndInsertion
      <4>2. QED
        BY <2>1, <2>2, <3>2, <4>1 DEF EndInsertion, DoneInv
    <3>3. QED
      BY <3>1, <3>2
  <2>3. CASE Normalize \/ EndNormalize
    BY <2>1, <2>3 DEF Normalize, EndNormalize, DoneInv, ConflictInv
  <2>4. CASE phase = "insert" /\ phase' = phase
    BY <2>4 DEF DoneInv
  <2>5. CASE UNCHANGED vars
    BY <2>1, <2>5 DEF vars, DoneInv, ConflictInv
  <2>6. Reject => phase = "insert"
    BY <1>1, WalkTypes DEF Reject
  <2>7. QED
    BY <1>1, <1>4, <2>2, <2>3, <2>4, <2>5, <2>6 DEF Next, TakeKey, Reject, StoreValues, AtInv
<1>7. QED
  BY <1>2, <1>3, <1>5, <1>6 DEF ConflictInv

(* The children after Normalize: those left are younger than the node it    *)
(* was called on.                                                           *)
LEMMA NormalizeBelow ==
  ASSUME TypeInv, Normalize, NEW place \in Places, ShapeInv(place)
  PROVE  \E n \in Ids \ {Root} :
           /\ n \in todo /\ HasParent(n) /\ HasParent(n)'
           /\ \A t \in todo' : n < t
           /\ \A m \in Ids \ {n} : /\ nodes'[m].items = nodes[m].items
                                   /\ nodes'[m].values = nodes[m].values
                                   /\ Below(m)' = Below(m)
           /\ \A m \in Ids \ {n} : \A c \in Below(m) : nodes'[c].key = nodes[c].key
           /\ \/ Collapsed(n) /\ Below(n)' = {}
              \/ Ordered(n) /\ Below(n)' = Below(n)
<1>1. TypeOK
  BY DEF TypeInv
<1>2. PICK n \in todo :
        /\ \A m \in todo : n <= m
        /\ todo' = (todo \ {n}) \cup Range(nodes'[n].items)
        /\ Len(nodes') = Len(nodes)
        /\ \A m \in Ids \ {n} : /\ nodes'[m].items = nodes[m].items
                                /\ nodes'[m].values = nodes[m].values
        /\ \A m \in Ids : \/ nodes'[m].key = nodes[m].key
                          \/ m \in Below(n) /\ IsNumeral(nodes[m].key)
        /\ Collapsed(n) \/ Ordered(n)
  BY <1>1, NormalizeShape
<1>3. Ids' = Ids /\ n \in Ids /\ todo \subseteq Ids /\ \A m \in Ids : Below(m) \subseteq Ids
  BY <1>1, <1>2, NodeTypes DEF Ids, TypeOK
<1>4. /\ \A m \in Ids \ {n} : Below(m)' = Below(m)
      /\ \/ Collapsed(n) /\ Below(n)' = {}
         \/ Ordered(n) /\ Below(n)' = Below(n)
  <2>1. Range(<<>>) = {}
    BY DEF Range
  <2>2. QED
    BY <1>2, <2>1 DEF Below, Collapsed, Ordered
<1>5. PICK p \in Ids : n \in Below(p) /\ p < n
  BY <1>2 DEF ShapeInv, TodoInv
<1>6. n # Root /\ HasParent(n) /\ HasParent(n)'
  <2>1. n # Root /\ p # n
    BY <1>3, <1>5 DEF Ids, Root
  <2>2. n \in Below(p)'
    BY <1>4, <1>5, <2>1
  <2>3. QED
    BY <1>3, <1>5, <2>1, <2>2 DEF HasParent
<1>7. \A t \in todo' : n < t
  <2>1. \A t \in todo \ {n} : n < t
    BY <1>2, <1>3 DEF Ids
  <2>2. \A t \in Below(n) : n < t
    BY <1>3 DEF ShapeInv, TreeInv
  <2>3. QED
    BY <1>2, <1>4, <2>1, <2>2 DEF Below
<1>8. \A m \in Ids \ {n} : \A c \in Below(m) : nodes'[c].key = nodes[c].key
  BY <1>2, <1>3 DEF ShapeInv, TreeInv
<1>9. QED
  BY <1>2, <1>3, <1>4, <1>6, <1>7, <1>8

(* A node Normalize is done with stays so. *)
LEMMA FreshStep ==
  ASSUME TypeInv, [Next]_vars, NEW place \in Places, ShapeInv(place)
  PROVE  \A n \in Ids : Fresh(n)' => Fresh(n)
<1>1. SUFFICES ASSUME NEW n \in Ids, Fresh(n)', phase # "insert"
               PROVE  \E t \in todo : t <= n
  BY DEF Fresh
<1>2. PICK t \in todo' : t <= n
  BY <1>1, StepFrame DEF Fresh
<1>3. CASE Normalize
  <2>1. PICK m \in Ids : m \in todo /\ m < t
    BY <1>2, <1>3, NormalizeBelow
  <2>2. t \in Int
    <3>1. todo' \subseteq Ids'
      BY TypeStep DEF TypeInv, TypeOK
    <3>2. QED
      BY <1>2, <3>1 DEF Ids
  <2>3. QED
    BY <1>2, <2>1, <2>2 DEF Ids
<1>4. CASE ~Normalize
  <2>1. ~Descend
    BY <1>1, WalkTypes DEF TypeInv, Descend
  <2>2. todo' = todo
    BY <1>1, <1>4, <2>1 DEF Next, TakeKey, Reject, StoreValues, EndInsertion, EndNormalize, vars
  <2>3. QED
    BY <1>2, <2>2
<1>5. QED
  BY <1>3, <1>4

(* An only child that is an index is a "[ ]": a number has got its index    *)
(* from a sibling.                                                          *)
LEMMA SingleStep ==
  ASSUME TypeInv, [Next]_vars, NEW place \in Places, ShapeInv(place), SingleInv
  PROVE  SingleInv'
<1>1. TypeOK /\ AtInv /\ Len(<<>>) = 0
  BY DEF TypeInv
<1>2. \A n \in Ids : Fresh(n)' => Fresh(n)
  BY FreshStep
<1>3. CASE Descend
  <2>1. /\ walk.at \in Ids /\ walk # Idle /\ phase = "insert"
        /\ Ids' = Ids \cup {walk'.at}
    BY <1>1, <1>3, WalkTypes, DescendBelow DEF Descend
  <2>2. SUFFICES ASSUME NEW n \in Ids' \ {Root}, Len(nodes'[n].items) = 1, FirstKey(n)'.kind = "index"
                 PROVE  FirstKey(n)' = Bracket
    BY DEF SingleInv
  <2>3. CASE n \notin Ids
    <3>1. nodes'[n].items = <<>>
      BY <1>1, <1>3, <2>1, <2>3, DescendShape, NodeTypes DEF Entered, Grown
    <3>2. QED
      BY <2>2, <3>1
  <2>4. CASE n \in Ids /\ n # walk.at
    <3>1. nodes'[n].items = nodes[n].items
      BY <1>1, <1>3, <2>4, DescendShape DEF Entered, Grown
    <3>2. HasItems(n)
      <4>1. Len(nodes[n].items) = 1
        BY <2>2, <3>1
      <4>2. nodes[n].items \in Seq(Nat \ {0})
        BY <1>1, <2>4, NodeTypes
      <4>3. QED
        BY <4>1, <4>2 DEF HasItems
    <3>3. nodes[n].items[1] \in Below(n) /\ nodes[n].items[1] \in Ids
      BY <1>1, <2>4, <3>2, FirstItem
    <3>4. FirstKey(n)' = FirstKey(n)
      BY <1>3, <2>1, <2>4, <3>1, <3>3, Labels DEF FirstKey, ShapeInv, TreeInv
    <3>5. QED
      BY <2>1, <2>2, <2>4, <3>1, <3>4 DEF SingleInv, Fresh
  <2>5. CASE n = walk.at /\ HasItems(n)
    <3>1. nodes[n].items[1] \in Below(n) /\ nodes[n].items[1] \in Ids
      BY <1>1, <2>1, <2>5, FirstItem
    <3>2. nodes[n].items \in Seq(Nat \ {0}) /\ Len(nodes[n].items) > 0
      BY <1>1, <2>1, <2>5, NodeTypes DEF HasItems
    <3>3. Entered
      <4>1. Grown => Len(nodes'[n].items) = Len(nodes[n].items) + 1
        <5> DEFINE old == nodes[n].items
                   new == nodes'[n].items
        <5>1. Grown => new = Append(old, Len(nodes'))
          BY <2>5 DEF Grown
        <5>2. old \in Seq(Nat \ {0})
          BY <3>2
        <5> HIDE DEF old, new
        <5>3. Grown => Len(new) = Len(old) + 1
          BY <5>1, <5>2
        <5>4. QED
          BY <5>3 DEF old, new
      <4>2. QED
        BY <1>1, <1>3, <2>2, <3>2, <4>1, DescendShape
    <3>4. nodes'[n].items = nodes[n].items /\ Len(nodes[n].items) = 1
      BY <2>1, <2>2, <2>5, <3>3 DEF Entered
    <3>5. walk'.at = nodes[n].items[1]
      BY <1>1, <2>1, <2>5, <3>3, <3>4, OnlyChild DEF Entered, OnlyItem
    <3>6. FirstKey(n)' = Selected
      BY <3>3, <3>4, <3>5 DEF Entered, FirstKey
    <3>7. CASE Selected = Head(walk.rest)
      BY <1>3, <2>2, <3>6, <3>7, SelectedReads DEF Keys
    <3>8. CASE FirstKey(n).kind = "index"
      <4>1. FirstKey(n) = Bracket
        BY <2>1, <2>2, <2>5, <3>4, <3>8 DEF SingleInv, Fresh
      <4>2. ~IsNumeral(FirstKey(n))
        BY <3>8 DEF IsNumeral
      <4>3. Relabelled(nodes[n].items[1])
        BY <1>1, <1>3, <3>1, DescendShape
      <4>4. nodes'[nodes[n].items[1]].key = nodes[nodes[n].items[1]].key
        BY <4>2, <4>3 DEF Relabelled, FirstKey
      <4>5. QED
        BY <3>4, <4>1, <4>4 DEF FirstKey
    <3>9. QED
      BY <1>3, <2>5, <3>7, <3>8, SelectedReads
  <2>6. CASE n = walk.at /\ ~HasItems(n)
    <3>1. nodes[n].items = <<>>
      BY <2>6 DEF HasItems
    <3>2. Grown
      <4>1. nodes'[n].items # <<>>
        <5> DEFINE new == nodes'[n].items
        <5>1. Len(new) = 1
          BY <2>2
        <5> HIDE DEF new
        <5>2. new # <<>>
          BY <5>1
        <5>3. QED
          BY <5>2 DEF new
      <4>2. QED
        BY <1>1, <1>3, <2>1, <2>6, <3>1, <4>1, DescendShape DEF Entered
    <3>3. nodes'[n].items = Append(<<>>, Len(nodes'))
      BY <2>6, <3>1, <3>2 DEF Grown
    <3>4. nodes'[n].items[1] = Len(nodes')
      BY <3>3
    <3>5. FirstKey(n)' = Selected
      BY <3>2, <3>4 DEF Grown, FirstKey
    <3>6. Selected = Head(walk.rest) /\ Head(walk.rest) \in Keys \cup {Bracket}
      BY <1>3, <2>6, SelectedReads
    <3>7. QED
      BY <2>2, <3>5, <3>6 DEF Keys
  <2>7. QED
    BY <2>3, <2>4, <2>5, <2>6
<1>4. CASE Normalize
  <2>1. PICK n \in Ids :
           /\ \A t \in todo' : n < t
           /\ \A m \in Ids \ {n} : nodes'[m].items = nodes[m].items
           /\ \A m \in Ids \ {n} : \A c \in Below(m) : nodes'[c].key = nodes[c].key
    BY <1>4, NormalizeBelow
  <2>2. Ids' = Ids /\ phase = "normalize" /\ phase' = phase
    BY <1>1, <1>4, NormalizeShape DEF Normalize, Ids
  <2>3. SUFFICES ASSUME NEW m \in Ids \ {Root}, Fresh(m)', Len(nodes'[m].items) = 1, FirstKey(m)'.kind = "index"
                 PROVE  FirstKey(m)' = Bracket
    BY <2>2 DEF SingleInv
  <2>4. m # n
    <3>1. PICK t \in todo' : t <= m
      BY <2>2, <2>3 DEF Fresh
    <3>2. todo' \subseteq Ids'
      BY TypeStep DEF TypeInv, TypeOK
    <3>3. t \in Int /\ n < t /\ m \in Int
      BY <2>1, <2>2, <3>1, <3>2 DEF Ids
    <3>4. QED
      BY <3>1, <3>3
  <2>5. nodes'[m].items = nodes[m].items /\ HasItems(m)
    BY <2>1, <2>3, <2>4 DEF HasItems
  <2>6. nodes[m].items[1] \in Below(m)
    BY <1>1, <2>5, FirstItem
  <2>7. FirstKey(m)' = FirstKey(m)
    BY <2>1, <2>4, <2>5, <2>6 DEF FirstKey
  <2>8. QED
    BY <1>2, <2>3, <2>5, <2>7 DEF SingleInv
<1>5. CASE ~Descend /\ ~Normalize
  <2>1. Quiet
    BY <1>5, QuietSteps
  <2>2. \A n \in Ids : HasItems(n) => FirstKey(n)' = FirstKey(n)
    BY <1>1, <2>1, FirstItem DEF Quiet, FirstKey
  <2>3. \A n \in Ids : Len(nodes[n].items) = 1 => HasItems(n)
    BY <1>1 DEF HasItems
  <2>4. QED
    BY <1>2, <2>1, <2>2, <2>3 DEF Quiet, SingleInv
<1>6. QED
  BY <1>3, <1>4, <1>5

(* A level of InsertNode leaves the values in the tree, and no leaf where   *)
(* it was.                                                                  *)
LEMMA DescendValued ==
  ASSUME TypeInv, Descend, NEW place \in Places, ShapeInv(place)
  PROVE  /\ Ids \subseteq Ids' /\ Valued' = Valued /\ Valued \subseteq Ids
         /\ \A n \in Ids : nodes'[n].values = nodes[n].values
         /\ \A n \in Ids' \ Ids : n = walk'.at
         /\ nodes'[walk.at].items # <<>>
         /\ \A n \in Ids \ {walk.at} : nodes'[n].items = nodes[n].items
<1>1. TypeOK /\ AtInv /\ phase = "insert" /\ walk.at \in Ids
  BY WalkTypes DEF TypeInv, Descend
<1>2. /\ Ids' = Ids \cup {walk'.at}
      /\ \A n \in Ids : Below(n)' = IF n = walk.at THEN Below(n) \cup {walk'.at} ELSE Below(n)
  BY DescendBelow
<1>3. \A n \in Ids : nodes'[n].values = nodes[n].values
  BY <1>1, DescendShape DEF Relabelled
<1>4. \A n \in Ids' \ Ids : nodes'[n].values = NoValues
  BY <1>1, <1>2, DescendShape, NodeTypes DEF Entered, Grown
<1>5. \A n \in Ids : HasParent(n)' <=> HasParent(n)
  <2>1. \A n \in Ids : n # Root => HasParent(n) /\ HasParent(n)'
    <3>1. \A n \in Ids : n # Root => HasParent(n)
      BY <1>1 DEF ShapeInv, ParentInv
    <3>2. \A n \in Ids : HasParent(n) => HasParent(n)'
      BY <1>2 DEF HasParent
    <3>3. QED
      BY <3>1, <3>2
  <2>2. ~HasParent(Root)
    BY <1>1 DEF ShapeInv, TreeInv, HasParent, Ids, Root
  <2>3. ~HasParent(Root)'
    <3>1. Root \notin {walk'.at} \/ walk'.at \in Below(walk.at)
      BY <1>1, DescendShape DEF Entered, Grown, Root, Ids, TypeOK
    <3>2. QED
      BY <1>1, <1>2, <2>2, <3>1, DescendBelow DEF HasParent
  <2>4. TAKE n \in Ids
  <2>5. CASE n = Root
    BY <2>2, <2>3, <2>5
  <2>6. CASE n # Root
    BY <2>1, <2>6
  <2>7. QED
    BY <2>5, <2>6
<1>6. Valued' = Valued /\ Valued \subseteq Ids
  BY <1>2, <1>3, <1>4, <1>5 DEF Valued
<1>7. nodes'[walk.at].items # <<>>
  <2>1. walk'.at \in Range(nodes'[walk.at].items)
    BY <1>1, <1>2 DEF Below
  <2>2. Range(<<>>) = {}
    BY DEF Range
  <2>3. QED
    BY <2>1, <2>2
<1>8. \A n \in Ids \ {walk.at} : nodes'[n].items = nodes[n].items
  BY <1>1, DescendShape DEF Entered, Grown
<1>9. QED
  BY <1>2, <1>3, <1>6, <1>7, <1>8

(* A leaf has values, but for the one the walk is at: keys end with         *)
(* values, and a node whose only child is hoisted gets those of it.         *)
LEMMA LeafStep ==
  ASSUME TypeInv, [Next]_vars, NEW place \in Places, ShapeInv(place), DoneInv, LeafInv
  PROVE  LeafInv'
<1>1. TypeOK /\ AtInv
  BY DEF TypeInv
<1>2. SUFFICES ASSUME ~failed', NEW n \in Ids' \ {Root}, IsLeaf(n)', n # walk'.at, HasParent(n)'
               PROVE  nodes'[n].values # NoValues
  BY DEF LeafInv
<1>3. ~failed
  BY <1>2, StepFrame
<1>4. CASE Descend
  <2>1. phase = "insert" /\ n \in Ids /\ n # walk.at /\ nodes'[n].values = nodes[n].values
    BY <1>1, <1>2, <1>4, DescendValued, WalkTypes DEF IsLeaf, HasItems, Descend
  <2>2. HasParent(n) /\ IsLeaf(n)
    BY <1>2, <1>4, <2>1, DescendValued DEF ShapeInv, ParentInv, IsLeaf, HasItems
  <2>3. QED
    BY <1>2, <1>3, <2>1, <2>2 DEF LeafInv
<1>5. CASE Normalize
  <2>1. PICK m \in Ids :
           /\ \A k \in Ids \ {m} : /\ nodes'[k].items = nodes[k].items
                                   /\ nodes'[k].values = nodes[k].values
                                   /\ Below(k)' = Below(k)
           /\ HasParent(m)
           /\ \/ Collapsed(m) /\ Below(m)' = {}
              \/ Ordered(m) /\ Below(m)' = Below(m)
    BY <1>5, NormalizeBelow
  <2>2. Ids' = Ids /\ walk = Idle
    BY <1>1, <1>5, NormalizeShape DEF Normalize, Ids, DoneInv
  <2>3. \A k \in Ids : HasParent(k)' => HasParent(k)
    BY <2>1, <2>2 DEF HasParent
  <2>4. walk.at \notin Ids
    BY <2>2 DEF Idle, Ids
  <2>5. CASE n # m
    <3>1. IsLeaf(n) /\ nodes'[n].values = nodes[n].values /\ HasParent(n)
      BY <1>2, <2>1, <2>2, <2>3, <2>5 DEF IsLeaf, HasItems
    <3>2. QED
      BY <1>2, <1>3, <2>2, <2>4, <3>1 DEF LeafInv
  <2>6. CASE n = m /\ Collapsed(m)
    <3>1. HasItems(m) /\ IsLeaf(OnlyItem(m)) /\ nodes'[m].values = nodes[OnlyItem(m)].values
      <4>1. Len(nodes[m].items) = 1 /\ IsLeaf(OnlyItem(m)) /\ nodes'[m].values = nodes[OnlyItem(m)].values
        BY <2>6 DEF Collapsed, Collapses
      <4>2. nodes[m].items \in Seq(Nat \ {0})
        BY <1>1, <2>1, NodeTypes
      <4>3. nodes[m].items # <<>>
        <5> DEFINE items == nodes[m].items
        <5>1. Len(items) = 1 /\ items \in Seq(Nat \ {0})
          BY <4>1, <4>2
        <5> HIDE DEF items
        <5>2. items # <<>>
          BY <5>1
        <5>3. QED
          BY <5>2 DEF items
      <4>4. QED
        BY <4>1, <4>3 DEF HasItems
    <3>2. OnlyItem(m) \in Ids /\ OnlyItem(m) \in Below(m)
      BY <1>1, <2>1, <3>1, FirstItem DEF OnlyItem
    <3>3. OnlyItem(m) # Root
      BY <2>1, <3>2 DEF ShapeInv, TreeInv, Ids, Root
    <3>4. HasParent(OnlyItem(m))
      BY <2>1, <3>2 DEF HasParent
    <3>5. QED
      BY <1>3, <2>4, <2>6, <3>1, <3>2, <3>3, <3>4 DEF LeafInv
  <2>7. CASE n = m /\ Ordered(m)
    <3>1. Len(nodes'[m].items) = Len(nodes[m].items) /\ nodes'[m].items = <<>>
      BY <1>2, <2>7 DEF Ordered, IsLeaf, HasItems
    <3>2. nodes[m].items = <<>>
      <4> DEFINE items == nodes[m].items
      <4>1. items \in Seq(Nat \ {0}) /\ Len(items) = 0
        BY <1>1, <2>1, <3>1, NodeTypes
      <4> HIDE DEF items
      <4>2. items = <<>>
        BY <4>1
      <4>3. QED
        BY <4>2 DEF items
    <3>3. nodes'[m].values = nodes[m].values
      BY <2>7 DEF Ordered
    <3>4. QED
      BY <1>2, <1>3, <2>1, <2>2, <2>4, <2>7, <3>2, <3>3 DEF LeafInv, IsLeaf, HasItems
  <2>8. QED
    BY <2>1, <2>5, <2>6, <2>7
<1>6. CASE ~Descend /\ ~Normalize
  <2>1. Quiet
    BY <1>6, QuietSteps
  <2>2. n \in Ids /\ IsLeaf(n) /\ HasParent(n)
    BY <1>2, <2>1 DEF Quiet, IsLeaf, HasItems, HasParent
  <2>3. CASE StoreValues
    <3>1. n # walk.at => nodes'[n].values = nodes[n].values
      BY <1>1, <2>2, <2>3, StoreShape
    <3>2. n = walk.at => nodes'[n].values # NoValues
      <4>1. nodes'[walk.at].values = walk.path
        BY <1>1, <2>3, StoreShape
      <4>2. walk.path # Unparsable
        BY <2>3 DEF StoreValues, ShapeInv, WalkInv
      <4>3. QED
        BY <4>1, <4>2 DEF Unparsable, NoValues
    <3>3. QED
      BY <1>2, <1>3, <2>2, <3>1, <3>2 DEF LeafInv
  <2>4. CASE TakeKey
    <3>1. walk.at \notin Ids /\ nodes' = nodes
      BY <2>4 DEF TakeKey, Idle, Ids
    <3>2. QED
      BY <1>2, <1>3, <2>2, <3>1 DEF LeafInv
  <2>5. CASE UNCHANGED <<nodes, walk>>
    BY <1>2, <1>3, <2>2, <2>5 DEF LeafInv
  <2>6. QED
    BY <1>2, <1>6, <2>3, <2>4, <2>5 DEF Next, Reject, EndInsertion, EndNormalize, vars
<1>7. QED
  BY <1>4, <1>5, <1>6

(* The key whose values are stored becomes inserted, and no other. *)
LEMMA InsertedFrame ==
  ASSUME TypeInv, [Next]_vars, ~failed', NEW place \in Places, ShapeInv(place)
  PROVE  /\ StoreValues => Inserted' = Inserted \cup {walk.path}
         /\ ~StoreValues => Inserted' = Inserted
<1>1. TypeOK /\ AtInv /\ query' = query
  BY StepFrame DEF TypeInv
<1>2. CASE TakeKey
  <2>1. PICK path \in pending :
          /\ pending' = pending \ {path}
          /\ IF path = Unparsable
               THEN failed' = TRUE /\ walk' = Idle
               ELSE failed' = failed /\ walk' = [at |-> Root, rest |-> path, path |-> path]
    BY <1>2 DEF TakeKey
  <2>2. walk'.path = path /\ walk.path = Unparsable
    BY <1>2, <2>1 DEF TakeKey, Idle, Unparsable
  <2>3. ~StoreValues
    BY <1>2 DEF TakeKey, StoreValues
  <2>4. QED
    BY <1>1, <2>1, <2>2, <2>3 DEF Inserted
<1>3. CASE StoreValues
  <2>1. walk.path \in query \ pending /\ walk.path # Unparsable
    BY <1>3, StoredPlace
  <2>2. pending' = pending /\ walk'.path = Unparsable
    BY <1>3 DEF StoreValues, Idle, Unparsable
  <2>3. QED
    BY <1>1, <1>3, <2>1, <2>2 DEF Inserted
<1>4. CASE Descend
  <2>1. walk'.path = walk.path /\ pending' = pending
    BY <1>1, <1>4, DescendShape, StepFrame
  <2>2. ~StoreValues
    BY <1>4 DEF Descend, StoreValues
  <2>3. QED
    BY <1>1, <2>1, <2>2 DEF Inserted
<1>5. CASE ~TakeKey /\ ~StoreValues /\ ~Descend
  <2>1. UNCHANGED <<pending, walk>>
    BY <1>5 DEF Next, Reject, EndInsertion, Normalize, EndNormalize, vars
  <2>2. QED
    BY <1>1, <1>5, <2>1 DEF Inserted
<1>6. QED
  BY <1>2, <1>3, <1>4, <1>5

(* Every step keeps the values at their places, and every inserted key in   *)
(* the tree: hoisting moves the values of a "[ ]" to the node above,        *)
(* whose own values read the same but for that "[ ]".                       *)
LEMMA ValueStep ==
  ASSUME TypeInv, [Next]_vars, NEW place \in Places, ShapeInv(place), DoneInv,
         SingleInv, LeafInv, ValueInv(place), NEW next, Follows(place, next)
  PROVE  ValueInv(next)'
<1>1. TypeOK /\ AtInv
  BY DEF TypeInv
<1>2. SUFFICES ASSUME ~failed' PROVE ValueInv(next)'
  BY DEF ValueInv
<1>3. /\ \A n \in Valued :
           /\ nodes[n].values \in Inserted
           /\ \/ Read(nodes[n].values) = place[n]
              \/ ~Fresh(n) /\ Read(nodes[n].values) = Append(place[n], Bracket)
      /\ \A path \in Inserted : \E n \in Valued :
           \/ Read(nodes[n].values) = Read(path)
           \/ ~Fresh(n) /\ Read(nodes[n].values) = Append(Read(path), Bracket)
  BY <1>2, StepFrame DEF ValueInv
<1>4. \A n \in Ids : ~Fresh(n) => ~Fresh(n)'
  BY FreshStep
<1>5. Valued \subseteq Ids /\ \A n \in Ids : Below(n) \subseteq Ids
  BY <1>1, NodeTypes DEF Valued
<1>6. CASE Descend
  <2>1. /\ Valued' = Valued /\ \A n \in Ids : nodes'[n].values = nodes[n].values
        /\ Inserted' = Inserted
    BY <1>2, <1>6, DescendValued, InsertedFrame DEF Descend, StoreValues
  <2>2. \A n \in Ids : next[n] = place[n]
    BY <1>6 DEF Follows, Extends
  <2>3. QED
    BY <1>3, <1>4, <1>5, <2>1, <2>2 DEF ValueInv
<1>7. CASE StoreValues
  <2>1. /\ phase = "insert" /\ phase' = phase /\ ~Descend /\ ~Normalize
        /\ walk.at \in Ids \ {Root} /\ walk.path # Unparsable
        /\ Read(walk.path) = place[walk.at]
    BY <1>1, <1>7, StoredPlace DEF AtInv, StoreValues, Descend, Normalize
  <2>2. /\ Inserted' = Inserted \cup {walk.path}
        /\ nodes'[walk.at].values = walk.path
        /\ \A n \in Ids \ {walk.at} : nodes'[n].values = nodes[n].values
    BY <1>1, <1>2, <1>7, StoreShape, InsertedFrame
  <2>3. Quiet /\ next = place
    BY <2>1, QuietSteps DEF Follows
  <2>4. Valued' = Valued \cup {walk.at}
    <3>1. HasParent(walk.at)
      BY <2>1 DEF ShapeInv, ParentInv
    <3>2. \A n \in Ids : HasParent(n)' <=> HasParent(n)
      BY <2>3 DEF Quiet, HasParent
    <3>3. QED
      BY <2>1, <2>2, <2>3, <3>1, <3>2 DEF Valued, Quiet, Unparsable, NoValues
  <2>5. \A n \in Valued : Read(nodes[n].values) = place[n]
    BY <1>3, <2>1 DEF Fresh
  <2>6. \A path \in Inserted : \E n \in Valued : Read(nodes[n].values) = Read(path)
    BY <1>3, <2>1 DEF Fresh
  <2>7. \A n \in Valued' : /\ nodes'[n].values \in Inserted'
                           /\ Read(nodes'[n].values) = place[n]
    BY <1>3, <1>5, <2>1, <2>2, <2>4, <2>5
  <2>8. ASSUME NEW path \in Inserted'
        PROVE  \E n \in Valued' : Read(nodes'[n].values) = Read(path)
    <3>1. CASE path = walk.path
      BY <2>2, <2>4, <3>1
    <3>2. CASE path # walk.path
      <4>1. PICK n \in Valued : Read(nodes[n].values) = Read(path)
        BY <2>2, <2>6, <3>2
      <4>2. CASE n = walk.at
        BY <2>1, <2>2, <2>4, <2>5, <4>1, <4>2
      <4>3. CASE n # walk.at
        BY <1>5, <2>2, <2>4, <4>1, <4>3
      <4>4. QED
        BY <4>2, <4>3
    <3>3. QED
      BY <3>1, <3>2
  <2>9. QED
    BY <2>3, <2>7, <2>8 DEF ValueInv
<1>8. CASE Normalize
  <2>1. PICK n \in Ids \ {Root} :
           /\ n \in todo /\ HasParent(n) /\ HasParent(n)'
           /\ \A t \in todo' : n < t
           /\ \A m \in Ids \ {n} : /\ nodes'[m].items = nodes[m].items
                                   /\ nodes'[m].values = nodes[m].values
                                   /\ Below(m)' = Below(m)
           /\ \/ Collapsed(n) /\ Below(n)' = {}
              \/ Ordered(n) /\ Below(n)' = Below(n)
    BY <1>8, NormalizeBelow
  <2>2. Ids' = Ids /\ phase = "normalize" /\ phase' = phase /\ walk = Idle /\ ~failed /\ next = place
    BY <1>1, <1>8, NormalizeShape, StepFrame DEF Normalize, Ids, DoneInv, Follows
  <2>3. Inserted' = Inserted
    BY <1>2, <1>8, InsertedFrame, <2>2 DEF StoreValues
  <2>4. CASE Ordered(n) /\ Below(n)' = Below(n)
    <3>1. \A m \in Ids : nodes'[m].values = nodes[m].values /\ Below(m)' = Below(m)
      BY <2>1, <2>4 DEF Ordered
    <3>2. Valued' = Valued
      BY <2>2, <3>1 DEF Valued, HasParent
    <3>3. QED
      BY <1>3, <1>4, <1>5, <2>2, <2>3, <3>1, <3>2 DEF ValueInv
  <2>5. CASE Collapsed(n) /\ Below(n)' = {}
    <3> DEFINE c == OnlyItem(n)
    <3>1. /\ Len(nodes[n].items) = 1 /\ FirstKey(n).kind = "index" /\ IsLeaf(c)
          /\ nodes'[n].values = nodes[c].values
      BY <2>5 DEF Collapsed, Collapses
    <3>2. HasItems(n)
      <4> DEFINE items == nodes[n].items
      <4>1. items \in Seq(Nat \ {0}) /\ Len(items) = 1
        BY <1>1, <3>1, NodeTypes
      <4>2. items # <<>>
        <5> HIDE DEF items
        <5>1. QED
          BY <4>1
      <4>3. QED
        BY <4>2 DEF HasItems
    <3>3. c \in Ids /\ c \in Below(n) /\ FirstKey(n) = nodes[c].key
      BY <1>1, <3>2, FirstItem DEF OnlyItem
    <3>4. /\ c > n /\ c # n /\ c # Root
          /\ place[c] = Append(place[n], ReadAt(nodes[c].key, Len(place[n]) + 1))
          /\ \A m \in Ids : c \in Below(m) => m = n
      BY <3>3 DEF ShapeInv, TreeInv, Ids, Root
    <3>5. Fresh(n) /\ Fresh(c)
      BY <2>1, <3>3, <3>4 DEF Fresh, Ids
    <3>6. ~Fresh(n)'
      <4>1. todo' \subseteq Ids'
        BY TypeStep DEF TypeInv, TypeOK
      <4>2. \A t \in todo' : ~(t <= n)
        BY <2>1, <2>2, <4>1 DEF Ids
      <4>3. QED
        BY <2>2, <4>2 DEF Fresh
    <3>7. place[c] = Append(place[n], Bracket)
      <4>1. nodes[c].key = Bracket
        BY <2>1, <3>1, <3>3, <3>5 DEF SingleInv
      <4>2. ReadAt(Bracket, Len(place[n]) + 1) = Bracket
        BY DEF ReadAt, Reading, Bracket, Index
      <4>3. QED
        BY <3>4, <4>1, <4>2
    <3>8. c \in Valued
      <4>1. HasParent(c)
        BY <2>1, <3>3 DEF HasParent
      <4>2. c # walk.at
        BY <2>2, <3>3 DEF Idle, Ids
      <4>3. nodes[c].values # NoValues
        BY <2>2, <3>1, <3>3, <3>4, <4>1, <4>2 DEF LeafInv
      <4>4. QED
        BY <3>3, <4>1, <4>3 DEF Valued
    <3>9. nodes[c].values \in Inserted /\ Read(nodes[c].values) = place[c]
      BY <1>3, <3>5, <3>8
    <3>10. /\ n \in Valued'
           /\ nodes'[n].values \in Inserted'
           /\ ~Fresh(n)' /\ Read(nodes'[n].values) = Append(place[n], Bracket)
      <4>1. nodes'[n].values # NoValues
        BY <3>1, <3>8 DEF Valued
      <4>2. QED
        BY <2>1, <2>2, <2>3, <3>1, <3>6, <3>7, <3>9, <4>1 DEF Valued
    <3>11. \A m \in Ids \ {n} : m \in Valued' <=> m \in Valued /\ m # c
      <4>1. \A m \in Ids \ {n} : HasParent(m)' <=> HasParent(m) /\ m # c
        <5>1. TAKE m \in Ids \ {n}
        <5>2. HasParent(m)' <=> \E q \in Ids \ {n} : m \in Below(q)
          BY <2>1, <2>2, <2>5 DEF HasParent
        <5>3. m \in Below(n) => m = c
          BY <1>1, <2>1, <3>1, OnlyChild
        <5>4. ~\E q \in Ids \ {n} : c \in Below(q)
          BY <3>4
        <5>5. QED
          BY <5>2, <5>3, <5>4 DEF HasParent
      <4>2. QED
        BY <2>1, <2>2, <4>1 DEF Valued
    <3>12. ASSUME NEW m \in Valued'
           PROVE  /\ nodes'[m].values \in Inserted'
                  /\ \/ Read(nodes'[m].values) = place[m]
                     \/ ~Fresh(m)' /\ Read(nodes'[m].values) = Append(place[m], Bracket)
      <4>1. m \in Ids
        BY <2>2 DEF Valued
      <4>2. CASE m = n
        BY <3>10, <4>2
      <4>3. CASE m # n
        BY <1>3, <1>4, <2>1, <2>3, <3>11, <4>1, <4>3
      <4>4. QED
        BY <4>2, <4>3
    <3>13. ASSUME NEW path \in Inserted'
           PROVE  \E m \in Valued' :
                    \/ Read(nodes'[m].values) = Read(path)
                    \/ ~Fresh(m)' /\ Read(nodes'[m].values) = Append(Read(path), Bracket)
      <4>1. PICK m \in Valued :
              \/ Read(nodes[m].values) = Read(path)
              \/ ~Fresh(m) /\ Read(nodes[m].values) = Append(Read(path), Bracket)
        BY <1>3, <2>3
      <4>2. CASE m = n
        <5>1. Read(nodes[n].values) = Read(path) /\ Read(nodes[n].values) = place[n]
          BY <1>3, <3>5, <4>1, <4>2
        <5>2. QED
          BY <3>10, <5>1
      <4>3. CASE m = c
        <5>1. Read(nodes'[n].values) = Read(path)
          BY <3>1, <3>5, <4>1, <4>3
        <5>2. QED
          BY <3>10, <5>1
      <4>4. CASE m # n /\ m # c
        BY <1>4, <1>5, <2>1, <3>11, <4>1, <4>4
      <4>5. QED
        BY <4>2, <4>3, <4>4
    <3>14. QED
      BY <2>2, <3>12, <3>13 DEF ValueInv
  <2>6. QED
    BY <2>1, <2>4, <2>5
<1>9. CASE ~Descend /\ ~StoreValues /\ ~Normalize
  <2>1. Quiet /\ next = place
    BY <1>9, QuietSteps DEF Follows
  <2>2. nodes' = nodes /\ Inserted' = Inserted
    BY <1>2, <1>9, InsertedFrame DEF Next, TakeKey, Reject, EndInsertion, EndNormalize, vars
  <2>3. Valued' = Valued
    BY <2>1, <2>2 DEF Quiet, Valued, HasParent
  <2>4. QED
    BY <1>3, <1>4, <1>5, <2>1, <2>2, <2>3 DEF ValueInv
<1>10. QED
  BY <1>6, <1>7, <1>8, <1>9

(* The order of the numbers as a relation, and the least element it         *)
(* gives.                                                                   *)
Before == {ss \in Nat \X Nat : ss[1] < ss[2]}

(* A set of numbers that is not empty has a least element. *)
LEMMA Smallest ==
  ASSUME NEW T \in SUBSET Nat, T # {}
  PROVE  \E x \in T : \A y \in T : x <= y
<1>1. IsWellFoundedOn(Before, Nat)
  BY NatLessThanWellFounded DEF OpToRel, Before
<1>2. PICK x \in T : \A y \in T : ~ (<<y, x>> \in Before)
  BY <1>1, WFMin
<1>3. ASSUME NEW y \in T PROVE x <= y
  <2>1. x \in Nat /\ y \in Nat
    OBVIOUS
  <2>2. y < x => <<y, x>> \in Before
    BY <2>1 DEF Before
  <2>3. QED
    BY <1>2, <2>1, <2>2
<1>4. QED
  BY <1>2, <1>3

(* The parent of a node is older than the node. *)
LEMMA ParentIsBefore ==
  ASSUME TypeInv, NEW place \in Places, TreeInv(place), NEW n \in Ids, HasParent(n)
  PROVE  /\ Parent(n) \in Ids /\ n \in Below(Parent(n)) /\ Parent(n) < n
         /\ place[n] = Append(place[Parent(n)], ReadAt(nodes[n].key, Len(place[Parent(n)]) + 1))
<1>1. Parent(n) \in Ids /\ n \in Below(Parent(n))
  BY DEF HasParent, Parent
<1>2. QED
  BY <1>1 DEF TreeInv

(* The path to a node, from the path g to its parent. *)
PathTo(g, n) == IF ~HasParent(n) THEN <<>> ELSE Append(g[Parent(n)], nodes[n].key)

(* There is a function of the paths, since parents are older: the           *)
(* definition of PathOf has a solution.                                     *)
LEMMA PathExists ==
  ASSUME TypeInv, NEW place \in Places, TreeInv(place)
  PROVE  \E g : g = [n \in Ids |-> PathTo(g, n)]
<1> DEFINE None == {k \in Nat : k <= Len(nodes) /\ ~\E g : g = [n \in 1..k |-> PathTo(g, n)]}
<1>1. Len(nodes) \in Nat
  BY DEF TypeInv, TypeOK
<1>2. 0 \notin None
  <2>1. [n \in 1..0 |-> <<>>] = [n \in 1..0 |-> PathTo([m \in 1..0 |-> <<>>], n)]
    OBVIOUS
  <2>2. QED
    BY <2>1
<1>3. ASSUME NEW k \in Nat, k + 1 <= Len(nodes), k \notin None PROVE k + 1 \notin None
  <2>1. k <= Len(nodes)
    BY <1>1, <1>3
  <2>2. PICK g : g = [n \in 1..k |-> PathTo(g, n)]
    BY <1>3, <2>1
  <2>3. PICK h : h = [n \in 1..(k + 1) |-> IF n <= k THEN g[n] ELSE PathTo(g, n)]
    OBVIOUS
  <2>4. ASSUME NEW n \in 1..(k + 1) PROVE h[n] = PathTo(h, n)
    <3>1. HasParent(n) => Parent(n) \in 1..k /\ h[Parent(n)] = g[Parent(n)]
      <4>1. n \in Ids
        BY <1>1, <1>3 DEF Ids
      <4>2. HasParent(n) => Parent(n) \in 1..k
        BY <1>1, <4>1, ParentIsBefore DEF Ids
      <4>3. QED
        BY <2>3, <4>2
    <3>2. PathTo(h, n) = PathTo(g, n)
      BY <3>1 DEF PathTo
    <3>3. h[n] = PathTo(g, n)
      BY <2>2, <2>3
    <3>4. QED
      BY <3>2, <3>3
  <2>5. h = [n \in 1..(k + 1) |-> PathTo(h, n)]
    BY <2>3, <2>4
  <2>6. QED
    BY <2>5
<1>4. None = {}
  <2>1. SUFFICES ASSUME None # {} PROVE FALSE
    OBVIOUS
  <2>2. PICK k \in None : \A m \in None : k <= m
    BY <2>1, Smallest
  <2>3. k # 0 /\ k \in Nat /\ k <= Len(nodes)
    BY <1>2, <2>2
  <2>4. k - 1 \in Nat /\ k - 1 \notin None /\ (k - 1) + 1 = k
    BY <2>2, <2>3
  <2> HIDE DEF None
  <2>5. QED
    BY <1>3, <2>2, <2>3, <2>4
<1>5. QED
  BY <1>1, <1>4 DEF Ids

(* The path to a node is the path to its parent and its key. *)
LEMMA PathOfNode ==
  ASSUME TypeInv, NEW place \in Places, TreeInv(place), NEW n \in Ids
  PROVE  PathOf[n] = IF ~HasParent(n) THEN <<>> ELSE Append(PathOf[Parent(n)], nodes[n].key)
<1>1. \E g : g = [m \in Ids |-> IF ~HasParent(m) THEN <<>> ELSE Append(g[Parent(m)], nodes[m].key)]
  BY PathExists DEF PathTo
<1>2. PathOf = [m \in Ids |-> IF ~HasParent(m) THEN <<>> ELSE Append(PathOf[Parent(m)], nodes[m].key)]
  BY <1>1 DEF PathOf
<1>3. QED
  BY <1>2

(* The path to a node that hangs in the tree reads as its place. *)
LEMMA PathIsPlace ==
  ASSUME TypeInv, NEW place \in Places, ShapeInv(place), NEW n \in Ids, n = Root \/ HasParent(n)
  PROVE  PathOf[n] \in Seq(Selectors) /\ Read(PathOf[n]) = place[n]
<1> DEFINE Wrong == {m \in Ids : (m = Root \/ HasParent(m))
                          /\ ~(PathOf[m] \in Seq(Selectors) /\ Read(PathOf[m]) = place[m])}
<1>1. SUFFICES ASSUME Wrong # {} PROVE FALSE
  OBVIOUS
<1>2. TypeOK /\ TreeInv(place)
  BY DEF TypeInv, ShapeInv
<1>3. PICK m \in Wrong : \A k \in Wrong : m <= k
  <2>1. Wrong \in SUBSET Nat
    BY DEF Ids
  <2> HIDE DEF Wrong
  <2>2. QED
    BY <1>1, <2>1, Smallest
<1>4. CASE HasParent(m)
  <2> DEFINE p == Parent(m)
             w == PathOf[p]
             s == nodes[m].key
  <2>1. /\ m \in Ids /\ p \in Ids /\ m \in Below(p) /\ p < m
        /\ place[m] = Append(place[p], ReadAt(s, Len(place[p]) + 1))
    BY <1>2, <1>4, ParentIsBefore
  <2>2. p = Root \/ HasParent(p)
    <3>1. HasItems(p)
      <4>1. Range(<<>>) = {}
        BY DEF Range
      <4>2. QED
        BY <2>1, <4>1 DEF Below, HasItems
    <3>2. QED
      BY <2>1, <3>1 DEF ShapeInv, AttachedInv
  <2>3. p \notin Wrong
    BY <1>3, <2>1 DEF Ids
  <2>4. w \in Seq(Selectors) /\ Read(w) = place[p]
    BY <2>1, <2>2, <2>3
  <2>5. s \in Selectors
    BY <1>2, <2>1, NodeTypes
  <2>6. PathOf[m] = Append(w, s)
    BY <1>2, <1>4, <2>1, PathOfNode
  <2>7. Read(Append(w, s)) = Append(Read(w), ReadAt(s, Len(w) + 1)) /\ Len(Read(w)) = Len(w)
    <3> HIDE DEF w, s
    <3>1. QED
      BY <2>4, <2>5, ReadAppend, ReadFacts
  <2>8. Append(w, s) \in Seq(Selectors)
    BY <2>4, <2>5, AppendProperties
  <2>9. Read(PathOf[m]) = place[m]
    BY <2>1, <2>4, <2>6, <2>7
  <2>10. PathOf[m] \in Seq(Selectors)
    BY <2>6, <2>8
  <2>11. QED
    BY <1>3, <2>9, <2>10
<1>5. CASE ~HasParent(m)
  <2>1. m = Root /\ m \in Ids
    BY <1>3, <1>5
  <2>2. PathOf[m] = <<>>
    BY <1>2, <1>5, <2>1, PathOfNode
  <2>3. Read(<<>>) = <<>>
    BY DEF Read
  <2>4. place[m] = <<>> /\ <<>> \in Seq(Selectors)
    BY <1>2, <2>1 DEF TreeInv
  <2>5. QED
    BY <1>3, <2>2, <2>3, <2>4
<1>6. QED
  BY <1>4, <1>5

(* The places and the values give what the tree says of the query. *)
LEMMA TreeHolds ==
  ASSUME TypeInv, NEW place \in Places, ShapeInv(place), DoneInv, ContentInv(place)
  PROVE  TreeHoldsTheQuery
<1>1. TypeOK /\ query \subseteq Paths
  BY QueriesAssumption DEF TypeInv, TypeOK
<1>2. SUFFICES ASSUME ~failed PROVE TreeHoldsTheQuery
  BY DEF TreeHoldsTheQuery
<1>3. /\ \A n \in Valued :
           /\ nodes[n].values \in Inserted
           /\ \/ Read(nodes[n].values) = place[n]
              \/ ~Fresh(n) /\ Read(nodes[n].values) = Append(place[n], Bracket)
      /\ \A path \in Inserted : \E n \in Valued :
           \/ Read(nodes[n].values) = Read(path)
           \/ ~Fresh(n) /\ Read(nodes[n].values) = Append(Read(path), Bracket)
  BY <1>2 DEF ContentInv, ValueInv
<1>4. \A n : ~Fresh(n) => phase \in {"normalize", "done"}
  BY <1>1, <1>2 DEF Fresh, DoneInv, TypeOK
<1>5. Bracket \in Selectors /\ \A i : ReadAt(Bracket, i) = Bracket
  BY DEF Selectors, ReadAt, Reading, Bracket, Index
<1>6. \A path \in Seq(Selectors) : Read(Append(path, Bracket)) = Append(Read(path), Bracket)
  BY <1>5, ReadAppend
<1>7. ASSUME NEW n \in Valued PROVE AtPlace(n)
  <2>1. PathOf[n] \in Seq(Selectors) /\ Read(PathOf[n]) = place[n]
    BY PathIsPlace DEF Valued
  <2>2. Read(Append(PathOf[n], Bracket)) = Append(place[n], Bracket)
    BY <1>6, <2>1
  <2>3. QED
    BY <1>3, <1>4, <2>1, <2>2 DEF AtPlace
<1>8. ASSUME NEW path \in Inserted PROVE \E n \in Valued : Holds(n, path)
  <2>1. path \in Seq(Selectors)
    BY <1>1, SelectorPaths DEF Inserted
  <2>2. Read(Append(path, Bracket)) = Append(Read(path), Bracket)
    BY <1>6, <2>1
  <2>3. QED
    BY <1>3, <1>4, <2>2 DEF Holds
<1>9. QED
  BY <1>3, <1>7, <1>8 DEF TreeHoldsTheQuery

(* At first there is the top only. *)
LEMMA PlacesInit == Init => PlacesInv
<1>1. SUFFICES ASSUME Init PROVE PlacesInv
  OBVIOUS
<1> DEFINE place == [n \in Ids |-> <<>>]
<1>2. /\ query \in Queries /\ pending = query /\ query \subseteq Paths
      /\ nodes = <<[key |-> NoKey, values |-> NoValues, items |-> <<>>]>>
      /\ walk = Idle /\ failed = FALSE /\ phase = "insert" /\ todo = {}
  BY <1>1, QueriesAssumption DEF Init
<1>3. Ids = {Root} /\ Below(Root) = {} /\ ~HasItems(Root)
  <2>1. Len(nodes) = 1 /\ nodes[1].items = <<>>
    BY <1>2
  <2>2. QED
    BY <2>1 DEF Ids, Root, Below, Range, HasItems
<1>4. place \in Places /\ place[Root] = <<>> /\ Len(place[Root]) = 0
  BY <1>3 DEF Places
<1> HIDE DEF place
<1>5. ShapeInv(place)
  BY <1>2, <1>3, <1>4 DEF ShapeInv, TreeInv, ParentInv, AttachedInv, WalkInv, TodoInv
<1>6. SourcesInv(place)
  BY <1>2, <1>3 DEF SourcesInv, SourceInv, BracketInv, FailedInv
<1>7. ConflictInv(place)
  <2>1. UniqueInv(place)
    BY <1>3 DEF UniqueInv
  <2>2. InsertedInv(place)
    BY <1>2 DEF InsertedInv, Inserted
  <2>3. UnparsableInv /\ DoneInv
    BY <1>2 DEF UnparsableInv, DoneInv
  <2>4. QED
    BY <2>1, <2>2, <2>3 DEF ConflictInv
<1>8. ContentInv(place)
  <2>1. Inserted = {} /\ Valued = {}
    BY <1>2, <1>3 DEF Inserted, Valued, HasParent
  <2>2. QED
    BY <1>3, <2>1 DEF ContentInv, SingleInv, LeafInv, ValueInv
<1>9. QED
  BY <1>4, <1>5, <1>6, <1>7, <1>8 DEF PlacesInv

(* Every step keeps the invariant, with the places that follow. *)
LEMMA PlacesStep == TypeInv /\ PlacesInv /\ [Next]_vars => PlacesInv'
<1>1. SUFFICES ASSUME TypeInv, PlacesInv, [Next]_vars PROVE PlacesInv'
  OBVIOUS
<1>2. PICK place \in Places :
        ShapeInv(place) /\ SourcesInv(place) /\ ConflictInv(place) /\ ContentInv(place)
  BY <1>1 DEF PlacesInv
<1>3. PICK next : Follows(place, next) /\ ShapeInv(next)'
  BY <1>1, <1>2, ShapeStep
<1>4. SourcesInv(next)' /\ ConflictInv(next)'
  BY <1>1, <1>2, <1>3, SourcesStep, ConflictStep
<1>5. ContentInv(next)'
  BY <1>1, <1>2, <1>3, SingleStep, LeafStep, ValueStep DEF ContentInv, ConflictInv
<1>6. next \in Places'
  BY <1>3 DEF Follows
<1>7. QED
  BY <1>3, <1>4, <1>5, <1>6 DEF PlacesInv

(* The inductive invariant: in every state there are places for the nodes   *)
(* that fit.                                                                *)
THEOREM PlacesAlways == Spec => [](TypeInv /\ PlacesInv)
<1>1. Spec => []TypeInv
  BY TypeAlways
<1>2. Init => PlacesInv
  BY PlacesInit
<1>3. TypeInv /\ PlacesInv /\ [Next]_vars => PlacesInv'
  BY PlacesStep
<1>4. QED
  BY <1>1, <1>2, <1>3, PTL DEF Spec

(* In no order of its keys is a query rejected unless it is malformed or    *)
(* has a "[ ]" beside a property name (param_node.go:172-196).              *)
THEOREM OnlyMixedIsRejected == Spec => []RejectedOnlyIfMixed
<1>1. PlacesInv => RejectedOnlyIfMixed
  BY DEF PlacesInv, SourcesInv, FailedInv, MixedQuery, RejectedOnlyIfMixed
<1>2. QED
  BY <1>1, PlacesAlways, PTL

(* In every order of its keys a query is rejected that is malformed or      *)
(* has a "[ ]" beside a property name at a level where, and below levels    *)
(* where, no numbers are met (param_node.go:48-196).                        *)
THEOREM MixedRejected == Spec => []MixedIsRejected
<1>1. PlacesInv => MixedIsRejected
  BY DEF PlacesInv, ConflictInv, DoneInv, HiddenOnly, MixedIsRejected
<1>2. QED
  BY <1>1, PlacesAlways, PTL

(* As long as nothing is rejected every key's values are in the tree,       *)
(* unless a key that reads the same replaced them, and every value in the   *)
(* tree is that of a key of the query at the key's place, or one level      *)
(* above after a single "[ ]" (param_node.go:48-213).                       *)
THEOREM TreeHoldsQuery == Spec => []TreeHoldsTheQuery
<1>1. TypeInv /\ PlacesInv => TreeHoldsTheQuery
  BY TreeHolds DEF PlacesInv, ConflictInv
<1>2. QED
  BY <1>1, PlacesAlways, PTL
-----------------------------------------------------------------------------
(***************************************************************************)
(* Where the keys of a deep-object query end that mixes "[ ]" with nothing, *)
(* for any such query and any order of its keys.                           *)
(*                                                                         *)
(* Without a mixture no insertion meets children of another kind, so that  *)
(* no key of a node is changed before the tree is normalized, and the tree *)
(* that is built is the trie of the keys of the query.  The invariant      *)
(* TrieInv gives every node its origin, the selectors of the query that    *)
(* lead to it as they are written, which tell what Normalize makes of it.  *)
(***************************************************************************)
Origins == [Ids -> Paths]
Written == Keys \cup {Bracket}

(* A key that begins with w, and the selectors of the query that follow w.  *)
Runs(path, w) == Len(w) <= Len(path) /\ \A i \in 1..Len(w) : path[i] = w[i]
Onward(w) == {s \in Written : \E path \in query : Runs(path, Append(w, s))}

(* A selector below w in the end, and whether w gets the values of a "[ ]". *)
Kept(w, s) == IF w # <<>> /\ Onward(w) = {s} THEN Reading(s) ELSE s

Hoists(w) ==
  w # <<>> /\ Append(w, Bracket) \in query /\ Onward(Append(w, Bracket)) = {}

-----------------------------------------------------------------------------
(* The parts of the invariant.                                              *)

(* Every node has an origin of its own.                                     *)
OriginInv(origin) ==
  /\ origin[Root] = <<>>
  /\ \A m, n \in Ids : origin[m] = origin[n] => m = n
  /\ \A n \in Ids \ {Root} : \E path \in query : Runs(path, origin[n])

(* A child is one selector further, and has this selector as its key until  *)
(* Normalize is called on its parent.                                       *)
LabelInv(origin) ==
  \A n \in Ids : \A c \in Below(n) : \E s \in Written :
    /\ origin[c] = Append(origin[n], s)
    /\ nodes[c].key = IF Fresh(n) THEN s ELSE Kept(origin[n], s)

ItemsInv ==
  \A n \in Ids : Fresh(n) =>
    \A i, j \in DOMAIN nodes[n].items : nodes[n].items[i] = nodes[n].items[j] => i = j

(* During the insertion nothing fails, the keys that are inserted have      *)
(* nodes, the walk is where its key leads, and values are where they        *)
(* belong.                                                                  *)
Reached(origin, path, k) == \A i \in 1..k : \E n \in Ids : origin[n] = Prefix(path, i)

GrowthInv(origin) ==
  phase = "insert" =>
    /\ ~failed
    /\ \A path \in Inserted : Reached(origin, path, Len(path))
    /\ walk # Idle =>
         /\ Runs(walk.path, origin[walk.at])
         /\ walk.rest = SubSeq(walk.path, Len(origin[walk.at]) + 1, Len(walk.path))
         /\ Reached(origin, walk.path, Len(origin[walk.at]))
    /\ \A n \in Ids : nodes[n].values = IF origin[n] \in Inserted THEN origin[n] ELSE NoValues

(* Afterwards a node has a child for every selector that follows, unless    *)
(* the only one was a "[ ]" and its values were hoisted.                    *)
Hoisted(origin, n) == ~Fresh(n) /\ Hoists(origin[n])

Spread(origin, n) ==
  IF Hoisted(origin, n) THEN Below(n) = {}
  ELSE \A s \in Onward(origin[n]) : \E c \in Below(n) : origin[c] = Append(origin[n], s)

Values(origin, n) ==
  IF origin[n] \in query THEN origin[n]
  ELSE IF Hoisted(origin, n) THEN Append(origin[n], Bracket) ELSE NoValues

SpreadInv(origin) ==
  phase # "insert" =>
    /\ phase # "rejected"
    /\ \A n \in Ids : n = Root \/ HasParent(n) =>
         Spread(origin, n) /\ nodes[n].values = Values(origin, n)

(* What Normalize is called on next hangs below what it is done with.       *)
FrontInv ==
  phase = "normalize" =>
    \A n \in Ids : n = Root \/ ~Fresh(n) => \A c \in Below(n) : c \in todo \/ ~Fresh(c)

Trie(origin) ==
  /\ OriginInv(origin)
  /\ LabelInv(origin)
  /\ ItemsInv
  /\ GrowthInv(origin)
  /\ SpreadInv(origin)
  /\ FrontInv

TrieInv == \E origin \in Origins : Trie(origin)

-----------------------------------------------------------------------------
(* A key one selector longer. *)
LEMMA Longer ==
  ASSUME NEW w \in Paths, NEW s \in Written
  PROVE  /\ Append(w, s) \in Paths
         /\ Len(Append(w, s)) = Len(w) + 1
         /\ \A i \in 1..Len(w) : Append(w, s)[i] = w[i]
         /\ Append(w, s)[Len(w) + 1] = s
         /\ Append(w, s) # <<>>
  BY DEF Paths, Written

(* Keys that agree on their selectors are equal. *)
LEMMA SameKey ==
  ASSUME NEW v \in Paths, NEW w \in Paths, Len(v) = Len(w), \A i \in 1..Len(v) : v[i] = w[i]
  PROVE  v = w
  BY DEF Paths

LEMMA SameLonger ==
  ASSUME NEW v \in Paths, NEW w \in Paths, NEW s \in Written, NEW t \in Written,
         Append(v, s) = Append(w, t)
  PROVE  v = w /\ s = t
<1>1. Len(v) \in Nat /\ Len(w) \in Nat
  BY DEF Paths
<1>2. Len(v) = Len(w)
  BY <1>1, Longer
<1>3. \A i \in 1..Len(v) : v[i] = w[i]
  BY <1>2, Longer
<1>4. s = t
  BY <1>2, Longer
<1>5. QED
  BY <1>2, <1>3, <1>4, SameKey

(* The first selectors of a key. *)
LEMMA PrefixOfKey ==
  ASSUME NEW path \in Paths, NEW k \in 0..Len(path)
  PROVE  /\ Prefix(path, k) \in Paths
         /\ Len(Prefix(path, k)) = k
         /\ \A i \in 1..k : Prefix(path, k)[i] = path[i]
         /\ Runs(path, Prefix(path, k))
         /\ Prefix(path, Len(path)) = path
<1>1. /\ Prefix(path, k) \in Paths
      /\ Len(Prefix(path, k)) = k
      /\ \A i \in 1..k : Prefix(path, k)[i] = path[i]
      /\ Prefix(path, Len(path)) = path
      /\ Len(path) \in Nat
  BY DEF Prefix, Paths
<1>2. QED
  BY <1>1 DEF Runs

(* A key begins with what it runs along, and no other key of this length.   *)
LEMMA RunsPrefix ==
  ASSUME NEW path \in Paths, NEW w \in Paths, Runs(path, w)
  PROVE  Len(w) \in 0..Len(path) /\ Prefix(path, Len(w)) = w
<1>1. Len(w) \in 0..Len(path)
  BY PathTypes DEF Runs
<1>2. QED
  BY <1>1, PrefixOfKey, SameKey DEF Runs

LEMMA PrefixNext ==
  ASSUME NEW path \in Paths, NEW k \in 0..(Len(path) - 1)
  PROVE  /\ path[k + 1] \in Written
         /\ Prefix(path, k + 1) = Append(Prefix(path, k), path[k + 1])
<1>1. Len(path) \in Nat /\ k \in 0..Len(path) /\ k + 1 \in 0..Len(path) /\ k + 1 \in 1..Len(path)
  BY PathTypes
<1>2. path[k + 1] \in Written
  BY <1>1, PathTypes DEF Written
<1> DEFINE v == Prefix(path, k + 1)
           w == Append(Prefix(path, k), path[k + 1])
<1>3. v \in Paths /\ Len(v) = k + 1 /\ \A i \in 1..(k + 1) : v[i] = path[i]
  BY <1>1, PrefixOfKey
<1>4. w \in Paths /\ Len(w) = k + 1 /\ \A i \in 1..(k + 1) : w[i] = path[i]
  <2>1. Prefix(path, k) \in Paths /\ Len(Prefix(path, k)) = k /\ \A i \in 1..k : Prefix(path, k)[i] = path[i]
    BY <1>1, PrefixOfKey
  <2>2. /\ w \in Paths /\ Len(w) = k + 1
        /\ \A i \in 1..k : w[i] = path[i]
        /\ w[k + 1] = path[k + 1]
    BY <1>2, <2>1, Longer
  <2> HIDE DEF w
  <2>3. \A i \in 1..(k + 1) : i \in 1..k \/ i = k + 1
    BY <1>1
  <2>4. QED
    BY <2>2, <2>3
<1> HIDE DEF v, w
<1>5. v = w
  BY <1>3, <1>4, SameKey
<1>6. QED
  BY <1>2, <1>5 DEF v, w

(* A key runs along a longer one when it has the selector there.            *)
LEMMA RunsLonger ==
  ASSUME NEW path \in Paths, NEW w \in Paths, NEW s \in Written
  PROVE  Runs(path, Append(w, s)) <=> Runs(path, w) /\ Len(w) + 1 <= Len(path) /\ path[Len(w) + 1] = s
<1> DEFINE v == Append(w, s)
<1>1. /\ v \in Paths /\ Len(v) = Len(w) + 1 /\ v[Len(w) + 1] = s
      /\ \A i \in 1..Len(w) : v[i] = w[i]
  BY Longer
<1>2. Len(w) \in Nat /\ Len(path) \in Nat
  BY PathTypes
<1> HIDE DEF v
<1>3. QED
  BY <1>1, <1>2 DEF Runs, v

(* What follows w: the selectors that stand beside the next one of a key    *)
(* that runs along w.                                                       *)
LEMMA Following ==
  ASSUME query \subseteq Paths, NEW w \in Paths
  PROVE  /\ \A path \in Paths : Runs(path, w) => Siblings(path, Len(w) + 1) = Onward(w)
         /\ \A path \in query : Runs(path, w) /\ Len(w) < Len(path) => path[Len(w) + 1] \in Onward(w)
         /\ Extended(w) <=> Onward(w) # {}
<1>1. Len(w) \in Nat
  BY PathTypes
<1>2. ASSUME NEW path \in query
      PROVE  /\ Len(path) >= Len(w) + 1 /\ Prefix(path, Len(w)) = w <=>
                  Len(path) >= Len(w) + 1 /\ Runs(path, w)
             /\ Len(path) >= Len(w) + 1 => path[Len(w) + 1] \in Written
  <2>1. path \in Paths /\ Len(path) \in Nat
    BY PathTypes
  <2>2. Runs(path, w) => Prefix(path, Len(w)) = w
    BY <2>1, RunsPrefix
  <2>3. Len(path) >= Len(w) + 1 => Len(w) \in 0..Len(path) /\ Len(w) + 1 \in 1..Len(path)
    BY <1>1, <2>1
  <2>4. Len(path) >= Len(w) + 1 /\ Prefix(path, Len(w)) = w => Runs(path, w)
    BY <2>1, <2>3, PrefixOfKey
  <2>5. QED
    BY <2>1, <2>2, <2>3, <2>4, PathTypes DEF Written
<1>3. Onward(w) = {path[Len(w) + 1] : path \in {q \in query : Len(q) >= Len(w) + 1 /\ Runs(q, w)}}
  <2>1. \A s \in Written, path \in query :
          Runs(path, Append(w, s)) <=> Runs(path, w) /\ Len(w) + 1 <= Len(path) /\ path[Len(w) + 1] = s
    BY RunsLonger
  <2>2. \A path \in query : Len(w) + 1 <= Len(path) <=> Len(path) >= Len(w) + 1
    BY <1>1, PathTypes
  <2>3. QED
    BY <1>2, <2>1, <2>2 DEF Onward
<1>4. ASSUME NEW path \in Paths, Runs(path, w)
      PROVE  Siblings(path, Len(w) + 1) = Onward(w)
  <2>1. Prefix(path, (Len(w) + 1) - 1) = w /\ (Len(w) + 1) - 1 = Len(w)
    BY <1>1, <1>4, RunsPrefix
  <2>2. Siblings(path, Len(w) + 1) =
          {p[Len(w) + 1] : p \in {q \in query : Len(q) >= Len(w) + 1 /\ Prefix(q, Len(w)) = w}}
    BY <2>1 DEF Siblings
  <2>3. QED
    BY <1>2, <1>3, <2>2
<1>5. \A path \in query : Len(w) < Len(path) <=> Len(path) >= Len(w) + 1
  BY <1>1, PathTypes
<1>6. Extended(w) <=> Onward(w) # {}
  <2>1. Extended(w) <=> \E path \in query : Len(path) >= Len(w) + 1 /\ Runs(path, w)
    <3>1. \A path \in query : Len(path) > Len(w) <=> Len(path) >= Len(w) + 1
      BY <1>1, PathTypes
    <3>2. QED
      BY <1>2, <3>1 DEF Extended
  <2>2. QED
    BY <1>3, <2>1
<1>7. QED
  BY <1>3, <1>4, <1>5, <1>6

(* In a plain query a "[ ]" has no sibling. *)
LEMMA BracketAlone ==
  ASSUME query \subseteq Paths, Plain, NEW w \in Paths, w # <<>>, Bracket \in Onward(w)
  PROVE  Onward(w) = {Bracket}
<1>1. PICK path \in query : Runs(path, Append(w, Bracket))
  BY DEF Onward
<1>2. Runs(path, w) /\ Len(w) + 1 <= Len(path)
  BY <1>1, RunsLonger DEF Written
<1>3. Siblings(path, Len(w) + 1) = Onward(w)
  BY <1>2, Following
<1>4. Len(w) + 1 \in 2..Len(path)
  <2>1. Len(w) \in Nat /\ Len(path) \in Nat /\ Len(w) # 0
    BY DEF Paths
  <2>2. QED
    BY <1>2, <2>1
<1>5. QED
  BY <1>3, <1>4 DEF Plain

(* A selector of a child follows the origin of its parent. *)
LEMMA ChildFollows ==
  ASSUME TypeInv, NEW place \in Places, ShapeInv(place),
         NEW origin \in Origins, OriginInv(origin), LabelInv(origin),
         NEW n \in Ids, NEW c \in Below(n)
  PROVE  /\ c \in Ids /\ c # Root /\ c > n
         /\ \E s \in Onward(origin[n]) :
              /\ s \in Written
              /\ origin[c] = Append(origin[n], s)
              /\ nodes[c].key = IF Fresh(n) THEN s ELSE Kept(origin[n], s)
<1>1. c \in Ids /\ c # Root /\ c > n
  <2>1. c > n /\ Below(n) \subseteq Ids
    BY NodeTypes DEF ShapeInv, TreeInv, TypeInv
  <2>2. QED
    BY <2>1 DEF Ids, Root
<1>2. PICK s \in Written : /\ origin[c] = Append(origin[n], s)
                           /\ nodes[c].key = IF Fresh(n) THEN s ELSE Kept(origin[n], s)
  BY DEF LabelInv
<1>3. s \in Onward(origin[n])
  BY <1>1, <1>2 DEF OriginInv, Onward
<1>4. QED
  BY <1>1, <1>2, <1>3

(* The walk meets no child of another kind. *)
LEMMA NoClash ==
  ASSUME TypeInv, Plain, NEW place \in Places, ShapeInv(place), walk.rest # <<>>,
         NEW origin \in Origins, OriginInv(origin), LabelInv(origin), GrowthInv(origin)
  PROVE  LET w == origin[walk.at]
             s == Head(walk.rest)
         IN  /\ walk.at \in Ids /\ w \in Paths /\ phase = "insert" /\ walk.path \in query /\ walk.path \in Paths
             /\ s \in Written /\ s \in Onward(w)
             /\ Len(w) \in 0..(Len(walk.path) - 1) /\ walk.path[Len(w) + 1] = s
             /\ Runs(walk.path, Append(w, s))
             /\ Tail(walk.rest) = SubSeq(walk.path, Len(w) + 2, Len(walk.path))
             /\ ~Clash(walk.at, s)
<1> DEFINE w == origin[walk.at]
           s == Head(walk.rest)
<1>1. TypeOK /\ AtInv /\ query \subseteq Paths
  BY QueriesAssumption DEF TypeInv, TypeOK
<1>2. walk.at \in Ids /\ walk # Idle /\ phase = "insert" /\ s \in Written /\ walk.path \in Paths
  BY <1>1, WalkTypes DEF Written
<1>3. walk.path \in query
  BY <1>2 DEF ShapeInv, WalkInv
<1>4. /\ Runs(walk.path, w)
      /\ walk.rest = SubSeq(walk.path, Len(w) + 1, Len(walk.path))
  BY <1>2 DEF GrowthInv
<1>5. w \in Paths /\ Len(w) \in Nat /\ Len(walk.path) \in Nat /\ Len(w) <= Len(walk.path)
  BY <1>2, <1>4, PathTypes DEF Origins, Runs
<1>6. /\ Len(w) < Len(walk.path) /\ s = walk.path[Len(w) + 1]
      /\ Tail(walk.rest) = SubSeq(walk.path, Len(w) + 2, Len(walk.path))
  <2> DEFINE path == walk.path
             k == Len(w)
  <2>1. path \in Seq(Keys \cup {Bracket}) /\ k \in Nat /\ walk.rest = SubSeq(path, k + 1, Len(path)) /\ k <= Len(path)
    BY <1>2, <1>4, <1>5 DEF Paths
  <2> HIDE DEF path, k
  <2>2. k < Len(path)
    BY <2>1
  <2>3. Head(walk.rest) = path[k + 1] /\ Tail(walk.rest) = SubSeq(path, k + 2, Len(path))
    BY <2>1, <2>2
  <2>4. QED
    BY <2>2, <2>3 DEF path, k
<1>7. s \in Onward(w) /\ Runs(walk.path, Append(w, s))
  <2>1. s \in Onward(w)
    BY <1>1, <1>3, <1>4, <1>5, <1>6, Following
  <2>2. Len(w) + 1 <= Len(walk.path)
    BY <1>5, <1>6
  <2>3. QED
    BY <1>2, <1>4, <1>5, <1>6, <2>1, <2>2, RunsLonger
<1>8. ~Clash(walk.at, s)
  <2>1. SUFFICES ASSUME Clash(walk.at, s) PROVE FALSE
    OBVIOUS
  <2>2. walk.at # Root /\ HasItems(walk.at) /\ FirstKey(walk.at).kind # s.kind
    BY <2>1 DEF Clash
  <2> DEFINE c == nodes[walk.at].items[1]
  <2>3. c \in Below(walk.at) /\ FirstKey(walk.at) = nodes[c].key
    BY <1>1, <1>2, <2>2, FirstItem
  <2>4. nodes[c].key \in Onward(w) /\ nodes[c].key \in Written
    BY <1>2, <2>3, ChildFollows DEF Fresh
  <2>5. w # <<>>
    BY <1>2, <2>2 DEF OriginInv, TypeInv
  <2>6. Bracket \in Onward(w) => Onward(w) = {Bracket}
    BY <1>1, <1>5, <2>5, BracketAlone
  <2> HIDE DEF c, w, s
  <2>7. \A a, b \in Written : a # Bracket /\ b # Bracket => a.kind = b.kind
    BY DEF Written, Keys
  <2>8. nodes[c].key = s \/ (nodes[c].key # Bracket /\ s # Bracket)
    BY <1>7, <2>4, <2>6
  <2>9. QED
    BY <1>2, <2>2, <2>3, <2>4, <2>7, <2>8
<1>9. Len(w) \in 0..(Len(walk.path) - 1)
  BY <1>5, <1>6
<1>10. QED
  BY <1>2, <1>3, <1>5, <1>6, <1>7, <1>8, <1>9

(* A level of InsertNode retypes nothing, and the node that is entered is   *)
(* the one of the origin one selector further, a new one only if there is   *)
(* none.                                                                    *)
LEMMA PlainDescent ==
  ASSUME TypeInv, Plain, NEW place \in Places, ShapeInv(place), Descend,
         NEW origin \in Origins, OriginInv(origin), LabelInv(origin), GrowthInv(origin)
  PROVE  LET v == Append(origin[walk.at], Head(walk.rest))
         IN  /\ v \in Paths
             /\ \A n \in Ids : nodes'[n].key = nodes[n].key
             /\ Selected = Head(walk.rest)
             /\ walk'.at \in Ids => Entered /\ walk'.at \in Below(walk.at) /\ origin[walk'.at] = v
             /\ walk'.at \notin Ids => Grown /\ \A n \in Ids : origin[n] # v
<1> DEFINE at == walk.at
           s == Head(walk.rest)
           w == origin[at]
<1>1. TypeOK /\ AtInv /\ walk.rest # <<>>
  BY DEF TypeInv, Descend
<1>2. at \in Ids /\ w \in Paths /\ s \in Written /\ phase = "insert" /\ ~Clash(at, s)
  BY <1>1, NoClash
<1>3. Append(w, s) \in Paths /\ Append(w, s) # <<>>
  BY <1>2, Longer
<1>4. \A n \in Ids : nodes'[n].key = nodes[n].key
  <2>1. TAKE n \in Ids
  <2>2. Relabelled(n)
    BY <1>1, DescendShape
  <2>3. SUFFICES ASSUME at # Root, HasItems(at), n = nodes[at].items[1], s = Bracket, IsNumeral(nodes[n].key)
                 PROVE  FALSE
    BY <2>2 DEF Relabelled
  <2>4. FirstKey(at) = nodes[n].key
    BY <2>3 DEF FirstKey
  <2>5. Clash(at, s)
    BY <2>3, <2>4 DEF Clash, IsNumeral, Bracket, Index
  <2>6. QED
    BY <1>2, <2>5
<1>5. Selected = s
  BY <1>2 DEF Selected, Coerced
<1>6. Entered \/ Grown
  BY <1>1, DescendShape
<1>7. Entered => walk'.at \in Below(at) /\ walk'.at \in Ids /\ nodes'[walk'.at].key = s
  BY <1>1, <1>2, <1>5, NodeTypes DEF Entered
<1>8. Grown => walk'.at \notin Ids /\ \A c \in Below(at) : nodes'[c].key # s
  BY <1>1, <1>5 DEF Grown, Ids, TypeOK
<1>9. ASSUME NEW c \in Below(at), nodes'[c].key = s PROVE origin[c] = Append(w, s)
  <2>1. \E t \in Written : origin[c] = Append(w, t) /\ nodes[c].key = t
    BY <1>2, ChildFollows DEF Fresh
  <2>2. nodes[c].key = s
    BY <1>1, <1>2, <1>4, <1>9, NodeTypes
  <2>3. QED
    BY <2>1, <2>2
<1>10. ASSUME NEW n \in Ids, origin[n] = Append(w, s) PROVE n \in Below(at) /\ nodes'[n].key = s
  <2>1. n # Root
    BY <1>3, <1>10 DEF OriginInv
  <2>2. PICK m \in Ids : n \in Below(m)
    BY <1>2, <2>1 DEF ShapeInv, ParentInv, HasParent
  <2>3. PICK t \in Written : origin[n] = Append(origin[m], t) /\ nodes[n].key = t
    BY <1>2, <2>2, ChildFollows DEF Fresh
  <2>4. origin[m] \in Paths
    BY DEF Origins
  <2>5. origin[m] = w /\ t = s
    <3>1. Append(origin[m], t) = Append(w, s)
      BY <1>10, <2>3
    <3> HIDE DEF s, w
    <3>2. QED
      BY <1>2, <2>4, <3>1, SameLonger
  <2>6. m = at
    BY <1>2, <2>5 DEF OriginInv
  <2>7. QED
    BY <1>4, <2>2, <2>3, <2>5, <2>6
<1>11. QED
  BY <1>3, <1>4, <1>5, <1>6, <1>7, <1>8, <1>9, <1>10

(* The origins after a step: a new node has the one the walk has come to.   *)
Grows(origin, next) ==
  /\ next \in Origins'
  /\ \A n \in Ids : next[n] = origin[n]
  /\ next[walk'.at] = Append(origin[walk.at], Head(walk.rest))

(* After a level of InsertNode the tree is still a trie. *)
LEMMA DescendTrie ==
  ASSUME TypeInv, Plain, NEW place \in Places, ShapeInv(place), Descend,
         NEW origin \in Origins, OriginInv(origin), LabelInv(origin), ItemsInv, GrowthInv(origin)
  PROVE  \E next : /\ Grows(origin, next)
                   /\ OriginInv(next)' /\ LabelInv(next)' /\ ItemsInv' /\ GrowthInv(next)'
                   /\ phase' = "insert"
<1> DEFINE at == walk.at
           to == walk'.at
           s == Head(walk.rest)
           w == origin[at]
           v == Append(w, s)
           path == walk.path
<1>1. TypeOK /\ AtInv /\ walk.rest # <<>> /\ Root \in Ids
  BY DEF TypeInv, Descend
<1>2. /\ at \in Ids /\ w \in Paths /\ s \in Written /\ phase = "insert"
      /\ path \in query /\ path \in Paths
      /\ Len(w) \in 0..(Len(path) - 1) /\ path[Len(w) + 1] = s
      /\ Runs(path, v)
      /\ Tail(walk.rest) = SubSeq(path, Len(w) + 2, Len(path))
  BY <1>1, NoClash
<1>3. /\ v \in Paths
      /\ \A n \in Ids : nodes'[n].key = nodes[n].key
      /\ Selected = s
      /\ to \in Ids => Entered /\ to \in Below(at) /\ origin[to] = v
      /\ to \notin Ids => Grown /\ \A n \in Ids : origin[n] # v
  BY PlainDescent
<1>4. /\ Ids \subseteq Ids' /\ Ids' = Ids \cup {to}
      /\ \A n \in Ids : Below(n)' = IF n = at THEN Below(n) \cup {to} ELSE Below(n)
      /\ \A n \in Ids' \ Ids : Below(n)' = {}
      /\ nodes'[to].key = s
  BY <1>3, DescendBelow
<1>5. query' = query /\ phase' = "insert" /\ UNCHANGED <<pending, failed>>
  BY <1>2 DEF Descend
<1>6. PICK next : next = [n \in Ids' |-> IF n \in Ids THEN origin[n] ELSE v]
  OBVIOUS
<1>7. /\ next \in Origins' /\ next[to] = v
      /\ \A n \in Ids : next[n] = origin[n] /\ origin[n] \in Paths
  <2>1. \A n \in Ids : origin[n] \in Paths
    BY DEF Origins
  <2>2. next \in [Ids' -> Paths]
    BY <1>3, <1>6, <2>1
  <2>3. QED
    BY <1>3, <1>4, <1>6, <2>1, <2>2 DEF Origins
<1> HIDE DEF v, w, s, path
<1>8. Grows(origin, next)
  BY <1>7 DEF Grows, v, w, s
<1>9. OriginInv(next)'
  <2>1. next[Root] = <<>>
    BY <1>1, <1>7 DEF OriginInv
  <2>2. ASSUME NEW m \in Ids', NEW n \in Ids', next[m] = next[n] PROVE m = n
    <3>1. CASE m \in Ids /\ n \in Ids
      BY <1>7, <2>2, <3>1 DEF OriginInv
    <3>2. CASE m \notin Ids \/ n \notin Ids
      BY <1>3, <1>4, <1>7, <2>2, <3>2
    <3>3. QED
      BY <3>1, <3>2
  <2>3. ASSUME NEW n \in Ids' \ {Root} PROVE \E q \in query : Runs(q, next[n])
    <3>1. CASE n \in Ids
      BY <1>7, <3>1 DEF OriginInv
    <3>2. CASE n \notin Ids
      BY <1>2, <1>4, <1>7, <3>2
    <3>3. QED
      BY <3>1, <3>2
  <2>4. QED
    BY <1>5, <2>1, <2>2, <2>3 DEF OriginInv
<1>10. LabelInv(next)'
  <2>1. ASSUME NEW n \in Ids', NEW c \in Below(n)'
        PROVE  \E t \in Written : next[c] = Append(next[n], t) /\ nodes'[c].key = t
    <3>1. n \in Ids
      BY <1>4, <2>1
    <3>2. CASE c \in Below(n)
      <4>1. c \in Ids /\ \E t \in Written : origin[c] = Append(origin[n], t) /\ nodes[c].key = t
        BY <1>2, <3>1, <3>2, ChildFollows DEF Fresh
      <4>2. QED
        BY <1>3, <1>7, <3>1, <4>1
    <3>3. CASE c \notin Below(n)
      <4>1. n = at /\ c = to
        BY <1>4, <2>1, <3>1, <3>3
      <4>2. QED
        BY <1>2, <1>4, <1>7, <4>1 DEF v, w
    <3>4. QED
      BY <3>2, <3>3
  <2>2. QED
    BY <1>5, <2>1 DEF LabelInv, Fresh
<1>11. ItemsInv'
  <2>1. ASSUME NEW n \in Ids', NEW i \in DOMAIN nodes'[n].items, NEW j \in DOMAIN nodes'[n].items,
               nodes'[n].items[i] = nodes'[n].items[j]
        PROVE  i = j
    <3>1. \A m \in Ids : \A h, k \in DOMAIN nodes[m].items : nodes[m].items[h] = nodes[m].items[k] => h = k
      BY <1>2 DEF ItemsInv, Fresh
    <3>2. CASE to \in Ids
      BY <1>3, <1>4, <2>1, <3>1, <3>2 DEF Entered
    <3>3. CASE to \notin Ids /\ n \in Ids \ {at}
      BY <1>3, <2>1, <3>1, <3>3 DEF Grown
    <3>4. CASE to \notin Ids /\ n = to
      <4>1. nodes'[to].items = <<>>
        BY <1>3, <3>4 DEF Grown
      <4>2. DOMAIN nodes'[n].items = {}
        BY <3>4, <4>1
      <4>3. QED
        BY <2>1, <4>2
    <3>5. CASE to \notin Ids /\ n = at
      <4> DEFINE old == nodes[at].items
                 new == nodes'[at].items
      <4>1. new = Append(old, to) /\ old \in Seq(Nat \ {0}) /\ \A k \in 1..Len(old) : old[k] \in Ids
        BY <1>1, <1>2, <1>3, <3>5, NodeTypes DEF Grown
      <4>2. \A h, k \in DOMAIN old : old[h] = old[k] => h = k
        BY <1>2, <3>1
      <4>3. i \in DOMAIN new /\ j \in DOMAIN new /\ new[i] = new[j]
        BY <2>1, <3>5
      <4> HIDE DEF old, new
      <4>4. /\ DOMAIN old = 1..Len(old) /\ DOMAIN new = 1..(Len(old) + 1) /\ Len(old) \in Nat
            /\ \A k \in 1..Len(old) : new[k] = old[k]
            /\ new[Len(old) + 1] = to
        BY <4>1
      <4>5. QED
        BY <3>5, <4>1, <4>2, <4>3, <4>4
    <3>6. QED
      BY <1>4, <3>2, <3>3, <3>4, <3>5
  <2>2. QED
    BY <2>1 DEF ItemsInv
<1>12. GrowthInv(next)'
  <2>1. ~failed /\ ~failed' /\ walk # Idle
    BY <1>1, <1>2, <1>5, WalkTypes DEF GrowthInv
  <2>2. Inserted' = Inserted
    <3>1. [Next]_vars /\ ~StoreValues
      BY <1>1 DEF Next, StoreValues
    <3>2. QED
      BY <2>1, <3>1, InsertedFrame
  <2>3. \A n \in Ids : n \in Ids' /\ next[n] = origin[n]
    BY <1>4, <1>7
  <2>4. \A q \in Inserted' : \A i \in 1..Len(q) : \E n \in Ids' : next[n] = Prefix(q, i)
    BY <1>2, <2>2, <2>3 DEF GrowthInv, Reached
  <2>5. walk'.path = path /\ walk'.rest = SubSeq(path, Len(w) + 2, Len(path))
    <3>1. PICK a : walk' = [at |-> a, rest |-> Tail(walk.rest), path |-> path]
      BY <1>1, DescendShape DEF path
    <3>2. QED
      BY <1>2, <3>1
  <2>6. Len(v) = Len(w) + 1 /\ Len(w) \in Nat /\ Len(w) + 2 = Len(v) + 1 /\ Prefix(path, Len(w) + 1) = v
    <3>1. Len(v) = Len(w) + 1
      BY <1>2, Longer DEF v
    <3>2. v \in Paths /\ Len(w) \in Nat
      BY <1>2, <1>3, PathTypes DEF v
    <3>3. QED
      BY <1>2, <3>1, <3>2, RunsPrefix
  <2>7. \A i \in 1..Len(next[to]) : \E n \in Ids' : next[n] = Prefix(walk'.path, i)
    <3>1. \A i \in 1..Len(w) : \E n \in Ids' : next[n] = Prefix(path, i)
      BY <1>2, <1>4, <1>7, <2>1 DEF GrowthInv, Reached, w, path
    <3>2. \E n \in Ids' : next[n] = Prefix(path, Len(w) + 1)
      BY <1>4, <1>7, <2>6
    <3>3. \A i \in 1..(Len(w) + 1) : i \in 1..Len(w) \/ i = Len(w) + 1
      BY <2>6
    <3>4. \A i \in 1..(Len(w) + 1) : \E n \in Ids' : next[n] = Prefix(path, i)
      BY <3>1, <3>2, <3>3
    <3>5. QED
      BY <1>7, <2>5, <2>6, <3>4
  <2>8. \A n \in Ids' : nodes'[n].values = IF next[n] \in Inserted' THEN next[n] ELSE NoValues
    <3>1. \A n \in Ids : nodes[n].values = IF origin[n] \in Inserted THEN origin[n] ELSE NoValues
      BY <1>2 DEF GrowthInv
    <3>2. \A n \in Ids : nodes'[n].values = nodes[n].values
      BY DescendValued
    <3>3. ASSUME NEW n \in Ids', n \notin Ids PROVE nodes'[n].values = NoValues /\ next[n] \notin Inserted
      <4>1. n = to /\ Grown /\ \A m \in Ids : origin[m] # v
        BY <1>3, <1>4, <3>3
      <4>2. nodes'[n].values = NoValues
        <5>1. nodes'[Len(nodes')].values = NoValues
          BY <4>1 DEF Grown
        <5>2. QED
          BY <4>1, <5>1 DEF Grown
      <4>3. v \notin Inserted
        <5>1. SUFFICES ASSUME v \in Inserted PROVE FALSE
          OBVIOUS
        <5>2. Reached(origin, v, Len(v))
          BY <1>2, <5>1 DEF GrowthInv
        <5>3. Len(v) \in 1..Len(v) /\ Prefix(v, Len(v)) = v
          <6>1. v \in Paths /\ Len(v) \in 0..Len(v)
            BY <1>3, <2>6 DEF v
          <6>2. QED
            BY <2>6, <6>1, PrefixOfKey
        <5>4. QED
          BY <4>1, <5>2, <5>3 DEF Reached
      <4>4. QED
        BY <1>7, <4>1, <4>2, <4>3
    <3>4. TAKE n \in Ids'
    <3>5. CASE n \in Ids
      BY <1>7, <2>2, <3>1, <3>2, <3>5
    <3>6. CASE n \notin Ids
      BY <2>2, <3>3, <3>6
    <3>7. QED
      BY <3>5, <3>6
  <2>9. QED
    <3>1. Runs(walk'.path, next[to]) /\ walk'.rest = SubSeq(walk'.path, Len(next[to]) + 1, Len(walk'.path))
      BY <1>2, <1>7, <2>5, <2>6
    <3>2. QED
      BY <2>1, <2>4, <2>7, <2>8, <3>1 DEF GrowthInv, Reached
<1>13. QED
  BY <1>5, <1>8, <1>9, <1>10, <1>11, <1>12

(* The node after the top is a child of the top, so that no node but the    *)
(* top is before what Normalize is called on first.                         *)
LEMMA SecondNode ==
  ASSUME TypeInv, NEW place \in Places, ShapeInv(place), phase = "insert",
         NEW n \in Ids \ {Root}
  PROVE  \E t \in Below(Root) : t <= n
<1>1. Len(nodes) \in Nat /\ n \in 1..Len(nodes) /\ n # 1 /\ Root = 1
  BY DEF TypeInv, TypeOK, Ids, Root
<1>2. 2 \in Ids \ {Root} /\ 2 <= n
  BY <1>1 DEF Ids
<1>3. PICK m \in Ids : 2 \in Below(m)
  BY <1>2 DEF ShapeInv, ParentInv, HasParent
<1>4. 2 > m
  BY <1>3 DEF ShapeInv, TreeInv
<1>5. m = Root
  BY <1>1, <1>4 DEF Ids
<1>6. QED
  BY <1>2, <1>3, <1>5

(* A step that leaves the tree and what is fresh in it leaves the origins   *)
(* right.                                                                   *)
LEMMA SameTree ==
  ASSUME TypeInv, NEW origin \in Origins, OriginInv(origin), LabelInv(origin), ItemsInv,
         query' = query, Ids' = Ids, \A n \in Ids : Fresh(n)' <=> Fresh(n),
         \A n \in Ids : nodes'[n].key = nodes[n].key /\ nodes'[n].items = nodes[n].items
  PROVE  OriginInv(origin)' /\ LabelInv(origin)' /\ ItemsInv' /\ \A w : Onward(w)' = Onward(w)
<1>1. \A n \in Ids : Below(n)' = Below(n) /\ Below(n) \subseteq Ids
  BY NodeTypes DEF Below, TypeInv
<1>2. \A w : Onward(w)' = Onward(w)
  BY DEF Onward
<1>3. OriginInv(origin)'
  BY DEF OriginInv
<1>4. LabelInv(origin)'
  <2>1. ASSUME NEW n \in Ids, NEW c \in Below(n)
        PROVE  \E s \in Written :
                 /\ origin[c] = Append(origin[n], s)
                 /\ nodes'[c].key = IF Fresh(n)' THEN s ELSE Kept(origin[n], s)'
    <3>1. c \in Ids
      BY <1>1
    <3>2. PICK s \in Written : /\ origin[c] = Append(origin[n], s)
                               /\ nodes[c].key = IF Fresh(n) THEN s ELSE Kept(origin[n], s)
      BY DEF LabelInv
    <3>3. Kept(origin[n], s)' = Kept(origin[n], s)
      BY <1>2 DEF Kept
    <3>4. QED
      BY <3>1, <3>2, <3>3
  <2>2. QED
    BY <1>1, <2>1 DEF LabelInv
<1>5. ItemsInv'
  BY DEF ItemsInv
<1>6. QED
  BY <1>2, <1>3, <1>4, <1>5

(* A key that is taken is not malformed. *)
LEMMA TakeKeyTrie ==
  ASSUME TypeInv, Plain, NEW place \in Places, ShapeInv(place), TakeKey,
         NEW origin \in Origins, Trie(origin)
  PROVE  Trie(origin)'
<1>1. PICK path \in pending :
        /\ pending' = pending \ {path}
        /\ IF path = Unparsable
             THEN failed' = TRUE /\ walk' = Idle
             ELSE failed' = failed /\ walk' = [at |-> Root, rest |-> path, path |-> path]
  BY DEF TakeKey
<1>2. path \in query /\ path # Unparsable /\ path \in Paths /\ Root \in Ids
  BY <1>1, QueriesAssumption DEF TypeInv, TypeOK, Plain
<1>3. /\ failed' = failed /\ walk'.at = Root /\ walk'.rest = path /\ walk'.path = path
      /\ UNCHANGED <<query, nodes, phase, todo>> /\ phase = "insert"
  BY <1>1, <1>2 DEF TakeKey
<1>4. Ids' = Ids /\ \A n \in Ids : Fresh(n)' <=> Fresh(n)
  BY <1>3 DEF Ids, Fresh
<1>5. OriginInv(origin)' /\ LabelInv(origin)' /\ ItemsInv'
  BY <1>3, <1>4, SameTree DEF Trie
<1>6. GrowthInv(origin)'
  <2>1. ~failed /\ ~failed'
    BY <1>3 DEF Trie, GrowthInv
  <2>2. Inserted' = Inserted
    <3>1. [Next]_vars /\ ~StoreValues
      BY DEF Next, StoreValues, TakeKey
    <3>2. QED
      BY <2>1, <3>1, InsertedFrame
  <2>3. origin[Root] = <<>> /\ Len(<<>>) = 0
    BY DEF Trie, OriginInv
  <2>4. Runs(path, <<>>) /\ path = SubSeq(path, 1, Len(path))
    BY <1>2 DEF Runs, Paths
  <2>5. Reached(origin, path, 0)'
    BY DEF Reached
  <2>6. QED
    BY <1>3, <1>4, <2>1, <2>2, <2>3, <2>4 DEF Trie, GrowthInv, Reached
<1>7. QED
  BY <1>3, <1>5, <1>6 DEF Trie, SpreadInv, FrontInv

(* Values are stored at the node that has the key as its origin. *)
LEMMA StoreTrie ==
  ASSUME TypeInv, Plain, NEW place \in Places, ShapeInv(place), StoreValues,
         NEW origin \in Origins, Trie(origin)
  PROVE  Trie(origin)'
<1> DEFINE path == walk.path
           w == origin[walk.at]
<1>1. TypeOK /\ AtInv /\ walk # Idle /\ walk.rest = <<>> /\ phase = "insert"
  BY DEF TypeInv, StoreValues, AtInv
<1>2. path \in query /\ path \in Paths /\ walk.at \in Ids /\ w \in Paths
  BY <1>1, StoredPlace, StoreShape DEF Origins
<1>3. /\ Runs(path, w) /\ walk.rest = SubSeq(path, Len(w) + 1, Len(path))
      /\ Reached(origin, path, Len(w)) /\ ~failed
      /\ \A q \in Inserted : Reached(origin, q, Len(q))
      /\ \A n \in Ids : nodes[n].values = IF origin[n] \in Inserted THEN origin[n] ELSE NoValues
  BY <1>1 DEF Trie, GrowthInv
<1>4. w = path
  <2>1. Len(w) \in Nat /\ Len(path) \in Nat /\ path \in Seq(Keys \cup {Bracket}) /\ Len(w) <= Len(path)
    BY <1>2, <1>3 DEF Paths, Runs
  <2>2. Len(w) = Len(path)
    <3> DEFINE r == SubSeq(path, Len(w) + 1, Len(path))
    <3>1. r = <<>>
      BY <1>1, <1>3
    <3>2. Len(w) < Len(path) => Len(r) = Len(path) - Len(w)
      <4> HIDE DEF path, w
      <4>1. QED
        BY <2>1
    <3>3. Len(r) = 0
      <4> HIDE DEF r
      <4>1. QED
        BY <3>1
    <3> HIDE DEF r, path, w
    <3>4. QED
      BY <2>1, <3>2, <3>3
  <2>3. QED
    BY <1>2, <1>3, <2>2, SameKey DEF Runs
<1>5. /\ UNCHANGED <<query, pending, failed, phase, todo>> /\ walk' = Idle
      /\ Ids' = Ids
      /\ \A n \in Ids : /\ nodes'[n].key = nodes[n].key
                        /\ nodes'[n].items = nodes[n].items
                        /\ n # walk.at => nodes'[n].values = nodes[n].values
      /\ nodes'[walk.at].values = path
  BY <1>1, StoreShape DEF StoreValues, Ids
<1>6. \A n \in Ids : Fresh(n)' <=> Fresh(n)
  BY <1>5 DEF Fresh
<1>7. OriginInv(origin)' /\ LabelInv(origin)' /\ ItemsInv'
  BY <1>5, <1>6, SameTree DEF Trie
<1>8. Inserted' = Inserted \cup {path}
  <2>1. [Next]_vars /\ ~failed'
    BY <1>3, <1>5 DEF Next
  <2>2. QED
    BY <2>1, InsertedFrame
<1> HIDE DEF path, w
<1>9. \A n \in Ids : nodes'[n].values = IF origin[n] \in Inserted' THEN origin[n] ELSE NoValues
  <2>1. TAKE n \in Ids
  <2>2. CASE n = walk.at
    BY <1>4, <1>5, <1>8, <2>2 DEF w
  <2>3. CASE n # walk.at
    <3>1. origin[n] # path
      BY <1>2, <1>4, <2>3 DEF Trie, OriginInv, w
    <3>2. QED
      BY <1>3, <1>5, <1>8, <2>3, <3>1
  <2>4. QED
    BY <2>2, <2>3
<1>10. \A q \in Inserted' : \A i \in 1..Len(q) : \E n \in Ids : origin[n] = Prefix(q, i)
  BY <1>3, <1>4, <1>8 DEF Reached
<1>11. GrowthInv(origin)'
  BY <1>3, <1>5, <1>9, <1>10 DEF GrowthInv, Reached
<1>12. QED
  BY <1>1, <1>5, <1>7, <1>11 DEF Trie, SpreadInv, FrontInv

(* When all keys are inserted, every node has a child for each selector     *)
(* that follows.                                                            *)
LEMMA InsertedTrie ==
  ASSUME TypeInv, Plain, NEW place \in Places, ShapeInv(place), EndInsertion,
         NEW origin \in Origins, Trie(origin)
  PROVE  Trie(origin)'
<1>1. /\ phase = "insert" /\ walk = Idle /\ pending = {} /\ ~failed
      /\ phase' = "normalize" /\ todo' = Below(Root)
      /\ UNCHANGED <<query, nodes>>
  BY DEF EndInsertion, Trie, GrowthInv, Below
<1>2. Inserted = query /\ query \subseteq Paths /\ TypeOK
  BY <1>1, QueriesAssumption DEF Inserted, Idle, Unparsable, Plain, TypeInv, TypeOK
<1>3. Ids' = Ids /\ \A n \in Ids : Below(n)' = Below(n) /\ Below(n) \subseteq Ids
  BY <1>1, <1>2, NodeTypes DEF Ids, Below
<1>4. \A n \in Ids \ {Root} : Fresh(n)'
  BY <1>1, SecondNode DEF Fresh
<1>5. \A w : Onward(w)' = Onward(w)
  BY <1>1 DEF Onward
<1>6. OriginInv(origin)' /\ origin[Root] = <<>>
  BY <1>1, <1>3 DEF Trie, OriginInv
<1>7. LabelInv(origin)'
  <2>1. ASSUME NEW n \in Ids, NEW c \in Below(n)
        PROVE  \E s \in Written :
                 /\ origin[c] = Append(origin[n], s)
                 /\ nodes'[c].key = IF Fresh(n)' THEN s ELSE Kept(origin[n], s)'
    <3>1. PICK s \in Written : origin[c] = Append(origin[n], s) /\ nodes[c].key = s
      BY <1>1 DEF Trie, LabelInv, Fresh
    <3>2. n = Root => Kept(origin[n], s)' = s
      BY <1>6 DEF Kept
    <3>3. QED
      BY <1>1, <1>4, <3>1, <3>2
  <2>2. QED
    BY <1>3, <2>1 DEF LabelInv
<1>8. ItemsInv'
  BY <1>1, <1>3 DEF Trie, ItemsInv, Fresh
<1>9. \A n \in Ids : ~Hoisted(origin, n)'
  BY <1>4, <1>6 DEF Hoisted, Hoists
<1>10. ASSUME NEW n \in Ids, NEW s \in Onward(origin[n])
       PROVE  \E c \in Below(n) : origin[c] = Append(origin[n], s)
  <2>1. PICK path \in query : Runs(path, Append(origin[n], s))
    BY DEF Onward
  <2>2. /\ s \in Written /\ origin[n] \in Paths
        /\ Append(origin[n], s) \in Paths /\ Append(origin[n], s) # <<>>
        /\ Len(Append(origin[n], s)) = Len(origin[n]) + 1
    BY Longer DEF Onward, Origins
  <2> DEFINE v == Append(origin[n], s)
  <2> HIDE DEF v
  <2>3. v \in Paths /\ v # <<>> /\ Len(v) \in 1..Len(path) /\ Prefix(path, Len(v)) = v
    <3>1. path \in Paths /\ Len(origin[n]) \in Nat
      BY <1>2, <2>2, PathTypes
    <3>2. v \in Paths /\ Runs(path, v)
      BY <2>1, <2>2 DEF v
    <3>3. Len(v) \in 0..Len(path) /\ Prefix(path, Len(v)) = v
      BY <3>1, <3>2, RunsPrefix
    <3>4. v # <<>> /\ Len(v) = Len(origin[n]) + 1
      BY <2>2 DEF v
    <3>5. QED
      BY <3>1, <3>2, <3>3, <3>4
  <2>4. Reached(origin, path, Len(path))
    BY <1>1, <1>2 DEF Trie, GrowthInv
  <2>5. PICK c \in Ids : origin[c] = v
    BY <2>3, <2>4 DEF Reached
  <2>6. c # Root
    BY <1>6, <2>3, <2>5
  <2>7. PICK m \in Ids : c \in Below(m)
    BY <1>1, <2>6 DEF ShapeInv, ParentInv, HasParent
  <2>8. PICK t \in Written : origin[c] = Append(origin[m], t)
    BY <2>7 DEF Trie, LabelInv
  <2>9. origin[m] = origin[n]
    <3>1. origin[m] \in Paths
      BY DEF Origins
    <3>2. Append(origin[m], t) = Append(origin[n], s)
      BY <2>5, <2>8 DEF v
    <3>3. QED
      BY <2>2, <3>1, <3>2, SameLonger
  <2>10. m = n
    BY <2>9 DEF Trie, OriginInv
  <2>11. QED
    BY <2>5, <2>7, <2>10 DEF v
<1>11. SpreadInv(origin)'
  <2>1. \A n \in Ids : nodes'[n].values = IF origin[n] \in query THEN origin[n] ELSE NoValues
    BY <1>1, <1>2 DEF Trie, GrowthInv
  <2>2. \A n \in Ids : Spread(origin, n)'
    BY <1>3, <1>5, <1>9, <1>10 DEF Spread
  <2>3. \A n \in Ids : nodes'[n].values = Values(origin, n)'
    BY <1>1, <1>9, <2>1 DEF Values
  <2>4. QED
    BY <1>1, <1>3, <2>2, <2>3 DEF SpreadInv
<1>12. FrontInv'
  BY <1>1, <1>3, <1>4 DEF FrontInv
<1>13. QED
  BY <1>1, <1>6, <1>7, <1>8, <1>11, <1>12 DEF Trie, GrowthInv

(* What Normalize does to the oldest node left: it hoists an only "[ ]", or *)
(* it reads an only child as a number, if it is one.                        *)
Single(n) == Len(nodes[n].items) = 1

NormalizesTo(n) ==
  IF Collapses(n)
    THEN Below(n)' = {} /\ nodes'[n].values = nodes[OnlyItem(n)].values
    ELSE /\ Below(n)' = Below(n) /\ nodes'[n].values = nodes[n].values
         /\ \A c \in Below(n) : nodes'[c].key = IF Single(n) THEN Reading(nodes[c].key) ELSE nodes[c].key

LEMMA NormalizeKeys ==
  ASSUME TypeInv, Normalize, NEW n \in todo, \A m \in todo : n <= m, ~Collapses(n)
  PROVE  \A c \in Below(n) : nodes'[c].key = IF Single(n) THEN Reading(nodes[c].key) ELSE nodes[c].key
<1>1. TypeOK /\ n \in Ids /\ todo \subseteq Ids /\ nodes \in Seq(Nodes)
  BY DEF TypeInv, TypeOK
<1>2. nodes' = IF IsLeaf(n) THEN nodes
               ELSE IF Single(n) THEN Promoted(n) ELSE Arranged(n)
  <2>1. PICK m \in todo :
          /\ \A k \in todo : m <= k
          /\ nodes' = IF IsLeaf(m) THEN nodes
                      ELSE IF Collapses(m) THEN
                        [nodes EXCEPT ![m].values = nodes[OnlyItem(m)].values, ![m].items = <<>>]
                      ELSE IF Single(m) THEN Promoted(m)
                      ELSE Arranged(m)
    BY DEF Normalize, Single
  <2>2. m <= n /\ n <= m /\ m \in Int /\ n \in Int
    BY <1>1, <2>1 DEF Ids
  <2>3. m = n
    BY <2>2
  <2>4. QED
    BY <2>1, <2>3
<1>3. SUFFICES ASSUME NEW c \in Below(n)
               PROVE  nodes'[c].key = IF Single(n) THEN Reading(nodes[c].key) ELSE nodes[c].key
  OBVIOUS
<1>4. c \in Ids /\ ~IsLeaf(n)
  <2>1. Range(<<>>) = {}
    BY DEF Range
  <2>2. QED
    BY <1>1, <2>1, NodeTypes DEF IsLeaf, HasItems, Below
<1>5. CASE Single(n)
  <2>1. c = OnlyItem(n) /\ FirstKey(n) = nodes[c].key
    BY <1>1, <1>5, OnlyChild DEF Single, FirstKey, OnlyItem
  <2>2. nodes' = IF nodes[c].key.kind = "key" /\ IsNumber(nodes[c].key)
                   THEN [nodes EXCEPT ![c].key = ToIndex(@)] ELSE nodes
    BY <1>2, <1>4, <1>5, <2>1 DEF Promoted
  <2>3. nodes'[c].key = Reading(nodes[c].key)
    <3>1. CASE nodes[c].key.kind = "key" /\ IsNumber(nodes[c].key)
      <4> DEFINE e == [nodes[c] EXCEPT !.key = ToIndex(nodes[c].key)]
      <4>1. nodes' = [nodes EXCEPT ![c] = e]
        BY <2>2, <3>1
      <4>2. e.key = ToIndex(nodes[c].key) /\ c \in DOMAIN nodes
        BY <1>1, <1>4, NodeTypes DEF Nodes, Ids
      <4> HIDE DEF e
      <4>3. nodes'[c] = e
        BY <4>1, <4>2
      <4>4. QED
        BY <3>1, <4>2, <4>3 DEF Reading
    <3>2. CASE ~(nodes[c].key.kind = "key" /\ IsNumber(nodes[c].key))
      BY <2>2, <3>2 DEF Reading
    <3>3. QED
      BY <3>1, <3>2
  <2>4. QED
    BY <1>5, <2>3
<1>6. CASE ~Single(n)
  <2>1. nodes' = IF FirstKey(n).kind = "index" THEN [nodes EXCEPT ![n].items = Sorted(@)] ELSE nodes
    BY <1>2, <1>4, <1>6 DEF Arranged
  <2>2. nodes'[c].key = nodes[c].key
    <3>1. CASE FirstKey(n).kind = "index"
      <4> DEFINE e == [nodes[n] EXCEPT !.items = Sorted(nodes[n].items)]
      <4>1. nodes' = [nodes EXCEPT ![n] = e]
        BY <2>1, <3>1
      <4>2. e.key = nodes[n].key /\ c \in DOMAIN nodes /\ n \in DOMAIN nodes
        BY <1>1, <1>4, NodeTypes DEF Nodes, Ids
      <4> HIDE DEF e
      <4>3. QED
        BY <4>1, <4>2
    <3>2. QED
      BY <2>1, <3>1
  <2>3. QED
    BY <1>6, <2>2
<1>7. QED
  BY <1>5, <1>6

LEMMA PlainNormalize ==
  ASSUME TypeInv, Normalize, NEW place \in Places, ShapeInv(place)
  PROVE  \E n \in Ids \ {Root} :
           /\ n \in todo /\ HasParent(n)
           /\ \A m \in todo : n <= m
           /\ Ids' = Ids /\ todo' = (todo \ {n}) \cup Below(n)'
           /\ \A t \in todo' : n < t
           /\ \A m \in Ids \ {n} : /\ nodes'[m].items = nodes[m].items
                                   /\ nodes'[m].values = nodes[m].values
                                   /\ Below(m)' = Below(m)
           /\ \A m \in Ids \ {n} : \A c \in Below(m) : nodes'[c].key = nodes[c].key
           /\ NormalizesTo(n)
<1>1. TypeOK /\ todo \subseteq Ids
  BY DEF TypeInv, TypeOK
<1>2. PICK n \in todo :
        /\ \A m \in todo : n <= m
        /\ todo' = (todo \ {n}) \cup Range(nodes'[n].items)
        /\ Len(nodes') = Len(nodes)
        /\ Collapsed(n) \/ Ordered(n)
  BY <1>1, NormalizeShape
<1>3. PICK k \in Ids \ {Root} :
           /\ k \in todo /\ HasParent(k)
           /\ \A t \in todo' : k < t
           /\ \A m \in Ids \ {k} : /\ nodes'[m].items = nodes[m].items
                                   /\ nodes'[m].values = nodes[m].values
                                   /\ Below(m)' = Below(m)
           /\ \A m \in Ids \ {k} : \A c \in Below(m) : nodes'[c].key = nodes[c].key
           /\ \/ Collapsed(k) /\ Below(k)' = {}
              \/ Ordered(k) /\ Below(k)' = Below(k)
  BY NormalizeBelow
<1>4. k = n
  <2>1. k \notin todo'
    BY <1>3 DEF Ids
  <2>2. QED
    BY <1>2, <1>3, <2>1
<1>5. Ids' = Ids /\ todo' = (todo \ {n}) \cup Below(n)'
  BY <1>2 DEF Ids, Below
<1>6. NormalizesTo(n)
  <2>1. CASE Collapses(n)
    BY <1>3, <1>4, <2>1 DEF NormalizesTo, Collapsed, Ordered
  <2>2. CASE ~Collapses(n)
    <3>1. \A c \in Below(n) : nodes'[c].key = IF Single(n) THEN Reading(nodes[c].key) ELSE nodes[c].key
      BY <1>2, <2>2, NormalizeKeys
    <3>2. Below(n)' = Below(n) /\ nodes'[n].values = nodes[n].values
      BY <1>3, <1>4, <2>2 DEF Collapsed, Ordered
    <3>3. QED
      BY <2>2, <3>1, <3>2 DEF NormalizesTo
  <2>3. QED
    BY <2>1, <2>2
<1>7. QED
  BY <1>2, <1>3, <1>4, <1>5, <1>6

(* The top is never fresh once the insertion is over. *)
LEMMA TopIsDone ==
  ASSUME TypeInv, NEW place \in Places, ShapeInv(place), phase # "insert"
  PROVE  ~Fresh(Root)
<1>1. SUFFICES ASSUME NEW t \in todo, t <= Root PROVE FALSE
  BY DEF Fresh
<1>2. PICK p \in Ids : t \in Below(p)
  BY DEF ShapeInv, TodoInv
<1>3. t > p
  BY <1>2 DEF ShapeInv, TreeInv
<1>4. p \in Nat /\ p >= 1 /\ t \in Int
  BY DEF Ids, TypeInv, TypeOK
<1>5. QED
  BY <1>1, <1>3, <1>4 DEF Root

(* What Normalize was not called on, and still hangs in the tree, is fresh  *)
(* still: some node above it is called next.                                *)
LEMMA FrontStep ==
  ASSUME TypeInv, Normalize, NEW place \in Places, ShapeInv(place), FrontInv,
         NEW n \in Ids \ {Root}, n \in todo,
         Ids' = Ids, todo' = (todo \ {n}) \cup Below(n)',
         \A m \in Ids \ {n} : nodes'[m].items = nodes[m].items /\ Below(m)' = Below(m),
         NormalizesTo(n)
  PROVE  /\ \A m \in Ids \ {n} : HasParent(m)' /\ Fresh(m) => Fresh(m)'
         /\ \A m \in Ids : HasParent(m)' => HasParent(m)
         /\ \A m \in Ids : HasItems(m)' => m = Root \/ HasParent(m)'
<1> DEFINE Lost == {m \in Ids \ {n} : HasParent(m)' /\ Fresh(m) /\ ~Fresh(m)'}
<1>1. TypeOK /\ phase = "normalize" /\ \A m \in Ids : Below(m) \subseteq Ids
  BY NodeTypes DEF TypeInv, Normalize
<1>2. Below(n)' \subseteq Below(n)
  BY DEF NormalizesTo
<1>3. \A m \in Ids : HasParent(m)' => HasParent(m)
  BY <1>2 DEF HasParent
<1>4. Range(<<>>) = {}
  BY DEF Range
<1>5. \A m \in Ids : HasItems(m)' => HasItems(m)
  <2>1. ASSUME HasItems(n)' PROVE HasItems(n)
    <3>1. Below(n)' # {}
      <4>1. nodes' \in Seq(Nodes) /\ n \in DOMAIN nodes'
        <5>1. TypeOK' /\ n \in Ids'
          BY TypeStep DEF TypeInv, Next
        <5>2. QED
          BY <5>1 DEF TypeOK, Ids
      <4>2. nodes'[n].items \in Seq(Nat \ {0}) /\ nodes'[n].items # <<>>
        <5>1. nodes'[n] \in Nodes
          BY <4>1
        <5>2. QED
          BY <2>1, <5>1 DEF HasItems, Nodes
      <4> DEFINE items == nodes'[n].items
      <4> HIDE DEF items
      <4>3. 1 \in DOMAIN items
        BY <4>2 DEF items
      <4>4. items[1] \in Range(items)
        BY <4>3 DEF Range
      <4>5. QED
        BY <4>4 DEF Below, items
    <3>2. Below(n) # {}
      BY <1>2, <3>1
    <3>3. QED
      BY <1>4, <3>2 DEF Below, HasItems
  <2>2. QED
    BY <2>1 DEF HasItems
<1>6. ASSUME NEW m \in Ids, HasItems(m), HasParent(m) PROVE HasParent(m)'
  <2>1. PICK p \in Ids : m \in Below(p)
    BY <1>6 DEF HasParent
  <2>2. CASE p # n
    BY <2>1, <2>2 DEF HasParent
  <2>3. CASE p = n /\ ~Collapses(n)
    BY <2>1, <2>3 DEF HasParent, NormalizesTo
  <2>4. CASE p = n /\ Collapses(n)
    <3>1. m = OnlyItem(n) /\ IsLeaf(OnlyItem(n))
      BY <1>1, <2>1, <2>4, OnlyChild DEF Collapses
    <3>2. QED
      BY <1>6, <3>1 DEF IsLeaf
  <2>5. QED
    BY <2>2, <2>3, <2>4
<1>7. Lost = {}
  <2>1. SUFFICES ASSUME Lost # {} PROVE FALSE
    OBVIOUS
  <2>2. PICK m \in Lost : \A k \in Lost : m <= k
    <3>1. Lost \in SUBSET Nat
      BY DEF Ids
    <3> HIDE DEF Lost
    <3>2. QED
      BY <2>1, <3>1, Smallest
  <2>3. m \in Ids /\ m # n /\ HasParent(m)' /\ Fresh(m) /\ ~Fresh(m)'
    BY <2>2
  <2>4. phase' = "normalize" /\ ~\E t \in todo' : t <= m
    BY <2>3 DEF Fresh, Normalize
  <2>5. m \notin todo /\ m \notin Below(n)'
    BY <2>3, <2>4 DEF Ids
  <2>6. PICK p \in Ids : m \in Below(p)'
    BY <2>3 DEF HasParent
  <2>7. p # n /\ m \in Below(p) /\ p < m
    <3>1. p # n
      BY <2>5, <2>6
    <3>2. m \in Below(p)
      BY <2>6, <3>1
    <3>3. QED
      BY <3>1, <3>2 DEF ShapeInv, TreeInv, Ids
  <2>8. p # Root /\ Fresh(p)
    BY <1>1, <2>3, <2>5, <2>7 DEF FrontInv
  <2>9. HasItems(p) /\ HasParent(p)
    <3>1. HasItems(p)
      BY <1>4, <2>7 DEF Below, HasItems
    <3>2. QED
      BY <2>8, <3>1 DEF ShapeInv, AttachedInv
  <2>10. HasParent(p)'
    BY <1>6, <2>9
  <2>11. Fresh(p)'
    <3>1. p \notin Lost
      BY <2>2, <2>7 DEF Ids
    <3>2. QED
      BY <2>7, <2>8, <2>10, <3>1
  <2>12. PICK t \in todo' : t <= p
    BY <2>4, <2>11 DEF Fresh
  <2>13. t \in Int
    <3>1. todo' \subseteq Ids
      BY <1>1, <1>2 DEF TypeOK
    <3>2. QED
      BY <3>1 DEF Ids
  <2>14. QED
    BY <2>4, <2>7, <2>12, <2>13 DEF Ids
<1>8. \A m \in Ids : HasItems(m)' => m = Root \/ HasParent(m)'
  BY <1>5, <1>6 DEF ShapeInv, AttachedInv
<1>9. QED
  BY <1>3, <1>7, <1>8

(* A node Normalize is called on, and what hangs below it, has what the     *)
(* insertion gave it.                                                       *)
LEMMA CalledNode ==
  ASSUME TypeInv, Plain, NEW place \in Places, ShapeInv(place), phase = "normalize",
         NEW origin \in Origins, Trie(origin),
         NEW n \in Ids \ {Root}, HasParent(n), Fresh(n)
  PROVE  /\ origin[n] \in Paths /\ origin[n] # <<>>
         /\ \A s \in Onward(origin[n]) : \E c \in Below(n) : origin[c] = Append(origin[n], s)
         /\ \A c \in Below(n) : \E s \in Onward(origin[n]) :
              s \in Written /\ origin[c] = Append(origin[n], s) /\ nodes[c].key = s
         /\ nodes[n].values = IF origin[n] \in query THEN origin[n] ELSE NoValues
         /\ IsLeaf(n) => Onward(origin[n]) = {} /\ origin[n] \in query
<1>1. origin[n] \in Paths /\ origin[n] # <<>>
  BY DEF Origins, Trie, OriginInv, TypeInv
<1>2. /\ \A s \in Onward(origin[n]) : \E c \in Below(n) : origin[c] = Append(origin[n], s)
      /\ nodes[n].values = IF origin[n] \in query THEN origin[n] ELSE NoValues
  <2>1. Spread(origin, n) /\ nodes[n].values = Values(origin, n) /\ ~Hoisted(origin, n)
    BY DEF Trie, SpreadInv, Hoisted
  <2>2. QED
    BY <2>1 DEF Spread, Values
<1>3. \A c \in Below(n) : \E s \in Onward(origin[n]) :
        s \in Written /\ origin[c] = Append(origin[n], s) /\ nodes[c].key = s
  BY ChildFollows DEF Trie
<1>4. ASSUME IsLeaf(n) PROVE Onward(origin[n]) = {} /\ origin[n] \in query
  <2>1. Below(n) = {}
    BY <1>4 DEF IsLeaf, HasItems, Below, Range
  <2>2. Onward(origin[n]) = {}
    BY <1>2, <2>1
  <2>3. PICK path \in query : Runs(path, origin[n])
    BY DEF Trie, OriginInv
  <2>4. query \subseteq Paths /\ path \in Paths
    BY QueriesAssumption DEF TypeInv, TypeOK
  <2>5. ~(Len(origin[n]) < Len(path))
    BY <1>1, <2>2, <2>3, <2>4, Following
  <2>6. Len(origin[n]) = Len(path)
    BY <1>1, <2>3, <2>4, <2>5, PathTypes DEF Runs
  <2>7. origin[n] = path
    BY <1>1, <2>3, <2>4, <2>6, SameKey DEF Runs
  <2>8. QED
    BY <2>2, <2>7
<1>5. QED
  BY <1>1, <1>2, <1>3, <1>4

(* A node gets the values of its child just when its origin asks for it,    *)
(* and is alone with a selector just when nothing else follows its origin.  *)
LEMMA CalledChildren ==
  ASSUME TypeInv, Plain, NEW place \in Places, ShapeInv(place), phase = "normalize",
         NEW origin \in Origins, Trie(origin),
         NEW n \in todo, n \in Ids \ {Root}, HasParent(n)
  PROVE  /\ Collapses(n) <=> Hoists(origin[n])
         /\ Collapses(n) => /\ origin[n] \notin query
                            /\ nodes[OnlyItem(n)].values = Append(origin[n], Bracket)
         /\ \A c \in Below(n), s \in Written :
              origin[c] = Append(origin[n], s) => (Single(n) <=> Onward(origin[n]) = {s})
<1> DEFINE w == origin[n]
<1>1. TypeOK /\ query \subseteq Paths /\ Unparsable \notin query
  BY QueriesAssumption DEF TypeInv, TypeOK, Plain
<1>2. Fresh(n)
  BY DEF Fresh, Ids
<1>3. /\ w \in Paths /\ w # <<>>
      /\ \A s \in Onward(w) : \E c \in Below(n) : origin[c] = Append(w, s)
      /\ \A c \in Below(n) : \E s \in Onward(w) :
           s \in Written /\ origin[c] = Append(w, s) /\ nodes[c].key = s
  BY <1>2, CalledNode
<1>4. nodes[n].items \in Seq(Nat \ {0}) /\ Below(n) \subseteq Ids
  BY <1>1, NodeTypes
<1>5. \A c \in Below(n) : c \in Ids \ {Root} /\ HasParent(c) /\ Fresh(c)
  <2>1. TAKE c \in Below(n)
  <2>2. c \in Ids /\ c # Root /\ c > n
    BY ChildFollows DEF Trie
  <2>3. HasParent(c)
    BY DEF HasParent
  <2>4. Fresh(c)
    BY <2>2 DEF Fresh, Ids
  <2>5. QED
    BY <2>2, <2>3, <2>4
<1>6. \A c, d \in Below(n) : origin[c] = origin[d] => c = d
  BY <1>4 DEF Trie, OriginInv
<1> HIDE DEF w
<1>7. ASSUME NEW c \in Below(n), NEW s \in Written, origin[c] = Append(w, s)
      PROVE  Single(n) <=> Onward(w) = {s}
  <2>1. s \in Onward(w)
    <3>1. PICK t \in Onward(w) : t \in Written /\ origin[c] = Append(w, t)
      BY <1>3, <1>7
    <3>2. w \in Paths /\ Append(w, s) = Append(w, t)
      BY <1>3, <1>7, <3>1
    <3>3. s = t
      BY <3>1, <3>2, SameLonger
    <3>4. QED
      BY <3>1, <3>3
  <2>2. ASSUME Single(n), NEW t \in Onward(w) PROVE t = s
    <3>1. PICK d \in Below(n) : origin[d] = Append(w, t)
      BY <1>3, <2>2
    <3>2. c = d
      BY <1>1, <1>7, <2>2, <3>1, OnlyChild DEF Single
    <3>3. t \in Written
      BY <2>2 DEF Onward
    <3>4. QED
      BY <1>3, <1>7, <3>1, <3>2, <3>3, SameLonger
  <2>3. ASSUME Onward(w) = {s} PROVE Single(n)
    <3> DEFINE items == nodes[n].items
    <3>1. \A d \in Below(n) : d = c
      BY <1>3, <1>6, <1>7, <2>3
    <3>2. /\ items \in Seq(Nat \ {0}) /\ \A i \in DOMAIN items : items[i] = c
          /\ \A i, j \in DOMAIN items : items[i] = items[j] => i = j
          /\ items # <<>>
      <4>1. \A i \in DOMAIN items : items[i] = c
        BY <3>1 DEF Below, Range
      <4>2. \A i, j \in DOMAIN items : items[i] = items[j] => i = j
        BY <1>2 DEF Trie, ItemsInv
      <4>3. items # <<>>
        BY DEF Below, Range
      <4>4. QED
        BY <1>4, <4>1, <4>2, <4>3
    <3> HIDE DEF items
    <3>3. Len(items) = 1
      <4>1. Len(items) \in Nat /\ Len(items) # 0 /\ DOMAIN items = 1..Len(items)
        BY <3>2
      <4>2. \A i, j \in 1..Len(items) : i = j
        BY <3>2, <4>1
      <4>3. ~(Len(items) >= 2)
        <5>1. SUFFICES ASSUME Len(items) >= 2 PROVE FALSE
          OBVIOUS
        <5>2. 1 \in 1..Len(items) /\ 2 \in 1..Len(items)
          BY <4>1, <5>1
        <5>3. QED
          BY <4>2, <5>2
      <4>4. QED
        BY <4>1, <4>3
    <3>4. QED
      BY <3>3 DEF Single, items
  <2>4. QED
    BY <2>1, <2>2, <2>3
<1>8. ASSUME Collapses(n)
      PROVE  /\ Hoists(w) /\ w \notin query
             /\ nodes[OnlyItem(n)].values = Append(w, Bracket)
  <2> DEFINE c == OnlyItem(n)
  <2>1. Len(nodes[n].items) = 1 /\ FirstKey(n).kind = "index" /\ IsLeaf(c)
    BY <1>8 DEF Collapses
  <2>2. c \in Below(n) /\ FirstKey(n) = nodes[c].key
    <3>1. 1 \in 1..Len(nodes[n].items)
      BY <2>1
    <3>2. QED
      BY <1>1, <3>1, NodeTypes DEF OnlyItem, FirstKey
  <2>3. PICK s \in Onward(w) : s \in Written /\ origin[c] = Append(w, s) /\ nodes[c].key = s
    BY <1>3, <2>2
  <2>4. s = Bracket
    BY <2>1, <2>2, <2>3 DEF Written, Keys
  <2>5. /\ nodes[c].values = IF origin[c] \in query THEN origin[c] ELSE NoValues
        /\ Onward(origin[c]) = {} /\ origin[c] \in query
    BY <1>5, <2>1, <2>2, CalledNode
  <2>6. Hoists(w)
    BY <1>3, <2>3, <2>4, <2>5 DEF Hoists
  <2>7. w \notin query
    BY <2>3, <2>4, <2>5 DEF Plain
  <2>8. QED
    BY <2>3, <2>4, <2>5, <2>6, <2>7
<1>9. ASSUME Hoists(w) PROVE Collapses(n)
  <2>1. Append(w, Bracket) \in query /\ Onward(Append(w, Bracket)) = {} /\ Bracket \in Written
    BY <1>9 DEF Hoists, Written
  <2>2. Append(w, Bracket) \in Paths /\ Runs(Append(w, Bracket), Append(w, Bracket))
    <3>1. Append(w, Bracket) \in Paths
      BY <1>1, <2>1
    <3> DEFINE v == Append(w, Bracket)
    <3> HIDE DEF v
    <3>2. v \in Paths => Runs(v, v)
      BY PathTypes DEF Runs
    <3>3. QED
      BY <3>1, <3>2 DEF v
  <2>3. Onward(w) = {Bracket}
    <3>1. Bracket \in Onward(w)
      BY <2>1, <2>2 DEF Onward
    <3>2. QED
      BY <1>1, <1>3, <3>1, BracketAlone
  <2>4. PICK c \in Below(n) : origin[c] = Append(w, Bracket)
    BY <1>3, <2>3
  <2>5. Single(n)
    BY <1>7, <2>1, <2>3, <2>4
  <2>6. c = OnlyItem(n) /\ FirstKey(n) = nodes[c].key
    BY <1>1, <2>4, <2>5, OnlyChild DEF Single, OnlyItem, FirstKey
  <2>7. nodes[c].key = Bracket
    BY <1>3, <2>3, <2>4
  <2>8. IsLeaf(c)
    <3>1. \A d \in Below(c) : \E s \in Onward(origin[c]) : s \in Written
      BY <1>5, <2>4, CalledNode
    <3>2. Below(c) = {}
      BY <2>1, <2>4, <3>1
    <3>3. c \in Ids
      BY <1>5, <2>4
    <3>4. HasItems(c) => nodes[c].items[1] \in Below(c)
      BY <1>1, <3>3, FirstItem
    <3>5. QED
      BY <3>2, <3>4 DEF IsLeaf
  <2>9. QED
    BY <2>5, <2>6, <2>7, <2>8 DEF Collapses, Single, Bracket, Index
<1>10. QED
  BY <1>7, <1>8, <1>9 DEF w

(* Normalize keeps the tree a trie whose keys and values are those the      *)
(* query asks for.                                                          *)
LEMMA NormalizeTrie ==
  ASSUME TypeInv, Plain, NEW place \in Places, ShapeInv(place), Normalize,
         NEW origin \in Origins, Trie(origin)
  PROVE  Trie(origin)'
<1>1. PICK n \in Ids \ {Root} :
           /\ n \in todo /\ HasParent(n)
           /\ \A m \in todo : n <= m
           /\ Ids' = Ids /\ todo' = (todo \ {n}) \cup Below(n)'
           /\ \A t \in todo' : n < t
           /\ \A m \in Ids \ {n} : /\ nodes'[m].items = nodes[m].items
                                   /\ nodes'[m].values = nodes[m].values
                                   /\ Below(m)' = Below(m)
           /\ \A m \in Ids \ {n} : \A c \in Below(m) : nodes'[c].key = nodes[c].key
           /\ NormalizesTo(n)
  BY PlainNormalize
<1>2. TypeOK /\ phase = "normalize" /\ phase' = "normalize" /\ query' = query /\ [Next]_vars
  BY DEF TypeInv, Normalize, Next
<1>3. /\ \A m \in Ids \ {n} : HasParent(m)' /\ Fresh(m) => Fresh(m)'
      /\ \A m \in Ids : HasParent(m)' => HasParent(m)
      /\ \A m \in Ids : HasItems(m)' => m = Root \/ HasParent(m)'
  BY <1>1, FrontStep DEF Trie
<1>4. /\ \A m \in Ids : Fresh(m)' => Fresh(m)
      /\ Fresh(n) /\ ~Fresh(n)' /\ ~Fresh(Root)
  <2>1. Fresh(n)
    BY <1>1 DEF Fresh, Ids
  <2>2. todo' \subseteq Ids
    BY <1>1, <1>2, TypeStep DEF TypeInv, TypeOK
  <2>3. ~Fresh(n)'
    BY <1>1, <1>2, <2>2 DEF Fresh, Ids
  <2>4. ~Fresh(Root)
    BY <1>2, TopIsDone
  <2>5. QED
    BY <1>2, <2>1, <2>3, <2>4, FreshStep
<1>5. \A m \in Ids \ {n} : m = Root \/ HasParent(m)' => (Fresh(m)' <=> Fresh(m))
  BY <1>3, <1>4
<1>6. /\ Collapses(n) <=> Hoists(origin[n])
      /\ Collapses(n) => /\ origin[n] \notin query
                         /\ nodes[OnlyItem(n)].values = Append(origin[n], Bracket)
      /\ \A c \in Below(n), s \in Written :
           origin[c] = Append(origin[n], s) => (Single(n) <=> Onward(origin[n]) = {s})
  BY <1>1, <1>2, CalledChildren
<1>7. /\ origin[n] \in Paths /\ origin[n] # <<>>
      /\ \A s \in Onward(origin[n]) : \E c \in Below(n) : origin[c] = Append(origin[n], s)
      /\ \A c \in Below(n) : \E s \in Onward(origin[n]) :
           s \in Written /\ origin[c] = Append(origin[n], s) /\ nodes[c].key = s
      /\ nodes[n].values = IF origin[n] \in query THEN origin[n] ELSE NoValues
  BY <1>1, <1>2, <1>4, CalledNode
<1>8. /\ \A w : Onward(w)' = Onward(w)
      /\ \A w : Hoists(w)' = Hoists(w)
      /\ \A w, s : Kept(w, s)' = Kept(w, s)
  BY <1>2 DEF Onward, Hoists, Kept
<1>9. \A m \in Ids : Below(m) \subseteq Ids /\ Below(m)' \subseteq Below(m)
  BY <1>1, <1>2, NodeTypes DEF NormalizesTo
<1>10. OriginInv(origin)'
  BY <1>1, <1>2 DEF Trie, OriginInv
<1>11. Range(<<>>) = {}
  BY DEF Range
<1>12. \A m \in Ids \ {n} : Below(m) # {} => m = Root \/ HasParent(m)'
  <2>1. \A m \in Ids \ {n} : Below(m) # {} => HasItems(m)'
    BY <1>1, <1>11 DEF Below, HasItems
  <2>2. QED
    BY <1>3, <2>1
<1>13. LabelInv(origin)'
  <2>1. ASSUME NEW m \in Ids, NEW c \in Below(m)'
        PROVE  \E s \in Written :
                 /\ origin[c] = Append(origin[m], s)
                 /\ nodes'[c].key = IF Fresh(m)' THEN s ELSE Kept(origin[m], s)
    <3>1. c \in Below(m)
      BY <1>9, <2>1
    <3>2. CASE m = n
      <4>1. PICK s \in Written : origin[c] = Append(origin[n], s) /\ nodes[c].key = s
        BY <1>7, <3>1, <3>2
      <4>2. ~Collapses(n)
        BY <1>1, <2>1, <3>2 DEF NormalizesTo
      <4>3. nodes'[c].key = IF Single(n) THEN Reading(s) ELSE s
        BY <1>1, <3>1, <3>2, <4>1, <4>2 DEF NormalizesTo
      <4>4. Kept(origin[n], s) = IF Single(n) THEN Reading(s) ELSE s
        BY <1>6, <1>7, <3>1, <3>2, <4>1 DEF Kept
      <4>5. QED
        BY <1>4, <3>2, <4>1, <4>3, <4>4
    <3>3. CASE m # n
      <4>1. m = Root \/ HasParent(m)'
        BY <1>12, <3>1, <3>3
      <4>2. Fresh(m)' <=> Fresh(m)
        BY <1>5, <3>3, <4>1
      <4>3. nodes'[c].key = nodes[c].key
        BY <1>1, <3>1, <3>3
      <4>4. QED
        BY <3>1, <4>2, <4>3 DEF Trie, LabelInv
    <3>4. QED
      BY <3>2, <3>3
  <2>2. \A m \in Ids' : \A c \in Below(m)' : \E s \in Written :
          /\ origin[c] = Append(origin[m], s)
          /\ nodes'[c].key = IF Fresh(m)' THEN s ELSE Kept(origin[m], s)'
    BY <1>1, <1>8, <2>1
  <2>3. QED
    BY <2>2 DEF LabelInv
<1>14. ItemsInv'
  BY <1>1, <1>4 DEF Trie, ItemsInv
<1>15. \A m \in Ids \ {n} : m = Root \/ HasParent(m)' =>
         Spread(origin, m)' /\ nodes'[m].values = Values(origin, m)'
  <2>1. TAKE m \in Ids \ {n}
  <2>2. HAVE m = Root \/ HasParent(m)'
  <2>3. Spread(origin, m) /\ nodes[m].values = Values(origin, m)
    BY <1>2, <1>3, <2>2 DEF Trie, SpreadInv
  <2>4. Hoisted(origin, m)' <=> Hoisted(origin, m)
    BY <1>5, <1>8, <2>2 DEF Hoisted
  <2>5. Below(m)' = Below(m) /\ nodes'[m].values = nodes[m].values
    BY <1>1
  <2>6. QED
    BY <1>2, <1>8, <2>3, <2>4, <2>5 DEF Spread, Values
<1>16. Spread(origin, n)' /\ nodes'[n].values = Values(origin, n)'
  <2>1. Hoisted(origin, n)' <=> Collapses(n)
    BY <1>4, <1>6, <1>8 DEF Hoisted
  <2>2. CASE Collapses(n)
    BY <1>1, <1>2, <1>6, <2>1, <2>2 DEF Spread, Values, NormalizesTo
  <2>3. CASE ~Collapses(n)
    BY <1>1, <1>2, <1>7, <1>8, <2>1, <2>3 DEF Spread, Values, NormalizesTo
  <2>4. QED
    BY <2>2, <2>3
<1>17. SpreadInv(origin)'
  BY <1>1, <1>2, <1>15, <1>16 DEF SpreadInv
<1>18. FrontInv'
  <2>1. ASSUME NEW m \in Ids, m = Root \/ ~Fresh(m)', NEW c \in Below(m)'
        PROVE  c \in todo' \/ ~Fresh(c)'
    <3>1. CASE m = n
      BY <1>1, <2>1, <3>1
    <3>2. CASE m # n
      <4>1. c \in Below(m) /\ c \in Ids /\ (m = Root \/ HasParent(m)')
        BY <1>9, <1>12, <2>1, <3>2
      <4>2. m = Root \/ ~Fresh(m)
        BY <1>3, <1>9, <1>12, <2>1, <3>2
      <4>3. c \in todo \/ ~Fresh(c)
        BY <1>2, <1>9, <2>1, <4>2 DEF Trie, FrontInv
      <4>4. c \in Ids
        BY <1>9, <2>1
      <4>5. QED
        BY <1>1, <1>4, <4>3, <4>4
    <3>3. QED
      BY <3>1, <3>2
  <2>2. QED
    BY <1>1, <2>1 DEF FrontInv
<1>19. GrowthInv(origin)'
  BY <1>2 DEF GrowthInv
<1>20. QED
  BY <1>10, <1>13, <1>14, <1>17, <1>18, <1>19 DEF Trie

LEMMA TrieInit == Init => TrieInv
<1>1. SUFFICES ASSUME Init PROVE TrieInv
  OBVIOUS
<1>2. /\ pending = query /\ failed = FALSE /\ phase = "insert" /\ walk = Idle
      /\ nodes = <<[key |-> NoKey, values |-> NoValues, items |-> <<>>]>>
  BY <1>1 DEF Init
<1>3. Ids = {Root} /\ nodes[Root].items = <<>> /\ nodes[Root].values = NoValues
  BY <1>2 DEF Ids, Root
<1>4. Below(Root) = {} /\ DOMAIN nodes[Root].items = {}
  BY <1>3 DEF Below, Range
<1>5. PICK origin : origin = [n \in Ids |-> <<>>]
  OBVIOUS
<1>6. origin \in Origins /\ origin[Root] = <<>>
  BY <1>3, <1>5 DEF Origins, Paths
<1>7. Inserted = {}
  BY <1>2 DEF Inserted
<1>8. OriginInv(origin) /\ LabelInv(origin) /\ ItemsInv
  BY <1>3, <1>4, <1>6 DEF OriginInv, LabelInv, ItemsInv
<1>9. GrowthInv(origin) /\ SpreadInv(origin) /\ FrontInv
  BY <1>2, <1>3, <1>7 DEF GrowthInv, SpreadInv, FrontInv
<1>10. QED
  BY <1>6, <1>8, <1>9 DEF TrieInv, Trie

(* Nothing is rejected, as nothing clashes. *)
LEMMA TrieStep ==
  ASSUME TypeInv, Plain, PlacesInv, TrieInv, [Next]_vars
  PROVE  TrieInv'
<1>1. PICK place \in Places : ShapeInv(place) /\ DoneInv
  BY DEF PlacesInv, ConflictInv
<1>2. PICK origin \in Origins : Trie(origin)
  BY DEF TrieInv
<1>3. OriginInv(origin) /\ LabelInv(origin) /\ ItemsInv /\ GrowthInv(origin) /\ SpreadInv(origin) /\ FrontInv
  BY <1>2 DEF Trie
<1>4. ASSUME Ids' = Ids, Trie(origin)' PROVE TrieInv'
  <2>1. origin \in Origins'
    BY <1>4 DEF Origins
  <2>2. QED
    BY <1>4, <2>1 DEF TrieInv
<1>5. CASE TakeKey
  BY <1>1, <1>2, <1>4, <1>5, TakeKeyTrie DEF TakeKey, Ids
<1>6. CASE Reject
  <2>1. ~Clash(walk.at, Head(walk.rest))
    BY <1>1, <1>3, <1>6, NoClash DEF Reject
  <2>2. QED
    BY <1>6, <2>1 DEF Reject, Mixed
<1>7. CASE Descend
  <2>1. PICK next : /\ Grows(origin, next)
                    /\ OriginInv(next)' /\ LabelInv(next)' /\ ItemsInv' /\ GrowthInv(next)'
                    /\ phase' = "insert"
    BY <1>1, <1>3, <1>7, DescendTrie
  <2>2. next \in Origins'
    BY <2>1 DEF Grows
  <2>3. SpreadInv(next)' /\ FrontInv'
    BY <2>1 DEF SpreadInv, FrontInv
  <2>4. Trie(next)'
    BY <2>1, <2>3 DEF Trie
  <2>5. QED
    BY <2>2, <2>4 DEF TrieInv
<1>8. CASE StoreValues
  <2>1. Ids' = Ids
    BY <1>8, StoreShape DEF Ids, TypeInv
  <2>2. QED
    BY <1>1, <1>2, <1>4, <1>8, <2>1, StoreTrie
<1>9. CASE EndInsertion
  BY <1>1, <1>2, <1>4, <1>9, InsertedTrie DEF EndInsertion, Ids
<1>10. CASE Normalize
  <2>1. Ids' = Ids
    BY <1>1, <1>10, PlainNormalize
  <2>2. QED
    BY <1>1, <1>2, <1>4, <1>10, <2>1, NormalizeTrie
<1>11. CASE EndNormalize
  <2>1. /\ phase = "normalize" /\ phase' = "done" /\ todo = {}
        /\ UNCHANGED <<query, pending, nodes, walk, failed, todo>>
    BY <1>11 DEF EndNormalize
  <2>2. Ids' = Ids /\ \A n \in Ids : ~Fresh(n) /\ ~Fresh(n)'
    BY <2>1 DEF Ids, Fresh
  <2>3. OriginInv(origin)' /\ LabelInv(origin)' /\ ItemsInv' /\ \A w : Onward(w)' = Onward(w)
    BY <1>3, <2>1, <2>2, SameTree
  <2>4. \A n \in Ids : Below(n)' = Below(n) /\ (HasParent(n)' <=> HasParent(n))
    BY <2>1 DEF Below, HasParent, Ids
  <2>5. \A n \in Ids : Hoisted(origin, n)' <=> Hoisted(origin, n)
    BY <2>1, <2>2, <2>3 DEF Hoisted, Hoists
  <2>6. \A n \in Ids : /\ Spread(origin, n) => Spread(origin, n)'
                       /\ Values(origin, n)' = Values(origin, n)
    BY <2>1, <2>3, <2>4, <2>5 DEF Spread, Values
  <2>7. SpreadInv(origin)'
    BY <1>3, <2>1, <2>2, <2>4, <2>6 DEF SpreadInv
  <2>8. GrowthInv(origin)' /\ FrontInv'
    BY <2>1 DEF GrowthInv, FrontInv
  <2>9. Trie(origin)'
    BY <2>3, <2>7, <2>8 DEF Trie
  <2>10. QED
    BY <1>4, <2>2, <2>9
<1>12. CASE UNCHANGED vars
  <2>1. UNCHANGED <<query, pending, nodes, walk, failed, phase, todo>>
    BY <1>12 DEF vars
  <2>2. Ids' = Ids /\ \A n \in Ids : Fresh(n)' <=> Fresh(n)
    BY <2>1 DEF Ids, Fresh
  <2>3. OriginInv(origin)' /\ LabelInv(origin)' /\ ItemsInv' /\ \A w : Onward(w)' = Onward(w)
    BY <1>3, <2>1, <2>2, SameTree
  <2>4. Inserted' = Inserted /\ \A path, k : Reached(origin, path, k)' <=> Reached(origin, path, k)
    BY <2>1, <2>2 DEF Inserted, Reached
  <2>5. GrowthInv(origin)'
    BY <1>3, <2>1, <2>2, <2>4 DEF GrowthInv
  <2>6. \A n \in Ids : /\ Below(n)' = Below(n) /\ (HasParent(n)' <=> HasParent(n))
                       /\ Hoisted(origin, n)' <=> Hoisted(origin, n)
    BY <2>1, <2>2, <2>3 DEF Below, HasParent, Ids, Hoisted, Hoists
  <2>7. \A n \in Ids : /\ Spread(origin, n) => Spread(origin, n)'
                       /\ Values(origin, n)' = Values(origin, n)
    BY <2>1, <2>3, <2>6 DEF Spread, Values
  <2>8. SpreadInv(origin)' /\ FrontInv'
    <3>1. SpreadInv(origin)'
      BY <1>3, <2>1, <2>2, <2>6, <2>7 DEF SpreadInv
    <3>2. \A n \in Ids : Below(n) \subseteq Ids
      BY NodeTypes DEF TypeInv
    <3>3. FrontInv'
      BY <1>3, <2>1, <2>2, <2>6, <3>2 DEF FrontInv
    <3>4. QED
      BY <3>1, <3>3
  <2>9. Trie(origin)'
    BY <2>3, <2>5, <2>8 DEF Trie
  <2>10. QED
    BY <1>4, <2>2, <2>9
<1>13. QED
  BY <1>5, <1>6, <1>7, <1>8, <1>9, <1>10, <1>11, <1>12 DEF Next

(* In every state of a plain query the tree is the trie of its keys. *)
THEOREM PlainIsTrie == Spec => [](Plain => TrieInv)
<1>1. Init => (Plain => TrieInv)
  BY TrieInit
<1>2. TypeInv /\ PlacesInv /\ (Plain => TrieInv) /\ [Next]_vars => (Plain => TrieInv)'
  <2>1. [Next]_vars => query' = query
    BY DEF Next, vars, TakeKey, Reject, Descend, StoreValues, EndInsertion, Normalize, EndNormalize
  <2>2. query' = query => (Plain' <=> Plain)
    BY DEF Plain, Siblings
  <2>3. TypeInv /\ Plain /\ PlacesInv /\ TrieInv /\ [Next]_vars => TrieInv'
    BY TrieStep
  <2>4. QED
    BY <2>1, <2>2, <2>3
<1>3. QED
  BY <1>1, <1>2, PlacesAlways, PTL DEF Spec


(* The place a key comes to, selector by selector.                          *)
Final(w) == [i \in DOMAIN w |-> Kept(Prefix(w, i - 1), w[i])]

LEMMA KeptTypes ==
  ASSUME NEW w, NEW s \in Written
  PROVE  s \in Selectors /\ Kept(w, s) \in Selectors
<1>1. s \in Selectors
  BY DEF Written, Selectors, Bracket, Index
<1>2. Reading(s) \in Selectors
  BY <1>1, SelectorKinds
<1>3. QED
  BY <1>1, <1>2 DEF Kept

LEMMA FinalTypes ==
  ASSUME NEW w \in Paths
  PROVE  /\ Final(w) \in Seq(Selectors)
         /\ Len(Final(w)) = Len(w)
         /\ \A i \in 1..Len(w) : Final(w)[i] = Kept(Prefix(w, i - 1), w[i])
<1>1. DOMAIN w = 1..Len(w) /\ Len(w) \in Nat /\ \A i \in 1..Len(w) : w[i] \in Written
  BY DEF Paths, Written
<1>2. \A i \in 1..Len(w) : Kept(Prefix(w, i - 1), w[i]) \in Selectors
  BY <1>1, KeptTypes
<1>3. Final(w) = [i \in 1..Len(w) |-> Kept(Prefix(w, i - 1), w[i])]
  BY <1>1 DEF Final
<1> DEFINE full == [i \in 1..Len(w) |-> Kept(Prefix(w, i - 1), w[i])]
<1>4. full \in Seq(Selectors) /\ Len(full) = Len(w)
  BY <1>1, <1>2
<1>5. QED
  BY <1>3, <1>4

LEMMA FinalLonger ==
  ASSUME NEW w \in Paths, NEW s \in Written
  PROVE  Final(Append(w, s)) = Append(Final(w), Kept(w, s))
<1> DEFINE long == Append(w, s)
           left == Final(long)
           right == Append(Final(w), Kept(w, s))
<1>1. /\ long \in Paths /\ Len(long) = Len(w) + 1
      /\ \A i \in 1..Len(w) : long[i] = w[i]
      /\ long[Len(w) + 1] = s
      /\ Len(w) \in Nat
  BY Longer, PathTypes
<1>2. Kept(w, s) \in Selectors /\ s \in Selectors /\ w \in Seq(Selectors)
  BY KeptTypes, SelectorPaths
<1>3. /\ Final(w) \in Seq(Selectors) /\ Len(Final(w)) = Len(w)
      /\ \A i \in 1..Len(w) : Final(w)[i] = Kept(Prefix(w, i - 1), w[i])
  BY FinalTypes
<1>4. /\ right \in Seq(Selectors) /\ Len(right) = Len(w) + 1
      /\ \A i \in 1..Len(w) : right[i] = Final(w)[i]
      /\ right[Len(w) + 1] = Kept(w, s)
  BY <1>2, <1>3, AppendProperties
<1>5. /\ left \in Seq(Selectors) /\ Len(left) = Len(w) + 1
      /\ \A i \in 1..Len(long) : left[i] = Kept(Prefix(long, i - 1), long[i])
  <2> HIDE DEF long
  <2>1. QED
    BY <1>1, FinalTypes
<1>6. \A k \in 0..Len(w) : Prefix(long, k) = Prefix(w, k)
  BY <1>2, PrefixOfAppend
<1>7. Prefix(w, Len(w)) = w
  BY <1>2, PrefixFacts
<1> HIDE DEF long, left, right
<1>8. \A i \in 1..Len(left) : left[i] = right[i]
  <2>1. TAKE i \in 1..Len(left)
  <2>2. i \in 1..Len(long) /\ i - 1 \in 0..Len(w)
    BY <1>1, <1>5
  <2>3. left[i] = Kept(Prefix(w, i - 1), long[i])
    BY <1>5, <1>6, <2>2
  <2>4. CASE i \in 1..Len(w)
    BY <1>1, <1>3, <1>4, <2>3, <2>4
  <2>5. CASE i = Len(w) + 1
    <3>1. i - 1 = Len(w)
      BY <1>1, <2>5
    <3>2. QED
      BY <1>1, <1>4, <1>7, <2>3, <2>5, <3>1
  <2>6. QED
    BY <1>1, <2>2, <2>4, <2>5
<1>9. left = right
  BY <1>4, <1>5, <1>8, SeqEqual
<1>10. QED
  BY <1>9 DEF left, right, long

(* A key whose values are hoisted ends there. *)
LEMMA HoistsEnds ==
  ASSUME query \subseteq Paths, Plain, NEW path \in query, NEW w \in Paths,
         Runs(path, w), Len(w) < Len(path), Hoists(w)
  PROVE  path = Append(w, Bracket) /\ Onward(w) = {Bracket}
<1> DEFINE v == Append(w, Bracket)
<1>1. path \in Paths /\ Bracket \in Written
  BY DEF Written
<1>2. v \in Paths /\ v \in query /\ Onward(v) = {} /\ Len(v) = Len(w) + 1 /\ w # <<>>
  BY <1>1, Longer DEF Hoists
<1>3. Bracket \in Onward(w)
  <2> HIDE DEF v
  <2>1. Runs(v, v)
    BY <1>2, PathTypes DEF Runs
  <2>2. QED
    BY <1>1, <1>2, <2>1 DEF Onward, v
<1>4. Onward(w) = {Bracket}
  BY <1>2, <1>3, BracketAlone
<1>5. Len(w) \in Nat /\ Len(path) \in Nat
  BY <1>1, PathTypes
<1>6. path[Len(w) + 1] = Bracket
  BY <1>1, <1>4, Following
<1>7. Runs(path, v)
  BY <1>1, <1>5, <1>6, RunsLonger
<1> HIDE DEF v
<1>8. ~(Len(v) < Len(path))
  BY <1>1, <1>2, <1>7, Following
<1>9. Len(v) = Len(path)
  BY <1>2, <1>5, <1>8
<1>10. v = path
  BY <1>1, <1>2, <1>7, <1>9, SameKey DEF Runs
<1>11. QED
  BY <1>4, <1>10 DEF v

(* The place PlainQueriesSettle names. *)
LEMMA SettledPlace ==
  ASSUME query \subseteq Paths, Plain, NEW path \in query
  PROVE  /\ path \in Paths /\ Len(path) - 1 \in 0..(Len(path) - 1) /\ path # <<>>
         /\ LET w == Prefix(path, Len(path) - 1)
            IN Settled(path) = IF Hoists(w) /\ path = Append(w, Bracket) THEN Final(w) ELSE Final(path)
<1> DEFINE Alone(i) == i > 1 /\ Siblings(path, i) = {path[i]}
           last == Len(path)
           full == [i \in DOMAIN path |-> IF Alone(i) THEN Reading(path[i]) ELSE path[i]]
           w == Prefix(path, last - 1)
           s == path[last]
<1>1. /\ path \in Paths /\ path # <<>> /\ last \in Nat \ {0} /\ DOMAIN path = 1..last
      /\ last - 1 \in 0..(last - 1) /\ (last - 1) + 1 = last
  BY DEF Plain, Unparsable, Paths
<1>2. ASSUME NEW i \in 1..last
      PROVE  /\ Prefix(path, i - 1) \in Paths /\ Len(Prefix(path, i - 1)) = i - 1
             /\ Runs(path, Prefix(path, i - 1))
             /\ Siblings(path, i) = Onward(Prefix(path, i - 1))
             /\ i > 1 <=> Prefix(path, i - 1) # <<>>
  <2>1. i - 1 \in 0..last /\ (i - 1) + 1 = i
    BY <1>1
  <2>2. /\ Prefix(path, i - 1) \in Paths /\ Len(Prefix(path, i - 1)) = i - 1
        /\ Runs(path, Prefix(path, i - 1))
    BY <1>1, <2>1, PrefixOfKey
  <2>3. Siblings(path, i) = Onward(Prefix(path, i - 1))
    BY <1>1, <2>1, <2>2, Following
  <2>4. i > 1 <=> Prefix(path, i - 1) # <<>>
    <3> DEFINE v == Prefix(path, i - 1)
    <3>1. v \in Seq(Keys \cup {Bracket}) /\ Len(v) = i - 1
      BY <2>2 DEF Paths
    <3> HIDE DEF v
    <3>2. i > 1 <=> v # <<>>
      BY <1>1, <3>1
    <3>3. QED
      BY <3>2 DEF v
  <2>5. QED
    BY <2>2, <2>3, <2>4
<1>3. full = Final(path)
  <2>1. \A i \in DOMAIN path :
          (IF Alone(i) THEN Reading(path[i]) ELSE path[i]) = Kept(Prefix(path, i - 1), path[i])
    BY <1>1, <1>2 DEF Kept
  <2>2. QED
    BY <2>1 DEF Final
<1>4. Settled(path) = IF Alone(last) /\ s = Bracket /\ ~Extended(path) THEN Prefix(full, last - 1) ELSE full
  BY DEF Settled
<1>5. w \in Paths /\ Len(w) = last - 1 /\ s \in Written /\ path = Append(w, s)
  <2>1. last - 1 \in 0..(Len(path) - 1) /\ Prefix(path, last) = path
    BY <1>1, PrefixOfKey
  <2>2. path[(last - 1) + 1] \in Written /\ Prefix(path, (last - 1) + 1) = Append(w, path[(last - 1) + 1])
    BY <1>1, <2>1, PrefixNext
  <2>3. w \in Paths /\ Len(w) = last - 1
    <3>1. last \in 1..last
      BY <1>1
    <3>2. QED
      BY <1>2, <3>1
  <2>4. QED
    BY <1>1, <2>1, <2>2, <2>3
<1>6. Alone(last) <=> w # <<>> /\ Onward(w) = {s}
  BY <1>1, <1>2
<1>7. Extended(path) <=> Onward(path) # {}
  BY <1>1, Following
<1>8. path = Append(w, Bracket) <=> s = Bracket
  BY <1>5, SameLonger DEF Written
<1>9. Prefix(Final(path), last - 1) = Final(w)
  <2>1. Final(path) = Append(Final(w), Kept(w, s))
    BY <1>5, FinalLonger
  <2>2. Final(w) \in Seq(Selectors) /\ Len(Final(w)) = last - 1 /\ Kept(w, s) \in Selectors
    BY <1>5, FinalTypes, KeptTypes
  <2> DEFINE g == Final(w)
             e == Kept(w, s)
  <2> HIDE DEF g, e, last
  <2>3. g \in Seq(Selectors) /\ Len(g) = last - 1 /\ e \in Selectors
    BY <2>2 DEF g, e
  <2>4. last - 1 \in 0..Len(g) /\ last - 1 = Len(g)
    BY <1>1, <2>3 DEF last
  <2>5. Prefix(Append(g, e), last - 1) = Prefix(g, last - 1) /\ Prefix(g, Len(g)) = g
    BY <2>3, <2>4, PrefixOfAppend, PrefixFacts
  <2>6. QED
    BY <2>1, <2>4, <2>5 DEF g, e
<1>10. Runs(path, w) /\ Len(w) < Len(path)
  BY <1>1, <1>2, <1>5
<1>11. Hoists(w) /\ path = Append(w, Bracket) <=> Alone(last) /\ s = Bracket /\ ~Extended(path)
  <2>1. ASSUME Hoists(w), path = Append(w, Bracket)
        PROVE  Alone(last) /\ s = Bracket /\ ~Extended(path)
    <3>1. Onward(w) = {Bracket}
      BY <1>5, <1>10, <2>1, HoistsEnds
    <3>2. w # <<>> /\ Onward(path) = {}
      BY <2>1 DEF Hoists
    <3>3. QED
      BY <1>6, <1>7, <1>8, <2>1, <3>1, <3>2
  <2>2. ASSUME Alone(last), s = Bracket, ~Extended(path)
        PROVE  Hoists(w) /\ path = Append(w, Bracket)
    BY <1>6, <1>7, <1>8, <2>2 DEF Hoists
  <2>3. QED
    BY <2>1, <2>2
<1> HIDE DEF full, w, s, Alone
<1>12. Settled(path) = IF Hoists(w) /\ path = Append(w, Bracket) THEN Final(w) ELSE Final(path)
  BY <1>3, <1>4, <1>9, <1>11
<1>13. QED
  BY <1>1, <1>12 DEF w

(* The path to a node that hangs in the tree is where its origin comes to.  *)
LEMMA PathIsFinal ==
  ASSUME TypeInv, NEW place \in Places, ShapeInv(place), phase = "done", todo = {},
         NEW origin \in Origins, Trie(origin), NEW n \in Ids, n = Root \/ HasParent(n)
  PROVE  PathOf[n] = Final(origin[n])
<1> DEFINE Wrong == {m \in Ids : (m = Root \/ HasParent(m)) /\ PathOf[m] # Final(origin[m])}
<1>1. SUFFICES ASSUME Wrong # {} PROVE FALSE
  OBVIOUS
<1>2. TypeOK /\ TreeInv(place) /\ \A m : ~Fresh(m)
  BY DEF TypeInv, ShapeInv, Fresh
<1>3. PICK m \in Wrong : \A k \in Wrong : m <= k
  <2>1. Wrong \in SUBSET Nat
    BY DEF Ids
  <2> HIDE DEF Wrong
  <2>2. QED
    BY <1>1, <2>1, Smallest
<1>4. CASE HasParent(m)
  <2> DEFINE p == Parent(m)
  <2>1. m \in Ids /\ p \in Ids /\ m \in Below(p) /\ p < m
    BY <1>2, <1>4, ParentIsBefore
  <2>2. p = Root \/ HasParent(p)
    <3>1. HasItems(p)
      <4>1. Range(<<>>) = {}
        BY DEF Range
      <4>2. QED
        BY <2>1, <4>1 DEF Below, HasItems
    <3>2. QED
      BY <2>1, <3>1 DEF ShapeInv, AttachedInv
  <2>3. p \notin Wrong
    BY <1>3, <2>1 DEF Ids
  <2>4. PathOf[p] = Final(origin[p])
    BY <2>1, <2>2, <2>3
  <2>5. PICK s \in Written : origin[m] = Append(origin[p], s) /\ nodes[m].key = Kept(origin[p], s)
    BY <1>2, <2>1 DEF Trie, LabelInv
  <2>6. PathOf[m] = Append(PathOf[p], nodes[m].key)
    BY <1>2, <1>4, <2>1, PathOfNode
  <2>7. origin[p] \in Paths
    BY <2>1 DEF Origins
  <2>8. Final(origin[m]) = Append(Final(origin[p]), Kept(origin[p], s))
    BY <2>5, <2>7, FinalLonger
  <2>9. QED
    BY <1>3, <2>4, <2>5, <2>6, <2>8
<1>5. CASE ~HasParent(m)
  <2>1. m = Root /\ m \in Ids
    BY <1>3, <1>5
  <2>2. PathOf[m] = <<>> /\ origin[m] = <<>>
    BY <1>2, <1>5, <2>1, PathOfNode DEF Trie, OriginInv
  <2>3. Final(<<>>) = <<>>
    BY DEF Final
  <2>4. QED
    BY <1>3, <2>2, <2>3
<1>6. QED
  BY <1>4, <1>5

(* A key has nodes down to where its values are hoisted to. *)
LEMMA NodeOfKey ==
  ASSUME TypeInv, Plain, phase = "done", NEW origin \in Origins, Trie(origin),
         NEW path \in query, NEW k \in 0..Len(path),
         \A i \in 0..(k - 1) : ~Hoists(Prefix(path, i))
  PROVE  \E n \in Ids : (n = Root \/ HasParent(n)) /\ origin[n] = Prefix(path, k)
<1> DEFINE Missing == {j \in 0..k : ~\E n \in Ids : (n = Root \/ HasParent(n)) /\ origin[n] = Prefix(path, j)}
<1>1. path \in Paths /\ query \subseteq Paths /\ Len(path) \in Nat /\ k \in Nat
  BY QueriesAssumption, PathTypes DEF TypeInv, TypeOK
<1>2. SUFFICES ASSUME Missing # {} PROVE FALSE
  BY <1>1
<1>3. PICK j \in Missing : \A i \in Missing : j <= i
  <2>1. Missing \in SUBSET Nat
    BY <1>1
  <2> HIDE DEF Missing
  <2>2. QED
    BY <1>2, <2>1, Smallest
<1>4. j \in 0..k /\ j \in Nat
  BY <1>1
<1>5. j # 0
  <2>1. Prefix(path, 0) = <<>>
    BY <1>1 DEF Prefix, Paths
  <2>2. Root \in Ids /\ origin[Root] = <<>>
    BY DEF TypeInv, Trie, OriginInv
  <2>3. QED
    BY <1>3, <2>1, <2>2
<1> DEFINE i == j - 1
           w == Prefix(path, i)
           s == path[i + 1]
<1>6. i \in 0..k /\ i \in 0..(k - 1) /\ i < j /\ ~(j <= i) /\ i + 1 = j /\ i \in 0..(Len(path) - 1) /\ i \in 0..Len(path)
  BY <1>1, <1>4, <1>5
<1>7. PICK n \in Ids : (n = Root \/ HasParent(n)) /\ origin[n] = w
  <2>1. i \notin Missing
    BY <1>3, <1>6
  <2>2. QED
    BY <1>6, <2>1
<1>8. w \in Paths /\ Len(w) = i /\ Runs(path, w) /\ s \in Written /\ Prefix(path, j) = Append(w, s)
  <2>1. w \in Paths /\ Len(w) = i /\ Runs(path, w)
    BY <1>1, <1>6, PrefixOfKey
  <2>2. s \in Written /\ Prefix(path, i + 1) = Append(w, s)
    BY <1>1, <1>6, PrefixNext
  <2>3. QED
    BY <1>6, <2>1, <2>2
<1>9. s \in Onward(w)
  <2>1. Len(w) < Len(path) /\ path[Len(w) + 1] = s
    BY <1>1, <1>6, <1>8
  <2>2. QED
    BY <1>1, <1>8, <2>1, Following
<1>10. ~Hoists(w)
  BY <1>6
<1>11. Spread(origin, n)
  BY <1>7 DEF Trie, SpreadInv
<1>12. PICK c \in Below(n) : origin[c] = Append(w, s)
  BY <1>7, <1>9, <1>10, <1>11 DEF Spread, Hoisted
<1>13. c \in Ids /\ HasParent(c)
  BY <1>7, NodeTypes DEF HasParent, TypeInv
<1>14. QED
  BY <1>3, <1>8, <1>12, <1>13

(* What the tree of a plain query says in the end. *)
LEMMA Settles ==
  ASSUME TypeInv, Plain, NEW place \in Places, ShapeInv(place), phase = "done", todo = {},
         NEW origin \in Origins, Trie(origin)
  PROVE  {<<PathOf[n], nodes[n].values>> : n \in Valued} = {<<Settled(path), path>> : path \in query}
<1>1. TypeOK /\ query \subseteq Paths /\ Root \in Ids /\ Unparsable \notin query /\ \A n : ~Fresh(n)
  BY QueriesAssumption DEF TypeInv, TypeOK, Plain, Fresh
<1>2. \A n \in Ids : n = Root \/ HasParent(n) =>
        /\ Spread(origin, n) /\ nodes[n].values = Values(origin, n)
        /\ PathOf[n] = Final(origin[n]) /\ origin[n] \in Paths
        /\ Hoisted(origin, n) <=> Hoists(origin[n])
  BY <1>1, PathIsFinal DEF Trie, SpreadInv, Hoisted, Origins
<1>3. ASSUME NEW n \in Valued
      PROVE  nodes[n].values \in query /\ PathOf[n] = Settled(nodes[n].values)
  <2> DEFINE v == origin[n]
  <2>1. /\ n \in Ids /\ HasParent(n) /\ v \in Paths
        /\ nodes[n].values = Values(origin, n) /\ nodes[n].values # NoValues
        /\ PathOf[n] = Final(v)
        /\ Hoisted(origin, n) <=> Hoists(v)
    BY <1>2 DEF Valued
  <2>2. CASE v \in query
    <3> DEFINE w == Prefix(v, Len(v) - 1)
    <3>1. nodes[n].values = v
      BY <2>1, <2>2 DEF Values
    <3>2. ~(Hoists(w) /\ v = Append(w, Bracket))
      <4>1. SUFFICES ASSUME Hoists(w), v = Append(w, Bracket) PROVE FALSE
        OBVIOUS
      <4>2. PICK p \in Ids : n \in Below(p)
        BY <2>1 DEF HasParent
      <4>3. PICK s \in Written : v = Append(origin[p], s)
        BY <4>2 DEF Trie, LabelInv
      <4>4. origin[p] = w
        <5>1. w \in Paths /\ origin[p] \in Paths /\ Bracket \in Written
          <6>1. Len(v) - 1 \in 0..(Len(v) - 1) /\ Len(v) \in Nat
            BY <1>1, <2>1, <2>2, SettledPlace, PathTypes
          <6>2. Len(v) - 1 \in 0..Len(v)
            BY <6>1
          <6>3. w \in Paths
            BY <2>1, <6>2, PrefixOfKey
          <6>4. QED
            BY <6>3 DEF Origins, Written
        <5> HIDE DEF w, v
        <5>2. Append(origin[p], s) = Append(w, Bracket)
          BY <4>1, <4>3
        <5>3. QED
          BY <5>1, <5>2, SameLonger
      <4>5. p = Root \/ HasParent(p)
        <5>1. HasItems(p)
          BY <4>2 DEF Below, Range, HasItems
        <5>2. QED
          BY <5>1 DEF ShapeInv, AttachedInv
      <4>6. Below(p) = {}
        BY <1>2, <4>1, <4>4, <4>5 DEF Spread
      <4>7. QED
        BY <4>2, <4>6
    <3>3. Settled(v) = Final(v)
      BY <1>1, <2>2, <3>2, SettledPlace
    <3>4. QED
      BY <2>1, <2>2, <3>1, <3>3
  <2>3. CASE v \notin query
    <3> DEFINE path == Append(v, Bracket)
    <3>1. Hoists(v) /\ nodes[n].values = path
      BY <2>1, <2>3 DEF Values
    <3>2. path \in query
      BY <3>1 DEF Hoists
    <3>3. Prefix(path, Len(path) - 1) = v
      <4>1. Bracket \in Selectors /\ v \in Seq(Selectors) /\ Len(v) \in Nat /\ Len(path) = Len(v) + 1
        BY <2>1, SelectorPaths, PathTypes, Longer DEF Selectors, Bracket, Index, Written
      <4>2. Len(path) - 1 = Len(v) /\ Len(v) \in 0..Len(v)
        BY <4>1
      <4>3. Prefix(path, Len(v)) = Prefix(v, Len(v)) /\ Prefix(v, Len(v)) = v
        BY <4>1, <4>2, PrefixOfAppend, PrefixFacts
      <4>4. QED
        BY <4>2, <4>3
    <3>4. Settled(path) = Final(v)
      BY <1>1, <3>1, <3>2, <3>3, SettledPlace
    <3>5. QED
      BY <2>1, <3>1, <3>2, <3>4
  <2>4. QED
    BY <2>2, <2>3
<1>4. ASSUME NEW path \in query
      PROVE  \E n \in Valued : nodes[n].values = path
  <2> DEFINE w == Prefix(path, Len(path) - 1)
             gone == Hoists(w) /\ path = Append(w, Bracket)
             k == IF gone THEN Len(path) - 1 ELSE Len(path)
             v == Prefix(path, k)
  <2>1. path \in Paths /\ Len(path) \in Nat /\ Len(path) # 0 /\ path # <<>>
    BY <1>1, SettledPlace DEF Paths
  <2>2. k \in 0..Len(path) /\ v \in Paths /\ (gone => v = w) /\ (~gone => v = path)
    <3>1. k \in 0..Len(path)
      <4> HIDE DEF gone
      <4>1. QED
        BY <2>1
    <3>2. v \in Paths /\ Prefix(path, Len(path)) = path
      <4> HIDE DEF k
      <4>1. QED
        BY <2>1, <3>1, PrefixOfKey
    <3>3. QED
      BY <3>1, <3>2
  <2>3. \A i \in 0..(k - 1) : ~Hoists(Prefix(path, i))
    <3>1. SUFFICES ASSUME NEW i \in 0..(k - 1), Hoists(Prefix(path, i)) PROVE FALSE
      OBVIOUS
    <3>2. i \in 0..Len(path) /\ i < Len(path) /\ i < k
      <4> HIDE DEF k
      <4>1. QED
        BY <2>1, <2>2
    <3>3. Prefix(path, i) \in Paths /\ Len(Prefix(path, i)) = i /\ Runs(path, Prefix(path, i))
      BY <2>1, <3>2, PrefixOfKey
    <3>4. path = Append(Prefix(path, i), Bracket)
      BY <1>1, <3>1, <3>2, <3>3, HoistsEnds
    <3>5. Len(path) = i + 1
      BY <3>3, <3>4, Longer DEF Written
    <3>6. i = Len(path) - 1
      BY <2>1, <3>2, <3>5
    <3>7. gone
      BY <3>1, <3>4, <3>6
    <3>8. k = Len(path) - 1
      BY <3>7
    <3> HIDE DEF k, gone
    <3>9. QED
      BY <2>1, <3>2, <3>6, <3>8
  <2>4. PICK n \in Ids : (n = Root \/ HasParent(n)) /\ origin[n] = v
    <3> HIDE DEF k
    <3>1. QED
      BY <2>2, <2>3, NodeOfKey
  <2>5. v # <<>>
    BY <2>1, <2>2 DEF Hoists
  <2>6. HasParent(n)
    BY <2>4, <2>5 DEF Trie, OriginInv
  <2>7. nodes[n].values = Values(origin, n) /\ (Hoisted(origin, n) <=> Hoists(v))
    BY <1>2, <2>4
  <2> HIDE DEF k, v
  <2>8. nodes[n].values = path
    <3>1. CASE gone
      <4>1. v \notin query
        BY <2>2, <3>1 DEF Plain
      <4>2. QED
        BY <2>2, <2>4, <2>7, <3>1, <4>1 DEF Values
    <3>2. CASE ~gone
      BY <2>2, <2>4, <2>7, <3>2 DEF Values
    <3>3. QED
      BY <3>1, <3>2
  <2>9. QED
    BY <2>1, <2>6, <2>8 DEF Valued, NoValues
<1>5. QED
  BY <1>3, <1>4

(* A query that mixes "[ ]" with nothing ends in one tree whatever the      *)
(* order of its keys: it is not rejected, each key's values are where its   *)
(* siblings let it settle, and the tree has no other values                 *)
(* (param_node.go:125-213).                                                 *)
THEOREM PlainSettle == Spec => []PlainQueriesSettle
<1>1. TypeInv /\ PlacesInv /\ (Plain => TrieInv) => PlainQueriesSettle
  <2>1. SUFFICES ASSUME TypeInv, PlacesInv, Plain, TrieInv, phase \in {"done", "rejected"}
                 PROVE  /\ phase = "done"
                        /\ {<<PathOf[n], nodes[n].values>> : n \in Valued} =
                             {<<Settled(path), path>> : path \in query}
    BY DEF PlainQueriesSettle
  <2>2. PICK place \in Places : ShapeInv(place) /\ DoneInv
    BY <2>1 DEF PlacesInv, ConflictInv
  <2>3. PICK origin \in Origins : Trie(origin)
    BY <2>1 DEF TrieInv
  <2>4. phase = "done" /\ todo = {}
    BY <2>1, <2>2, <2>3 DEF Trie, SpreadInv, DoneInv
  <2>5. QED
    BY <2>1, <2>2, <2>3, <2>4, Settles
<1>2. QED
  BY <1>1, PlacesAlways, PlainIsTrie, PTL

====
