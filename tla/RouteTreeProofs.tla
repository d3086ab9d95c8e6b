---------------------------- MODULE RouteTreeProofs ----------------------------
(***************************************************************************)
(* Proofs about the route tree, for every set of documents, requests and   *)
(* methods and every regular expression.                                   *)
(*                                                                         *)
(* Insertion.  TreeInv is inductive: the nodes are prefixes of the paths of *)
(* the inserted items, one node per path and every node behind its parent; *)
(* a leaf has the operations of an item whose path it is; of two nodes of  *)
(* one depth the older was passed by an earlier item than the first one    *)
(* that passes a younger regular expression.                               *)
(*                                                                         *)
(* Search.  In any such tree the recursion of findRouteRecursive has an    *)
(* answer (the rank of a path is the number of texts left behind it), and  *)
(* the answer at a path is the first, in the order the children are tried, *)
(* of the nodes below it whose segments all fit (SearchAnswers).  What the *)
(* theorems say of routes follows: the nodes a request hits are the leaves *)
(* of the paths it matches, and their order is that of MoreSpecific.       *)
(***************************************************************************)
EXTENDS RouteTree, FiniteSetTheorems, SequenceTheorems, WellFoundedInduction, TLAPS

(* The nodes of a tree, and what the paths to them consist of: a segment    *)
(* that is not the last one is no wildcard and no trailing slash.           *)
NodeSet == [path : Seq(Segments), methods : SUBSET Methods, owner : Nat, pattern : Nat]

IsInner(s) == s.typ \in {"static", "param", "regexp"} /\ s # End
IsLast(s) == s.typ = "static" \/ s = CatchAll

IsPath(p) ==
  /\ p \in Seq(Segments)
  /\ p # <<>>
  /\ \A k \in 1..(Len(p) - 1) : IsInner(p[k])
  /\ IsInner(p[Len(p)]) \/ IsLast(p[Len(p)])

IsLeafPath(p) == IsPath(p) /\ IsLast(p[Len(p)])

(* A tree: one node per path, and below the nodes of the path before.       *)
Distinct(tree) == \A i, j \in DOMAIN tree : tree[i].path = tree[j].path => i = j

Closed(tree) ==
  \A i \in DOMAIN tree : \A k \in 1..Len(tree[i].path) :
    \E j \in DOMAIN tree : tree[j].path = SubSeq(tree[i].path, 1, k)

IsTree(tree) ==
  /\ tree \in Seq(NodeSet)
  /\ Distinct(tree)
  /\ Closed(tree)
  /\ \A i \in DOMAIN tree : IsPath(tree[i].path)

-----------------------------------------------------------------------------
(* The parts of the invariant.                                              *)
Inserted == 1..(next - 1)

Passes(j, path) == IsPrefix(path, LeafPath(doc[j]))

AcceptedInv == \A j \in Inserted : IsLeafPath(LeafPath(doc[j]))

SourceInv == \A i \in DOMAIN nodes : \E j \in Inserted : Passes(j, nodes[i].path)

HeldInv ==
  \A j \in Inserted :
    /\ \A k \in 1..Len(LeafPath(doc[j])) :
         IsInner(LeafPath(doc[j])[k]) => Exists(SubSeq(LeafPath(doc[j]), 1, k))
    /\ doc[j].methods # {} =>
         \E i \in DOMAIN nodes : nodes[i].path = LeafPath(doc[j]) /\ nodes[i].methods # {}

OwnerInv ==
  \A i \in DOMAIN nodes :
    /\ nodes[i].methods # {} =>
         /\ \A j \in {nodes[i].owner, nodes[i].pattern} :
              j \in Inserted /\ LeafPath(doc[j]) = nodes[i].path /\ doc[j].methods # {}
         /\ doc[nodes[i].owner].methods = nodes[i].methods
    /\ nodes[i].methods = {} => nodes[i].owner = 0 /\ nodes[i].pattern = 0

AgeInv ==
  \A a, b \in DOMAIN nodes :
    a < b /\ Len(nodes[a].path) = Len(nodes[b].path) /\ Last(nodes[b].path).typ = "regexp" =>
      \E j \in Inserted : Passes(j, nodes[a].path) /\ \A l \in 1..j : ~Passes(l, nodes[b].path)

TypeInv ==
  /\ doc \in Documents
  /\ next \in 1..(Len(doc) + 1)
  /\ failed \in BOOLEAN
  /\ IsTree(nodes)

ServedInv ==
  served.answer.status # "none" =>
    /\ next > Len(doc)
    /\ \E request \in Requests, method \in Methods :
         served = [request |-> request, method |-> method, answer |-> FindRoute(request, method)]

TreeInv == TypeInv /\ AcceptedInv /\ SourceInv /\ HeldInv /\ OwnerInv /\ AgeInv

-----------------------------------------------------------------------------
LEMMA Smallest ==
  ASSUME NEW T \in SUBSET Nat, T # {}
  PROVE  \E x \in T : \A y \in T : x <= y
<1> DEFINE Older == OpToRel(<, Nat)
<1>1. IsWellFoundedOn(Older, Nat)
  BY NatLessThanWellFounded
<1>2. \A x, y \in Nat : x < y => <<x, y>> \in Older
  BY DEF OpToRel
<1> HIDE DEF Older
<1>3. PICK x \in T : \A y \in T : ~ (<<y, x>> \in Older)
  BY <1>1, WFMin
<1>4. ASSUME NEW y \in T PROVE x <= y
  <2>1. x \in Nat /\ y \in Nat
    OBVIOUS
  <2>2. ~(y < x)
    BY <1>2, <1>3, <2>1
  <2>3. QED
    BY <2>1, <2>2
<1>5. QED
  BY <1>3, <1>4

LEMMA IndexIsTheAge ==
  ASSUME NEW tree \in Seq(NodeSet), Distinct(tree), NEW i \in DOMAIN tree
  PROVE  IndexOf(tree, tree[i].path) = i
<1> DEFINE I == {j \in 1..Len(tree) : tree[j].path = tree[i].path}
<1>1. I = {i}
  BY DEF Distinct
<1>2. Min(I) = i
  BY <1>1 DEF Min
<1>3. QED
  BY <1>1, <1>2 DEF IndexOf, SelectInSeq

LEMMA IndexOfPath ==
  ASSUME NEW tree \in Seq(NodeSet), NEW path
  PROVE  /\ IndexOf(tree, path) # 0 <=> \E i \in DOMAIN tree : tree[i].path = path
         /\ IndexOf(tree, path) # 0 =>
              IndexOf(tree, path) \in DOMAIN tree /\ tree[IndexOf(tree, path)].path = path
<1> DEFINE I == {j \in 1..Len(tree) : tree[j].path = path}
<1>1. CASE I = {}
  <2>1. IndexOf(tree, path) = 0
    BY <1>1 DEF IndexOf, SelectInSeq
  <2>2. QED
    BY <1>1, <2>1
<1>2. CASE I # {}
  <2>1. \E m \in I : \A n \in I : m <= n
    <3>1. I \in SUBSET Nat
      OBVIOUS
    <3> HIDE DEF I
    <3>2. QED
      BY <1>2, <3>1, Smallest
  <2>2. Min(I) \in I
    BY <2>1 DEF Min
  <2>3. IndexOf(tree, path) = Min(I)
    BY <1>2 DEF IndexOf, SelectInSeq
  <2>4. QED
    BY <1>2, <2>2, <2>3
<1>3. QED
  BY <1>1, <1>2

-----------------------------------------------------------------------------
(* The first segments of a path. *)
LEMMA PrefixFacts ==
  ASSUME NEW p \in Seq(Segments), NEW k \in Nat, k <= Len(p)
  PROVE  /\ SubSeq(p, 1, k) \in Seq(Segments) /\ Len(SubSeq(p, 1, k)) = k
         /\ \A j \in 1..k : SubSeq(p, 1, k)[j] = p[j]
         /\ k = Len(p) => SubSeq(p, 1, k) = p
<1>1. SubSeq(p, 1, k) \in Seq(Segments)
  OBVIOUS
<1>2. Len(SubSeq(p, 1, k)) = k
  OBVIOUS
<1>3. \A j \in 1..k : SubSeq(p, 1, k)[j] = p[j]
  OBVIOUS
<1>4. k = Len(p) => SubSeq(p, 1, k) = p
  OBVIOUS
<1>5. QED
  BY <1>1, <1>2, <1>3, <1>4

(* Two paths with the same segments are one. *)
LEMMA SamePath ==
  ASSUME NEW p \in Seq(Segments), NEW q \in Seq(Segments),
         Len(p) = Len(q), \A k \in 1..Len(p) : p[k] = q[k]
  PROVE  p = q
OBVIOUS

LEMMA PrefixOfPrefix ==
  ASSUME NEW p \in Seq(Segments), NEW k \in Nat, k <= Len(p), NEW j \in Nat, j <= k
  PROVE  SubSeq(SubSeq(p, 1, k), 1, j) = SubSeq(p, 1, j)
<1>1. j <= Len(p)
  OBVIOUS
<1> DEFINE q == SubSeq(p, 1, k)
           r == SubSeq(q, 1, j)
           s == SubSeq(p, 1, j)
<1>2. q \in Seq(Segments) /\ Len(q) = k /\ \A i \in 1..k : q[i] = p[i]
  BY PrefixFacts
<1>3. r \in Seq(Segments) /\ Len(r) = j /\ \A i \in 1..j : r[i] = q[i]
  <2> HIDE DEF q
  <2>1. QED
    BY <1>2, PrefixFacts
<1>4. s \in Seq(Segments) /\ Len(s) = j /\ \A i \in 1..j : s[i] = p[i]
  BY <1>1, PrefixFacts
<1>5. r = s
  <2> HIDE DEF q, r, s
  <2>1. QED
    BY <1>2, <1>3, <1>4, SamePath
<1>6. QED
  BY <1>5

-----------------------------------------------------------------------------
(* The documents.                                                           *)
LEMMA SegmentFacts ==
  /\ End \in Segments /\ CatchAll \in Segments
  /\ End.typ = "static" /\ End.key = 0 /\ End.rex = 0 /\ CatchAll.typ = "catchAll"
  /\ IsLast(End) /\ IsLast(CatchAll) /\ ~IsInner(End) /\ ~IsInner(CatchAll)
  /\ \A s \in Segments :
       /\ s.typ \in {"static", "param", "regexp", "catchAll", "malformed"} /\ s.key \in Nat
       /\ s.typ = "catchAll" => s = CatchAll
       /\ s.typ = "malformed" => s = Malformed
       /\ s.typ = "static" /\ s.key = 0 => s = End
BY DEF Segments, End, CatchAll, Malformed, Static, Empty, IsLast, IsInner

LEMMA DocumentItems ==
  ASSUME NEW d \in Documents, NEW i \in 1..Len(d)
  PROVE  /\ d \in Seq(Items) /\ d[i] \in Items
         /\ d[i].pattern \in Seq(Segments) /\ d[i].pattern # <<>> /\ Len(d[i].pattern) \in Nat \ {0}
         /\ d[i].methods \in SUBSET Methods
         /\ \A k \in 1..(Len(d[i].pattern) - 1) : d[i].pattern[k] # End
<1>1. d \in Seq(Items)
  BY DocumentsAssumption
<1>2. d[i] \in Items /\ DOMAIN d = 1..Len(d)
  BY <1>1
<1>3. d[i].pattern \in Seq(Segments) /\ d[i].methods \in SUBSET Methods
  BY <1>2 DEF Items
<1>4. d[i].pattern # <<>> /\ \A k \in 1..(Len(d[i].pattern) - 1) : d[i].pattern[k] # End
  BY <1>2, DocumentsAssumption
<1>5. Len(d[i].pattern) \in Nat \ {0}
  BY <1>3, <1>4
<1>6. QED
  BY <1>1, <1>2, <1>3, <1>4, <1>5

(* The path of an item InsertRoute accepts. *)
LEMMA AcceptedPath ==
  ASSUME NEW d \in Documents, NEW i \in 1..Len(d),
         Malformed \notin Range(d[i].pattern),
         \A k \in 1..(Len(d[i].pattern) - 1) : d[i].pattern[k] # CatchAll
  PROVE  IsLeafPath(LeafPath(d[i]))
<1> DEFINE p == d[i].pattern
           s == IF Last(p) = End THEN Front(p) ELSE p
<1>1. /\ p \in Seq(Segments) /\ p # <<>> /\ Len(p) \in Nat \ {0}
      /\ \A k \in 1..(Len(p) - 1) : p[k] # End /\ p[k] # CatchAll
      /\ \A k \in 1..Len(p) : p[k] \in Segments /\ p[k] # Malformed
  <2>1. \A k \in 1..Len(p) : p[k] \in Range(p)
    BY DocumentItems DEF Range
  <2>2. QED
    BY <2>1, DocumentItems
<1>2. LeafPath(d[i]) = IF s = <<>> \/ Last(s).typ \in {"param", "regexp"} THEN Append(s, End) ELSE s
  BY DEF LeafPath
<1> HIDE DEF p
<1>3. /\ s \in Seq(Segments)
      /\ \A k \in 1..Len(s) : s[k] \in Segments /\ s[k] # Malformed /\ s[k] # End
      /\ \A k \in 1..(Len(s) - 1) : s[k] # CatchAll
  <2>1. CASE Last(p) = End
    <3>1. s = SubSeq(p, 1, Len(p) - 1)
      BY <2>1 DEF Front
    <3>2. Len(p) - 1 \in Nat /\ Len(p) - 1 <= Len(p)
      BY <1>1
    <3> HIDE DEF s
    <3>3. s \in Seq(Segments) /\ Len(s) = Len(p) - 1 /\ \A k \in 1..(Len(p) - 1) : s[k] = p[k]
      BY <1>1, <3>1, <3>2, PrefixFacts
    <3>4. \A k \in 1..Len(s) : k \in 1..(Len(p) - 1) /\ k \in 1..Len(p)
      BY <3>2, <3>3
    <3>5. QED
      BY <1>1, <3>3, <3>4
  <2>2. CASE Last(p) # End
    BY <1>1, <2>2 DEF Last
  <2>3. QED
    BY <2>1, <2>2
<1> HIDE DEF s
<1>4. \A k \in 1..(Len(s) - 1) : IsInner(s[k])
  BY <1>3, SegmentFacts DEF IsInner
<1>5. CASE s = <<>>
  BY <1>2, <1>5, SegmentFacts DEF IsLeafPath, IsPath
<1>6. CASE s # <<>> /\ Last(s).typ \in {"param", "regexp"}
  <2>1. IsInner(s[Len(s)])
    BY <1>3, <1>6 DEF IsInner, Last
  <2>2. /\ Append(s, End) \in Seq(Segments) /\ Len(Append(s, End)) = Len(s) + 1
        /\ \A k \in 1..Len(s) : Append(s, End)[k] = s[k]
        /\ Append(s, End)[Len(s) + 1] = End
    BY <1>3, SegmentFacts
  <2>3. \A k \in 1..Len(s) : IsInner(s[k])
    BY <1>3, <1>4, <2>1
  <2>4. QED
    BY <1>2, <1>3, <1>6, <2>2, <2>3, SegmentFacts DEF IsLeafPath, IsPath
<1>7. CASE s # <<>> /\ Last(s).typ \notin {"param", "regexp"}
  <2>1. Len(s) \in Nat \ {0} /\ s[Len(s)] \in Segments /\ s[Len(s)] # Malformed
    BY <1>3, <1>7
  <2>2. IsLast(s[Len(s)])
    BY <1>7, <2>1, SegmentFacts DEF IsLast, Last
  <2>3. QED
    BY <1>2, <1>3, <1>4, <1>7, <2>2 DEF IsLeafPath, IsPath
<1>8. QED
  BY <1>5, <1>6, <1>7

-----------------------------------------------------------------------------
(* The insertion of an item: how far its path goes down as nodes, and how   *)
(* far it is known already.                                                 *)
Depth(item) ==
  IF Last(LeafPath(item)) \in {End, CatchAll} /\ item.methods = {}
    THEN Len(LeafPath(item)) - 1
    ELSE Len(LeafPath(item))

Known(item) == Cardinality({k \in 1..Depth(item) : Exists(SubSeq(LeafPath(item), 1, k))})

LEMMA DepthFacts ==
  ASSUME NEW item, IsLeafPath(LeafPath(item))
  PROVE  /\ LeafPath(item) \in Seq(Segments) /\ Len(LeafPath(item)) \in Nat \ {0}
         /\ Depth(item) \in Nat /\ Depth(item) <= Len(LeafPath(item))
         /\ Len(LeafPath(item)) <= Depth(item) + 1
<1>1. LeafPath(item) \in Seq(Segments) /\ Len(LeafPath(item)) \in Nat \ {0}
  BY DEF IsLeafPath, IsPath
<1>2. QED
  BY <1>1 DEF Depth

(* A node exists only below the nodes of the path before. *)
LEMMA ExistsBefore ==
  ASSUME IsTree(nodes), NEW p \in Seq(Segments), NEW k \in Nat, k <= Len(p), NEW j \in 1..k,
         Exists(SubSeq(p, 1, k))
  PROVE  Exists(SubSeq(p, 1, j))
<1>1. nodes \in Seq(NodeSet) /\ Closed(nodes)
  BY DEF IsTree
<1>2. PICK i \in DOMAIN nodes : nodes[i].path = SubSeq(p, 1, k)
  BY <1>1, IndexOfPath DEF Exists
<1>3. Len(SubSeq(p, 1, k)) = k /\ SubSeq(SubSeq(p, 1, k), 1, j) = SubSeq(p, 1, j)
  BY PrefixFacts, PrefixOfPrefix
<1>4. \E i2 \in DOMAIN nodes : nodes[i2].path = SubSeq(p, 1, j)
  BY <1>1, <1>2, <1>3 DEF Closed
<1>5. QED
  BY <1>1, <1>4, IndexOfPath DEF Exists

(* What is known of a path are its first nodes. *)
LEMMA KnownFacts ==
  ASSUME IsTree(nodes), NEW item, IsLeafPath(LeafPath(item))
  PROVE  /\ Known(item) \in Nat /\ Known(item) <= Depth(item)
         /\ \A k \in 1..Depth(item) : Exists(SubSeq(LeafPath(item), 1, k)) <=> k <= Known(item)
<1> DEFINE p == LeafPath(item)
           d == Depth(item)
           K == {k \in 1..d : Exists(SubSeq(p, 1, k))}
           T == {k \in Nat : k + 1 \notin K}
<1>1. p \in Seq(Segments) /\ Len(p) \in Nat /\ d \in Nat /\ d <= Len(p)
  BY DepthFacts
<1>2. \A k \in K : \A j \in 1..k : j \in K
  <2>1. SUFFICES ASSUME NEW k \in K, NEW j \in 1..k PROVE j \in K
    OBVIOUS
  <2>2. k \in 1..d /\ k \in Nat /\ k <= Len(p) /\ Exists(SubSeq(p, 1, k))
    BY <1>1
  <2> HIDE DEF p, d
  <2>3. Exists(SubSeq(p, 1, j))
    BY <1>1, <2>2, ExistsBefore
  <2>4. j \in 1..d
    BY <1>1, <2>2
  <2>5. QED
    BY <2>3, <2>4
<1>3. K \subseteq 1..d
  OBVIOUS
<1>4. Known(item) = Cardinality(K)
  BY DEF Known
<1>5. \A k \in 1..d : Exists(SubSeq(p, 1, k)) <=> k \in K
  OBVIOUS
<1> HIDE DEF K, p, d
<1>6. PICK m \in T : \A k \in T : m <= k
  <2>1. d \in T
    BY <1>1, <1>3
  <2>2. T \in SUBSET Nat
    OBVIOUS
  <2> HIDE DEF T
  <2>3. QED
    BY <2>1, <2>2, Smallest
<1>7. m \in Nat /\ m + 1 \notin K
  BY <1>6
<1>8. \A k \in 1..m : k \in K
  <2>1. SUFFICES ASSUME NEW k \in 1..m PROVE k \in K
    OBVIOUS
  <2>2. k - 1 \in Nat /\ ~(m <= k - 1)
    BY <1>7
  <2>3. k - 1 \notin T
    BY <1>6, <2>2
  <2>4. (k - 1) + 1 \in K
    BY <2>2, <2>3
  <2>5. (k - 1) + 1 = k
    BY <1>7
  <2>6. QED
    BY <2>4, <2>5
<1>9. \A k \in K : k \in 1..m
  <2>1. SUFFICES ASSUME NEW k \in K, k \notin 1..m PROVE FALSE
    OBVIOUS
  <2>2. k \in 1..d
    BY <1>3
  <2>3. m + 1 \in 1..k
    BY <1>1, <1>7, <2>1, <2>2
  <2>4. QED
    BY <1>2, <1>7, <2>3
<1>10. K = 1..m
  BY <1>8, <1>9
<1>11. Cardinality(K) = m
  BY <1>7, <1>10, FS_Interval
<1>12. m <= d
  BY <1>1, <1>3, <1>7, <1>10
<1>13. \A k \in 1..d : k \in K <=> k <= m
  BY <1>1, <1>7, <1>10
<1>14. QED
  BY <1>4, <1>5, <1>7, <1>11, <1>12, <1>13 DEF p, d

(* The nodes an item adds. *)
LEMMA NewNodesFacts ==
  ASSUME IsTree(nodes), NEW item, IsLeafPath(LeafPath(item))
  PROVE  /\ NewNodes(item) \in Seq(NodeSet)
         /\ Len(NewNodes(item)) = Depth(item) - Known(item)
         /\ \A i \in 1..(Depth(item) - Known(item)) :
              NewNodes(item)[i] = NewNode(SubSeq(LeafPath(item), 1, Known(item) + i))
<1> DEFINE p == LeafPath(item)
           d == Depth(item)
           m == Known(item)
<1>1. /\ p \in Seq(Segments) /\ Len(p) \in Nat /\ d \in Nat /\ d <= Len(p)
      /\ m \in Nat /\ m <= d
  BY DepthFacts, KnownFacts
<1>2. NewNodes(item) = [i \in 1..(d - m) |-> NewNode(SubSeq(p, 1, m + i))]
  BY DEF NewNodes, Known, Depth
<1>3. \A i \in 1..(d - m) : NewNode(SubSeq(p, 1, m + i)) \in NodeSet
  <2>1. SUFFICES ASSUME NEW i \in 1..(d - m) PROVE NewNode(SubSeq(p, 1, m + i)) \in NodeSet
    OBVIOUS
  <2> HIDE DEF p, d, m
  <2>2. m + i \in Nat /\ m + i <= Len(p)
    BY <1>1
  <2>3. SubSeq(p, 1, m + i) \in Seq(Segments)
    BY <1>1, <2>2, PrefixFacts
  <2>4. QED
    BY <2>3 DEF NewNode, NodeSet
<1> HIDE DEF p, d, m
<1>4. d - m \in Nat
  BY <1>1
<1>5. NewNodes(item) \in [1..(d - m) -> NodeSet]
  BY <1>2, <1>3
<1>6. NewNodes(item) \in Seq(NodeSet) /\ Len(NewNodes(item)) = d - m
  BY <1>4, <1>5
<1>7. QED
  BY <1>2, <1>6 DEF p, d, m

-----------------------------------------------------------------------------
(* What the insertion of an item does to the tree: the nodes on its path    *)
(* that are missing come last, and the leaf takes the operations.           *)
LEMMA InsertShape ==
  ASSUME TypeInv, InsertRoute
  PROVE  LET item == doc[next]
             path == LeafPath(item)
         IN  /\ next \in 1..Len(doc) /\ IsLeafPath(path) /\ item.methods \in SUBSET Methods
             /\ nodes' \in Seq(NodeSet)
             /\ Len(nodes') = Len(nodes) + (Depth(item) - Known(item))
             /\ \A i \in 1..Len(nodes) : nodes'[i].path = nodes[i].path
             /\ \A i \in (Len(nodes) + 1)..Len(nodes') :
                  nodes'[i].path = SubSeq(path, 1, Known(item) + (i - Len(nodes)))
             /\ \A i \in 1..Len(nodes') :
                  IF nodes'[i].path = path /\ item.methods # {}
                    THEN /\ nodes'[i].methods = item.methods
                         /\ nodes'[i].owner = next
                         /\ nodes'[i].pattern = IF i <= Len(nodes) /\ nodes[i].pattern # 0
                                                  THEN nodes[i].pattern ELSE next
                    ELSE nodes'[i] = IF i <= Len(nodes) THEN nodes[i] ELSE NewNode(nodes'[i].path)
<1> DEFINE item == doc[next]
           path == LeafPath(item)
           new == NewNodes(item)
           grown == nodes \o new
           size == Depth(item) - Known(item)
<1>1. doc \in Documents /\ next \in 1..Len(doc) /\ next \in Nat
  <2>1. doc \in Seq(Items)
    BY DocumentsAssumption DEF TypeInv
  <2>2. next \in 1..(Len(doc) + 1) /\ next <= Len(doc) /\ doc \in Documents
    BY DEF TypeInv, InsertRoute
  <2>3. QED
    BY <2>1, <2>2
<1>2. IsTree(nodes) /\ nodes \in Seq(NodeSet)
  BY DEF TypeInv, IsTree
<1>3. IsLeafPath(path)
  <2>1. Malformed \notin Range(item.pattern) /\ \A k \in 1..(Len(item.pattern) - 1) : item.pattern[k] # CatchAll
    BY DEF InsertRoute, InsertError
  <2>2. QED
    BY <1>1, <2>1, AcceptedPath
<1>4. item.methods \in SUBSET Methods
  BY <1>1, DocumentItems
<1>5. /\ new \in Seq(NodeSet) /\ size \in Nat /\ Len(new) = size
      /\ \A i \in 1..size : new[i] = NewNode(SubSeq(path, 1, Known(item) + i))
  <2>1. size \in Nat
    BY <1>2, <1>3, DepthFacts, KnownFacts
  <2>2. QED
    BY <1>2, <1>3, <2>1, NewNodesFacts
<1>6. nodes' = SetLeaf(grown, next)
  BY DEF InsertRoute
<1>7. nodes' = [n \in DOMAIN grown |->
                  IF grown[n].path = path /\ item.methods # {}
                    THEN [grown[n] EXCEPT !.methods = item.methods, !.owner = next,
                                          !.pattern = IF @ = 0 THEN next ELSE @]
                    ELSE grown[n]]
  BY <1>6 DEF SetLeaf
<1> HIDE DEF item, path, new, size
<1>8. /\ grown \in Seq(NodeSet) /\ Len(grown) = Len(nodes) + size
      /\ \A i \in 1..Len(nodes) : grown[i] = nodes[i]
      /\ \A i \in (Len(nodes) + 1)..(Len(nodes) + size) : grown[i] = new[i - Len(nodes)]
  BY <1>2, <1>5
<1> HIDE DEF grown
<1>9. DOMAIN grown = 1..Len(grown) /\ Len(grown) \in Nat /\ Len(nodes) \in Nat
  BY <1>2, <1>8
<1>10. \A i \in 1..Len(grown) :
         /\ grown[i] \in NodeSet
         /\ nodes'[i] \in NodeSet
         /\ nodes'[i].path = grown[i].path
         /\ IF grown[i].path = path /\ item.methods # {}
              THEN /\ nodes'[i].methods = item.methods
                   /\ nodes'[i].owner = next
                   /\ nodes'[i].pattern = IF grown[i].pattern = 0 THEN next ELSE grown[i].pattern
              ELSE nodes'[i] = grown[i]
  <2>1. SUFFICES ASSUME NEW i \in 1..Len(grown)
                 PROVE /\ grown[i] \in NodeSet
                       /\ nodes'[i] \in NodeSet
                       /\ nodes'[i].path = grown[i].path
                       /\ IF grown[i].path = path /\ item.methods # {}
                            THEN /\ nodes'[i].methods = item.methods
                                 /\ nodes'[i].owner = next
                                 /\ nodes'[i].pattern = IF grown[i].pattern = 0 THEN next ELSE grown[i].pattern
                            ELSE nodes'[i] = grown[i]
    OBVIOUS
  <2>2. grown[i] \in NodeSet
    BY <1>8, <1>9
  <2>3. CASE grown[i].path = path /\ item.methods # {}
    <3>1. nodes'[i] = [grown[i] EXCEPT !.methods = item.methods, !.owner = next,
                                       !.pattern = IF @ = 0 THEN next ELSE @]
      BY <1>7, <1>9, <2>3
    <3>2. QED
      BY <1>1, <1>4, <2>2, <2>3, <3>1 DEF NodeSet
  <2>4. CASE ~(grown[i].path = path /\ item.methods # {})
    BY <1>7, <1>9, <2>2, <2>4
  <2>5. QED
    BY <2>3, <2>4
<1>11. nodes' \in Seq(NodeSet) /\ Len(nodes') = Len(grown)
  <2>1. DOMAIN nodes' = 1..Len(grown)
    BY <1>7, <1>9
  <2>2. nodes' = [n \in 1..Len(grown) |-> nodes'[n]]
    BY <1>7, <1>9
  <2>3. nodes' \in [1..Len(grown) -> NodeSet]
    BY <1>10, <2>2
  <2>4. QED
    BY <1>9, <2>3
<1>12. \A i \in 1..Len(nodes) : i \in 1..Len(grown) /\ nodes'[i].path = nodes[i].path
  BY <1>5, <1>8, <1>9, <1>10
<1>13. \A i \in (Len(nodes) + 1)..Len(grown) :
         grown[i] = NewNode(SubSeq(path, 1, Known(item) + (i - Len(nodes)))) /\ i \in 1..Len(grown)
  <2>1. \A i \in (Len(nodes) + 1)..Len(grown) : i - Len(nodes) \in 1..size /\ i \in 1..Len(grown)
    BY <1>5, <1>8, <1>9
  <2>2. QED
    BY <1>5, <1>8, <2>1
<1>14. \A i \in (Len(nodes) + 1)..Len(grown) :
         /\ nodes'[i].path = SubSeq(path, 1, Known(item) + (i - Len(nodes)))
         /\ grown[i] = NewNode(nodes'[i].path) /\ grown[i].pattern = 0
  <2>1. SUFFICES ASSUME NEW i \in (Len(nodes) + 1)..Len(grown)
                 PROVE /\ nodes'[i].path = SubSeq(path, 1, Known(item) + (i - Len(nodes)))
                       /\ grown[i] = NewNode(nodes'[i].path) /\ grown[i].pattern = 0
    OBVIOUS
  <2> DEFINE p == SubSeq(path, 1, Known(item) + (i - Len(nodes)))
  <2>2. grown[i] = NewNode(p) /\ nodes'[i].path = grown[i].path
    BY <1>10, <1>13, <2>1
  <2> HIDE DEF p
  <2>3. nodes'[i].path = p /\ grown[i].pattern = 0
    BY <2>2 DEF NewNode
  <2>4. QED
    BY <2>2, <2>3 DEF p
<1>15. \A i \in 1..Len(grown) :
         IF nodes'[i].path = path /\ item.methods # {}
           THEN /\ nodes'[i].methods = item.methods
                /\ nodes'[i].owner = next
                /\ nodes'[i].pattern = IF i <= Len(nodes) /\ nodes[i].pattern # 0
                                         THEN nodes[i].pattern ELSE next
           ELSE nodes'[i] = IF i <= Len(nodes) THEN nodes[i] ELSE NewNode(nodes'[i].path)
  <2>1. \A i \in 1..Len(grown) : i <= Len(nodes) => i \in 1..Len(nodes)
    BY <1>9
  <2>2. \A i \in 1..Len(grown) : ~(i <= Len(nodes)) => i \in (Len(nodes) + 1)..Len(grown)
    BY <1>9
  <2>3. QED
    BY <1>8, <1>10, <1>14, <2>1, <2>2
<1>16. QED
  BY <1>1, <1>3, <1>4, <1>8, <1>11, <1>12, <1>14, <1>15 DEF item, path, size

(* The nodes afterwards are the old ones and one for every segment the path *)
(* of the item lacked.                                                      *)
LEMMA InsertedNodes ==
  ASSUME TypeInv, InsertRoute
  PROVE  LET path == LeafPath(doc[next])
             known == Known(doc[next])
             depth == Depth(doc[next])
         IN  /\ DOMAIN nodes = 1..Len(nodes) /\ Len(nodes) \in Nat
             /\ DOMAIN nodes \subseteq DOMAIN nodes' /\ DOMAIN nodes' \subseteq Nat
             /\ \A i \in DOMAIN nodes : nodes'[i].path = nodes[i].path
             /\ \A i \in DOMAIN nodes' \ DOMAIN nodes :
                  /\ i > Len(nodes)
                  /\ \E k \in (known + 1)..depth :
                       i = Len(nodes) + (k - known) /\ nodes'[i].path = SubSeq(path, 1, k)
             /\ \A k \in 1..depth : \E i \in DOMAIN nodes' : nodes'[i].path = SubSeq(path, 1, k)
<1> DEFINE path == LeafPath(doc[next])
           known == Known(doc[next])
           depth == Depth(doc[next])
<1>1. /\ IsLeafPath(path) /\ nodes' \in Seq(NodeSet)
      /\ Len(nodes') = Len(nodes) + (depth - known)
      /\ \A i \in 1..Len(nodes) : nodes'[i].path = nodes[i].path
      /\ \A i \in (Len(nodes) + 1)..Len(nodes') : nodes'[i].path = SubSeq(path, 1, known + (i - Len(nodes)))
  BY InsertShape
<1>2. IsTree(nodes) /\ nodes \in Seq(NodeSet)
  BY DEF TypeInv, IsTree
<1>3. /\ depth \in Nat /\ known \in Nat /\ known <= depth
      /\ \A k \in 1..depth : Exists(SubSeq(path, 1, k)) <=> k <= known
  BY <1>1, <1>2, DepthFacts, KnownFacts
<1> HIDE DEF path, known, depth
<1>4. /\ DOMAIN nodes = 1..Len(nodes) /\ Len(nodes) \in Nat
      /\ DOMAIN nodes' = 1..Len(nodes') /\ Len(nodes') \in Nat
  BY <1>1, <1>2
<1>5. \A i \in DOMAIN nodes' \ DOMAIN nodes :
        /\ i > Len(nodes)
        /\ \E k \in (known + 1)..depth :
             i = Len(nodes) + (k - known) /\ nodes'[i].path = SubSeq(path, 1, k)
  <2>1. SUFFICES ASSUME NEW i \in DOMAIN nodes' \ DOMAIN nodes
                 PROVE /\ i > Len(nodes)
                       /\ \E k \in (known + 1)..depth :
                            i = Len(nodes) + (k - known) /\ nodes'[i].path = SubSeq(path, 1, k)
    OBVIOUS
  <2>2. i \in (Len(nodes) + 1)..Len(nodes')
    BY <1>4, <2>1
  <2>3. nodes'[i].path = SubSeq(path, 1, known + (i - Len(nodes)))
    BY <1>1, <2>2
  <2>4. known + (i - Len(nodes)) \in (known + 1)..depth /\ i = Len(nodes) + ((known + (i - Len(nodes))) - known)
    BY <1>1, <1>3, <1>4, <2>2
  <2>5. QED
    BY <1>4, <2>2, <2>3, <2>4
<1>6. \A k \in 1..depth : \E i \in DOMAIN nodes' : nodes'[i].path = SubSeq(path, 1, k)
  <2>1. SUFFICES ASSUME NEW k \in 1..depth PROVE \E i \in DOMAIN nodes' : nodes'[i].path = SubSeq(path, 1, k)
    OBVIOUS
  <2>2. CASE k <= known
    <3>1. PICK i \in DOMAIN nodes : nodes[i].path = SubSeq(path, 1, k)
      BY <1>2, <1>3, <2>2, IndexOfPath DEF Exists
    <3>2. i \in DOMAIN nodes'
      BY <1>1, <1>3, <1>4
    <3>3. QED
      BY <1>1, <1>4, <3>1, <3>2
  <2>3. CASE ~(k <= known)
    <3>1. Len(nodes) + (k - known) \in (Len(nodes) + 1)..Len(nodes')
      BY <1>1, <1>3, <1>4, <2>3
    <3>2. known + ((Len(nodes) + (k - known)) - Len(nodes)) = k
      BY <1>3, <1>4
    <3>3. nodes'[Len(nodes) + (k - known)].path = SubSeq(path, 1, k)
      BY <1>1, <3>1, <3>2
    <3>4. Len(nodes) + (k - known) \in DOMAIN nodes'
      BY <1>4, <3>1
    <3>5. QED
      BY <3>3, <3>4
  <2>4. QED
    BY <2>2, <2>3
<1>7. DOMAIN nodes \subseteq DOMAIN nodes' /\ DOMAIN nodes' \subseteq Nat
  BY <1>1, <1>3, <1>4
<1>8. \A i \in DOMAIN nodes : nodes'[i].path = nodes[i].path
  BY <1>1, <1>4
<1>9. QED
  BY <1>4, <1>5, <1>6, <1>7, <1>8 DEF path, known, depth

LEMMA PrefixIsPath ==
  ASSUME NEW p, IsLeafPath(p), NEW k \in 1..Len(p)
  PROVE  IsPath(SubSeq(p, 1, k)) /\ Len(SubSeq(p, 1, k)) = k
<1>1. p \in Seq(Segments) /\ k \in Nat /\ k <= Len(p)
  BY DEF IsLeafPath, IsPath
<1> DEFINE q == SubSeq(p, 1, k)
<1>2. q \in Seq(Segments) /\ Len(q) = k /\ \A j \in 1..k : q[j] = p[j]
  BY <1>1, PrefixFacts
<1> HIDE DEF q
<1>3. \A j \in 1..(k - 1) : IsInner(q[j])
  BY <1>1, <1>2 DEF IsLeafPath, IsPath
<1>4. IsInner(q[k]) \/ IsLast(q[k])
  BY <1>1, <1>2 DEF IsLeafPath, IsPath
<1>5. q # <<>>
  BY <1>1, <1>2
<1>6. QED
  BY <1>2, <1>3, <1>4, <1>5 DEF IsPath, q

(* An insertion leaves a tree. *)
LEMMA TreeStep ==
  ASSUME TypeInv, InsertRoute
  PROVE  IsTree(nodes')
<1> DEFINE path == LeafPath(doc[next])
           known == Known(doc[next])
           depth == Depth(doc[next])
<1>1. IsLeafPath(path) /\ nodes' \in Seq(NodeSet)
  BY InsertShape
<1>2. IsTree(nodes) /\ nodes \in Seq(NodeSet) /\ Distinct(nodes) /\ Closed(nodes)
  BY DEF TypeInv, IsTree
<1>3. /\ depth \in Nat /\ depth <= Len(path) /\ known \in Nat /\ known <= depth
      /\ \A k \in 1..depth : Exists(SubSeq(path, 1, k)) <=> k <= known
      /\ path \in Seq(Segments) /\ Len(path) \in Nat
  BY <1>1, <1>2, DepthFacts, KnownFacts
<1>4. /\ DOMAIN nodes = 1..Len(nodes) /\ Len(nodes) \in Nat
      /\ DOMAIN nodes \subseteq DOMAIN nodes' /\ DOMAIN nodes' \subseteq Nat
      /\ \A i \in DOMAIN nodes : nodes'[i].path = nodes[i].path
      /\ \A i \in DOMAIN nodes' \ DOMAIN nodes :
           \E k \in (known + 1)..depth :
             i = Len(nodes) + (k - known) /\ nodes'[i].path = SubSeq(path, 1, k)
      /\ \A k \in 1..depth : \E i \in DOMAIN nodes' : nodes'[i].path = SubSeq(path, 1, k)
  BY InsertedNodes
<1> HIDE DEF path, known, depth
<1>5. \A k \in 1..depth : k \in 1..Len(path) /\ IsPath(SubSeq(path, 1, k)) /\ Len(SubSeq(path, 1, k)) = k
  BY <1>1, <1>3, PrefixIsPath
<1>6. \A i \in DOMAIN nodes' : IsPath(nodes'[i].path)
  <2>1. \A i \in DOMAIN nodes : IsPath(nodes[i].path)
    BY <1>2 DEF IsTree
  <2>2. \A k \in (known + 1)..depth : k \in 1..depth
    BY <1>3
  <2>3. QED
    BY <1>4, <1>5, <2>1, <2>2
<1>7. \A i \in DOMAIN nodes, j \in DOMAIN nodes' \ DOMAIN nodes : nodes[i].path # nodes'[j].path
  <2>1. SUFFICES ASSUME NEW i \in DOMAIN nodes, NEW j \in DOMAIN nodes' \ DOMAIN nodes,
                        nodes[i].path = nodes'[j].path
                 PROVE FALSE
    OBVIOUS
  <2>2. PICK k \in (known + 1)..depth : nodes'[j].path = SubSeq(path, 1, k)
    BY <1>4
  <2>3. Exists(SubSeq(path, 1, k))
    BY <1>2, <2>1, <2>2, IndexOfPath DEF Exists
  <2>4. k \in 1..depth /\ ~(k <= known)
    BY <1>3, <2>2
  <2>5. QED
    BY <1>3, <2>3, <2>4
<1>8. \A i, j \in DOMAIN nodes' \ DOMAIN nodes : nodes'[i].path = nodes'[j].path => i = j
  <2>1. SUFFICES ASSUME NEW i \in DOMAIN nodes' \ DOMAIN nodes, NEW j \in DOMAIN nodes' \ DOMAIN nodes,
                        nodes'[i].path = nodes'[j].path
                 PROVE i = j
    OBVIOUS
  <2>2. PICK k \in (known + 1)..depth : i = Len(nodes) + (k - known) /\ nodes'[i].path = SubSeq(path, 1, k)
    BY <1>4
  <2>3. PICK l \in (known + 1)..depth : j = Len(nodes) + (l - known) /\ nodes'[j].path = SubSeq(path, 1, l)
    BY <1>4
  <2>4. k \in 1..depth /\ l \in 1..depth
    BY <1>3
  <2>5. k = l
    BY <1>5, <2>1, <2>2, <2>3, <2>4
  <2>6. QED
    BY <2>2, <2>3, <2>5
<1>9. Distinct(nodes')
  <2>1. \A i, j \in DOMAIN nodes : nodes'[i].path = nodes'[j].path => i = j
    BY <1>2, <1>4 DEF Distinct
  <2>2. QED
    BY <1>4, <1>7, <1>8, <2>1 DEF Distinct
<1>10. Closed(nodes')
  <2>1. ASSUME NEW i \in DOMAIN nodes, NEW k \in 1..Len(nodes'[i].path)
        PROVE \E j \in DOMAIN nodes' : nodes'[j].path = SubSeq(nodes'[i].path, 1, k)
    <3>1. nodes'[i].path = nodes[i].path
      BY <1>4
    <3>2. PICK j \in DOMAIN nodes : nodes[j].path = SubSeq(nodes[i].path, 1, k)
      BY <1>2, <2>1, <3>1 DEF Closed
    <3>3. QED
      BY <1>4, <3>1, <3>2
  <2>2. ASSUME NEW i \in DOMAIN nodes' \ DOMAIN nodes, NEW k \in 1..Len(nodes'[i].path)
        PROVE \E j \in DOMAIN nodes' : nodes'[j].path = SubSeq(nodes'[i].path, 1, k)
    <3>1. PICK l \in (known + 1)..depth : nodes'[i].path = SubSeq(path, 1, l)
      BY <1>4
    <3>2. l \in 1..depth /\ l \in Nat /\ l <= Len(path)
      BY <1>3
    <3>3. k \in 1..l /\ k \in Nat /\ k <= l /\ k \in 1..depth
      BY <1>3, <1>5, <2>2, <3>1, <3>2
    <3>4. SubSeq(nodes'[i].path, 1, k) = SubSeq(path, 1, k)
      BY <1>3, <3>1, <3>2, <3>3, PrefixOfPrefix
    <3>5. QED
      BY <1>4, <3>3, <3>4
  <2>3. QED
    BY <1>4, <2>1, <2>2 DEF Closed
<1>11. QED
  BY <1>1, <1>6, <1>9, <1>10 DEF IsTree

-----------------------------------------------------------------------------
(* The step of the insertion, part by part.                                 *)
LEMMA PrefixMeans ==
  ASSUME NEW q \in Seq(Segments), NEW p \in Seq(Segments)
  PROVE  IsPrefix(q, p) <=> Len(q) <= Len(p) /\ q = SubSeq(p, 1, Len(q))
<1>1. SubSeq(q, 1, Len(q)) = q
  BY PrefixFacts
<1>2. QED
  BY <1>1 DEF IsPrefix

LEMMA InsertFrame ==
  ASSUME TypeInv, InsertRoute
  PROVE  /\ doc' = doc /\ failed' = failed /\ served' = served
         /\ next' = next + 1 /\ next \in Nat /\ next \in Inserted' /\ next \notin Inserted
         /\ Inserted \subseteq Nat /\ \A j \in Inserted : j < next
         /\ Inserted' = Inserted \cup {next}
<1>1. doc' = doc /\ next' = next + 1 /\ failed' = failed /\ served' = served
  BY DEF InsertRoute
<1>2. next \in Nat \ {0}
  <2>1. doc \in Seq(Items)
    BY DocumentsAssumption DEF TypeInv
  <2>2. QED
    BY <2>1 DEF TypeInv
<1>3. Inserted' = 1..next
  BY <1>1, <1>2 DEF Inserted
<1>4. QED
  BY <1>1, <1>2, <1>3 DEF Inserted

LEMMA AcceptedStep ==
  ASSUME TreeInv, InsertRoute
  PROVE  AcceptedInv'
<1>1. IsLeafPath(LeafPath(doc[next])) /\ doc' = doc /\ Inserted' = Inserted \cup {next}
  BY InsertShape, InsertFrame DEF TreeInv
<1>2. QED
  BY <1>1 DEF TreeInv, AcceptedInv

LEMMA SourceStep ==
  ASSUME TreeInv, InsertRoute
  PROVE  SourceInv'
<1> DEFINE path == LeafPath(doc[next])
<1>1. TypeInv
  BY DEF TreeInv
<1>2. doc' = doc /\ Inserted' = Inserted \cup {next}
  BY <1>1, InsertFrame
<1>3. IsLeafPath(path) /\ path \in Seq(Segments)
  BY <1>1, InsertShape DEF IsLeafPath, IsPath
<1>4. SUFFICES ASSUME NEW i \in DOMAIN nodes' PROVE \E j \in Inserted' : IsPrefix(nodes'[i].path, LeafPath(doc[j]))
  BY <1>2 DEF SourceInv, Passes
<1>5. CASE i \in DOMAIN nodes
  <2>1. nodes'[i].path = nodes[i].path
    BY <1>1, <1>5, InsertedNodes
  <2>2. QED
    BY <1>2, <1>5, <2>1 DEF TreeInv, SourceInv, Passes
<1>6. CASE i \notin DOMAIN nodes
  <2>1. PICK k \in (Known(doc[next]) + 1)..Depth(doc[next]) : nodes'[i].path = SubSeq(path, 1, k)
    BY <1>1, <1>4, <1>6, InsertedNodes
  <2>2. k \in 1..Len(path) /\ k \in Nat /\ k <= Len(path)
    <3>1. IsTree(nodes)
      BY <1>1 DEF TypeInv
    <3>2. /\ Known(doc[next]) \in Nat /\ Depth(doc[next]) \in Nat
          /\ Depth(doc[next]) <= Len(path) /\ Len(path) \in Nat
      BY <1>3, <3>1, KnownFacts, DepthFacts
    <3>3. QED
      BY <3>2
  <2> HIDE DEF path
  <2>3. SubSeq(path, 1, k) \in Seq(Segments) /\ Len(SubSeq(path, 1, k)) = k
    BY <1>3, <2>2, PrefixFacts
  <2>4. IsPrefix(SubSeq(path, 1, k), path)
    BY <1>3, <2>2, <2>3, PrefixMeans
  <2>5. QED
    BY <1>2, <2>1, <2>4 DEF path
<1>7. QED
  BY <1>5, <1>6

(* The leaf of an item is a node of the tree afterwards if the item has     *)
(* operations.                                                              *)
LEMMA LeafIsThere ==
  ASSUME TypeInv, InsertRoute
  PROVE  LET path == LeafPath(doc[next])
         IN  /\ \A k \in 1..Len(path) : IsInner(path[k]) =>
                  \E i \in DOMAIN nodes' : nodes'[i].path = SubSeq(path, 1, k)
             /\ doc[next].methods # {} => \E i \in DOMAIN nodes' : nodes'[i].path = path
<1> DEFINE path == LeafPath(doc[next])
           depth == Depth(doc[next])
<1>1. IsLeafPath(path) /\ \A k \in 1..depth : \E i \in DOMAIN nodes' : nodes'[i].path = SubSeq(path, 1, k)
  BY InsertShape, InsertedNodes
<1>2. /\ path \in Seq(Segments) /\ Len(path) \in Nat \ {0} /\ depth \in Nat
      /\ depth <= Len(path) /\ Len(path) <= depth + 1
  BY <1>1, DepthFacts
<1>3. depth # Len(path) => path[Len(path)] \in {End, CatchAll} /\ doc[next].methods = {}
  BY DEF Depth, Last
<1> HIDE DEF path, depth
<1>4. ASSUME NEW k \in 1..Len(path), IsInner(path[k])
      PROVE  \E i \in DOMAIN nodes' : nodes'[i].path = SubSeq(path, 1, k)
  <2>1. k \in 1..depth
    <3>1. SUFFICES ASSUME k \notin 1..depth PROVE FALSE
      OBVIOUS
    <3>2. k = Len(path) /\ depth # Len(path)
      BY <1>2, <1>4, <3>1
    <3>3. QED
      BY <1>3, <1>4, <3>2, SegmentFacts
  <2>2. QED
    BY <1>1, <2>1
<1>5. ASSUME doc[next].methods # {} PROVE \E i \in DOMAIN nodes' : nodes'[i].path = path
  <2>1. depth = Len(path) /\ Len(path) \in 1..depth
    BY <1>2, <1>3, <1>5
  <2>2. SubSeq(path, 1, Len(path)) = path
    BY <1>2, PrefixFacts
  <2>3. QED
    BY <1>1, <2>1, <2>2
<1>6. QED
  BY <1>4, <1>5 DEF path

(* The operations of a node afterwards. *)
LEMMA MethodsStep ==
  ASSUME TypeInv, InsertRoute, NEW i \in DOMAIN nodes'
  PROVE  IF nodes'[i].path = LeafPath(doc[next]) /\ doc[next].methods # {}
           THEN /\ nodes'[i].methods = doc[next].methods
                /\ nodes'[i].owner = next
                /\ nodes'[i].pattern = IF i \in DOMAIN nodes /\ nodes[i].pattern # 0
                                         THEN nodes[i].pattern ELSE next
           ELSE /\ i \in DOMAIN nodes => nodes'[i] = nodes[i]
                /\ i \notin DOMAIN nodes =>
                     nodes'[i].methods = {} /\ nodes'[i].owner = 0 /\ nodes'[i].pattern = 0
<1>1. nodes \in Seq(NodeSet) /\ nodes' \in Seq(NodeSet)
  BY InsertShape DEF TypeInv, IsTree
<1>2. /\ i \in 1..Len(nodes') /\ Len(nodes) \in Nat /\ Len(nodes') \in Nat
      /\ i \in DOMAIN nodes <=> i <= Len(nodes)
  BY <1>1
<1> DEFINE item == doc[next]
<1>3. IF nodes'[i].path = LeafPath(item) /\ item.methods # {}
        THEN /\ nodes'[i].methods = item.methods
             /\ nodes'[i].owner = next
             /\ nodes'[i].pattern = IF i <= Len(nodes) /\ nodes[i].pattern # 0
                                      THEN nodes[i].pattern ELSE next
        ELSE nodes'[i] = IF i <= Len(nodes) THEN nodes[i] ELSE NewNode(nodes'[i].path)
  BY <1>2, InsertShape
<1> HIDE DEF item
<1>4. CASE nodes'[i].path = LeafPath(item) /\ item.methods # {}
  BY <1>2, <1>3, <1>4 DEF item
<1>5. CASE ~(nodes'[i].path = LeafPath(item) /\ item.methods # {})
  <2>1. nodes'[i] = IF i <= Len(nodes) THEN nodes[i] ELSE NewNode(nodes'[i].path)
    BY <1>3, <1>5
  <2>2. \A p : NewNode(p).methods = {} /\ NewNode(p).owner = 0 /\ NewNode(p).pattern = 0
    BY DEF NewNode
  <2>3. i \notin DOMAIN nodes => nodes'[i] = NewNode(nodes'[i].path)
    BY <1>2, <2>1
  <2>4. i \notin DOMAIN nodes => nodes'[i].methods = {} /\ nodes'[i].owner = 0 /\ nodes'[i].pattern = 0
    BY <2>2, <2>3
  <2>5. i \in DOMAIN nodes => nodes'[i] = nodes[i]
    BY <1>2, <2>1
  <2>6. QED
    BY <1>5, <2>4, <2>5 DEF item
<1>6. QED
  BY <1>4, <1>5

LEMMA HeldStep ==
  ASSUME TreeInv, InsertRoute
  PROVE  HeldInv'
<1>1. TypeInv /\ HeldInv
  BY DEF TreeInv
<1>2. doc' = doc /\ Inserted' = Inserted \cup {next}
  BY <1>1, InsertFrame
<1>3. nodes \in Seq(NodeSet) /\ nodes' \in Seq(NodeSet)
  BY <1>1, InsertShape DEF TypeInv, IsTree
<1>4. /\ DOMAIN nodes \subseteq DOMAIN nodes'
      /\ \A i \in DOMAIN nodes : nodes'[i].path = nodes[i].path
  BY <1>1, InsertedNodes
<1>5. \A p : (\E i \in DOMAIN nodes' : nodes'[i].path = p) => Exists(p)'
  BY <1>3, IndexOfPath DEF Exists
<1>6. \A p : Exists(p) => Exists(p)'
  BY <1>3, <1>4, <1>5, IndexOfPath DEF Exists
<1>7. ASSUME NEW j \in Inserted'
      PROVE  \A k \in 1..Len(LeafPath(doc[j])) :
               IsInner(LeafPath(doc[j])[k]) => Exists(SubSeq(LeafPath(doc[j]), 1, k))'
  <2>1. CASE j \in Inserted
    BY <1>1, <1>2, <1>6, <2>1 DEF HeldInv
  <2>2. CASE j = next
    BY <1>1, <1>2, <1>5, <2>2, LeafIsThere
  <2>3. QED
    BY <1>2, <2>1, <2>2
<1>8. ASSUME NEW j \in Inserted', doc[j].methods # {}
      PROVE  \E i \in DOMAIN nodes' : nodes'[i].path = LeafPath(doc[j]) /\ nodes'[i].methods # {}
  <2>1. CASE j \in Inserted
    <3>1. PICK i \in DOMAIN nodes : nodes[i].path = LeafPath(doc[j]) /\ nodes[i].methods # {}
      BY <1>1, <1>8, <2>1 DEF HeldInv
    <3>2. i \in DOMAIN nodes' /\ nodes'[i].path = nodes[i].path
      BY <1>4
    <3>3. nodes'[i].methods # {}
      BY <1>1, <3>1, <3>2, MethodsStep
    <3>4. QED
      BY <3>1, <3>2, <3>3
  <2>2. CASE j = next
    <3>1. PICK i \in DOMAIN nodes' : nodes'[i].path = LeafPath(doc[next])
      BY <1>1, <1>8, <2>2, LeafIsThere
    <3>2. nodes'[i].methods # {}
      BY <1>1, <1>8, <2>2, <3>1, MethodsStep
    <3>3. QED
      BY <2>2, <3>1, <3>2
  <2>3. QED
    BY <1>2, <2>1, <2>2
<1>9. QED
  BY <1>2, <1>7, <1>8 DEF HeldInv

LEMMA OwnerStep ==
  ASSUME TreeInv, InsertRoute
  PROVE  OwnerInv'
<1>1. TypeInv /\ OwnerInv
  BY DEF TreeInv
<1>2. doc' = doc /\ Inserted' = Inserted \cup {next} /\ next \in Nat /\ next # 0
  BY <1>1, InsertFrame DEF TypeInv
<1>3. SUFFICES ASSUME NEW i \in DOMAIN nodes'
               PROVE  /\ nodes'[i].methods # {} =>
                           /\ \A j \in {nodes'[i].owner, nodes'[i].pattern} :
                                j \in Inserted' /\ LeafPath(doc[j]) = nodes'[i].path /\ doc[j].methods # {}
                           /\ doc[nodes'[i].owner].methods = nodes'[i].methods
                      /\ nodes'[i].methods = {} => nodes'[i].owner = 0 /\ nodes'[i].pattern = 0
  BY <1>2 DEF OwnerInv
<1>4. i \in DOMAIN nodes => nodes'[i].path = nodes[i].path
  BY <1>1, InsertedNodes
<1>5. CASE nodes'[i].path = LeafPath(doc[next]) /\ doc[next].methods # {}
  <2>1. /\ nodes'[i].methods = doc[next].methods /\ nodes'[i].owner = next
        /\ nodes'[i].pattern = IF i \in DOMAIN nodes /\ nodes[i].pattern # 0 THEN nodes[i].pattern ELSE next
    BY <1>1, <1>3, <1>5, MethodsStep
  <2>2. CASE i \in DOMAIN nodes /\ nodes[i].pattern # 0
    <3>1. nodes[i].methods # {}
      BY <1>1, <2>2 DEF OwnerInv
    <3>2. /\ nodes[i].pattern \in Inserted
          /\ LeafPath(doc[nodes[i].pattern]) = nodes[i].path /\ doc[nodes[i].pattern].methods # {}
      BY <1>1, <2>2, <3>1 DEF OwnerInv
    <3>3. QED
      BY <1>2, <1>4, <1>5, <2>1, <2>2, <3>2
  <2>3. CASE ~(i \in DOMAIN nodes /\ nodes[i].pattern # 0)
    BY <1>2, <1>5, <2>1, <2>3
  <2>4. QED
    BY <2>2, <2>3
<1>6. CASE ~(nodes'[i].path = LeafPath(doc[next]) /\ doc[next].methods # {})
  <2>1. CASE i \in DOMAIN nodes
    <3>1. nodes'[i] = nodes[i]
      BY <1>1, <1>3, <1>6, <2>1, MethodsStep
    <3>2. QED
      BY <1>1, <1>2, <2>1, <3>1 DEF OwnerInv
  <2>2. CASE i \notin DOMAIN nodes
    BY <1>1, <1>3, <1>6, <2>2, MethodsStep
  <2>3. QED
    BY <2>1, <2>2
<1>7. QED
  BY <1>5, <1>6

(* A path that passes through the place of a regular expression has a node  *)
(* there.                                                                   *)
LEMMA PassedNode ==
  ASSUME TreeInv, NEW j \in Inserted, NEW p, IsPath(p), Last(p).typ = "regexp", Passes(j, p)
  PROVE  \E i \in DOMAIN nodes : nodes[i].path = p
<1> DEFINE path == LeafPath(doc[j])
<1>1. IsLeafPath(path) /\ path \in Seq(Segments)
  BY DEF TreeInv, AcceptedInv, IsLeafPath, IsPath
<1>2. p \in Seq(Segments) /\ Len(p) \in Nat \ {0}
  BY DEF IsPath
<1> HIDE DEF path
<1>3. Len(p) <= Len(path) /\ p = SubSeq(path, 1, Len(p)) /\ Len(path) \in Nat
  BY <1>1, <1>2, PrefixMeans DEF Passes, path
<1>4. p[Len(p)] = path[Len(p)] /\ Len(p) \in 1..Len(path)
  <2>1. Len(p) \in 1..Len(p) /\ Len(p) \in Nat
    BY <1>2
  <2>2. \A k \in 1..Len(p) : SubSeq(path, 1, Len(p))[k] = path[k]
    BY <1>1, <1>3, <2>1, PrefixFacts
  <2>3. SubSeq(path, 1, Len(p))[Len(p)] = path[Len(p)]
    BY <2>1, <2>2
  <2>4. SubSeq(path, 1, Len(p))[Len(p)] = p[Len(p)]
    BY <1>3
  <2>5. QED
    BY <1>2, <1>3, <2>3, <2>4
<1>5. IsInner(path[Len(p)])
  BY <1>4, SegmentFacts DEF IsInner, Last
<1>6. Exists(SubSeq(path, 1, Len(p)))
  BY <1>4, <1>5 DEF TreeInv, HeldInv, path
<1>7. Exists(p) /\ nodes \in Seq(NodeSet)
  BY <1>3, <1>6 DEF TreeInv, TypeInv, IsTree
<1>8. QED
  BY <1>7, IndexOfPath DEF Exists

LEMMA AgeStep ==
  ASSUME TreeInv, InsertRoute
  PROVE  AgeInv'
<1>1. TypeInv /\ AgeInv /\ SourceInv /\ IsTree(nodes)
  BY DEF TreeInv, TypeInv
<1>2. /\ doc' = doc /\ Inserted' = Inserted \cup {next} /\ Inserted \subseteq Nat /\ next \in Nat
      /\ \A j \in Inserted : j < next
  BY <1>1, InsertFrame
<1>3. /\ DOMAIN nodes \subseteq DOMAIN nodes' /\ DOMAIN nodes' \subseteq Nat
      /\ DOMAIN nodes = 1..Len(nodes) /\ Len(nodes) \in Nat
      /\ \A i \in DOMAIN nodes : nodes'[i].path = nodes[i].path
      /\ \A i \in DOMAIN nodes' \ DOMAIN nodes : i > Len(nodes)
  BY <1>1, InsertedNodes
<1>4. IsTree(nodes')
  BY <1>1, TreeStep
<1>5. SUFFICES ASSUME NEW a \in DOMAIN nodes', NEW b \in DOMAIN nodes', a < b,
                      Len(nodes'[a].path) = Len(nodes'[b].path), Last(nodes'[b].path).typ = "regexp"
               PROVE  \E j \in Inserted' : /\ IsPrefix(nodes'[a].path, LeafPath(doc[j]))
                                           /\ \A l \in 1..j : ~IsPrefix(nodes'[b].path, LeafPath(doc[l]))
  BY <1>2 DEF AgeInv, Passes
<1>6. CASE b \in DOMAIN nodes
  <2>1. a \in DOMAIN nodes
    BY <1>3, <1>5, <1>6
  <2>2. nodes'[a].path = nodes[a].path /\ nodes'[b].path = nodes[b].path
    BY <1>3, <1>6, <2>1
  <2>3. PICK j \in Inserted : Passes(j, nodes[a].path) /\ \A l \in 1..j : ~Passes(l, nodes[b].path)
    BY <1>1, <1>5, <1>6, <2>1, <2>2 DEF AgeInv
  <2>4. QED
    BY <1>2, <2>2, <2>3 DEF Passes
<1>7. CASE b \notin DOMAIN nodes /\ a \in DOMAIN nodes
  <2>1. PICK j \in Inserted : Passes(j, nodes[a].path)
    BY <1>1, <1>7 DEF SourceInv
  <2>2. ASSUME NEW l \in 1..j, Passes(l, nodes'[b].path) PROVE FALSE
    <3>1. l \in Inserted
      BY <1>1, <2>1, <2>2, <1>2 DEF Inserted
    <3>2. IsPath(nodes'[b].path)
      BY <1>4 DEF IsTree
    <3>3. PICK i \in DOMAIN nodes : nodes[i].path = nodes'[b].path
      BY <1>5, <2>2, <3>1, <3>2, PassedNode
    <3>4. i \in DOMAIN nodes' /\ nodes'[i].path = nodes'[b].path
      BY <1>3, <3>3
    <3>5. i = b
      BY <1>4, <3>4 DEF IsTree, Distinct
    <3>6. QED
      BY <1>7, <3>3, <3>5
  <2>3. QED
    BY <1>2, <1>3, <1>7, <2>1, <2>2 DEF Passes
<1>8. CASE b \notin DOMAIN nodes /\ a \notin DOMAIN nodes
  <2> DEFINE path == LeafPath(doc[next])
             known == Known(doc[next])
             depth == Depth(doc[next])
  <2>1. PICK k \in (known + 1)..depth : a = Len(nodes) + (k - known) /\ nodes'[a].path = SubSeq(path, 1, k)
    BY <1>1, <1>5, <1>8, InsertedNodes
  <2>2. PICK l \in (known + 1)..depth : b = Len(nodes) + (l - known) /\ nodes'[b].path = SubSeq(path, 1, l)
    BY <1>1, <1>5, <1>8, InsertedNodes
  <2>3. IsLeafPath(path)
    BY <1>1, InsertShape
  <2>4. known \in Nat /\ depth \in Nat /\ depth <= Len(path) /\ Len(path) \in Nat /\ path \in Seq(Segments)
    BY <1>1, <2>3, KnownFacts, DepthFacts
  <2> HIDE DEF path, known, depth
  <2>5. k \in Nat /\ l \in Nat /\ k <= Len(path) /\ l <= Len(path)
    BY <2>4
  <2>6. k = l
    BY <1>5, <2>1, <2>2, <2>4, <2>5, PrefixFacts
  <2>7. a = b
    BY <2>1, <2>2, <2>6
  <2>8. QED
    BY <1>3, <1>5, <2>7
<1>9. QED
  BY <1>6, <1>7, <1>8

LEMMA InsertStep ==
  ASSUME TreeInv, InsertRoute
  PROVE  TreeInv'
<1>1. TypeInv
  BY DEF TreeInv
<1>2. TypeInv'
  <2>1. IsTree(nodes')
    BY <1>1, TreeStep
  <2>2. doc' \in Documents /\ failed' \in BOOLEAN /\ doc' = doc
    BY <1>1, InsertFrame DEF TypeInv
  <2>3. next' \in 1..(Len(doc) + 1)
    <3>1. doc \in Seq(Items)
      BY <1>1, DocumentsAssumption DEF TypeInv
    <3>2. next \in 1..Len(doc) /\ next' = next + 1
      BY <1>1, InsertShape, InsertFrame
    <3>3. QED
      BY <3>1, <3>2
  <2>4. QED
    BY <2>1, <2>2, <2>3 DEF TypeInv
<1>3. QED
  BY <1>2, AcceptedStep, SourceStep, HeldStep, OwnerStep, AgeStep DEF TreeInv

LEMMA TreeInit == Init => TreeInv /\ ServedInv
<1>1. SUFFICES ASSUME Init PROVE TreeInv /\ ServedInv
  OBVIOUS
<1>2. doc \in Documents /\ next = 1 /\ nodes = <<>> /\ failed = FALSE /\ served.answer.status = "none"
  BY <1>1 DEF Init
<1>3. IsTree(nodes)
  <2>1. nodes \in Seq(NodeSet) /\ DOMAIN nodes = {}
    BY <1>2
  <2>2. QED
    BY <2>1 DEF IsTree, Distinct, Closed
<1>4. next \in 1..(Len(doc) + 1)
  <2>1. doc \in Seq(Items)
    BY <1>2, DocumentsAssumption
  <2>2. QED
    BY <1>2, <2>1
<1>5. DOMAIN nodes = {} /\ Inserted = {}
  BY <1>2 DEF Inserted
<1>6. QED
  BY <1>2, <1>3, <1>4, <1>5
     DEF TreeInv, TypeInv, AcceptedInv, SourceInv, HeldInv, OwnerInv, AgeInv, ServedInv

-----------------------------------------------------------------------------
(* The invariant always holds. *)
LEMMA QuietSteps ==
  ASSUME Next \/ UNCHANGED vars, ~InsertRoute
  PROVE  doc' = doc /\ next' = next /\ nodes' = nodes /\ failed' \in {failed, TRUE}
<1>1. CASE InsertRouteFails
  BY <1>1 DEF InsertRouteFails
<1>2. CASE \E request \in Requests, method \in Methods : Serve(request, method)
  BY <1>2 DEF Serve
<1>3. CASE UNCHANGED vars
  BY <1>3 DEF vars
<1>4. QED
  BY <1>1, <1>2, <1>3 DEF Next

LEMMA TreeNext == TreeInv /\ [Next]_vars => TreeInv'
<1>1. SUFFICES ASSUME TreeInv, [Next]_vars PROVE TreeInv'
  OBVIOUS
<1>2. CASE InsertRoute
  BY <1>1, <1>2, InsertStep
<1>3. CASE ~InsertRoute
  <2>1. doc' = doc /\ next' = next /\ nodes' = nodes /\ failed' \in {failed, TRUE}
    BY <1>1, <1>3, QuietSteps
  <2>2. TypeInv'
    BY <1>1, <2>1 DEF TreeInv, TypeInv
  <2>3. AcceptedInv' /\ SourceInv' /\ HeldInv' /\ OwnerInv' /\ AgeInv'
    BY <1>1, <2>1
       DEF TreeInv, AcceptedInv, SourceInv, HeldInv, OwnerInv, AgeInv, Inserted, Passes, Exists
  <2>4. QED
    BY <2>2, <2>3 DEF TreeInv
<1>4. QED
  BY <1>2, <1>3

(* Requests are looked up in the tree of the whole document. *)
LEMMA ServedNext == TreeInv /\ ServedInv /\ [Next]_vars => ServedInv'
<1>1. SUFFICES ASSUME TreeInv, ServedInv, [Next]_vars PROVE ServedInv'
  OBVIOUS
<1>2. CASE InsertRoute
  <2>1. doc \in Seq(Items) /\ next \in 1..(Len(doc) + 1) /\ next <= Len(doc) /\ served' = served
    BY <1>1, <1>2, DocumentsAssumption DEF TreeInv, TypeInv, InsertRoute
  <2>2. served.answer.status = "none"
    BY <1>1, <2>1 DEF ServedInv
  <2>3. QED
    BY <2>1, <2>2 DEF ServedInv
<1>3. CASE InsertRouteFails \/ UNCHANGED vars
  <2>1. doc' = doc /\ next' = next /\ nodes' = nodes /\ served' = served
    BY <1>3 DEF InsertRouteFails, vars
  <2>2. \A request, method : FindRoute(request, method)' = FindRoute(request, method)
    BY <2>1 DEF FindRoute
  <2>3. QED
    BY <1>1, <2>1, <2>2 DEF ServedInv
<1>4. ASSUME NEW request \in Requests, NEW method \in Methods, Serve(request, method) PROVE ServedInv'
  <2>1. /\ doc' = doc /\ next' = next /\ nodes' = nodes /\ next > Len(doc)
        /\ served' = [request |-> request, method |-> method, answer |-> FindRoute(request, method)]
    BY <1>4 DEF Serve
  <2>2. FindRoute(request, method)' = FindRoute(request, method)
    BY <2>1 DEF FindRoute
  <2>3. QED
    BY <2>1, <2>2 DEF ServedInv
<1>5. QED
  BY <1>1, <1>2, <1>3, <1>4 DEF Next

(* The inductive invariant: the nodes of the tree are the prefixes of the   *)
(* inserted paths, in the order of their insertion, and a leaf has the      *)
(* operations of the item that owns it.                                     *)
THEOREM TreeAlways == Spec => [](TreeInv /\ ServedInv)
<1>1. TreeInv /\ ServedInv /\ [Next]_vars => (TreeInv /\ ServedInv)'
  BY TreeNext, ServedNext
<1>2. QED
  BY <1>1, TreeInit, PTL DEF Spec

-----------------------------------------------------------------------------
(* No two items share the leaf of a parameter or of a wildcard: the second  *)
(* one finds the leaf with operations, and is rejected.                     *)
LEMMA SharedNext == TreeInv /\ NoSharedLeaf /\ [Next]_vars => NoSharedLeaf'
<1>1. SUFFICES ASSUME TreeInv, NoSharedLeaf, [Next]_vars PROVE NoSharedLeaf'
  OBVIOUS
<1>2. CASE ~InsertRoute
  <2>1. doc' = doc /\ next' = next
    BY <1>1, <1>2, QuietSteps
  <2>2. QED
    BY <1>1, <2>1 DEF NoSharedLeaf
<1>3. CASE InsertRoute
  <2>1. TypeInv /\ AcceptedInv /\ HeldInv /\ OwnerInv /\ IsTree(nodes)
    BY <1>1 DEF TreeInv, TypeInv
  <2>2. /\ doc' = doc /\ next' = next + 1 /\ next \in Nat /\ Inserted' = Inserted \cup {next}
        /\ \A j \in Inserted : j < next /\ j \in Nat
    BY <1>3, <2>1, InsertFrame
  <2>3. IsLeafPath(LeafPath(doc[next])) /\ ~Duplicated(doc[next])
    BY <1>3, <2>1, InsertShape DEF InsertRoute, InsertError
  <2>4. SUFFICES ASSUME NEW i \in Inserted', NEW j \in Inserted', i < j,
                        doc[i].methods # {}, doc[j].methods # {}, LeafPath(doc[i]) = LeafPath(doc[j])
                 PROVE Last(LeafPath(doc[i])).typ = "static" /\ Last(LeafPath(doc[i])) # End
    BY <2>2 DEF NoSharedLeaf, Inserted
  <2>5. i \in Inserted
    BY <2>2, <2>4
  <2>6. CASE j \in Inserted
    BY <1>1, <2>4, <2>5, <2>6 DEF NoSharedLeaf, Inserted
  <2>7. CASE j = next
    <3> DEFINE path == LeafPath(doc[next])
    <3>1. PICK n \in DOMAIN nodes : nodes[n].path = path /\ nodes[n].methods # {}
      BY <2>1, <2>4, <2>5, <2>7 DEF HeldInv
    <3>2. IndexOf(nodes, path) = n
      BY <2>1, <3>1, IndexIsTheAge DEF IsTree
    <3>3. Exists(path)
      BY <2>1, <3>1, IndexOfPath DEF IsTree, Exists
    <3>4. Last(path) # CatchAll /\ Last(path) # End
      BY <2>3, <2>4, <2>7, <3>1, <3>2, <3>3 DEF Duplicated
    <3>5. IsLast(Last(path))
      BY <2>3 DEF IsLeafPath, Last
    <3>6. QED
      BY <2>4, <2>7, <3>4, <3>5 DEF IsLast
  <2>8. QED
    BY <2>2, <2>4, <2>6, <2>7
<1>4. QED
  BY <1>2, <1>3

(* NoSharedLeaf: no two paths of an accepted document that have operations  *)
(* share the leaf of a parameter or of a wildcard, in any order.            *)
THEOREM LeavesAreNotShared == Spec => []NoSharedLeaf
<1>1. Init => NoSharedLeaf
  BY DEF Init, NoSharedLeaf
<1>2. TreeInv /\ ServedInv /\ NoSharedLeaf /\ [Next]_vars => NoSharedLeaf'
  BY SharedNext
<1>3. QED
  BY <1>1, <1>2, TreeAlways, PTL DEF Spec

-----------------------------------------------------------------------------
(* The search, in any tree.  A node is hit from depth d on if the segments  *)
(* of its path below d fit the texts, it is the leaf there, and it has the  *)
(* method.                                                                  *)
Fits(p, k, texts) ==
  /\ Matches(p[k], Rest(texts, k - 1))
  /\ IsLeaf(p[k], Rest(texts, k)) <=> k = Len(p)

Hit(n, d, texts, method) ==
  method \in n.methods /\ \A k \in (d + 1)..Len(n.path) : Fits(n.path, k, texts)

Hits(tree, path, texts, method) ==
  {n \in Range(tree) : /\ Len(path) < Len(n.path)
                       /\ SubSeq(n.path, 1, Len(path)) = path
                       /\ Hit(n, Len(path), texts, method)}

(* One path before another: where they part, its edge is tried first.       *)
Sooner(tree, p, q) ==
  \/ Group(Last(p)) < Group(Last(q))
  \/ Group(Last(p)) = Group(Last(q)) /\ Last(p).key < Last(q).key
  \/ /\ Group(Last(p)) = Group(Last(q)) /\ Last(p).key = Last(q).key
     /\ IndexOf(tree, p) < IndexOf(tree, q)

Part(p, q, k) ==
  /\ k \in 1..Len(p) /\ k <= Len(q)
  /\ SubSeq(p, 1, k - 1) = SubSeq(q, 1, k - 1)
  /\ p[k] # q[k]

Ahead(tree, p, q) ==
  \E k \in Nat : Part(p, q, k) /\ Sooner(tree, SubSeq(p, 1, k), SubSeq(q, 1, k))

(* The parameters on a path below depth d: of one name, the leftmost.       *)
Bound(p, d) == {k \in (d + 1)..Len(p) : p[k].typ \in {"regexp", "param"}}

Leftmost(p, d, key) ==
  CHOOSE k \in Bound(p, d) : p[k].key = key /\ \A j \in Bound(p, d) : p[j].key = key => k <= j

ParamsOf(p, d, texts) ==
  [key \in {p[k].key : k \in Bound(p, d)} |-> Head(Rest(texts, Leftmost(p, d, key) - 1))]

RouteTo(n, d, texts) ==
  [status |-> "found", owner |-> n.owner, pattern |-> n.pattern, params |-> ParamsOf(n.path, d, texts)]

(* The answer at a path: the first of the nodes that are hit below it.      *)
Best(tree, hits, n) == n \in hits /\ \A m \in hits \ {n} : Ahead(tree, n.path, m.path)

Answered(tree, hits, d, texts, r) ==
  /\ hits = {} => r = NotFound
  /\ hits # {} => \E n \in hits : Best(tree, hits, n) /\ r = RouteTo(n, d, texts)

-----------------------------------------------------------------------------
LEMMA SameTexts ==
  ASSUME NEW p \in Seq(Nat), NEW q \in Seq(Nat), Len(p) = Len(q), \A k \in 1..Len(p) : p[k] = q[k]
  PROVE  p = q
OBVIOUS

LEMMA RestFacts ==
  ASSUME NEW texts \in Seq(Nat), NEW k \in Nat
  PROVE  /\ Rest(texts, k) \in Seq(Nat) /\ Rest(texts, k) # <<>>
         /\ k >= Len(texts) => Rest(texts, k) = <<Empty>> /\ Head(Rest(texts, k)) = 0
         /\ k < Len(texts) => Head(Rest(texts, k)) = texts[k + 1]
         /\ k < Len(texts) => (Rest(texts, k) = <<Empty>> <=> k + 1 = Len(texts) /\ texts[k + 1] = 0)
<1>1. CASE k >= Len(texts)
  <2>1. Rest(texts, k) = <<Empty>> /\ ~(k < Len(texts))
    BY <1>1 DEF Rest
  <2>2. <<0>> \in Seq(Nat) /\ <<0>> # <<>> /\ Head(<<0>>) = 0
    OBVIOUS
  <2>3. QED
    BY <2>1, <2>2 DEF Empty
<1>2. CASE k < Len(texts)
  <2> DEFINE r == SubSeq(texts, k + 1, Len(texts))
  <2>1. Rest(texts, k) = r /\ ~(k >= Len(texts))
    BY <1>2 DEF Rest
  <2>2. r \in Seq(Nat) /\ Len(r) = Len(texts) - k /\ Len(texts) \in Nat
    BY <1>2
  <2>3. r[1] = texts[k + 1]
    BY <1>2
  <2> HIDE DEF r
  <2>4. r # <<>> /\ Head(r) = texts[k + 1]
    BY <1>2, <2>2, <2>3
  <2>5. r = <<0>> <=> Len(r) = 1 /\ r[1] = 0
    <3>1. <<0>> \in Seq(Nat) /\ Len(<<0>>) = 1 /\ <<0>>[1] = 0
      OBVIOUS
    <3> DEFINE z == <<0>>
    <3> HIDE DEF z
    <3>2. z \in Seq(Nat) /\ Len(z) = 1 /\ z[1] = 0
      BY <3>1 DEF z
    <3>3. ASSUME Len(r) = 1, r[1] = 0 PROVE r = z
      <4>1. Len(r) = Len(z) /\ \A j \in 1..Len(r) : r[j] = z[j]
        BY <3>2, <3>3
      <4>2. QED
        BY <2>2, <3>2, <4>1, SameTexts
    <3>4. QED
      BY <3>2, <3>3 DEF z
  <2>6. r = <<0>> <=> k + 1 = Len(texts) /\ texts[k + 1] = 0
    BY <2>2, <2>3, <2>5
  <2>7. QED
    BY <1>2, <2>1, <2>2, <2>4, <2>6 DEF Empty
<1>3. QED
  BY <1>1, <1>2

(* Beyond the texts every child is a leaf, so that nothing is searched.     *)
LEMMA SearchEnds ==
  ASSUME NEW texts \in Seq(Nat), NEW d \in Nat, NEW e \in Segments, e.typ # "malformed",
         Matches(e, Rest(texts, d)), ~IsLeaf(e, Rest(texts, d + 1))
  PROVE  d < Len(texts)
<1>1. SUFFICES ASSUME ~(d < Len(texts)) PROVE FALSE
  OBVIOUS
<1>2. Len(texts) \in Nat /\ d + 1 \in Nat /\ d >= Len(texts) /\ d + 1 >= Len(texts)
  BY <1>1
<1>3. Rest(texts, d) = <<Empty>> /\ Rest(texts, d + 1) = <<Empty>>
  BY <1>2, RestFacts
<1>4. e.typ \in {"static", "param", "regexp", "catchAll"}
  BY SegmentFacts
<1>5. QED
  BY <1>3, <1>4 DEF Matches, IsLeaf

-----------------------------------------------------------------------------
(* The nodes of a tree.                                                     *)
LEMMA TreeNodes ==
  ASSUME NEW tree, IsTree(tree), NEW n \in Range(tree)
  PROVE  /\ n \in NodeSet /\ IsPath(n.path) /\ n.path \in Seq(Segments) /\ Len(n.path) \in Nat \ {0}
         /\ n.path[Len(n.path)] \in Segments /\ n.path[Len(n.path)].typ # "malformed"
         /\ IndexOf(tree, n.path) \in DOMAIN tree /\ tree[IndexOf(tree, n.path)] = n
         /\ \A m \in Range(tree) : m.path = n.path => m = n
         /\ \A k \in 1..Len(n.path) : \E m \in Range(tree) : m.path = SubSeq(n.path, 1, k)
<1>1. tree \in Seq(NodeSet) /\ Distinct(tree) /\ Closed(tree)
  BY DEF IsTree
<1>2. PICK i \in DOMAIN tree : tree[i] = n
  BY DEF Range
<1>3. n \in NodeSet /\ IsPath(n.path)
  BY <1>1, <1>2 DEF IsTree
<1>4. n.path \in Seq(Segments) /\ Len(n.path) \in Nat \ {0}
  BY <1>3 DEF IsPath
<1>5. n.path[Len(n.path)] \in Segments
  BY <1>4
<1>6. n.path[Len(n.path)].typ # "malformed"
  BY <1>3, SegmentFacts DEF IsPath, IsInner, IsLast
<1>7. IndexOf(tree, n.path) = i
  BY <1>1, <1>2, IndexIsTheAge
<1>8. \A m \in Range(tree) : m.path = n.path => m = n
  BY <1>1, <1>2 DEF Range, Distinct
<1>9. \A k \in 1..Len(n.path) : \E m \in Range(tree) : m.path = SubSeq(n.path, 1, k)
  BY <1>1, <1>2 DEF Range, Closed
<1>10. QED
  BY <1>2, <1>3, <1>4, <1>5, <1>6, <1>7, <1>8, <1>9

LEMMA ChildFacts ==
  ASSUME NEW tree, IsTree(tree), NEW path \in Seq(Segments), NEW n \in Children(tree, path)
  PROVE  /\ n \in Range(tree) /\ Len(n.path) = Len(path) + 1
         /\ SubSeq(n.path, 1, Len(path)) = path /\ Last(n.path) = n.path[Len(path) + 1]
         /\ Last(n.path) \in Segments /\ Last(n.path).typ # "malformed"
         /\ n.path \in Places(tree)
<1>1. n \in Range(tree) /\ Len(n.path) = Len(path) + 1 /\ Front(n.path) = path
  BY DEF Children
<1>2. Len(n.path) - 1 = Len(path)
  BY <1>1
<1>3. SubSeq(n.path, 1, Len(path)) = path
  BY <1>1, <1>2 DEF Front
<1>4. Last(n.path) = n.path[Len(path) + 1] /\ Last(n.path) \in Segments /\ Last(n.path).typ # "malformed"
  BY <1>1, TreeNodes DEF Last
<1>5. QED
  BY <1>1, <1>3, <1>4 DEF Places

(* Siblings are in a strict order.                                          *)
LEMMA GroupFacts ==
  ASSUME NEW e \in Segments, e.typ # "malformed"
  PROVE  Group(e) \in Nat
BY SegmentFacts DEF Group

LEMMA FirstFacts ==
  ASSUME NEW tree, IsTree(tree), NEW path \in Seq(Segments),
         NEW some \in SUBSET Children(tree, path), some # {}
  PROVE  /\ First(tree, some) \in some
         /\ \A n \in some \ {First(tree, some)} : Precedes(tree, First(tree, some), n)
<1> DEFINE G(n) == Group(Last(n.path))
           K(n) == Last(n.path).key
           I(n) == IndexOf(tree, n.path)
<1>1. \A n \in some : G(n) \in Nat /\ K(n) \in Nat /\ I(n) \in Nat
  <2>1. SUFFICES ASSUME NEW n \in some PROVE G(n) \in Nat /\ K(n) \in Nat /\ I(n) \in Nat
    OBVIOUS
  <2>2. n \in Range(tree) /\ Last(n.path) \in Segments /\ Last(n.path).typ # "malformed"
    BY ChildFacts
  <2>3. I(n) \in DOMAIN tree /\ DOMAIN tree \subseteq Nat
    BY <2>2, TreeNodes DEF IsTree
  <2>4. QED
    BY <2>2, <2>3, GroupFacts, SegmentFacts
<1>2. \A m, n \in some : I(m) = I(n) => m = n
  <2>1. \A n \in some : n \in Range(tree)
    BY ChildFacts
  <2>2. \A n \in some : tree[I(n)] = n
    BY <2>1, TreeNodes
  <2>3. QED
    BY <2>2
<1>3. \A m, n \in some : Precedes(tree, m, n) <=>
        \/ G(m) < G(n)
        \/ G(m) = G(n) /\ K(m) < K(n)
        \/ G(m) = G(n) /\ K(m) = K(n) /\ I(m) < I(n)
  BY DEF Precedes
<1> HIDE DEF G, K, I
<1> DEFINE Gs == {G(n) : n \in some}
<1>4. PICK g \in Gs : \A h \in Gs : g <= h
  <2>1. Gs \in SUBSET Nat /\ Gs # {}
    BY <1>1
  <2> HIDE DEF Gs
  <2>2. QED
    BY <2>1, Smallest
<1> DEFINE Ks == {K(n) : n \in {m \in some : G(m) = g}}
<1>5. PICK k \in Ks : \A h \in Ks : k <= h
  <2>1. Ks \in SUBSET Nat /\ Ks # {}
    BY <1>1, <1>4
  <2> HIDE DEF Ks
  <2>2. QED
    BY <2>1, Smallest
<1> DEFINE Is == {I(n) : n \in {m \in some : G(m) = g /\ K(m) = k}}
<1>6. PICK i \in Is : \A h \in Is : i <= h
  <2>1. Is \in SUBSET Nat /\ Is # {}
    BY <1>1, <1>5
  <2> HIDE DEF Is
  <2>2. QED
    BY <2>1, Smallest
<1>7. PICK f \in some : G(f) = g /\ K(f) = k /\ I(f) = i
  BY <1>6
<1>8. ASSUME NEW n \in some \ {f} PROVE Precedes(tree, f, n)
  <2>1. G(f) <= G(n)
    BY <1>4, <1>7
  <2>2. G(f) = G(n) => K(f) <= K(n)
    BY <1>5, <1>7
  <2>3. G(f) = G(n) /\ K(f) = K(n) => I(f) <= I(n)
    BY <1>6, <1>7
  <2>4. I(f) # I(n)
    BY <1>2
  <2>5. G(f) \in Nat /\ G(n) \in Nat /\ K(f) \in Nat /\ K(n) \in Nat /\ I(f) \in Nat /\ I(n) \in Nat
    BY <1>1
  <2>6. \/ G(f) < G(n)
        \/ G(f) = G(n) /\ K(f) < K(n)
        \/ G(f) = G(n) /\ K(f) = K(n) /\ I(f) < I(n)
    BY <2>1, <2>2, <2>3, <2>4, <2>5
  <2>7. QED
    BY <1>3, <2>6
<1>9. \E m \in some : \A n \in some \ {m} : Precedes(tree, m, n)
  BY <1>8
<1>10. QED
  BY <1>9 DEF First

-----------------------------------------------------------------------------
(* The recursion of the search ends: its answers exist.  The rank of a path *)
(* is the number of texts left there.                                       *)
Rank(texts, path) == IF Len(path) < Len(texts) THEN Len(texts) - Len(path) ELSE 0

PlacesOf(tree, texts, k) == {path \in Places(tree) : Rank(texts, path) < k}

LEMMA PlaceFacts ==
  ASSUME NEW tree, IsTree(tree), NEW texts \in Seq(Nat), NEW path \in Places(tree)
  PROVE  /\ path \in Seq(Segments) /\ Len(path) \in Nat /\ Rank(texts, path) \in Nat
         /\ Len(path) < Len(texts) =>
              \A n \in Children(tree, path) : Rank(texts, n.path) < Rank(texts, path)
<1>1. path \in Seq(Segments)
  <2>1. CASE path = <<>>
    BY <2>1
  <2>2. CASE path # <<>>
    <3>1. PICK n \in Range(tree) : path = n.path
      BY <2>2 DEF Places
    <3>2. QED
      BY <3>1, TreeNodes
  <2>3. QED
    BY <2>1, <2>2
<1>2. Len(path) \in Nat /\ Len(texts) \in Nat
  BY <1>1
<1>3. Rank(texts, path) \in Nat
  BY <1>2 DEF Rank
<1>4. ASSUME Len(path) < Len(texts), NEW n \in Children(tree, path)
      PROVE  Rank(texts, n.path) < Rank(texts, path)
  <2>1. Len(n.path) = Len(path) + 1
    BY <1>1, ChildFacts
  <2>2. QED
    BY <1>2, <1>4, <2>1 DEF Rank
<1>5. QED
  BY <1>1, <1>2, <1>3, <1>4

(* What the answer at a path depends on. *)
LEMMA AnswerDepends ==
  ASSUME NEW tree, IsTree(tree), NEW texts \in Seq(Nat), NEW method, NEW path \in Places(tree),
         NEW g, NEW h,
         \A p \in Places(tree) : Rank(texts, p) < Rank(texts, path) => g[p] = h[p]
  PROVE  FindBelow(tree, path, texts, method, g) = FindBelow(tree, path, texts, method, h)
<1>1. path \in Seq(Segments) /\ Len(path) \in Nat
  BY PlaceFacts
<1>2. ASSUME NEW n \in Children(tree, path)
      PROVE  Try(n, texts, method, g) = Try(n, texts, method, h)
  <2> DEFINE e == Last(n.path)
             d == Len(path)
  <2>1. Len(n.path) = d + 1 /\ e \in Segments /\ e.typ # "malformed" /\ n.path \in Places(tree)
    BY <1>1, <1>2, ChildFacts
  <2>2. Len(n.path) - 1 = d /\ d \in Nat
    BY <1>1, <2>1
  <2>3. CASE Matches(e, Rest(texts, d)) /\ ~IsLeaf(e, Rest(texts, d + 1))
    <3>1. Len(path) < Len(texts)
      <4> HIDE DEF d, e
      <4>1. d < Len(texts)
        BY <2>1, <2>2, <2>3, SearchEnds
      <4>2. QED
        BY <4>1 DEF d
    <3>2. g[n.path] = h[n.path]
      BY <1>2, <2>1, <3>1, PlaceFacts
    <3>3. QED
      BY <3>2 DEF Try
  <2>4. CASE ~Matches(e, Rest(texts, d)) \/ IsLeaf(e, Rest(texts, d + 1))
    BY <2>1, <2>2, <2>4 DEF Try
  <2>5. QED
    BY <2>3, <2>4
<1> DEFINE Of(a) == {n \in Children(tree, path) : Try(n, texts, method, a) # NotFound}
<1>3. Of(g) = Of(h)
  BY <1>2
<1>4. First(tree, Of(g)) = First(tree, Of(h))
  BY <1>3
<1>5. Of(g) # {} => First(tree, Of(g)) \in Children(tree, path)
  <2>1. Of(g) \in SUBSET Children(tree, path)
    OBVIOUS
  <2> HIDE DEF Of
  <2>2. Of(g) # {} => First(tree, Of(g)) \in Of(g)
    BY <1>1, <2>1, FirstFacts
  <2>3. QED
    BY <2>1, <2>2
<1>6. /\ FindBelow(tree, path, texts, method, g) =
           IF Of(g) = {} THEN NotFound ELSE Try(First(tree, Of(g)), texts, method, g)
      /\ FindBelow(tree, path, texts, method, h) =
           IF Of(h) = {} THEN NotFound ELSE Try(First(tree, Of(h)), texts, method, h)
  BY DEF FindBelow
<1> HIDE DEF Of
<1>7. QED
  BY <1>2, <1>3, <1>4, <1>5, <1>6

LEMMA AnswersExist ==
  ASSUME NEW tree, IsTree(tree), NEW texts \in Seq(Nat), NEW method
  PROVE  \E g : g = [path \in Places(tree) |-> FindBelow(tree, path, texts, method, g)]
<1> DEFINE F(path, g) == FindBelow(tree, path, texts, method, g)
           Solves(g, k) == \A path \in Places(tree) : Rank(texts, path) < k => g[path] = F(path, g)
           None == {k \in Nat : ~\E g : Solves(g, k)}
<1>1. \A path \in Places(tree) : Rank(texts, path) \in Nat
  BY PlaceFacts
<1>2. \A path \in Places(tree) : \A g, h :
        (\A p \in Places(tree) : Rank(texts, p) < Rank(texts, path) => g[p] = h[p]) => F(path, g) = F(path, h)
  BY AnswerDepends
<1> HIDE DEF F
<1>3. 0 \notin None
  <2>1. Solves(<<>>, 0)
    BY <1>1
  <2>2. QED
    BY <2>1
<1>4. ASSUME NEW k \in Nat, k \notin None PROVE k + 1 \notin None
  <2>1. PICK g : Solves(g, k)
    BY <1>4
  <2>2. PICK h : h = [path \in Places(tree) |-> F(path, g)]
    OBVIOUS
  <2>3. \A path \in Places(tree) : Rank(texts, path) < k => h[path] = g[path]
    BY <2>1, <2>2
  <2>4. Solves(h, k + 1)
    <3>1. SUFFICES ASSUME NEW path \in Places(tree), Rank(texts, path) < k + 1 PROVE h[path] = F(path, h)
      OBVIOUS
    <3>2. \A p \in Places(tree) : Rank(texts, p) < Rank(texts, path) => g[p] = h[p]
      BY <1>1, <2>3, <3>1
    <3>3. F(path, g) = F(path, h)
      BY <1>2, <3>2
    <3>4. QED
      BY <2>2, <3>3
  <2>5. QED
    BY <2>4
<1>5. None = {}
  <2>1. SUFFICES ASSUME None # {} PROVE FALSE
    OBVIOUS
  <2>2. None \in SUBSET Nat
    OBVIOUS
  <2> HIDE DEF None
  <2>3. PICK k \in None : \A m \in None : k <= m
    BY <2>1, <2>2, Smallest
  <2>4. k \in Nat /\ k # 0
    BY <1>3, <2>2
  <2>5. k - 1 \in Nat /\ k - 1 \notin None /\ (k - 1) + 1 = k
    BY <2>3, <2>4
  <2>6. QED
    BY <1>4, <2>5
<1>6. PICK g : Solves(g, Len(texts) + 1)
  <2>1. Len(texts) + 1 \in Nat /\ Len(texts) + 1 \notin None
    <3> HIDE DEF None
    <3>1. QED
      BY <1>5
  <2> HIDE DEF Solves
  <2>2. QED
    BY <2>1
<1>7. \A path \in Places(tree) : g[path] = F(path, g)
  <2>1. \A path \in Places(tree) : Rank(texts, path) < Len(texts) + 1
    <3>1. SUFFICES ASSUME NEW path \in Places(tree) PROVE Rank(texts, path) < Len(texts) + 1
      OBVIOUS
    <3>2. Len(path) \in Nat /\ Len(texts) \in Nat
      BY PlaceFacts
    <3>3. QED
      BY <3>2 DEF Rank
  <2>2. QED
    BY <1>6, <2>1
<1>8. PICK h : h = [path \in Places(tree) |-> F(path, g)]
  OBVIOUS
<1>9. \A path \in Places(tree) : h[path] = g[path]
  BY <1>7, <1>8
<1>10. \A path \in Places(tree) : F(path, h) = F(path, g)
  BY <1>2, <1>9
<1>11. h = [path \in Places(tree) |-> F(path, h)]
  BY <1>8, <1>10
<1>12. QED
  BY <1>11 DEF F

(* What RouteOf returns is the answer at the root. *)
Searched(tree, texts, method, g) ==
  g = [path \in Places(tree) |-> FindBelow(tree, path, texts, method, g)]

LEMMA RouteIsAnswer ==
  ASSUME NEW tree, IsTree(tree), NEW request, TrimLeft(request) \in Seq(Nat), NEW method
  PROVE  \E g : Searched(tree, TrimLeft(request), method, g) /\ RouteOf(tree, request, method) = g[<<>>]
<1> DEFINE texts == TrimLeft(request)
           a == CHOOSE g : g = [path \in Places(tree) |-> FindBelow(tree, path, texts, method, g)]
<1>1. \E g : g = [path \in Places(tree) |-> FindBelow(tree, path, texts, method, g)]
  BY AnswersExist
<1>2. a = [path \in Places(tree) |-> FindBelow(tree, path, texts, method, a)]
  BY <1>1
<1>3. RouteOf(tree, request, method) = a[<<>>]
  BY DEF RouteOf
<1> HIDE DEF a
<1>4. QED
  BY <1>2, <1>3 DEF Searched

-----------------------------------------------------------------------------
(* The parameters of a route are bound one by one on the way back.          *)
LEMMA LeftmostFacts ==
  ASSUME NEW p \in Seq(Segments), NEW d \in Nat, NEW k \in Bound(p, d)
  PROVE  LET l == Leftmost(p, d, p[k].key)
         IN  /\ l \in Bound(p, d) /\ l \in Nat /\ l > d /\ l <= Len(p)
             /\ p[l].key = p[k].key
             /\ \A j \in Bound(p, d) : p[j].key = p[k].key => l <= j
<1> DEFINE S == {j \in Bound(p, d) : p[j].key = p[k].key}
<1>1. \A j \in Bound(p, d) : j \in Nat /\ j > d /\ j <= Len(p)
  BY DEF Bound
<1>2. S \in SUBSET Nat /\ S # {}
  BY <1>1
<1>3. \E l \in S : \A j \in S : l <= j
  <2> HIDE DEF S
  <2>1. QED
    BY <1>2, Smallest
<1>4. \E l \in Bound(p, d) : p[l].key = p[k].key /\ \A j \in Bound(p, d) : p[j].key = p[k].key => l <= j
  BY <1>3
<1>5. QED
  BY <1>1, <1>4 DEF Leftmost

LEMMA LeftmostIs ==
  ASSUME NEW p \in Seq(Segments), NEW d \in Nat, NEW k \in Bound(p, d),
         \A j \in Bound(p, d) : p[j].key = p[k].key => k <= j
  PROVE  Leftmost(p, d, p[k].key) = k
<1> DEFINE l == Leftmost(p, d, p[k].key)
<1>1. /\ l \in Bound(p, d) /\ l \in Nat /\ p[l].key = p[k].key
      /\ \A j \in Bound(p, d) : p[j].key = p[k].key => l <= j
  BY LeftmostFacts
<1> HIDE DEF l
<1>2. k <= l /\ l <= k /\ k \in Nat
  BY <1>1 DEF Bound
<1>3. l = k
  BY <1>1, <1>2
<1>4. QED
  BY <1>3 DEF l

LEMMA ParamsStep ==
  ASSUME NEW p \in Seq(Segments), NEW d \in Nat, d < Len(p), NEW texts
  PROVE  ParamsOf(p, d, texts) =
           IF p[d + 1].typ \in {"regexp", "param"}
             THEN With(ParamsOf(p, d + 1, texts), p[d + 1].key, Head(Rest(texts, d)))
             ELSE ParamsOf(p, d + 1, texts)
<1>1. Len(p) \in Nat /\ d + 1 \in Nat /\ d + 1 \in 1..Len(p) /\ d + 1 \in (d + 1)..Len(p) /\ (d + 1) - 1 = d
  OBVIOUS
<1>2. CASE p[d + 1].typ \notin {"regexp", "param"}
  <2>1. \A k \in (d + 1)..Len(p) : k = d + 1 \/ k \in ((d + 1) + 1)..Len(p)
    BY <1>1
  <2>2. \A k \in ((d + 1) + 1)..Len(p) : k \in (d + 1)..Len(p)
    BY <1>1
  <2>3. Bound(p, d) = Bound(p, d + 1)
    BY <1>2, <2>1, <2>2 DEF Bound
  <2>4. \A key : Leftmost(p, d, key) = Leftmost(p, d + 1, key)
    BY <2>3 DEF Leftmost
  <2>5. QED
    BY <1>2, <2>3, <2>4 DEF ParamsOf
<1>3. CASE p[d + 1].typ \in {"regexp", "param"}
  <2> DEFINE B == Bound(p, d)
             C == Bound(p, d + 1)
             name == p[d + 1].key
             f == ParamsOf(p, d, texts)
             g == ParamsOf(p, d + 1, texts)
             h == With(g, name, Head(Rest(texts, d)))
  <2>1. B = C \cup {d + 1} /\ \A k \in C : k \in Nat /\ d + 1 < k
    <3>1. \A k \in (d + 1)..Len(p) : k = d + 1 \/ k \in ((d + 1) + 1)..Len(p)
      BY <1>1
    <3>2. \A k \in ((d + 1) + 1)..Len(p) : k \in (d + 1)..Len(p) /\ k \in Nat /\ d + 1 < k
      BY <1>1
    <3>3. QED
      BY <1>1, <1>3, <3>1, <3>2 DEF Bound
  <2>2. d + 1 \in B /\ \A j \in B : d + 1 <= j
    BY <1>1, <2>1
  <2>3. Leftmost(p, d, name) = d + 1
    BY <2>2, LeftmostIs
  <2>4. ASSUME NEW k \in C, p[k].key # name
        PROVE  Leftmost(p, d, p[k].key) = Leftmost(p, d + 1, p[k].key)
    <3> DEFINE l == Leftmost(p, d + 1, p[k].key)
    <3>1. l \in C /\ p[l].key = p[k].key /\ \A j \in C : p[j].key = p[k].key => l <= j
      BY <1>1, LeftmostFacts
    <3> HIDE DEF l, B, C
    <3>2. l \in B /\ \A j \in B : p[j].key = p[l].key => l <= j
      BY <2>1, <2>4, <3>1
    <3>3. Leftmost(p, d, p[l].key) = l
      BY <3>2, LeftmostIs DEF B
    <3>4. QED
      BY <3>1, <3>3 DEF l
  <2>5. f = [key \in {p[k].key : k \in B} |-> Head(Rest(texts, Leftmost(p, d, key) - 1))]
    BY DEF ParamsOf
  <2>6. g = [key \in {p[k].key : k \in C} |-> Head(Rest(texts, Leftmost(p, d + 1, key) - 1))]
    BY DEF ParamsOf
  <2>7. DOMAIN f = {name} \cup DOMAIN g
    <3> HIDE DEF f, g, B, C
    <3>1. QED
      BY <2>1, <2>5, <2>6
  <2>8. \A key \in DOMAIN f : f[key] = IF key = name THEN Head(Rest(texts, d)) ELSE g[key]
    <3> HIDE DEF f, g, B, C
    <3>1. SUFFICES ASSUME NEW key \in DOMAIN f
                   PROVE  f[key] = IF key = name THEN Head(Rest(texts, d)) ELSE g[key]
      OBVIOUS
    <3>2. f[key] = Head(Rest(texts, Leftmost(p, d, key) - 1))
      BY <2>5
    <3>3. CASE key = name
      BY <1>1, <2>3, <3>2, <3>3
    <3>4. CASE key # name
      <4>1. PICK k \in B : key = p[k].key
        BY <2>5
      <4>2. k \in C
        BY <2>1, <3>4, <4>1
      <4>3. Leftmost(p, d, key) = Leftmost(p, d + 1, key)
        BY <2>4, <3>4, <4>1, <4>2
      <4>4. QED
        BY <2>6, <3>2, <3>4, <4>1, <4>2, <4>3
    <3>5. QED
      BY <3>3, <3>4
  <2>9. h = [x \in DOMAIN g \cup {name} |-> IF x = name THEN Head(Rest(texts, d)) ELSE g[x]]
    BY DEF With
  <2>10. f = [x \in DOMAIN f |-> f[x]]
    BY <2>5
  <2>11. f = h
    <3> HIDE DEF f, g, h, B, C, name
    <3>1. QED
      BY <2>7, <2>8, <2>9, <2>10
  <2>12. QED
    BY <1>3, <2>11
<1>4. QED
  BY <1>2, <1>3

LEMMA NoParams ==
  ASSUME NEW p \in Seq(Segments), NEW d \in Nat, d + 1 = Len(p),
         p[d + 1].typ \notin {"regexp", "param"}, NEW texts
  PROVE  ParamsOf(p, d, texts) = <<>>
<1>1. \A k \in (d + 1)..Len(p) : k = d + 1
  OBVIOUS
<1>2. Bound(p, d) = {}
  BY <1>1 DEF Bound
<1>3. {p[k].key : k \in Bound(p, d)} = {}
  BY <1>2
<1>4. ParamsOf(p, d, texts) = [key \in {} |-> Head(Rest(texts, Leftmost(p, d, key) - 1))]
  BY <1>3 DEF ParamsOf
<1>5. QED
  BY <1>4

-----------------------------------------------------------------------------
(* What a child answers: the first of the nodes that are hit through it.    *)
Via(tree, path, c, texts, method) ==
  {n \in Hits(tree, path, texts, method) : SubSeq(n.path, 1, Len(path) + 1) = c.path}

LEMMA ViaFacts ==
  ASSUME NEW tree, IsTree(tree), NEW texts \in Seq(Nat), NEW method, NEW path \in Places(tree),
         NEW c \in Children(tree, path), NEW n \in Range(tree)
  PROVE  LET d == Len(path)
             e == Last(c.path)
         IN  n \in Via(tree, path, c, texts, method) <=>
               /\ d + 1 <= Len(n.path) /\ SubSeq(n.path, 1, d + 1) = c.path
               /\ n.path[d + 1] = e
               /\ method \in n.methods
               /\ Matches(e, Rest(texts, d)) /\ (IsLeaf(e, Rest(texts, d + 1)) <=> d + 1 = Len(n.path))
               /\ \A k \in ((d + 1) + 1)..Len(n.path) : Fits(n.path, k, texts)
<1> DEFINE d == Len(path)
           e == Last(c.path)
           p == n.path
<1>1. path \in Seq(Segments) /\ d \in Nat
  BY PlaceFacts
<1>2. /\ Len(c.path) = d + 1 /\ SubSeq(c.path, 1, d) = path /\ e = c.path[d + 1] /\ c \in Range(tree)
  BY <1>1, ChildFacts
<1>3. p \in Seq(Segments) /\ Len(p) \in Nat
  BY TreeNodes
<1> HIDE DEF p, e
<1>4. n \in Via(tree, path, c, texts, method) <=>
        /\ d < Len(p) /\ SubSeq(p, 1, d) = path /\ SubSeq(p, 1, d + 1) = c.path
        /\ method \in n.methods /\ \A k \in (d + 1)..Len(p) : Fits(p, k, texts)
  BY DEF Via, Hits, Hit, p
<1> HIDE DEF d
<1>5. ASSUME d + 1 <= Len(p), SubSeq(p, 1, d + 1) = c.path
      PROVE  SubSeq(p, 1, d) = path /\ p[d + 1] = e
  <2>1. d + 1 \in Nat /\ d <= d + 1 /\ d + 1 \in 1..(d + 1)
    BY <1>1
  <2>2. SubSeq(SubSeq(p, 1, d + 1), 1, d) = SubSeq(p, 1, d)
    BY <1>1, <1>3, <1>5, <2>1, PrefixOfPrefix
  <2>3. SubSeq(p, 1, d + 1)[d + 1] = p[d + 1]
    BY <1>3, <1>5, <2>1, PrefixFacts
  <2>4. QED
    BY <1>2, <1>5, <2>2, <2>3
<1>6. d < Len(p) <=> d + 1 <= Len(p)
  BY <1>1, <1>3
<1>7. ASSUME d + 1 <= Len(p), p[d + 1] = e
      PROVE  (\A k \in (d + 1)..Len(p) : Fits(p, k, texts)) <=>
               /\ Matches(e, Rest(texts, d)) /\ (IsLeaf(e, Rest(texts, d + 1)) <=> d + 1 = Len(p))
               /\ \A k \in ((d + 1) + 1)..Len(p) : Fits(p, k, texts)
  <2>1. \A k \in (d + 1)..Len(p) : k = d + 1 \/ k \in ((d + 1) + 1)..Len(p)
    BY <1>1, <1>3
  <2>2. d + 1 \in (d + 1)..Len(p) /\ \A k \in ((d + 1) + 1)..Len(p) : k \in (d + 1)..Len(p)
    BY <1>1, <1>3, <1>7
  <2>3. Fits(p, d + 1, texts) <=>
          Matches(e, Rest(texts, d)) /\ (IsLeaf(e, Rest(texts, d + 1)) <=> d + 1 = Len(p))
    <3>1. (d + 1) - 1 = d
      BY <1>1
    <3>2. QED
      BY <1>7, <3>1 DEF Fits
  <2>4. QED
    BY <2>1, <2>2, <2>3
<1>8. QED
  BY <1>4, <1>5, <1>6, <1>7 DEF d, e, p

LEMMA RouteBound ==
  ASSUME NEW n, n.path \in Seq(Segments), NEW d \in Nat, d < Len(n.path), NEW texts
  PROVE  Bind(n.path[d + 1], Head(Rest(texts, d)), RouteTo(n, d + 1, texts)) = RouteTo(n, d, texts)
<1> DEFINE e == n.path[d + 1]
           r == RouteTo(n, d + 1, texts)
           text == Head(Rest(texts, d))
<1>1. r # NotFound
  <2>1. r.status = "found" /\ NotFound.status = "notFound"
    BY DEF RouteTo, NotFound
  <2>2. QED
    BY <2>1
<1>2. ParamsOf(n.path, d, texts) =
        IF e.typ \in {"regexp", "param"} THEN With(ParamsOf(n.path, d + 1, texts), e.key, text)
        ELSE ParamsOf(n.path, d + 1, texts)
  BY ParamsStep
<1>3. r.params = ParamsOf(n.path, d + 1, texts)
  BY DEF RouteTo
<1>4. CASE e.typ \in {"regexp", "param"}
  <2>1. Bind(e, text, r) = [r EXCEPT !.params = With(@, e.key, text)]
    BY <1>1, <1>4 DEF Bind
  <2>2. Bind(e, text, r) = [r EXCEPT !.params = ParamsOf(n.path, d, texts)]
    BY <1>2, <1>3, <1>4, <2>1
  <2>3. QED
    BY <2>2 DEF RouteTo
<1>5. CASE e.typ \notin {"regexp", "param"}
  BY <1>2, <1>5 DEF Bind, RouteTo
<1>6. QED
  BY <1>4, <1>5

LEMMA TryAnswers ==
  ASSUME NEW tree, IsTree(tree), NEW texts \in Seq(Nat), NEW method, NEW path \in Places(tree),
         NEW c \in Children(tree, path), NEW answer,
         Len(path) < Len(texts) =>
           Answered(tree, Hits(tree, c.path, texts, method), Len(c.path), texts, answer[c.path])
  PROVE  Answered(tree, Via(tree, path, c, texts, method), Len(path), texts, Try(c, texts, method, answer))
<1> DEFINE d == Len(path)
           e == Last(c.path)
           via == Via(tree, path, c, texts, method)
           r == Try(c, texts, method, answer)
           search == Rest(texts, d)
           remain == Rest(texts, d + 1)
<1>1. path \in Seq(Segments) /\ d \in Nat
  BY PlaceFacts
<1>2. /\ Len(c.path) = d + 1 /\ SubSeq(c.path, 1, d) = path /\ e = c.path[d + 1] /\ c \in Range(tree)
      /\ e \in Segments /\ e.typ # "malformed"
  BY <1>1, ChildFacts
<1>3. c.path \in Seq(Segments)
  BY <1>2, TreeNodes
<1>4. r = IF ~Matches(e, search) THEN NotFound
          ELSE IF IsLeaf(e, remain) THEN Found(c, method)
          ELSE Bind(e, Head(search), answer[c.path])
  <2>1. Len(c.path) - 1 = d
    BY <1>1, <1>2
  <2>2. QED
    BY <1>2, <2>1 DEF Try
<1>5. \A n \in Range(tree) :
        /\ n.path \in Seq(Segments) /\ Len(n.path) \in Nat
        /\ n \in via <=>
             /\ d + 1 <= Len(n.path) /\ SubSeq(n.path, 1, d + 1) = c.path
             /\ n.path[d + 1] = e
             /\ method \in n.methods
             /\ Matches(e, search) /\ (IsLeaf(e, remain) <=> d + 1 = Len(n.path))
             /\ \A k \in ((d + 1) + 1)..Len(n.path) : Fits(n.path, k, texts)
  BY ViaFacts, TreeNodes
<1>6. via \subseteq Range(tree)
  BY DEF Via, Hits
<1> HIDE DEF via, r, d, e, search, remain
<1>7. CASE ~Matches(e, search)
  BY <1>4, <1>5, <1>6, <1>7 DEF Answered, via, r, d
<1>8. CASE Matches(e, search) /\ IsLeaf(e, remain)
  <2>1. SubSeq(c.path, 1, d + 1) = c.path /\ \A k \in ((d + 1) + 1)..Len(c.path) : FALSE
    BY <1>1, <1>2, <1>3, PrefixFacts
  <2>2. c \in via <=> method \in c.methods
    BY <1>2, <1>5, <1>8, <2>1
  <2>3. \A n \in via : n = c
    <3>1. SUFFICES ASSUME NEW n \in via PROVE n = c
      OBVIOUS
    <3>2. n \in Range(tree) /\ d + 1 = Len(n.path) /\ SubSeq(n.path, 1, d + 1) = c.path /\ n.path \in Seq(Segments)
      BY <1>5, <1>6, <1>8
    <3>3. n.path = c.path
      BY <1>1, <3>2, PrefixFacts
    <3>4. QED
      BY <1>2, <3>2, <3>3, TreeNodes
  <2>4. r = Found(c, method)
    BY <1>4, <1>8
  <2>5. CASE method \notin c.methods
    <3>1. via = {} /\ r = NotFound
      BY <2>2, <2>3, <2>4, <2>5 DEF Found
    <3>2. QED
      BY <3>1 DEF Answered, via, r
  <2>6. CASE method \in c.methods
    <3>1. e.typ \notin {"regexp", "param"}
      BY <1>8 DEF IsLeaf
    <3>2. ParamsOf(c.path, d, texts) = <<>>
      BY <1>1, <1>2, <1>3, <3>1, NoParams
    <3>3. r = RouteTo(c, d, texts)
      BY <2>4, <2>6, <3>2 DEF Found, RouteTo
    <3>4. via = {c}
      BY <2>2, <2>3, <2>6
    <3>5. Best(tree, via, c)
      BY <3>4 DEF Best
    <3>6. QED
      BY <3>3, <3>4, <3>5 DEF Answered, via, r, d
  <2>7. QED
    BY <2>5, <2>6
<1>9. CASE Matches(e, search) /\ ~IsLeaf(e, remain)
  <2>1. d < Len(texts)
    BY <1>1, <1>2, <1>9, SearchEnds DEF search, remain
  <2> DEFINE below == Hits(tree, c.path, texts, method)
  <2>2. Answered(tree, below, d + 1, texts, answer[c.path])
    BY <1>2, <2>1 DEF d
  <2>3. \A n \in Range(tree) : n \in below <=>
          /\ d + 1 < Len(n.path) /\ SubSeq(n.path, 1, d + 1) = c.path
          /\ method \in n.methods /\ \A k \in ((d + 1) + 1)..Len(n.path) : Fits(n.path, k, texts)
    BY <1>2 DEF Hits, Hit
  <2>4. below \subseteq Range(tree)
    BY DEF Hits
  <2> HIDE DEF below
  <2>5. \A n \in Range(tree) : d + 1 <= Len(n.path) /\ SubSeq(n.path, 1, d + 1) = c.path => n.path[d + 1] = e
    <3>1. SUFFICES ASSUME NEW n \in Range(tree), d + 1 <= Len(n.path), SubSeq(n.path, 1, d + 1) = c.path
                   PROVE n.path[d + 1] = e
      OBVIOUS
    <3>2. d + 1 \in Nat /\ d + 1 \in 1..(d + 1) /\ n.path \in Seq(Segments)
      BY <1>1, <1>5
    <3>3. SubSeq(n.path, 1, d + 1)[d + 1] = n.path[d + 1]
      BY <3>1, <3>2, PrefixFacts
    <3>4. QED
      BY <1>2, <3>1, <3>3
  <2>6. \A n \in Range(tree) : d + 1 < Len(n.path) <=> d + 1 <= Len(n.path) /\ d + 1 # Len(n.path)
    BY <1>1, <1>5
  <2>7. via = below
    BY <1>5, <1>6, <1>9, <2>3, <2>4, <2>5, <2>6
  <2>8. r = Bind(e, Head(search), answer[c.path])
    BY <1>4, <1>9
  <2>9. CASE below = {}
    <3>1. answer[c.path] = NotFound
      BY <2>2, <2>9 DEF Answered
    <3>2. r = NotFound
      BY <2>8, <3>1 DEF Bind
    <3>3. QED
      BY <2>7, <2>9, <3>2 DEF Answered, via, r
  <2>10. CASE below # {}
    <3>1. PICK n \in below : Best(tree, below, n) /\ answer[c.path] = RouteTo(n, d + 1, texts)
      BY <2>2, <2>10 DEF Answered
    <3>2. n \in Range(tree) /\ d + 1 < Len(n.path) /\ n.path[d + 1] = e /\ n.path \in Seq(Segments)
      BY <1>5, <1>6, <2>7, <3>1, <2>3
    <3>3. d < Len(n.path)
      BY <1>1, <1>5, <3>2
    <3>4. Bind(n.path[d + 1], Head(Rest(texts, d)), RouteTo(n, d + 1, texts)) = RouteTo(n, d, texts)
      BY <1>1, <3>2, <3>3, RouteBound
    <3>5. r = RouteTo(n, d, texts)
      BY <2>8, <3>1, <3>2, <3>4 DEF search
    <3>6. QED
      BY <2>7, <3>1, <3>5 DEF Answered, via, r, d
  <2>11. QED
    BY <2>9, <2>10
<1>10. QED
  BY <1>7, <1>8, <1>9

LEMMA SameChild ==
  ASSUME NEW tree, IsTree(tree), NEW path \in Seq(Segments),
         NEW b \in Children(tree, path), NEW c \in Children(tree, path), Last(b.path) = Last(c.path)
  PROVE  b = c
<1> DEFINE d == Len(path)
           p == b.path
           q == c.path
<1>1. /\ b \in Range(tree) /\ Len(p) = d + 1 /\ SubSeq(p, 1, d) = path /\ Last(p) = p[d + 1]
      /\ c \in Range(tree) /\ Len(q) = d + 1 /\ SubSeq(q, 1, d) = path /\ Last(q) = q[d + 1]
  BY ChildFacts
<1>2. p \in Seq(Segments) /\ q \in Seq(Segments) /\ d \in Nat
  BY <1>1, TreeNodes
<1> HIDE DEF p, q, d
<1>3. d <= d + 1
  BY <1>2
<1>4. \A k \in 1..d : p[k] = path[k] /\ q[k] = path[k]
  <2>1. d <= Len(p) /\ d <= Len(q)
    BY <1>1, <1>3
  <2>2. (\A k \in 1..d : SubSeq(p, 1, d)[k] = p[k]) /\ (\A k \in 1..d : SubSeq(q, 1, d)[k] = q[k])
    BY <1>2, <2>1, PrefixFacts
  <2>3. QED
    BY <1>1, <2>2
<1>5. \A k \in 1..(d + 1) : k \in 1..d \/ k = d + 1
  BY <1>2
<1>6. \A k \in 1..Len(p) : p[k] = q[k]
  BY <1>1, <1>4, <1>5 DEF p, q
<1>7. p = q
  BY <1>1, <1>2, <1>6, SamePath
<1>8. QED
  BY <1>1, <1>7, TreeNodes DEF p, q

(* A node that is hit is hit through a child. *)
LEMMA HitThrough ==
  ASSUME NEW tree, IsTree(tree), NEW texts \in Seq(Nat), NEW method, NEW path \in Places(tree),
         NEW n \in Hits(tree, path, texts, method)
  PROVE  \E c \in Children(tree, path) : n \in Via(tree, path, c, texts, method)
<1> DEFINE d == Len(path)
<1>1. path \in Seq(Segments) /\ d \in Nat
  BY PlaceFacts
<1>2. n \in Range(tree) /\ d < Len(n.path) /\ SubSeq(n.path, 1, d) = path
  BY DEF Hits
<1>3. n.path \in Seq(Segments) /\ Len(n.path) \in Nat
  BY <1>2, TreeNodes
<1>4. d + 1 \in 1..Len(n.path) /\ d + 1 \in Nat /\ d + 1 <= Len(n.path) /\ d <= d + 1 /\ (d + 1) - 1 = d
  BY <1>1, <1>2, <1>3
<1>5. PICK c \in Range(tree) : c.path = SubSeq(n.path, 1, d + 1)
  BY <1>2, <1>4, TreeNodes
<1>6. Len(c.path) = d + 1 /\ SubSeq(c.path, 1, d) = path
  BY <1>1, <1>2, <1>3, <1>4, <1>5, PrefixFacts, PrefixOfPrefix
<1>7. Front(c.path) = path
  BY <1>4, <1>6 DEF Front
<1>8. c \in Children(tree, path)
  BY <1>5, <1>6, <1>7 DEF Children
<1>9. QED
  BY <1>5, <1>8 DEF Via

LEMMA ViaGives ==
  ASSUME NEW tree, IsTree(tree), NEW texts \in Seq(Nat), NEW method, NEW path \in Places(tree),
         NEW c \in Children(tree, path), NEW n \in Via(tree, path, c, texts, method)
  PROVE  /\ n \in Range(tree)
         /\ Len(path) + 1 <= Len(n.path) /\ SubSeq(n.path, 1, Len(path) + 1) = c.path
         /\ n.path[Len(path) + 1] = Last(c.path)
<1> DEFINE d == Len(path)
           p == n.path
<1>1. n \in Range(tree) /\ d < Len(p) /\ SubSeq(p, 1, d + 1) = c.path
  BY DEF Via, Hits
<1>2. path \in Seq(Segments) /\ d \in Nat
  BY PlaceFacts
<1>3. p \in Seq(Segments) /\ Len(p) \in Nat
  BY <1>1, TreeNodes
<1>4. Last(c.path) = c.path[d + 1]
  BY <1>2, ChildFacts
<1> HIDE DEF d, p
<1>5. d + 1 \in Nat /\ d + 1 <= Len(p) /\ d + 1 \in 1..(d + 1)
  BY <1>1, <1>2, <1>3
<1>6. SubSeq(p, 1, d + 1)[d + 1] = p[d + 1]
  BY <1>3, <1>5, PrefixFacts
<1>7. p[d + 1] = Last(c.path)
  BY <1>1, <1>4, <1>6
<1>8. QED
  BY <1>1, <1>5, <1>7 DEF d, p

LEMMA BelowAnswers ==
  ASSUME NEW tree, IsTree(tree), NEW texts \in Seq(Nat), NEW method, NEW path \in Places(tree), NEW answer,
         Len(path) < Len(texts) =>
           \A c \in Children(tree, path) :
             Answered(tree, Hits(tree, c.path, texts, method), Len(c.path), texts, answer[c.path])
  PROVE  Answered(tree, Hits(tree, path, texts, method), Len(path), texts,
                  FindBelow(tree, path, texts, method, answer))
<1> DEFINE d == Len(path)
           hits == Hits(tree, path, texts, method)
           via(c) == Via(tree, path, c, texts, method)
           try(c) == Try(c, texts, method, answer)
           some == {c \in Children(tree, path) : try(c) # NotFound}
           f == First(tree, some)
           r == FindBelow(tree, path, texts, method, answer)
<1>1. path \in Seq(Segments) /\ d \in Nat
  BY PlaceFacts
<1>2. r = IF some = {} THEN NotFound ELSE try(f)
  BY DEF FindBelow
<1>3. \A c \in Children(tree, path) : Answered(tree, via(c), d, texts, try(c))
  BY TryAnswers
<1>4. \A n : RouteTo(n, d, texts) # NotFound
  <2>1. \A n : RouteTo(n, d, texts).status = "found" /\ NotFound.status = "notFound"
    BY DEF RouteTo, NotFound
  <2>2. QED
    BY <2>1
<1>5. \A c \in Children(tree, path) : try(c) # NotFound <=> via(c) # {}
  <2> HIDE DEF via, try, d
  <2>1. QED
    BY <1>3, <1>4 DEF Answered
<1>6. \A n \in hits : \E c \in Children(tree, path) : n \in via(c)
  BY HitThrough
<1>7. \A c : via(c) \subseteq hits
  BY DEF Via
<1>10. \A c \in Children(tree, path) : \A m \in via(c) :
         d + 1 <= Len(m.path) /\ SubSeq(m.path, 1, d + 1) = c.path /\ m.path[d + 1] = Last(c.path)
  BY ViaGives
<1>8. CASE some = {}
  <2>1. hits = {}
    <3> HIDE DEF hits, via, try
    <3>1. QED
      BY <1>5, <1>6, <1>8
  <2>2. QED
    BY <1>2, <1>8, <2>1 DEF Answered
<1>9. CASE some # {}
  <2>1. f \in some /\ \A c \in some \ {f} : Precedes(tree, f, c)
    <3>1. some \in SUBSET Children(tree, path)
      OBVIOUS
    <3> HIDE DEF some
    <3>2. QED
      BY <1>1, <1>9, <3>1, FirstFacts
  <2>2. f \in Children(tree, path) /\ try(f) # NotFound
    BY <2>1
  <2>3. PICK n \in via(f) : Best(tree, via(f), n) /\ try(f) = RouteTo(n, d, texts)
    <3> HIDE DEF f, via, try, d
    <3>1. via(f) # {}
      BY <1>5, <2>2
    <3>2. QED
      BY <1>3, <2>2, <3>1 DEF Answered
  <2>4. ASSUME NEW m \in hits, m # n PROVE Ahead(tree, n.path, m.path)
    <3>1. PICK c \in Children(tree, path) : m \in via(c)
      BY <1>6
    <3>2. CASE c = f
      BY <2>3, <2>4, <3>1, <3>2 DEF Best
    <3>3. CASE c # f
      <4>1. Precedes(tree, f, c)
        <5>1. try(c) # NotFound
          <6> HIDE DEF via, try
          <6>1. QED
            BY <1>5, <3>1
        <5>2. c \in some
          BY <5>1
        <5> HIDE DEF some, f
        <5>3. QED
          BY <2>1, <3>3, <5>2
      <4>2. Sooner(tree, f.path, c.path)
        <5> HIDE DEF f
        <5>1. QED
          BY <4>1 DEF Precedes, Sooner
      <4>3. m \in Range(tree) /\ n \in Range(tree)
        BY <2>3, <2>4, <1>7 DEF Hits
      <4>4. /\ d + 1 <= Len(n.path) /\ SubSeq(n.path, 1, d + 1) = f.path /\ n.path[d + 1] = Last(f.path)
        <5> HIDE DEF f
        <5>1. QED
          BY <2>2, <2>3, ViaGives
      <4>5. /\ d + 1 <= Len(m.path) /\ SubSeq(m.path, 1, d + 1) = c.path /\ m.path[d + 1] = Last(c.path)
        BY <1>10, <3>1
      <4>6. SubSeq(n.path, 1, d) = path /\ SubSeq(m.path, 1, d) = path
        BY <2>3, <2>4, <1>7 DEF Hits
      <4>7. Last(f.path) # Last(c.path)
        <5> HIDE DEF f
        <5>1. QED
          BY <1>1, <2>2, <3>3, SameChild
      <4>8. d + 1 \in Nat /\ d + 1 \in 1..Len(n.path) /\ (d + 1) - 1 = d
        <5>1. Len(n.path) \in Nat
          BY <4>3, TreeNodes
        <5>2. QED
          BY <1>1, <4>4, <5>1
      <4> HIDE DEF f, d
      <4>9. Part(n.path, m.path, d + 1)
        BY <4>4, <4>5, <4>6, <4>7, <4>8 DEF Part
      <4>10. QED
        BY <4>2, <4>4, <4>5, <4>8, <4>9 DEF Ahead
    <3>4. QED
      BY <3>2, <3>3
  <2>5. n \in hits
    BY <1>7, <2>3
  <2>6. Best(tree, hits, n)
    <3> HIDE DEF hits
    <3>1. QED
      BY <2>4, <2>5 DEF Best
  <2>7. r = RouteTo(n, d, texts)
    BY <1>2, <1>9, <2>3
  <2> HIDE DEF hits, r, d
  <2>8. Answered(tree, hits, d, texts, r)
    BY <2>5, <2>6, <2>7 DEF Answered
  <2>9. QED
    BY <2>8 DEF hits, r, d
<1>11. QED
  BY <1>8, <1>9

(* The search finds the first of the nodes that are hit, at every path.     *)
LEMMA SearchAnswers ==
  ASSUME NEW tree, IsTree(tree), NEW texts \in Seq(Nat), NEW method,
         NEW answer, Searched(tree, texts, method, answer), NEW place \in Places(tree)
  PROVE  Answered(tree, Hits(tree, place, texts, method), Len(place), texts, answer[place])
<1> DEFINE Right(path) == Answered(tree, Hits(tree, path, texts, method), Len(path), texts, answer[path])
           Wrong == {Rank(texts, path) : path \in {p \in Places(tree) : ~Right(p)}}
<1>1. \A path \in Places(tree) : Rank(texts, path) \in Nat
  BY PlaceFacts
<1>2. \A path \in Places(tree) : answer[path] = FindBelow(tree, path, texts, method, answer)
  BY DEF Searched
<1>3. \A path \in Places(tree) :
        (Len(path) < Len(texts) => \A c \in Children(tree, path) : Right(c.path)) => Right(path)
  BY <1>2, BelowAnswers
<1>4. \A path \in Places(tree) : \A c \in Children(tree, path) :
        /\ c.path \in Places(tree)
        /\ Len(path) < Len(texts) => Rank(texts, c.path) < Rank(texts, path)
  BY PlaceFacts, ChildFacts
<1> HIDE DEF Right
<1>5. SUFFICES ASSUME Wrong # {} PROVE FALSE
  BY DEF Right
<1>6. Wrong \in SUBSET Nat
  BY <1>1
<1>7. PICK w \in Wrong : \A v \in Wrong : w <= v
  <2> HIDE DEF Wrong
  <2>1. QED
    BY <1>5, <1>6, Smallest
<1>8. PICK path \in Places(tree) : ~Right(path) /\ w = Rank(texts, path)
  BY <1>7
<1>9. PICK c \in Children(tree, path) : Len(path) < Len(texts) /\ ~Right(c.path)
  BY <1>3, <1>8
<1>10. c.path \in Places(tree) /\ Rank(texts, c.path) < w
  BY <1>4, <1>8, <1>9
<1>11. Rank(texts, c.path) \in Wrong
  BY <1>9, <1>10
<1>12. w \in Nat /\ Rank(texts, c.path) \in Nat /\ w <= Rank(texts, c.path)
  BY <1>1, <1>6, <1>7, <1>10, <1>11
<1>13. QED
  BY <1>10, <1>12

-----------------------------------------------------------------------------
(* What RouteOf returns: the first of the nodes the texts of the request    *)
(* hit.                                                                     *)
LEMMA TrimFacts ==
  ASSUME NEW request \in Seq(Nat)
  PROVE  /\ TrimLeft(request) \in Seq(Nat) /\ Len(TrimLeft(request)) \in Nat \ {0}
         /\ TrimLeft(request) # <<Empty>> => TrimLeft(request)[1] # Empty
<1> DEFINE T == {k \in DOMAIN request : request[k] # Empty}
           first == CHOOSE k \in T : \A j \in T : k <= j
<1>1. TrimLeft(request) = IF T = {} THEN <<Empty>> ELSE SubSeq(request, first, Len(request))
  BY DEF TrimLeft
<1>2. CASE T = {}
  <2>1. TrimLeft(request) = <<0>>
    BY <1>1, <1>2 DEF Empty
  <2>2. <<0>> \in Seq(Nat) /\ Len(<<0>>) = 1
    OBVIOUS
  <2>3. QED
    BY <2>1, <2>2 DEF Empty
<1>3. CASE T # {}
  <2>1. T \in SUBSET Nat /\ DOMAIN request = 1..Len(request)
    OBVIOUS
  <2>2. \E k \in T : \A j \in T : k <= j
    <3> HIDE DEF T
    <3>1. QED
      BY <1>3, <2>1, Smallest
  <2>3. first \in T
    BY <2>2
  <2>4. first \in 1..Len(request) /\ request[first] # Empty
    BY <2>1, <2>3
  <2>5. TrimLeft(request) = SubSeq(request, first, Len(request))
    BY <1>1, <1>3
  <2> HIDE DEF T, first
  <2>6. /\ SubSeq(request, first, Len(request)) \in Seq(Nat)
        /\ Len(SubSeq(request, first, Len(request))) = Len(request) - first + 1
        /\ SubSeq(request, first, Len(request))[1] = request[first]
    BY <2>4
  <2>7. Len(request) - first + 1 \in Nat \ {0}
    BY <2>4
  <2>8. QED
    BY <2>4, <2>5, <2>6, <2>7
<1>4. QED
  BY <1>2, <1>3

HitBy(tree, request, method) == Hits(tree, <<>>, TrimLeft(request), method)

LEMMA RouteAnswers ==
  ASSUME NEW tree, IsTree(tree), NEW request \in Seq(Nat), NEW method
  PROVE  Answered(tree, HitBy(tree, request, method), 0, TrimLeft(request), RouteOf(tree, request, method))
<1> DEFINE texts == TrimLeft(request)
<1>1. texts \in Seq(Nat)
  BY TrimFacts
<1>2. PICK g : Searched(tree, texts, method, g) /\ RouteOf(tree, request, method) = g[<<>>]
  BY <1>1, RouteIsAnswer
<1>3. <<>> \in Places(tree) /\ Len(<<>>) = 0
  BY DEF Places
<1> HIDE DEF texts
<1>4. Answered(tree, Hits(tree, <<>>, texts, method), Len(<<>>), texts, g[<<>>])
  BY <1>1, <1>2, <1>3, SearchAnswers
<1>5. QED
  BY <1>2, <1>3, <1>4 DEF HitBy, texts

LEMMA HitNodes ==
  ASSUME NEW tree, IsTree(tree), NEW request, NEW method
  PROVE  HitBy(tree, request, method) =
           {n \in Range(tree) : Hit(n, 0, TrimLeft(request), method)}
<1>1. \A n \in Range(tree) : Len(<<>>) = 0 /\ Len(<<>>) < Len(n.path) /\ SubSeq(n.path, 1, 0) = <<>>
  <2>1. SUFFICES ASSUME NEW n \in Range(tree)
                 PROVE Len(<<>>) = 0 /\ Len(<<>>) < Len(n.path) /\ SubSeq(n.path, 1, 0) = <<>>
    OBVIOUS
  <2>2. n.path \in Seq(Segments) /\ Len(n.path) \in Nat \ {0}
    BY TreeNodes
  <2>3. QED
    BY <2>2
<1>2. QED
  BY <1>1 DEF HitBy, Hits

(* TypeOK, of every document and request. *)
LEMMA AnswerStatus ==
  ASSUME TreeInv, NEW request \in Requests, NEW method
  PROVE  FindRoute(request, method).status \in {"notFound", "badRequest", "found"}
<1>1. IsTree(nodes) /\ request \in Seq(Nat)
  BY RequestsAssumption DEF TreeInv, TypeInv
<1> DEFINE r == RouteOf(nodes, request, method)
<1>2. Answered(nodes, HitBy(nodes, request, method), 0, TrimLeft(request), r)
  BY <1>1, RouteAnswers
<1>3. r.status \in {"notFound", "found"}
  BY <1>2 DEF Answered, RouteTo, NotFound
<1>4. QED
  BY <1>3 DEF FindRoute

LEMMA TypeFollows == TreeInv /\ ServedInv => TypeOK
<1>1. SUFFICES ASSUME TreeInv, ServedInv PROVE TypeOK
  OBVIOUS
<1>2. TypeInv /\ IsTree(nodes) /\ nodes \in Seq(NodeSet) /\ Distinct(nodes)
  BY <1>1 DEF TreeInv, TypeInv, IsTree
<1>3. doc \in Seq(Items) /\ next \in 1..(Len(doc) + 1)
  BY <1>2, DocumentsAssumption DEF TypeInv
<1>4. ASSUME NEW i \in DOMAIN nodes
      PROVE /\ nodes[i].methods \subseteq Methods
            /\ {nodes[i].owner, nodes[i].pattern} \subseteq 0..Len(doc)
            /\ IndexOf(nodes, nodes[i].path) = i
  <2>1. nodes[i] \in NodeSet
    BY <1>2
  <2>2. \A j \in Inserted : j \in 0..Len(doc)
    BY <1>3 DEF Inserted
  <2>3. 0 \in 0..Len(doc)
    BY <1>3
  <2>4. nodes[i].owner \in 0..Len(doc) /\ nodes[i].pattern \in 0..Len(doc)
    BY <1>1, <2>2, <2>3 DEF TreeInv, OwnerInv
  <2>5. QED
    BY <1>2, <2>1, <2>4, IndexIsTheAge DEF NodeSet
<1>5. served.answer.status \in {"none", "notFound", "badRequest", "found"}
  BY <1>1, AnswerStatus DEF ServedInv
<1>6. QED
  BY <1>2, <1>4, <1>5 DEF TypeOK, TypeInv

(* TypeOK: a node stands in the tree at its age, its operations are those   *)
(* of the document's items, and every lookup ends with an answer.           *)
THEOREM TypeCorrect == Spec => []TypeOK
<1>1. QED
  BY TypeFollows, TreeAlways, PTL

-----------------------------------------------------------------------------
(* The order of the nodes.                                                  *)
LEMMA PartOnce ==
  ASSUME NEW p \in Seq(Segments), NEW q \in Seq(Segments), NEW k, NEW l, Part(p, q, k), Part(q, p, l)
  PROVE  k = l
<1>1. /\ k \in 1..Len(p) /\ k <= Len(q) /\ SubSeq(p, 1, k - 1) = SubSeq(q, 1, k - 1) /\ p[k] # q[k]
      /\ l \in 1..Len(q) /\ l <= Len(p) /\ SubSeq(q, 1, l - 1) = SubSeq(p, 1, l - 1) /\ q[l] # p[l]
  BY DEF Part
<1>2. ASSUME k < l PROVE FALSE
  <2>1. l - 1 \in Nat /\ l - 1 <= Len(p) /\ l - 1 <= Len(q) /\ k \in 1..(l - 1)
    BY <1>1, <1>2
  <2>2. SubSeq(p, 1, l - 1)[k] = p[k] /\ SubSeq(q, 1, l - 1)[k] = q[k]
    BY <2>1, PrefixFacts
  <2>3. QED
    BY <1>1, <2>2
<1>3. ASSUME l < k PROVE FALSE
  <2>1. k - 1 \in Nat /\ k - 1 <= Len(p) /\ k - 1 <= Len(q) /\ l \in 1..(k - 1)
    BY <1>1, <1>3
  <2>2. SubSeq(p, 1, k - 1)[l] = p[l] /\ SubSeq(q, 1, k - 1)[l] = q[l]
    BY <2>1, PrefixFacts
  <2>3. QED
    BY <1>1, <2>2
<1>4. k \in Nat /\ l \in Nat
  BY <1>1
<1>5. QED
  BY <1>2, <1>3, <1>4

LEMMA SoonerFacts ==
  ASSUME NEW tree, IsTree(tree), NEW m \in Range(tree), NEW n \in Range(tree),
         Sooner(tree, m.path, n.path)
  PROVE  ~Sooner(tree, n.path, m.path)
<1>1. /\ Group(Last(m.path)) \in Nat /\ Last(m.path).key \in Nat /\ IndexOf(tree, m.path) \in Nat
      /\ Group(Last(n.path)) \in Nat /\ Last(n.path).key \in Nat /\ IndexOf(tree, n.path) \in Nat
  <2>1. \A x \in Range(tree) :
          Last(x.path) \in Segments /\ Last(x.path).typ # "malformed" /\ IndexOf(tree, x.path) \in Nat
    BY TreeNodes DEF Last, IsTree
  <2>2. QED
    BY <2>1, GroupFacts, SegmentFacts
<1>2. QED
  BY <1>1 DEF Sooner

LEMMA AheadAsymmetric ==
  ASSUME NEW tree, IsTree(tree), NEW m \in Range(tree), NEW n \in Range(tree),
         Ahead(tree, m.path, n.path)
  PROVE  ~Ahead(tree, n.path, m.path)
<1>1. SUFFICES ASSUME Ahead(tree, n.path, m.path) PROVE FALSE
  OBVIOUS
<1>2. PICK k \in Nat : Part(m.path, n.path, k) /\ Sooner(tree, SubSeq(m.path, 1, k), SubSeq(n.path, 1, k))
  BY DEF Ahead
<1>3. PICK l \in Nat : Part(n.path, m.path, l) /\ Sooner(tree, SubSeq(n.path, 1, l), SubSeq(m.path, 1, l))
  BY <1>1 DEF Ahead
<1>4. m.path \in Seq(Segments) /\ n.path \in Seq(Segments)
  BY TreeNodes
<1>5. l = k
  BY <1>2, <1>3, <1>4, PartOnce
<1>6. k \in 1..Len(m.path) /\ k \in 1..Len(n.path)
  BY <1>2, <1>4 DEF Part
<1>7. PICK x \in Range(tree) : x.path = SubSeq(m.path, 1, k)
  BY <1>6, TreeNodes
<1>8. PICK y \in Range(tree) : y.path = SubSeq(n.path, 1, k)
  BY <1>6, TreeNodes
<1>9. QED
  BY <1>2, <1>3, <1>5, <1>7, <1>8, SoonerFacts

-----------------------------------------------------------------------------
(* What an insertion leaves alone.                                          *)

(* No document has the path of a static leaf twice, with operations: the    *)
(* one thing InsertRoute does not check.                                    *)
NoTwins ==
  \A d \in Documents : \A i, j \in 1..Len(d) :
    i < j /\ d[i].methods # {} /\ d[j].methods # {} /\ LeafPath(d[i]) = LeafPath(d[j])
    => Last(LeafPath(d[i])).typ # "static" \/ Last(LeafPath(d[i])) = End

LEMMA OwnLeaf ==
  ASSUME NoTwins, TypeInv, NoSharedLeaf,
         NEW i \in Inserted, NEW j \in Inserted, doc[i].methods # {}, doc[j].methods # {},
         LeafPath(doc[i]) = LeafPath(doc[j])
  PROVE  i = j
<1>1. doc \in Documents /\ doc \in Seq(Items) /\ next \in 1..(Len(doc) + 1)
  BY DocumentsAssumption DEF TypeInv
<1>2. i \in 1..Len(doc) /\ j \in 1..Len(doc)
  BY <1>1 DEF Inserted
<1>3. ~(i < j)
  BY <1>1, <1>2 DEF NoTwins, NoSharedLeaf, Inserted
<1>4. ~(j < i)
  BY <1>1, <1>2 DEF NoTwins, NoSharedLeaf, Inserted
<1>5. QED
  BY <1>2, <1>3, <1>4

LEMMA HitsGrow ==
  ASSUME NoTwins, TreeInv, NoSharedLeaf, InsertRoute, NEW request, NEW method
  PROVE  /\ HitBy(nodes, request, method) \subseteq HitBy(nodes', request, method)
         /\ \A n \in HitBy(nodes', request, method) : n.owner = next \/ n \in HitBy(nodes, request, method)
<1>1. TypeInv /\ OwnerInv /\ IsTree(nodes) /\ IsTree(nodes')
  BY TreeStep DEF TreeInv, TypeInv
<1>2. /\ doc' = doc /\ Inserted' = Inserted \cup {next} /\ next \notin Inserted
      /\ TypeInv' /\ NoSharedLeaf'
  <2>1. [Next]_vars
    BY DEF Next
  <2>2. TreeInv' /\ NoSharedLeaf'
    BY <2>1, SharedNext, InsertStep
  <2>3. QED
    BY <1>1, <2>2, InsertFrame DEF TreeInv
<1>3. \A i \in DOMAIN nodes : i \in DOMAIN nodes' /\ nodes'[i].path = nodes[i].path
  BY <1>1, InsertedNodes
<1>4. ASSUME NEW i \in DOMAIN nodes, nodes[i].methods # {}
      PROVE  nodes'[i] = nodes[i]
  <2>1. /\ nodes[i].owner \in Inserted /\ LeafPath(doc[nodes[i].owner]) = nodes[i].path
        /\ doc[nodes[i].owner].methods # {}
    BY <1>1, <1>4 DEF OwnerInv
  <2>2. ~(nodes[i].path = LeafPath(doc[next]) /\ doc[next].methods # {})
    <3>1. SUFFICES ASSUME nodes[i].path = LeafPath(doc[next]), doc[next].methods # {} PROVE FALSE
      OBVIOUS
    <3> DEFINE o == nodes[i].owner
    <3>2. o \in Inserted /\ LeafPath(doc[o]) = LeafPath(doc[next]) /\ doc[o].methods # {}
      BY <2>1, <3>1
    <3> HIDE DEF o
    <3>3. o < next /\ o \in 1..(next' - 1) /\ next \in 1..(next' - 1)
      BY <1>1, <3>2, InsertFrame DEF Inserted
    <3>4. Last(LeafPath(doc[o])).typ = "static" /\ Last(LeafPath(doc[o])) # End
      BY <1>2, <3>1, <3>2, <3>3 DEF NoSharedLeaf
    <3>5. doc \in Documents /\ o \in 1..Len(doc) /\ next \in 1..Len(doc)
      <4>1. doc \in Documents /\ doc \in Seq(Items) /\ next \in 1..Len(doc)
        BY <1>1, InsertShape, DocumentsAssumption DEF TypeInv
      <4>2. QED
        BY <3>3, <4>1
    <3>6. QED
      BY <3>1, <3>2, <3>3, <3>4, <3>5 DEF NoTwins
  <2>3. QED
    BY <1>1, <1>3, <2>2, MethodsStep
<1>5. ASSUME NEW i \in DOMAIN nodes', nodes'[i].methods # {}, nodes'[i].owner # next
      PROVE  i \in DOMAIN nodes /\ nodes'[i] = nodes[i]
  BY <1>1, <1>5, MethodsStep
<1>6. \A tree : IsTree(tree) => HitBy(tree, request, method) =
         {n \in Range(tree) : Hit(n, 0, TrimLeft(request), method)}
  BY HitNodes
<1>7. \A n : Hit(n, 0, TrimLeft(request), method) => n.methods # {}
  BY DEF Hit
<1>8. ASSUME NEW n \in HitBy(nodes, request, method) PROVE n \in HitBy(nodes', request, method)
  <2>1. n \in Range(nodes) /\ Hit(n, 0, TrimLeft(request), method)
    BY <1>1, <1>6
  <2>2. PICK i \in DOMAIN nodes : nodes[i] = n
    BY <2>1 DEF Range
  <2>3. i \in DOMAIN nodes' /\ nodes'[i] = n
    BY <1>3, <1>4, <1>7, <2>1, <2>2
  <2>4. n \in Range(nodes')
    BY <2>3 DEF Range
  <2>5. QED
    BY <1>1, <1>6, <2>1, <2>4
<1>9. ASSUME NEW n \in HitBy(nodes', request, method), n.owner # next PROVE n \in HitBy(nodes, request, method)
  <2>1. n \in Range(nodes') /\ Hit(n, 0, TrimLeft(request), method)
    BY <1>1, <1>6
  <2>2. PICK i \in DOMAIN nodes' : nodes'[i] = n
    BY <2>1 DEF Range
  <2>3. i \in DOMAIN nodes /\ nodes[i] = n
    BY <1>5, <1>7, <1>9, <2>1, <2>2
  <2>4. n \in Range(nodes)
    BY <2>3 DEF Range
  <2>5. QED
    BY <1>1, <1>6, <2>1, <2>4
<1>10. QED
  BY <1>8, <1>9

LEMMA AheadStays ==
  ASSUME TypeInv, InsertRoute, NEW m \in Range(nodes), NEW n \in Range(nodes), Ahead(nodes', m.path, n.path)
  PROVE  Ahead(nodes, m.path, n.path)
<1>1. IsTree(nodes) /\ IsTree(nodes')
  BY TreeStep DEF TypeInv
<1>2. ASSUME NEW x \in Range(nodes) PROVE IndexOf(nodes', x.path) = IndexOf(nodes, x.path)
  <2>1. PICK i \in DOMAIN nodes : nodes[i] = x
    BY DEF Range
  <2>2. i \in DOMAIN nodes' /\ nodes'[i].path = x.path
    BY <2>1, InsertedNodes
  <2>3. IndexOf(nodes, nodes[i].path) = i
    BY <1>1, IndexIsTheAge DEF IsTree
  <2>4. IndexOf(nodes', nodes'[i].path) = i
    BY <1>1, <2>2, IndexIsTheAge DEF IsTree
  <2>5. QED
    BY <2>1, <2>2, <2>3, <2>4
<1>3. PICK k \in Nat : Part(m.path, n.path, k) /\ Sooner(nodes', SubSeq(m.path, 1, k), SubSeq(n.path, 1, k))
  BY DEF Ahead
<1>4. m.path \in Seq(Segments) /\ n.path \in Seq(Segments)
  BY <1>1, TreeNodes
<1>5. k \in 1..Len(m.path) /\ k \in 1..Len(n.path)
  BY <1>3, <1>4 DEF Part
<1>6. PICK x \in Range(nodes) : x.path = SubSeq(m.path, 1, k)
  BY <1>1, <1>5, TreeNodes
<1>7. PICK y \in Range(nodes) : y.path = SubSeq(n.path, 1, k)
  BY <1>1, <1>5, TreeNodes
<1>8. Sooner(nodes, x.path, y.path)
  BY <1>2, <1>3, <1>6, <1>7 DEF Sooner
<1>9. QED
  BY <1>3, <1>6, <1>7, <1>8 DEF Ahead

LEMMA RouteStays ==
  ASSUME NoTwins, TreeInv, NoSharedLeaf, InsertRoute, NEW request \in Requests, NEW method \in Methods,
         RouteOf(nodes, request, method) # NotFound
  PROVE  \/ RouteOf(nodes', request, method) = RouteOf(nodes, request, method)
         \/ /\ RouteOf(nodes', request, method) # NotFound
            /\ RouteOf(nodes', request, method).owner = next
<1> DEFINE hits == HitBy(nodes, request, method)
           hits2 == HitBy(nodes', request, method)
           texts == TrimLeft(request)
           old == RouteOf(nodes, request, method)
           new == RouteOf(nodes', request, method)
<1>1. TypeInv /\ IsTree(nodes) /\ IsTree(nodes') /\ request \in Seq(Nat)
  BY TreeStep, RequestsAssumption DEF TreeInv, TypeInv
<1>2. Answered(nodes, hits, 0, texts, old) /\ Answered(nodes', hits2, 0, texts, new)
  BY <1>1, RouteAnswers
<1>3. hits \subseteq hits2 /\ \A n \in hits2 : n.owner = next \/ n \in hits
  BY HitsGrow
<1>4. hits \subseteq Range(nodes) /\ hits2 \subseteq Range(nodes')
  BY <1>1, HitNodes
<1> HIDE DEF hits, hits2, texts, old, new
<1>5. old # NotFound
  BY DEF old
<1>6. PICK n \in hits : Best(nodes, hits, n) /\ old = RouteTo(n, 0, texts)
  BY <1>2, <1>5 DEF Answered
<1>7. PICK m \in hits2 : Best(nodes', hits2, m) /\ new = RouteTo(m, 0, texts)
  BY <1>2, <1>3, <1>6 DEF Answered
<1>8. new # NotFound /\ new.owner = m.owner
  <2>1. new.status = "found" /\ NotFound.status = "notFound"
    BY <1>7 DEF RouteTo, NotFound
  <2>2. new.owner = m.owner
    BY <1>7 DEF RouteTo
  <2>3. QED
    BY <2>1, <2>2
<1>9. CASE m.owner = next
  BY <1>8, <1>9 DEF new
<1>10. CASE m.owner # next
  <2>1. m \in hits
    BY <1>3, <1>10
  <2>2. m = n
    <3>1. SUFFICES ASSUME m # n PROVE FALSE
      OBVIOUS
    <3>2. Ahead(nodes, n.path, m.path)
      BY <1>6, <2>1, <3>1 DEF Best
    <3>3. Ahead(nodes', m.path, n.path)
      BY <1>3, <1>6, <1>7, <3>1 DEF Best
    <3>4. Ahead(nodes, m.path, n.path)
      BY <1>1, <1>4, <1>6, <2>1, <3>3, AheadStays
    <3>5. QED
      BY <1>1, <1>4, <1>6, <2>1, <3>2, <3>4, AheadAsymmetric
  <2>3. QED
    BY <1>6, <1>7, <2>2 DEF old, new
<1>11. QED
  BY <1>9, <1>10

(* InsertionKeepsRoutes, of every document without twins: inserting a path  *)
(* never takes a request away from the path that had it, except in favour   *)
(* of the new one.                                                          *)
THEOREM RoutesAreKept ==
  ASSUME NoTwins
  PROVE  Spec => InsertionKeepsRoutes
<1>1. ASSUME TreeInv, NoSharedLeaf, [Next]_vars, next' = next + 1,
             NEW request \in Requests, NEW method \in Methods, RouteOf(nodes, request, method) # NotFound
      PROVE  \/ RouteOf(nodes', request, method) = RouteOf(nodes, request, method)
             \/ /\ RouteOf(nodes', request, method) # NotFound
                /\ RouteOf(nodes', request, method).owner = next
  <2>1. InsertRoute
    <3>1. next \in Nat
      <4>1. doc \in Seq(Items) /\ next \in 1..(Len(doc) + 1)
        BY <1>1, DocumentsAssumption DEF TreeInv, TypeInv
      <4>2. QED
        BY <4>1
    <3>2. SUFFICES ASSUME ~InsertRoute PROVE FALSE
      OBVIOUS
    <3>3. next' = next
      BY <1>1, <3>2, QuietSteps
    <3>4. QED
      BY <1>1, <3>1, <3>3
  <2>2. QED
    BY <1>1, <2>1, RouteStays
<1>2. TreeInv /\ NoSharedLeaf /\ [Next]_vars =>
        [next' = next + 1 =>
           \A request \in Requests, method \in Methods :
             LET old == RouteOf(nodes, request, method)
                 new == RouteOf(nodes', request, method)
             IN  old # NotFound => new = old \/ (new # NotFound /\ new.owner = next)]_vars
  BY <1>1
<1>3. QED
  BY <1>2, TreeAlways, LeavesAreNotShared, PTL DEF Spec, InsertionKeepsRoutes

-----------------------------------------------------------------------------
(* A request without doubled slashes: what is left of it behind its texts,  *)
(* with or without a trailing slash, is the empty text.                     *)
Split(full, texts) ==
  /\ texts \in Seq(Nat)
  /\ \A k \in Nat :
       /\ Rest(full, k) = <<Empty>> <=> k >= Len(texts)
       /\ k < Len(texts) => Head(Rest(full, k)) = texts[k + 1] /\ texts[k + 1] # 0
       /\ k >= Len(texts) => Head(Rest(full, k)) = 0

LEMMA TextPrefix ==
  ASSUME NEW p \in Seq(Nat), NEW k \in Nat, k <= Len(p)
  PROVE  /\ SubSeq(p, 1, k) \in Seq(Nat) /\ Len(SubSeq(p, 1, k)) = k
         /\ \A j \in 1..k : SubSeq(p, 1, k)[j] = p[j]
<1>1. SubSeq(p, 1, k) \in Seq(Nat)
  OBVIOUS
<1>2. Len(SubSeq(p, 1, k)) = k
  OBVIOUS
<1>3. \A j \in 1..k : SubSeq(p, 1, k)[j] = p[j]
  OBVIOUS
<1>4. QED
  BY <1>1, <1>2, <1>3

LEMMA SplitTexts ==
  ASSUME NEW full \in Seq(Nat), Len(full) \in Nat \ {0},
         Empty \notin Range(WithoutSlash(full, Empty))
  PROVE  Split(full, WithoutSlash(full, Empty))
<1> DEFINE texts == WithoutSlash(full, Empty)
           n == Len(full)
<1>1. n \in Nat \ {0} /\ full # <<>> /\ Last(full) = full[n]
  BY DEF Last
<1>2. CASE full[n] = 0
  <2>1. texts = SubSeq(full, 1, n - 1)
    BY <1>1, <1>2 DEF WithoutSlash, Empty, Front
  <2> HIDE DEF texts
  <2>2. n - 1 \in Nat /\ texts \in Seq(Nat) /\ Len(texts) = n - 1 /\ \A j \in 1..(n - 1) : texts[j] = full[j]
    <3>1. n - 1 \in Nat /\ n - 1 <= Len(full)
      BY <1>1
    <3> HIDE DEF n
    <3>2. QED
      BY <2>1, <3>1, TextPrefix
  <2>3. \A j \in 1..(n - 1) : texts[j] # 0
    <3>1. \A j \in 1..(n - 1) : texts[j] \in Range(texts)
      BY <2>2 DEF Range
    <3>2. Empty \notin Range(texts)
      BY DEF texts
    <3>3. QED
      BY <3>1, <3>2 DEF Empty
  <2>4. ASSUME NEW k \in Nat
        PROVE  /\ Rest(full, k) = <<Empty>> <=> k >= n - 1
               /\ k < n - 1 => Head(Rest(full, k)) = texts[k + 1] /\ texts[k + 1] # 0
               /\ k >= n - 1 => Head(Rest(full, k)) = 0
    <3>1. CASE k < n - 1
      <4>1. k < n /\ k + 1 # n /\ k + 1 \in 1..(n - 1) /\ ~(k >= n - 1)
        BY <1>1, <3>1
      <4>2. Rest(full, k) # <<Empty>> /\ Head(Rest(full, k)) = full[k + 1]
        BY <4>1, RestFacts
      <4>3. QED
        BY <2>2, <2>3, <3>1, <4>1, <4>2
    <3>2. CASE k >= n - 1
      <4>1. ~(k < n - 1)
        BY <1>1, <3>2
      <4>2. Rest(full, k) = <<Empty>>
        <5>1. CASE k >= n
          BY <5>1, RestFacts
        <5>2. CASE k < n
          <6>1. k + 1 = n
            BY <1>1, <3>2, <5>2
          <6>2. QED
            BY <1>2, <5>2, <6>1, RestFacts
        <5>3. QED
          BY <1>1, <5>1, <5>2
      <4>3. Head(<<Empty>>) = 0
        BY DEF Empty
      <4>4. QED
        BY <3>2, <4>1, <4>2, <4>3
    <3>3. QED
      BY <1>1, <3>1, <3>2
  <2>5. Split(full, texts)
    BY <2>2, <2>4 DEF Split
  <2>6. QED
    BY <2>5 DEF texts
<1>3. CASE full[n] # 0
  <2>1. texts = full
    BY <1>1, <1>3 DEF WithoutSlash, Empty
  <2>2. \A j \in 1..n : full[j] # 0
    <3>1. \A j \in 1..n : full[j] \in Range(full)
      BY DEF Range
    <3>2. Empty \notin Range(full)
      BY <2>1
    <3>3. QED
      BY <3>1, <3>2 DEF Empty
  <2> HIDE DEF texts
  <2>3. ASSUME NEW k \in Nat
        PROVE  /\ Rest(full, k) = <<Empty>> <=> k >= n
               /\ k < n => Head(Rest(full, k)) = full[k + 1] /\ full[k + 1] # 0
               /\ k >= n => Head(Rest(full, k)) = 0
    <3>1. CASE k < n
      <4>1. k + 1 \in 1..n /\ ~(k >= n)
        BY <1>1, <3>1
      <4>2. Rest(full, k) # <<Empty>> /\ Head(Rest(full, k)) = full[k + 1]
        BY <1>3, <3>1, RestFacts
      <4>3. QED
        BY <2>2, <3>1, <4>1, <4>2
    <3>2. CASE k >= n
      <4>1. ~(k < n)
        BY <1>1, <3>2
      <4>2. Rest(full, k) = <<Empty>> /\ Head(Rest(full, k)) = 0
        BY <3>2, RestFacts
      <4>3. QED
        BY <3>2, <4>1, <4>2
    <3>3. QED
      BY <1>1, <3>1, <3>2
  <2>4. Split(full, full)
    BY <2>3 DEF Split
  <2>5. QED
    BY <2>1, <2>4 DEF texts
<1>4. QED
  BY <1>2, <1>3

(* What fits, segment by segment. *)
LEMMA FitsFacts ==
  ASSUME NEW full, NEW texts, Split(full, texts), NEW p \in Seq(Segments), NEW k \in 1..Len(p)
  PROVE  /\ p[k] = End => (Fits(p, k, full) <=> k > Len(texts) /\ k = Len(p))
         /\ p[k].typ = "static" /\ p[k] # End =>
              (Fits(p, k, full) <=> k <= Len(texts) /\ texts[k] = p[k].key /\ (k = Len(texts) <=> k = Len(p)))
         /\ p[k].typ = "param" => (Fits(p, k, full) <=> k <= Len(texts) /\ k # Len(p))
         /\ p[k].typ = "regexp" =>
              (Fits(p, k, full) <=> k <= Len(texts) /\ texts[k] \in Accepts[p[k].rex] /\ k # Len(p))
         /\ p[k].typ = "catchAll" => (Fits(p, k, full) <=> k = Len(p))
<1> DEFINE e == p[k]
           L == Len(texts)
           search == Rest(full, k - 1)
           remain == Rest(full, k)
<1>1. k \in Nat /\ k - 1 \in Nat /\ (k - 1) + 1 = k /\ L \in Nat /\ e \in Segments
  BY DEF Split
<1>2. /\ search = <<Empty>> <=> k - 1 >= L
      /\ k - 1 < L => Head(search) = texts[k] /\ texts[k] # 0
      /\ k - 1 >= L => Head(search) = 0
      /\ remain = <<Empty>> <=> k >= L
  <2>1. \A j \in Nat :
          /\ Rest(full, j) = <<Empty>> <=> j >= L
          /\ j < L => Head(Rest(full, j)) = texts[j + 1] /\ texts[j + 1] # 0
          /\ j >= L => Head(Rest(full, j)) = 0
    BY DEF Split
  <2> HIDE DEF L
  <2>2. QED
    BY <1>1, <2>1
<1>3. Fits(p, k, full) <=> Matches(e, search) /\ (IsLeaf(e, remain) <=> k = Len(p))
  BY DEF Fits
<1>4. /\ e = End <=> e.typ = "static" /\ e.key = 0
      /\ e.key \in Nat
  BY <1>1, SegmentFacts
<1>5. k - 1 < L <=> k <= L
  BY <1>1
<1>6. k - 1 >= L <=> k > L
  BY <1>1
<1>7. k <= L \/ k > L
  BY <1>1
<1> HIDE DEF search, remain, L, e
<1>8. CASE e.typ = "static"
  <2>1. Matches(e, search) <=> e.key = Head(search)
    BY <1>8 DEF Matches
  <2>2. IsLeaf(e, remain) <=> k >= L
    BY <1>2, <1>8 DEF IsLeaf
  <2>3. CASE e = End
    <3>1. e.key = 0
      BY <1>4, <2>3
    <3>2. Matches(e, search) <=> k > L
      BY <1>2, <1>5, <1>6, <1>7, <2>1, <3>1
    <3>3. k > L => k >= L
      BY <1>1
    <3>4. Fits(p, k, full) <=> k > L /\ k = Len(p)
      BY <1>3, <2>2, <3>2, <3>3
    <3>5. QED
      BY <1>8, <2>3, <3>4 DEF e, L
  <2>4. CASE e # End
    <3>1. e.key # 0
      BY <1>4, <1>8, <2>4
    <3>2. Matches(e, search) <=> k <= L /\ texts[k] = e.key
      BY <1>2, <1>5, <1>6, <1>7, <2>1, <3>1
    <3>3. k <= L => (k >= L <=> k = L)
      BY <1>1
    <3>4. Fits(p, k, full) <=> k <= L /\ texts[k] = e.key /\ (k = L <=> k = Len(p))
      BY <1>3, <2>2, <3>2, <3>3
    <3>5. QED
      BY <1>8, <2>4, <3>4 DEF e, L
  <2>5. QED
    BY <2>3, <2>4
<1>9. CASE e.typ = "param"
  <2>1. Matches(e, search) <=> k <= L
    BY <1>2, <1>5, <1>6, <1>7, <1>9 DEF Matches
  <2>2. ~IsLeaf(e, remain)
    BY <1>9 DEF IsLeaf
  <2>3. Fits(p, k, full) <=> k <= L /\ k # Len(p)
    BY <1>3, <2>1, <2>2
  <2>4. e # End
    BY <1>4, <1>9
  <2>5. QED
    BY <1>9, <2>3, <2>4 DEF e, L
<1>10. CASE e.typ = "regexp"
  <2>1. Matches(e, search) <=> k <= L /\ texts[k] \in Accepts[e.rex]
    <3>1. Matches(e, search) <=> search # <<Empty>> /\ Head(search) \in Accepts[e.rex]
      BY <1>10 DEF Matches
    <3>2. QED
      BY <1>2, <1>5, <1>6, <1>7, <3>1
  <2>2. ~IsLeaf(e, remain)
    BY <1>10 DEF IsLeaf
  <2>3. Fits(p, k, full) <=> k <= L /\ texts[k] \in Accepts[e.rex] /\ k # Len(p)
    BY <1>3, <2>1, <2>2
  <2>4. e # End
    BY <1>4, <1>10
  <2>5. QED
    BY <1>10, <2>3, <2>4 DEF e, L
<1>11. CASE e.typ = "catchAll"
  <2>1. Matches(e, search) /\ IsLeaf(e, remain)
    BY <1>11 DEF Matches, IsLeaf
  <2>2. Fits(p, k, full) <=> k = Len(p)
    BY <1>3, <2>1
  <2>3. e # End
    BY <1>4, <1>11
  <2>4. QED
    BY <1>11, <2>2, <2>3 DEF e, L
<1>12. CASE e.typ = "malformed"
  <2>1. e # End
    BY <1>4, <1>12
  <2>2. QED
    BY <1>12, <2>1 DEF e, L
<1>13. QED
  BY <1>1, <1>8, <1>9, <1>10, <1>11, <1>12, SegmentFacts

LEMMA InnerFits ==
  ASSUME NEW full, NEW texts, Split(full, texts), NEW p \in Seq(Segments),
         NEW k \in 1..Len(p), k # Len(p), IsInner(p[k])
  PROVE  Fits(p, k, full) <=>
           k <= Len(texts) /\ Accepted(p[k], texts[k]) /\ (p[k].typ = "static" => k # Len(texts))
<1>1. p[k] # End /\ p[k].typ \in {"static", "param", "regexp"}
  BY DEF IsInner
<1>2. CASE p[k].typ = "static"
  <2>1. Accepted(p[k], texts[k]) <=> texts[k] = p[k].key
    BY <1>2 DEF Accepted
  <2>2. QED
    BY <1>1, <1>2, <2>1, FitsFacts
<1>3. CASE p[k].typ = "param"
  <2>1. Accepted(p[k], texts[k]) <=> TRUE
    BY <1>3 DEF Accepted
  <2>2. QED
    BY <1>1, <1>3, <2>1, FitsFacts
<1>4. CASE p[k].typ = "regexp"
  <2>1. Accepted(p[k], texts[k]) <=> texts[k] \in Accepts[p[k].rex]
    BY <1>4 DEF Accepted
  <2>2. QED
    BY <1>1, <1>4, <2>1, FitsFacts
<1>5. QED
  BY <1>1, <1>2, <1>3, <1>4

-----------------------------------------------------------------------------
(* A path of the document and the edges to its leaf.                        *)
LEMMA PatternShape ==
  ASSUME NEW d \in Documents, NEW i \in 1..Len(d), IsLeafPath(LeafPath(d[i])), NEW segs,
         segs = WithoutSlash(d[i].pattern, End)
  PROVE  /\ segs \in Seq(Segments) /\ d[i].pattern \in Seq(Segments)
         /\ Len(segs) <= Len(d[i].pattern)
         /\ \A k \in 1..Len(segs) : d[i].pattern[k] = segs[k] /\ LeafPath(d[i])[k] = segs[k]
         /\ \A k \in 1..Len(d[i].pattern) : k <= Len(segs) \/ d[i].pattern[k] = End
         /\ \A k \in 1..(Len(segs) - 1) : IsInner(segs[k])
         /\ \/ LeafPath(d[i]) = segs /\ segs # <<>> /\ IsLast(segs[Len(segs)]) /\ segs[Len(segs)] # End
            \/ /\ Len(LeafPath(d[i])) = Len(segs) + 1 /\ LeafPath(d[i])[Len(segs) + 1] = End
               /\ segs # <<>> => IsInner(segs[Len(segs)]) /\ segs[Len(segs)].typ \in {"param", "regexp"}
<1> DEFINE pat == d[i].pattern
           p == LeafPath(d[i])
           n == Len(pat)
           m == Len(segs)
<1>1. /\ pat \in Seq(Segments) /\ pat # <<>> /\ n \in Nat \ {0}
      /\ \A k \in 1..(n - 1) : pat[k] # End
  BY DocumentItems
<1>2. p = IF segs = <<>> \/ Last(segs).typ \in {"param", "regexp"} THEN Append(segs, End) ELSE segs
  <2>1. segs = IF Last(pat) = End THEN Front(pat) ELSE pat
    BY <1>1 DEF WithoutSlash
  <2>2. QED
    BY <2>1 DEF LeafPath
<1>3. p \in Seq(Segments) /\ \A k \in 1..(Len(p) - 1) : IsInner(p[k])
  BY DEF IsLeafPath, IsPath
<1>4. IsLast(p[Len(p)])
  BY DEF IsLeafPath
<1> HIDE DEF p
<1>5. /\ segs \in Seq(Segments) /\ m \in Nat /\ m <= n
      /\ \A k \in 1..m : pat[k] = segs[k] /\ segs[k] # End
      /\ \A k \in 1..n : k <= m \/ pat[k] = End
  <2>1. CASE pat[n] = End
    <3>1. segs = SubSeq(pat, 1, n - 1)
      BY <1>1, <2>1 DEF WithoutSlash, Front, Last
    <3>2. n - 1 \in Nat /\ n - 1 <= Len(pat)
      BY <1>1
    <3> HIDE DEF n, pat
    <3>3. segs \in Seq(Segments) /\ Len(segs) = n - 1 /\ \A k \in 1..(n - 1) : segs[k] = pat[k]
      BY <1>1, <3>1, <3>2, PrefixFacts
    <3>4. \A k \in 1..n : k <= n - 1 \/ k = n
      BY <1>1
    <3>5. n - 1 <= n
      BY <1>1
    <3>6. QED
      BY <1>1, <2>1, <3>2, <3>3, <3>4, <3>5
  <2>2. CASE pat[n] # End
    <3>1. segs = pat
      BY <1>1, <2>2 DEF WithoutSlash, Last
    <3> HIDE DEF pat
    <3>2. m = n
      BY <3>1
    <3>3. \A k \in 1..n : k <= n /\ (k \in 1..(n - 1) \/ k = n)
      BY <1>1
    <3> HIDE DEF n, m
    <3>4. QED
      BY <1>1, <2>2, <3>1, <3>2, <3>3
  <2>3. QED
    BY <2>1, <2>2
<1> HIDE DEF pat, n, m
<1>6. CASE segs = <<>> \/ Last(segs).typ \in {"param", "regexp"}
  <2>1. p = Append(segs, End)
    BY <1>2, <1>6
  <2>2. Len(p) = m + 1 /\ p[m + 1] = End /\ \A k \in 1..m : p[k] = segs[k]
    BY <1>5, <2>1, SegmentFacts DEF m
  <2>3. \A k \in 1..m : k \in 1..(Len(p) - 1)
    BY <1>5, <2>2
  <2>4. \A k \in 1..m : IsInner(segs[k])
    BY <1>3, <2>2, <2>3
  <2>5. segs # <<>> => m \in 1..m /\ Last(segs) = segs[m]
    BY <1>5 DEF Last, m
  <2>6. \A k \in 1..(m - 1) : k \in 1..m
    BY <1>5
  <2>7. QED
    BY <1>1, <1>5, <1>6, <2>2, <2>4, <2>5, <2>6 DEF m, n, p, pat
<1>7. CASE ~(segs = <<>> \/ Last(segs).typ \in {"param", "regexp"})
  <2>1. p = segs
    BY <1>2, <1>7
  <2>2. m \in 1..m
    BY <1>5, <1>7 DEF m
  <2>3. QED
    BY <1>1, <1>3, <1>4, <1>5, <1>7, <2>1, <2>2 DEF m, n, p, pat
<1>8. QED
  BY <1>6, <1>7

(* A request matches a path of the document exactly if its texts fit all    *)
(* the edges to the leaf of the path.                                       *)
LEMMA MatchesIfFits ==
  ASSUME NEW d \in Documents, NEW i \in 1..Len(d), IsLeafPath(LeafPath(d[i])),
         NEW full, NEW texts, Split(full, texts)
  PROVE  MatchesPath(d[i].pattern, texts) <=>
           \A k \in 1..Len(LeafPath(d[i])) : Fits(LeafPath(d[i]), k, full)
<1> DEFINE pat == d[i].pattern
           p == LeafPath(d[i])
           segs == WithoutSlash(pat, End)
           wild == segs # <<>> /\ Last(segs) = CatchAll
           fixed == IF wild THEN Front(segs) ELSE segs
           optional == fixed = <<>> \/ Last(fixed).typ # "static"
           m == Len(segs)
           f == Len(fixed)
           L == Len(texts)
           All == \A k \in 1..Len(p) : Fits(p, k, full)
<1>1. MatchesPath(pat, texts) <=>
        /\ IF wild THEN L > f \/ (optional /\ L = f) ELSE L = f
        /\ \A k \in DOMAIN fixed : Accepted(fixed[k], texts[k])
  BY DEF MatchesPath
<1>2. /\ segs \in Seq(Segments) /\ m \in Nat
      /\ \A k \in 1..m : p[k] = segs[k]
      /\ \A k \in 1..(m - 1) : IsInner(segs[k])
      /\ \/ p = segs /\ segs # <<>> /\ IsLast(segs[m]) /\ segs[m] # End
         \/ /\ Len(p) = m + 1 /\ p[m + 1] = End
            /\ segs # <<>> => IsInner(segs[m]) /\ segs[m].typ \in {"param", "regexp"}
  <2> HIDE DEF segs
  <2>1. segs = WithoutSlash(d[i].pattern, End)
    BY DEF segs
  <2>2. QED
    BY <2>1, PatternShape
<1>3. p \in Seq(Segments) /\ Len(p) \in Nat /\ L \in Nat
  BY DEF IsLeafPath, IsPath, Split
<1>4. segs # <<>> => Last(segs) = segs[m]
  BY DEF Last
<1> HIDE DEF pat, p, segs
<1>5. \A k \in 1..Len(p) : k # Len(p) /\ IsInner(p[k]) =>
        (Fits(p, k, full) <=> k <= L /\ Accepted(p[k], texts[k]) /\ (p[k].typ = "static" => k # L))
  BY <1>3, InnerFits
<1>6. \A k \in 1..Len(p) :
        /\ p[k] = End => (Fits(p, k, full) <=> k > L /\ k = Len(p))
        /\ p[k].typ = "static" /\ p[k] # End =>
             (Fits(p, k, full) <=> k <= L /\ texts[k] = p[k].key /\ (k = L <=> k = Len(p)))
        /\ p[k].typ = "catchAll" => (Fits(p, k, full) <=> k = Len(p))
  BY <1>3, FitsFacts
<1> HIDE DEF L
<1>7. CASE Len(p) = m + 1 /\ p[m + 1] = End /\ (segs # <<>> => IsInner(segs[m]) /\ segs[m].typ \in {"param", "regexp"})
  <2>1. ~wild
    BY <1>4, <1>7, SegmentFacts
  <2>2. fixed = segs /\ f = m /\ DOMAIN fixed = 1..m
    BY <1>2, <2>1
  <2>3. MatchesPath(pat, texts) <=> L = m /\ \A k \in 1..m : Accepted(segs[k], texts[k])
    <3> HIDE DEF fixed, wild, m, f, optional
    <3>1. QED
      BY <1>1, <2>1, <2>2
  <2> HIDE DEF fixed, wild, f, optional
  <2>4. \A k \in 1..m : IsInner(p[k]) /\ k \in 1..Len(p) /\ k # Len(p) /\ k \in Nat
    <3>1. m # 0 => segs # <<>>
      BY <1>2
    <3>2. \A k \in 1..m : k = m \/ k \in 1..(m - 1)
      BY <1>2
    <3>3. \A k \in 1..m : k \in 1..Len(p) /\ k # Len(p) /\ m # 0
      BY <1>2, <1>7
    <3> HIDE DEF m
    <3>4. QED
      BY <1>2, <1>7, <3>1, <3>2, <3>3
  <2>5. m + 1 \in 1..Len(p) /\ \A k \in 1..Len(p) : k = m + 1 \/ k \in 1..m
    BY <1>2, <1>7
  <2>6. Fits(p, m + 1, full) <=> L <= m
    <3>1. m + 1 > L <=> L <= m
      BY <1>2, <1>3
    <3> HIDE DEF m
    <3>2. QED
      BY <1>6, <1>7, <2>5, <3>1
  <2>7. All <=> L <= m /\ \A k \in 1..m : k <= L /\ Accepted(segs[k], texts[k]) /\ (segs[k].typ = "static" => k # L)
    <3> HIDE DEF m
    <3>1. \A k \in 1..m : Fits(p, k, full) <=>
            k <= L /\ Accepted(segs[k], texts[k]) /\ (segs[k].typ = "static" => k # L)
      BY <1>2, <1>5, <2>4
    <3>2. All <=> Fits(p, m + 1, full) /\ \A k \in 1..m : Fits(p, k, full)
      BY <2>4, <2>5
    <3> HIDE DEF All
    <3>3. QED
      BY <2>6, <3>1, <3>2
  <2>8. L <= m /\ (\A k \in 1..m : k <= L) => L = m
    <3>1. CASE m = 0
      BY <1>3, <3>1
    <3>2. CASE m # 0
      <4>1. m \in 1..m
        BY <1>2, <3>2
      <4> HIDE DEF m
      <4>2. QED
        BY <1>2, <1>3, <4>1
    <3>3. QED
      BY <3>1, <3>2
  <2>9. m # 0 => segs[m].typ # "static"
    <3>1. m # 0 => segs # <<>>
      BY <1>2
    <3>2. QED
      BY <1>7, <3>1
  <2>10. L = m => L <= m /\ \A k \in 1..m : k <= L /\ (segs[k].typ = "static" => k # L)
    <3>1. \A k \in 1..m : k <= m /\ m # 0
      BY <1>2
    <3>2. m <= m
      BY <1>2
    <3> HIDE DEF m
    <3>3. QED
      BY <2>9, <3>1, <3>2
  <2> HIDE DEF m, All
  <2>11. MatchesPath(pat, texts) <=> All
    BY <2>3, <2>7, <2>8, <2>10
  <2>12. QED
    BY <2>11 DEF All, pat, p
<1>8. CASE p = segs /\ segs # <<>> /\ IsLast(segs[m]) /\ segs[m] # End /\ segs[m].typ = "static"
  <2>1. ~wild
    BY <1>4, <1>8, SegmentFacts
  <2>2. fixed = segs /\ f = m /\ DOMAIN fixed = 1..m
    BY <1>2, <2>1
  <2>3. MatchesPath(pat, texts) <=> L = m /\ \A k \in 1..m : Accepted(segs[k], texts[k])
    <3> HIDE DEF fixed, wild, m, f, optional
    <3>1. QED
      BY <1>1, <2>1, <2>2
  <2>4. m \in 1..m /\ Len(p) = m /\ (\A k \in 1..m : k = m \/ k \in 1..(m - 1))
        /\ \A k \in 1..(m - 1) : k \in 1..m /\ k # m /\ k <= m
    BY <1>2, <1>8
  <2> HIDE DEF fixed, wild, f, optional
  <2>5. Fits(p, m, full) <=> L = m /\ Accepted(segs[m], texts[m])
    <3>1. m = L => m <= L
      BY <1>3
    <3>2. Accepted(segs[m], texts[m]) <=> texts[m] = segs[m].key
      BY <1>8 DEF Accepted
    <3> HIDE DEF m
    <3>3. QED
      BY <1>6, <1>8, <2>4, <3>1, <3>2
  <2>6. \A k \in 1..(m - 1) : Fits(p, k, full) <=>
          k <= L /\ Accepted(segs[k], texts[k]) /\ (segs[k].typ = "static" => k # L)
    <3> HIDE DEF m
    <3>1. QED
      BY <1>2, <1>5, <1>8, <2>4
  <2> HIDE DEF m, All
  <2>7. MatchesPath(pat, texts) <=> All
    BY <1>8, <2>3, <2>4, <2>5, <2>6 DEF All
  <2>8. QED
    BY <2>7 DEF All, pat, p
<1>9. CASE p = segs /\ segs # <<>> /\ segs[m] = CatchAll
  <2>1. wild /\ m \in Nat \ {0} /\ Len(p) = m
    BY <1>2, <1>4, <1>9
  <2>2. fixed \in Seq(Segments) /\ f = m - 1 /\ \A k \in 1..(m - 1) : fixed[k] = segs[k]
    <3>1. fixed = SubSeq(segs, 1, m - 1)
      BY <2>1 DEF Front
    <3>2. m - 1 \in Nat /\ m - 1 <= Len(segs)
      BY <2>1
    <3> HIDE DEF m, fixed, wild
    <3>3. QED
      BY <1>2, <3>1, <3>2, PrefixFacts
  <2> HIDE DEF fixed, wild
  <2>3. f \in Nat /\ DOMAIN fixed = 1..f
    BY <2>2
  <2>4. optional <=> f = 0 \/ segs[f].typ # "static"
    <3>1. fixed = <<>> <=> f = 0
      BY <2>2
    <3>2. f # 0 => Last(fixed) = segs[f]
      <4>1. f # 0 => f \in 1..(m - 1)
        BY <2>2, <2>3
      <4>2. QED
        BY <2>2, <4>1 DEF Last
    <3>3. QED
      BY <3>1, <3>2
  <2>5. /\ \A k \in 1..f : k \in 1..(m - 1) /\ k \in 1..m /\ k # m /\ k <= f /\ k \in Nat
        /\ m \in 1..m /\ \A k \in 1..m : k = m \/ k \in 1..f
    BY <2>1, <2>2, <2>3
  <2> HIDE DEF m, f, optional
  <2>6. Fits(p, m, full)
    BY <1>6, <1>9, <2>1, <2>5, SegmentFacts
  <2>7. \A k \in 1..f : Fits(p, k, full) <=>
          k <= L /\ Accepted(segs[k], texts[k]) /\ (segs[k].typ = "static" => k # L)
    BY <1>2, <1>5, <1>9, <2>1, <2>5
  <2>8. All <=> \A k \in 1..f : k <= L /\ Accepted(segs[k], texts[k]) /\ (segs[k].typ = "static" => k # L)
    BY <2>1, <2>5, <2>6, <2>7
  <2>9. MatchesPath(pat, texts) <=>
          /\ L > f \/ (optional /\ L = f)
          /\ \A k \in 1..f : Accepted(segs[k], texts[k])
    BY <1>1, <2>1, <2>2, <2>3, <2>5
  <2>10. (\A k \in 1..f : k <= L /\ (segs[k].typ = "static" => k # L)) <=> L > f \/ (optional /\ L = f)
    <3>1. CASE f = 0
      <4>1. optional /\ (L > f \/ L = f) /\ \A k \in 1..f : FALSE
        BY <1>3, <2>4, <3>1
      <4>2. QED
        BY <4>1
    <3>2. CASE f # 0
      <4>1. f \in 1..f /\ f \in Nat /\ (f <= L /\ f # L <=> L > f) /\ (f <= L <=> L > f \/ L = f)
        BY <1>3, <2>3, <3>2
      <4>2. ASSUME L > f \/ (optional /\ L = f), NEW k \in 1..f
            PROVE  k <= L /\ (segs[k].typ = "static" => k # L)
        <5>1. k <= f /\ k \in Nat
          BY <2>5
        <5>2. k <= L
          BY <1>3, <2>3, <4>2, <5>1
        <5>3. k = L => k = f /\ L = f
          BY <1>3, <2>3, <4>2, <5>1
        <5>4. ~(L > f /\ L = f)
          BY <1>3, <2>3
        <5>5. QED
          BY <2>4, <3>2, <4>2, <5>2, <5>3, <5>4
      <4>3. ASSUME \A k \in 1..f : k <= L /\ (segs[k].typ = "static" => k # L)
            PROVE  L > f \/ (optional /\ L = f)
        <5>1. f <= L /\ (segs[f].typ = "static" => f # L)
          BY <4>1, <4>3
        <5>2. QED
          BY <2>4, <4>1, <5>1
      <4>4. QED
        BY <4>2, <4>3
    <3>3. QED
      BY <3>1, <3>2
  <2> HIDE DEF All
  <2>11. MatchesPath(pat, texts) <=> All
    BY <2>8, <2>9, <2>10
  <2>12. QED
    BY <2>11 DEF All, pat, p
<1>10. QED
  BY <1>2, <1>7, <1>8, <1>9 DEF IsLast

-----------------------------------------------------------------------------
(* The parameters: a path of the document and the edges to its leaf have    *)
(* them at the same places.                                                 *)
LEMMA BindingsAreParams ==
  ASSUME doc \in Documents, NEW i \in 1..Len(doc), IsLeafPath(LeafPath(doc[i])),
         NEW full, NEW texts, Split(full, texts),
         \A k \in 1..Len(LeafPath(doc[i])) : Fits(LeafPath(doc[i]), k, full)
  PROVE  Bindings(i, texts) = ParamsOf(LeafPath(doc[i]), 0, full)
<1> DEFINE pat == doc[i].pattern
           p == LeafPath(doc[i])
           segs == WithoutSlash(pat, End)
           m == Len(segs)
           L == Len(texts)
           B == {k \in DOMAIN pat : pat[k].typ \in {"regexp", "param"}}
           C == Bound(p, 0)
           at(key) == CHOOSE k \in B : pat[k].key = key /\ \A j \in B : pat[j].key = key => k <= j
           left(key) == Leftmost(p, 0, key)
<1>1. /\ segs \in Seq(Segments) /\ m \in Nat /\ pat \in Seq(Segments) /\ m <= Len(pat)
      /\ \A k \in 1..m : pat[k] = segs[k] /\ p[k] = segs[k]
      /\ \A k \in 1..Len(pat) : k <= m \/ pat[k] = End
      /\ \/ p = segs
         \/ Len(p) = m + 1 /\ p[m + 1] = End
  <2> HIDE DEF segs
  <2>1. segs = WithoutSlash(doc[i].pattern, End)
    BY DEF segs
  <2>2. QED
    BY <2>1, PatternShape
<1>2. p \in Seq(Segments) /\ Len(p) \in Nat /\ L \in Nat
  BY DEF IsLeafPath, IsPath, Split
<1>3. Bindings(i, texts) = [key \in {pat[k].key : k \in B} |-> texts[at(key)]]
  BY DEF Bindings
<1>4. ParamsOf(p, 0, full) = [key \in {p[k].key : k \in C} |-> Head(Rest(full, left(key) - 1))]
  BY DEF ParamsOf
<1>5. End.typ = "static"
  BY SegmentFacts
<1>6. C = {k \in 1..Len(p) : p[k].typ \in {"regexp", "param"}}
  BY DEF Bound
<1>7. \A k \in 1..Len(p) : Fits(p, k, full)
  OBVIOUS
<1> HIDE DEF pat, p, segs
<1>8. B = {k \in 1..m : segs[k].typ \in {"regexp", "param"}}
  <2>1. \A k \in 1..Len(pat) : k <= m => k \in 1..m
    BY <1>1
  <2>2. \A k \in 1..m : k \in 1..Len(pat)
    BY <1>1
  <2>3. DOMAIN pat = 1..Len(pat)
    BY <1>1
  <2> HIDE DEF m
  <2>4. QED
    BY <1>1, <1>5, <2>1, <2>2, <2>3
<1>9. C = {k \in 1..m : segs[k].typ \in {"regexp", "param"}}
  <2>1. CASE p = segs
    BY <1>6, <2>1
  <2>2. CASE Len(p) = m + 1 /\ p[m + 1] = End
    <3>1. \A k \in 1..Len(p) : k \in 1..m \/ k = m + 1
      BY <1>1, <2>2
    <3>2. \A k \in 1..m : k \in 1..Len(p)
      BY <1>1, <2>2
    <3> HIDE DEF m
    <3>3. QED
      BY <1>1, <1>5, <1>6, <2>2, <3>1, <3>2
  <2>3. QED
    BY <1>1, <2>1, <2>2
<1>10. B = C /\ \A k \in C : pat[k] = p[k] /\ k \in Nat /\ k \in 1..Len(p)
  BY <1>1, <1>6, <1>8, <1>9
<1> HIDE DEF B, C, m
<1>11. \A k \in C : k <= L
  <2>1. \A k \in 1..Len(p) :
          /\ p[k].typ = "param" => (Fits(p, k, full) <=> k <= L /\ k # Len(p))
          /\ p[k].typ = "regexp" =>
               (Fits(p, k, full) <=> k <= L /\ texts[k] \in Accepts[p[k].rex] /\ k # Len(p))
    BY <1>2, FitsFacts
  <2>2. QED
    BY <1>6, <1>7, <2>1
<1>12. ASSUME NEW k0 \in C
       PROVE  at(p[k0].key) = left(p[k0].key) /\ left(p[k0].key) \in C
  <2> DEFINE key == p[k0].key
             l == left(key)
             a == at(key)
  <2>1. l \in C /\ p[l].key = key /\ \A j \in C : p[j].key = key => l <= j
    <3>1. 0 \in Nat /\ k0 \in Bound(p, 0)
      BY DEF C
    <3>2. QED
      BY <1>2, <3>1, LeftmostFacts DEF C
  <2> HIDE DEF l, key
  <2>2. l \in B /\ pat[l].key = key /\ \A j \in B : pat[j].key = key => l <= j
    BY <1>10, <2>1
  <2>3. a \in B /\ pat[a].key = key /\ \A j \in B : pat[j].key = key => a <= j
    BY <2>2
  <2> HIDE DEF a
  <2>4. a \in Nat /\ l \in Nat /\ a <= l /\ l <= a
    BY <1>10, <2>2, <2>3
  <2>5. a = l
    BY <2>4
  <2>6. QED
    BY <2>1, <2>5 DEF a, l, key
<1>13. {pat[k].key : k \in B} = {p[k].key : k \in C}
  BY <1>10
<1> HIDE DEF at, left
<1>14. \A key \in {p[k].key : k \in C} : texts[at(key)] = Head(Rest(full, left(key) - 1))
  <2>1. SUFFICES ASSUME NEW k0 \in C PROVE texts[at(p[k0].key)] = Head(Rest(full, left(p[k0].key) - 1))
    OBVIOUS
  <2> DEFINE l == left(p[k0].key)
  <2>2. l \in C /\ at(p[k0].key) = l
    BY <1>12
  <2> HIDE DEF l
  <2>3. l \in Nat /\ l - 1 \in Nat /\ l - 1 < L /\ (l - 1) + 1 = l
    BY <1>2, <1>10, <1>11, <2>2
  <2>4. Head(Rest(full, l - 1)) = texts[(l - 1) + 1]
    BY <2>3 DEF Split
  <2>5. QED
    BY <2>2, <2>3, <2>4 DEF l
<1>15. Bindings(i, texts) = ParamsOf(p, 0, full)
  BY <1>3, <1>4, <1>13, <1>14
<1>16. QED
  BY <1>15 DEF p

-----------------------------------------------------------------------------
(* Where two paths part, the order of the document's items decides between  *)
(* regular expressions as the age of the nodes does.                        *)
LEMMA IntroducedFirst ==
  ASSUME TypeInv, NEW i \in Inserted, NEW k \in 1..Len(LeafPath(doc[i])), IsLeafPath(LeafPath(doc[i]))
  PROVE  LET q == SubSeq(LeafPath(doc[i]), 1, k)
         IN  /\ Introduced(i, k) \in Inserted /\ Passes(Introduced(i, k), q)
             /\ \A l \in Inserted : Passes(l, q) => Introduced(i, k) <= l
<1> DEFINE p == LeafPath(doc[i])
           q == SubSeq(p, 1, k)
           first == Introduced(i, k)
           S == {j \in 1..i : Passes(j, q)}
<1>1. p \in Seq(Segments) /\ k \in Nat /\ k <= Len(p)
  BY DEF IsLeafPath, IsPath
<1>2. i \in Nat /\ i \in 1..i /\ \A j \in 1..i : j \in Inserted
  <2>1. next \in Nat
    <3>1. doc \in Seq(Items)
      BY DocumentsAssumption DEF TypeInv
    <3>2. QED
      BY <3>1 DEF TypeInv
  <2>2. QED
    BY <2>1 DEF Inserted
<1>3. Passes(i, q)
  <2> HIDE DEF p
  <2>1. q \in Seq(Segments) /\ Len(q) = k
    BY <1>1, PrefixFacts
  <2>2. IsPrefix(q, p)
    BY <1>1, <2>1, PrefixMeans
  <2>3. QED
    BY <2>2 DEF Passes, p
<1>4. PICK j \in S : \A l \in S : j <= l
  <2>1. S \in SUBSET Nat /\ S # {}
    BY <1>2, <1>3
  <2> HIDE DEF S
  <2>2. QED
    BY <2>1, Smallest
<1>5. j \in 1..i /\ Passes(j, q) /\ \A l \in 1..(j - 1) : ~Passes(l, q)
  <2>1. \A l \in 1..(j - 1) : l \in 1..i /\ ~(j <= l)
    BY <1>2, <1>4
  <2>2. QED
    BY <1>4, <2>1
<1>6. first = CHOOSE n \in 1..i : Passes(n, q) /\ \A l \in 1..(n - 1) : ~Passes(l, q)
  BY DEF Introduced, Passes
<1>7. first \in 1..i /\ Passes(first, q) /\ \A l \in 1..(first - 1) : ~Passes(l, q)
  BY <1>5, <1>6
<1> HIDE DEF first, q
<1>8. ASSUME NEW l \in Inserted, Passes(l, q) PROVE first <= l
  <2>1. l \in Nat \ {0} /\ first \in Nat
    BY <1>2, <1>7 DEF Inserted
  <2>2. l \notin 1..(first - 1)
    BY <1>7, <1>8
  <2>3. QED
    BY <2>1, <2>2
<1>9. QED
  BY <1>2, <1>7, <1>8 DEF first, q, p

LEMMA AgeIsIntroduction ==
  ASSUME TreeInv, NEW i \in Inserted, NEW j \in Inserted, NEW k,
         k \in 1..Len(LeafPath(doc[i])), k \in 1..Len(LeafPath(doc[j])),
         LeafPath(doc[i])[k].typ = "regexp", LeafPath(doc[j])[k].typ = "regexp",
         NEW x \in Range(nodes), x.path = SubSeq(LeafPath(doc[i]), 1, k),
         NEW y \in Range(nodes), y.path = SubSeq(LeafPath(doc[j]), 1, k),
         IndexOf(nodes, x.path) < IndexOf(nodes, y.path)
  PROVE  Introduced(i, k) < Introduced(j, k)
<1> DEFINE a == IndexOf(nodes, x.path)
           b == IndexOf(nodes, y.path)
           p == LeafPath(doc[i])
           q == LeafPath(doc[j])
           u == Introduced(i, k)
           v == Introduced(j, k)
<1>1. TypeInv /\ IsTree(nodes) /\ IsLeafPath(p) /\ IsLeafPath(q)
  BY DEF TreeInv, TypeInv, AcceptedInv
<1>2. a \in DOMAIN nodes /\ nodes[a] = x /\ b \in DOMAIN nodes /\ nodes[b] = y
  BY <1>1, TreeNodes
<1>3. p \in Seq(Segments) /\ q \in Seq(Segments) /\ k \in Nat /\ k <= Len(p) /\ k <= Len(q) /\ k \in 1..k
  BY <1>1 DEF IsLeafPath, IsPath
<1>4. Len(x.path) = k /\ Len(y.path) = k /\ Last(y.path).typ = "regexp"
  <2> HIDE DEF p, q
  <2>1. Len(SubSeq(p, 1, k)) = k /\ Len(SubSeq(q, 1, k)) = k /\ SubSeq(q, 1, k)[k] = q[k]
    BY <1>3, PrefixFacts
  <2>2. QED
    BY <2>1 DEF p, q, Last
<1>5. /\ u \in Inserted /\ Passes(u, x.path) /\ \A l \in Inserted : Passes(l, x.path) => u <= l
      /\ v \in Inserted /\ Passes(v, y.path) /\ \A l \in Inserted : Passes(l, y.path) => v <= l
  BY <1>1, IntroducedFirst
<1> HIDE DEF a, b, u, v
<1>6. PICK l \in Inserted : Passes(l, x.path) /\ \A o \in 1..l : ~Passes(o, y.path)
  <2>1. a < b
    BY DEF a, b
  <2>2. QED
    BY <1>2, <1>4, <2>1 DEF TreeInv, AgeInv
<1>7. u <= l /\ v \notin 1..l
  BY <1>5, <1>6
<1>8. \A o \in Inserted : o \in Nat \ {0}
  BY DEF Inserted
<1>9. u < v
  BY <1>5, <1>6, <1>7, <1>8
<1>10. QED
  BY <1>9 DEF u, v

LEMMA SameRegexp ==
  ASSUME NEW e \in Segments, NEW f \in Segments, e.typ # "malformed", f.typ # "malformed",
         e # f, Group(e) = Group(f), e.key = f.key
  PROVE  e.typ = "regexp" /\ f.typ = "regexp"
<1>1. e.typ = f.typ
  BY SegmentFacts DEF Group
<1>2. e.typ \in {"static", "param"} => e.rex = f.rex
  BY <1>1 DEF Segments
<1>3. e.rex = f.rex => e = f
  BY <1>1 DEF Segments
<1>4. e.typ = "catchAll" => e = f
  BY <1>1, SegmentFacts
<1>5. QED
  BY <1>1, <1>2, <1>3, <1>4, SegmentFacts

LEMMA SpecificIfSooner ==
  ASSUME TreeInv, NEW i \in Inserted, NEW j \in Inserted, NEW k,
         Part(LeafPath(doc[i]), LeafPath(doc[j]), k),
         NEW x \in Range(nodes), x.path = SubSeq(LeafPath(doc[i]), 1, k),
         NEW y \in Range(nodes), y.path = SubSeq(LeafPath(doc[j]), 1, k)
  PROVE  MoreSpecific(i, j) <=> Sooner(nodes, x.path, y.path)
<1> DEFINE p == LeafPath(doc[i])
           q == LeafPath(doc[j])
           c == CHOOSE n \in DOMAIN p : p[n] # q[n] /\ SubSeq(p, 1, n - 1) = SubSeq(q, 1, n - 1)
<1>1. IsTree(nodes) /\ TypeInv /\ IsLeafPath(p) /\ IsLeafPath(q)
  BY DEF TreeInv, TypeInv, AcceptedInv
<1>2. p \in Seq(Segments) /\ q \in Seq(Segments) /\ DOMAIN p = 1..Len(p) /\ Len(p) \in Nat /\ Len(q) \in Nat
  BY <1>1 DEF IsLeafPath, IsPath
<1>3. /\ k \in 1..Len(p) /\ k \in 1..Len(q) /\ k \in Nat /\ k \in 1..k
      /\ SubSeq(p, 1, k - 1) = SubSeq(q, 1, k - 1) /\ p[k] # q[k]
  BY <1>2 DEF Part
<1>4. Last(x.path) = p[k] /\ Last(y.path) = q[k]
  <2> HIDE DEF p, q
  <2>1. /\ Len(SubSeq(p, 1, k)) = k /\ SubSeq(p, 1, k)[k] = p[k]
        /\ Len(SubSeq(q, 1, k)) = k /\ SubSeq(q, 1, k)[k] = q[k]
    <3>1. k <= Len(p) /\ k <= Len(q)
      BY <1>3
    <3>2. QED
      BY <1>2, <1>3, <3>1, PrefixFacts
  <2>2. QED
    BY <2>1 DEF p, q, Last
<1>5. /\ p[k] \in Segments /\ p[k].typ # "malformed" /\ q[k] \in Segments /\ q[k].typ # "malformed"
  BY <1>1, <1>4, TreeNodes DEF Last
<1>6. c = k
  <2>1. c \in DOMAIN p /\ p[c] # q[c] /\ SubSeq(p, 1, c - 1) = SubSeq(q, 1, c - 1)
    <3>1. k \in DOMAIN p /\ p[k] # q[k] /\ SubSeq(p, 1, k - 1) = SubSeq(q, 1, k - 1)
      BY <1>2, <1>3
    <3> HIDE DEF p, q
    <3>2. QED
      BY <3>1
  <2> HIDE DEF c, p, q
  <2>2. c \in Nat /\ c \in 1..Len(p)
    BY <1>2, <2>1
  <2>3. ~(k < c)
    <3>1. SUFFICES ASSUME k < c PROVE FALSE
      OBVIOUS
    <3>2. c - 1 \in Nat /\ c - 1 <= Len(p) /\ k \in 1..(c - 1)
      BY <1>2, <1>3, <2>2, <3>1
    <3>3. SubSeq(p, 1, c - 1)[k] = p[k]
      BY <1>2, <3>2, PrefixFacts
    <3>4. Len(SubSeq(q, 1, c - 1)) = c - 1
      BY <1>2, <2>1, <3>2, PrefixFacts
    <3>5. SubSeq(q, 1, c - 1)[k] = q[k]
      BY <1>2, <1>3, <3>2
    <3>6. QED
      BY <1>3, <2>1, <3>3, <3>5
  <2>4. ~(c < k)
    <3>1. SUFFICES ASSUME c < k PROVE FALSE
      OBVIOUS
    <3>2. k - 1 \in Nat /\ k - 1 <= Len(p) /\ k - 1 <= Len(q) /\ c \in 1..(k - 1)
      BY <1>2, <1>3, <2>2, <3>1
    <3>3. SubSeq(p, 1, k - 1)[c] = p[c] /\ SubSeq(q, 1, k - 1)[c] = q[c]
      BY <1>2, <3>2, PrefixFacts
    <3>4. QED
      BY <1>3, <2>1, <3>3
  <2>5. QED
    BY <1>3, <2>2, <2>3, <2>4
<1>7. MoreSpecific(i, j) <=>
        \/ Group(p[k]) < Group(q[k])
        \/ Group(p[k]) = Group(q[k]) /\ p[k].key < q[k].key
        \/ Group(p[k]) = Group(q[k]) /\ p[k].key = q[k].key /\ Introduced(i, k) < Introduced(j, k)
  <2>1. MoreSpecific(i, j) <=>
        \/ Group(p[c]) < Group(q[c])
        \/ Group(p[c]) = Group(q[c]) /\ p[c].key < q[c].key
        \/ Group(p[c]) = Group(q[c]) /\ p[c].key = q[c].key /\ Introduced(i, c) < Introduced(j, c)
    BY DEF MoreSpecific
  <2> HIDE DEF c
  <2>2. QED
    BY <1>6, <2>1
<1>8. Sooner(nodes, x.path, y.path) <=>
        \/ Group(p[k]) < Group(q[k])
        \/ Group(p[k]) = Group(q[k]) /\ p[k].key < q[k].key
        \/ Group(p[k]) = Group(q[k]) /\ p[k].key = q[k].key /\ IndexOf(nodes, x.path) < IndexOf(nodes, y.path)
  <2> HIDE DEF p, q
  <2>1. QED
    BY <1>4 DEF Sooner
<1>9. ASSUME Group(p[k]) = Group(q[k]), p[k].key = q[k].key
      PROVE  Introduced(i, k) < Introduced(j, k) <=> IndexOf(nodes, x.path) < IndexOf(nodes, y.path)
  <2>1. p[k].typ = "regexp" /\ q[k].typ = "regexp"
    <3> HIDE DEF p, q
    <3>1. QED
      BY <1>3, <1>5, <1>9, SameRegexp
  <2>2. IndexOf(nodes, x.path) < IndexOf(nodes, y.path) => Introduced(i, k) < Introduced(j, k)
    BY <1>3, <2>1, AgeIsIntroduction
  <2>3. IndexOf(nodes, y.path) < IndexOf(nodes, x.path) => Introduced(j, k) < Introduced(i, k)
    BY <1>3, <2>1, AgeIsIntroduction
  <2>4. IndexOf(nodes, x.path) # IndexOf(nodes, y.path)
    <3>1. nodes[IndexOf(nodes, x.path)] = x /\ nodes[IndexOf(nodes, y.path)] = y
      BY <1>1, TreeNodes
    <3>2. x # y
      BY <1>3, <1>4
    <3>3. QED
      BY <3>1, <3>2
  <2>5. IndexOf(nodes, x.path) \in Nat /\ IndexOf(nodes, y.path) \in Nat
    <3>1. nodes \in Seq(NodeSet)
      BY <1>1 DEF IsTree
    <3>2. DOMAIN nodes \subseteq Nat
      BY <3>1
    <3>3. IndexOf(nodes, x.path) \in DOMAIN nodes /\ IndexOf(nodes, y.path) \in DOMAIN nodes
      BY <1>1, TreeNodes
    <3>4. QED
      BY <3>2, <3>3
  <2>6. Introduced(i, k) \in Nat /\ Introduced(j, k) \in Nat
    <3>1. Introduced(i, k) \in Inserted /\ Introduced(j, k) \in Inserted
      BY <1>1, <1>3, IntroducedFirst
    <3>2. QED
      BY <3>1 DEF Inserted
  <2>7. QED
    BY <2>2, <2>3, <2>4, <2>5, <2>6
<1> HIDE DEF p, q
<1>10. QED
  BY <1>7, <1>8, <1>9

-----------------------------------------------------------------------------
(* In the tree of a whole document the nodes a request hits are the leaves  *)
(* of the paths it matches.                                                 *)
LEMMA HitOwners ==
  ASSUME NoTwins, TreeInv, NoSharedLeaf, next > Len(doc), NEW request \in Seq(Nat), NEW method,
         NEW texts, Split(TrimLeft(request), texts)
  PROVE  /\ \A n \in HitBy(nodes, request, method) :
              /\ n.owner \in Candidates(texts, method) /\ n.pattern = n.owner
              /\ n.owner \in Inserted /\ LeafPath(doc[n.owner]) = n.path
         /\ \A i \in Candidates(texts, method) :
              i \in Inserted /\ \E n \in HitBy(nodes, request, method) : n.owner = i
<1> DEFINE full == TrimLeft(request)
           hits == HitBy(nodes, request, method)
<1>1. TypeInv /\ AcceptedInv /\ HeldInv /\ OwnerInv /\ IsTree(nodes) /\ doc \in Documents
  BY DEF TreeInv, TypeInv
<1>2. Inserted = 1..Len(doc) /\ DOMAIN doc = 1..Len(doc)
  <2>1. doc \in Seq(Items) /\ next \in 1..(Len(doc) + 1)
    BY <1>1, DocumentsAssumption DEF TypeInv
  <2>2. next - 1 = Len(doc)
    BY <2>1
  <2>3. QED
    BY <2>1, <2>2 DEF Inserted
<1>3. hits = {n \in Range(nodes) : Hit(n, 0, full, method)}
  BY <1>1, HitNodes
<1>4. \A n : Hit(n, 0, full, method) <=> method \in n.methods /\ \A k \in 1..Len(n.path) : Fits(n.path, k, full)
  BY DEF Hit
<1>5. \A i \in Inserted : MatchesPath(doc[i].pattern, texts) <=>
        \A k \in 1..Len(LeafPath(doc[i])) : Fits(LeafPath(doc[i]), k, full)
  <2>1. SUFFICES ASSUME NEW i \in Inserted
                 PROVE MatchesPath(doc[i].pattern, texts) <=>
                         \A k \in 1..Len(LeafPath(doc[i])) : Fits(LeafPath(doc[i]), k, full)
    OBVIOUS
  <2>2. i \in 1..Len(doc) /\ IsLeafPath(LeafPath(doc[i]))
    BY <1>1, <1>2 DEF AcceptedInv
  <2>3. QED
    BY <1>1, <2>2, MatchesIfFits
<1> HIDE DEF full, hits
<1>6. ASSUME NEW n \in Range(nodes), n.methods # {}
      PROVE  /\ n.owner \in Inserted /\ LeafPath(doc[n.owner]) = n.path /\ n.pattern = n.owner
             /\ doc[n.owner].methods = n.methods
  <2>1. PICK x \in DOMAIN nodes : nodes[x] = n
    BY DEF Range
  <2>2. \A j \in {n.owner, n.pattern} : j \in Inserted /\ LeafPath(doc[j]) = n.path /\ doc[j].methods # {}
    BY <1>1, <1>6, <2>1 DEF OwnerInv
  <2>3. doc[n.owner].methods = n.methods
    BY <1>1, <1>6, <2>1 DEF OwnerInv
  <2>4. n.pattern = n.owner
    BY <1>1, <2>2, OwnLeaf
  <2>5. QED
    BY <2>2, <2>3, <2>4
<1>7. ASSUME NEW n \in hits
      PROVE  /\ n.owner \in Candidates(texts, method) /\ n.pattern = n.owner
             /\ n.owner \in Inserted /\ LeafPath(doc[n.owner]) = n.path
  <2>1. n \in Range(nodes) /\ method \in n.methods /\ \A k \in 1..Len(n.path) : Fits(n.path, k, full)
    BY <1>3, <1>4
  <2>2. /\ n.owner \in Inserted /\ LeafPath(doc[n.owner]) = n.path /\ n.pattern = n.owner
        /\ doc[n.owner].methods = n.methods
    BY <1>6, <2>1
  <2>3. MatchesPath(doc[n.owner].pattern, texts)
    BY <1>5, <2>1, <2>2
  <2>4. QED
    BY <1>2, <2>1, <2>2, <2>3 DEF Candidates
<1>8. ASSUME NEW i \in Candidates(texts, method)
      PROVE  i \in Inserted /\ \E n \in hits : n.owner = i
  <2>1. i \in Inserted /\ method \in doc[i].methods /\ MatchesPath(doc[i].pattern, texts)
    BY <1>2 DEF Candidates
  <2>2. PICK x \in DOMAIN nodes : nodes[x].path = LeafPath(doc[i]) /\ nodes[x].methods # {}
    BY <1>1, <2>1 DEF HeldInv
  <2> DEFINE n == nodes[x]
  <2>3. n \in Range(nodes)
    BY <2>2 DEF Range
  <2> HIDE DEF n
  <2>4. n.path = LeafPath(doc[i]) /\ n.methods # {}
    BY <2>2 DEF n
  <2>5. /\ n.owner \in Inserted /\ LeafPath(doc[n.owner]) = n.path /\ doc[n.owner].methods = n.methods
    BY <1>6, <2>3, <2>4
  <2>6. n.owner = i
    <3>1. doc[i].methods # {} /\ doc[n.owner].methods # {}
      BY <2>1, <2>4, <2>5
    <3>2. QED
      BY <1>1, <2>1, <2>4, <2>5, <3>1, OwnLeaf
  <2>7. method \in n.methods /\ \A k \in 1..Len(n.path) : Fits(n.path, k, full)
    BY <1>5, <2>1, <2>4, <2>5, <2>6
  <2>8. n \in hits
    BY <1>3, <1>4, <2>3, <2>7
  <2>9. QED
    BY <2>1, <2>6, <2>8
<1>9. QED
  BY <1>7, <1>8 DEF hits

(* The owner of the first of the nodes that are hit is the most specific of *)
(* the candidates.                                                          *)
LEMMA PartBoth ==
  ASSUME NEW p \in Seq(Segments), NEW q \in Seq(Segments), NEW k, Part(p, q, k)
  PROVE  Part(q, p, k)
BY DEF Part

LEMMA BestIsMostSpecific ==
  ASSUME NoTwins, TreeInv, NoSharedLeaf, next > Len(doc), NEW request \in Seq(Nat), NEW method,
         NEW texts, Split(TrimLeft(request), texts),
         NEW n, Best(nodes, HitBy(nodes, request, method), n)
  PROVE  LET some == Candidates(texts, method)
         IN  n.owner = CHOOSE i \in some : \A j \in some \ {i} : MoreSpecific(i, j)
<1> DEFINE some == Candidates(texts, method)
           hits == HitBy(nodes, request, method)
           best == CHOOSE i \in some : \A j \in some \ {i} : MoreSpecific(i, j)
           b == n.owner
<1>1. IsTree(nodes) /\ n \in hits /\ hits \subseteq Range(nodes)
  <2>1. IsTree(nodes)
    BY DEF TreeInv, TypeInv
  <2>2. QED
    BY <2>1, HitNodes DEF Best
<1>2. /\ \A m \in hits : m.owner \in some /\ m.owner \in Inserted /\ LeafPath(doc[m.owner]) = m.path
      /\ \A i \in some : i \in Inserted /\ \E m \in hits : m.owner = i
  BY HitOwners
<1>3. \A m \in hits \ {n} : Ahead(nodes, n.path, m.path)
  BY DEF Best
<1> HIDE DEF hits, some
<1>4. b \in some /\ b \in Inserted /\ LeafPath(doc[b]) = n.path
  BY <1>1, <1>2
<1>5. ASSUME NEW j \in some, j # b PROVE MoreSpecific(b, j) /\ ~MoreSpecific(j, b)
  <2>1. PICK m \in hits : m.owner = j /\ j \in Inserted /\ LeafPath(doc[j]) = m.path
    BY <1>2
  <2>2. m # n /\ m \in Range(nodes) /\ n \in Range(nodes)
    BY <1>1, <1>5, <2>1
  <2>3. PICK k \in Nat : Part(n.path, m.path, k) /\ Sooner(nodes, SubSeq(n.path, 1, k), SubSeq(m.path, 1, k))
    BY <1>3, <2>1, <2>2 DEF Ahead
  <2>4. n.path \in Seq(Segments) /\ m.path \in Seq(Segments)
    BY <1>1, <2>2, TreeNodes
  <2>5. k \in 1..Len(n.path) /\ k \in 1..Len(m.path) /\ Part(m.path, n.path, k)
    BY <2>3, <2>4, PartBoth DEF Part
  <2>6. PICK x \in Range(nodes) : x.path = SubSeq(n.path, 1, k)
    BY <1>1, <2>2, <2>5, TreeNodes
  <2>7. PICK y \in Range(nodes) : y.path = SubSeq(m.path, 1, k)
    BY <1>1, <2>2, <2>5, TreeNodes
  <2> HIDE DEF b
  <2>8. Sooner(nodes, x.path, y.path) /\ ~Sooner(nodes, y.path, x.path)
    BY <1>1, <2>3, <2>6, <2>7, SoonerFacts
  <2>9. MoreSpecific(b, j) <=> Sooner(nodes, x.path, y.path)
    BY <1>4, <2>1, <2>3, <2>6, <2>7, SpecificIfSooner
  <2>10. MoreSpecific(j, b) <=> Sooner(nodes, y.path, x.path)
    BY <1>4, <2>1, <2>5, <2>6, <2>7, SpecificIfSooner
  <2>11. QED
    BY <2>8, <2>9, <2>10
<1> HIDE DEF b
<1>6. b \in some /\ \A j \in some \ {b} : MoreSpecific(b, j)
  BY <1>4, <1>5
<1>7. best \in some /\ \A j \in some \ {best} : MoreSpecific(best, j)
  BY <1>6
<1> HIDE DEF best
<1>8. best = b
  BY <1>5, <1>6, <1>7
<1>9. QED
  BY <1>8 DEF best, b, some

LEMMA RoutedFollows ==
  ASSUME NoTwins, TreeInv, NoSharedLeaf, ServedInv
  PROVE  RoutedToMostSpecific
<1>1. SUFFICES ASSUME served.answer.status # "none",
                      Empty \notin Range(WithoutSlash(TrimLeft(served.request), Empty))
               PROVE  LET texts == WithoutSlash(TrimLeft(served.request), Empty)
                          some == Candidates(texts, served.method)
                          best == CHOOSE i \in some : \A j \in some \ {i} : MoreSpecific(i, j)
                          params == Bindings(best, texts)
                          answer == served.answer
                      IN  IF some = {} THEN answer.status = "notFound"
                          ELSE IF Range(params) \cap Undecodable # {} THEN answer.status = "badRequest"
                          ELSE /\ answer.status = "found"
                               /\ answer.owner = best
                               /\ answer.pattern = best
                               /\ answer.params = params
  BY DEF RoutedToMostSpecific
<1>2. PICK request \in Requests, method \in Methods :
        served = [request |-> request, method |-> method, answer |-> FindRoute(request, method)]
  BY <1>1 DEF ServedInv
<1>3. next > Len(doc)
  BY <1>1 DEF ServedInv
<1>4. /\ served.request = request /\ served.method = method /\ served.answer = FindRoute(request, method)
  BY <1>2
<1> DEFINE full == TrimLeft(request)
           texts == WithoutSlash(full, Empty)
           some == Candidates(texts, method)
           best == CHOOSE i \in some : \A j \in some \ {i} : MoreSpecific(i, j)
           params == Bindings(best, texts)
           hits == HitBy(nodes, request, method)
           r == RouteOf(nodes, request, method)
           answer == FindRoute(request, method)
<1>5. IsTree(nodes) /\ request \in Seq(Nat) /\ TypeInv /\ AcceptedInv
  BY RequestsAssumption DEF TreeInv, TypeInv
<1>6. full \in Seq(Nat) /\ Len(full) \in Nat \ {0}
  BY <1>5, TrimFacts
<1>7. Split(full, texts)
  <2>1. Empty \notin Range(WithoutSlash(full, Empty))
    BY <1>1, <1>4
  <2> HIDE DEF full
  <2>2. QED
    BY <1>6, <2>1, SplitTexts
<1>8. Answered(nodes, hits, 0, full, r)
  BY <1>5, RouteAnswers
<1>9. /\ \A n \in hits :
           /\ n.owner \in some /\ n.pattern = n.owner
           /\ n.owner \in Inserted /\ LeafPath(doc[n.owner]) = n.path
      /\ \A i \in some : \E n \in hits : n.owner = i
  <2>1. Split(TrimLeft(request), texts)
    BY <1>7
  <2> HIDE DEF full, texts
  <2>2. \A n \in HitBy(nodes, request, method) :
          /\ n.owner \in Candidates(texts, method) /\ n.pattern = n.owner
          /\ n.owner \in Inserted /\ LeafPath(doc[n.owner]) = n.path
    BY <1>3, <1>5, <2>1, HitOwners
  <2>3. \A i \in Candidates(texts, method) : \E n \in HitBy(nodes, request, method) : n.owner = i
    BY <1>3, <1>5, <2>1, HitOwners
  <2>4. QED
    BY <2>2, <2>3
<1>10. answer = IF r.status = "found" /\ Range(r.params) \cap Undecodable # {}
                  THEN [status |-> "badRequest"] ELSE r
  BY DEF FindRoute
<1>11. CASE some = {}
  <2> HIDE DEF some, hits, r, answer
  <2>1. hits = {}
    BY <1>9, <1>11
  <2>2. r = NotFound
    BY <1>8, <2>1 DEF Answered
  <2>3. answer.status = "notFound"
    BY <1>10, <2>2 DEF NotFound
  <2>4. QED
    BY <1>4, <1>11, <2>3 DEF some, answer
<1>12. CASE some # {}
  <2>1. PICK n \in hits : Best(nodes, hits, n) /\ r = RouteTo(n, 0, full)
    <3> HIDE DEF some, hits, r, full
    <3>1. hits # {}
      BY <1>9, <1>12
    <3>2. QED
      BY <1>8, <3>1 DEF Answered
  <2>2. n.owner = best
    <3> HIDE DEF texts
    <3>1. QED
      BY <1>3, <1>5, <1>7, <2>1, BestIsMostSpecific
  <2>3. n.owner \in some /\ n.pattern = n.owner /\ n.owner \in Inserted /\ LeafPath(doc[n.owner]) = n.path
    BY <1>9
  <2>4. params = ParamsOf(n.path, 0, full)
    <3>1. doc \in Documents /\ n.owner \in 1..Len(doc) /\ IsLeafPath(LeafPath(doc[n.owner]))
      <4>1. doc \in Seq(Items) /\ doc \in Documents /\ next \in 1..(Len(doc) + 1)
        BY <1>5, DocumentsAssumption DEF TypeInv
      <4>2. Inserted \subseteq 1..Len(doc)
        BY <4>1 DEF Inserted
      <4>3. QED
        BY <1>5, <2>3, <4>1, <4>2 DEF AcceptedInv
    <3>2. \A k \in 1..Len(n.path) : Fits(n.path, k, full)
      <4>1. Hit(n, 0, full, method)
        BY <1>5, HitNodes
      <4>2. QED
        BY <4>1 DEF Hit
    <3> HIDE DEF full, texts, best, some
    <3>3. Bindings(n.owner, texts) = ParamsOf(LeafPath(doc[n.owner]), 0, full)
      BY <1>7, <2>3, <3>1, <3>2, BindingsAreParams
    <3>4. QED
      BY <2>2, <2>3, <3>3
  <2> HIDE DEF hits, r, full, texts, some, best, params, answer
  <2>5. /\ r.status = "found" /\ r.owner = best /\ r.pattern = best /\ r.params = params
    BY <2>1, <2>2, <2>3, <2>4 DEF RouteTo
  <2>6. IF Range(params) \cap Undecodable # {} THEN answer.status = "badRequest"
        ELSE /\ answer.status = "found" /\ answer.owner = best /\ answer.pattern = best
             /\ answer.params = params
    BY <1>10, <2>5
  <2>7. QED
    BY <1>4, <1>12, <2>6 DEF answer, params, best, some, texts, full
<1>13. QED
  BY <1>11, <1>12

(* RoutedToMostSpecific, of every document without twins and every request  *)
(* without doubled slashes: the search of the tree finds the most specific  *)
(* path that matches and has the method, with its parameters, however far   *)
(* it has to backtrack.                                                     *)
THEOREM RoutesAreMostSpecific ==
  ASSUME NoTwins
  PROVE  Spec => []RoutedToMostSpecific
<1>1. TreeInv /\ ServedInv /\ NoSharedLeaf => RoutedToMostSpecific
  BY RoutedFollows
<1>2. QED
  BY <1>1, TreeAlways, LeavesAreNotShared, PTL

(* PatternIsOfTheLeaf, of every document without twins: two paths with the  *)
(* same static leaf are all that can make a route report a pattern that is  *)
(* not of the operation it serves.                                          *)
LEMMA PatternFollows ==
  ASSUME NoTwins, TreeInv, NoSharedLeaf, ServedInv
  PROVE  PatternIsOfTheLeaf
<1>1. SUFFICES ASSUME served.answer.status = "found" PROVE served.answer.pattern = served.answer.owner
  BY DEF PatternIsOfTheLeaf
<1>2. PICK request \in Requests, method \in Methods :
        served = [request |-> request, method |-> method, answer |-> FindRoute(request, method)]
  BY <1>1 DEF ServedInv
<1> DEFINE r == RouteOf(nodes, request, method)
           hits == HitBy(nodes, request, method)
<1>3. IsTree(nodes) /\ request \in Seq(Nat) /\ TypeInv /\ OwnerInv
  BY RequestsAssumption DEF TreeInv, TypeInv
<1>4. Answered(nodes, hits, 0, TrimLeft(request), r)
  BY <1>3, RouteAnswers
<1>5. FindRoute(request, method) = IF r.status = "found" /\ Range(r.params) \cap Undecodable # {}
                                     THEN [status |-> "badRequest"] ELSE r
  BY DEF FindRoute
<1>6. hits \subseteq {n \in Range(nodes) : n.methods # {}}
  BY <1>3, HitNodes DEF Hit
<1> HIDE DEF r, hits
<1>7. served.answer = r /\ r # NotFound
  BY <1>1, <1>2, <1>5 DEF NotFound
<1>8. PICK n \in hits : r = RouteTo(n, 0, TrimLeft(request))
  BY <1>4, <1>7 DEF Answered
<1>9. r.owner = n.owner /\ r.pattern = n.pattern
  BY <1>8 DEF RouteTo
<1>10. PICK x \in DOMAIN nodes : nodes[x] = n
  BY <1>6 DEF Range
<1>11. \A j \in {n.owner, n.pattern} : j \in Inserted /\ LeafPath(doc[j]) = n.path /\ doc[j].methods # {}
  BY <1>3, <1>6, <1>10 DEF OwnerInv
<1>12. n.pattern = n.owner
  BY <1>3, <1>11, OwnLeaf
<1>13. QED
  BY <1>7, <1>9, <1>12

THEOREM PatternsAreOfTheLeaf ==
  ASSUME NoTwins
  PROVE  Spec => []PatternIsOfTheLeaf
<1>1. TreeInv /\ ServedInv /\ NoSharedLeaf => PatternIsOfTheLeaf
  BY PatternFollows
<1>2. QED
  BY <1>1, TreeAlways, LeavesAreNotShared, PTL
=============================================================================
