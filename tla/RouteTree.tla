------------------------------ MODULE RouteTree ------------------------------
(***************************************************************************)
(* The route tree of the proxy client: BuildMetadataTree inserts the paths *)
(* of an API document into a tree of static, regexp, parameter and         *)
(* catch-all nodes (openapiclient/metadata.go, internal/tree.go), and      *)
(* FindRoute searches it depth first with backtracking for every request.  *)
(*                                                                         *)
(* A path pattern is a sequence of segments and a request path a sequence  *)
(* of texts: what stands between slashes, the leading slash removed.  Keys *)
(* and texts are numbers in the order of the strings they stand for, 0 for *)
(* the empty string (a trailing or a doubled slash).  A node is identified *)
(* by the edges (type and key) that lead to it from the root.              *)
(***************************************************************************)
EXTENDS Naturals, Sequences, FiniteSets, SequencesExt

CONSTANTS
  Documents,    \* the documents clients are built from: sequences of path items
  Requests,     \* the request paths
  Methods,      \* the HTTP methods
  Accepts,      \* Accepts[rex], the texts a regular expression matches
  Undecodable   \* the texts no path parameter can be decoded from

Empty == 0

(* DecodePathValue rejects the empty text whatever the schema. *)
ASSUME UndecodableAssumption == Empty \in Undecodable

ASSUME RequestsAssumption == Requests \subseteq Seq(Nat)

VARIABLES
  doc,          \* the document: a sequence of [pattern, methods, valid]
  next,         \* the path item BuildMetadataTree inserts next
  nodes,        \* the nodes of the tree without the root, oldest first
  failed,       \* InsertRoute returned an error, so NewProxyClient fails
  served        \* the last request served and its outcome

vars == <<doc, next, nodes, failed, served>>

-----------------------------------------------------------------------------
(* Segments of patterns; the first four are also the edges of the tree.    *)
Static(k) == [typ |-> "static", key |-> k, rex |-> 0]
Param(k) == [typ |-> "param", key |-> k, rex |-> 0]
Regexp(k, r) == [typ |-> "regexp", key |-> k, rex |-> r]
CatchAll == [typ |-> "catchAll", key |-> Empty, rex |-> 0]
Malformed == [typ |-> "malformed", key |-> Empty, rex |-> 0]

(* A trailing slash, and the child that ends the path of a parameter. *)
End == Static(Empty)

(* The groups of Node.children in the order FindRoute tries them. *)
Group(e) ==
  CASE e.typ = "static" -> 0 [] e.typ = "regexp" -> 1
    [] e.typ = "param" -> 2 [] e.typ = "catchAll" -> 3

(* What a document may have: the paths of its items have one segment at     *)
(* least and no doubled slash.                                              *)
Segments ==
  {s \in [typ : {"static", "param", "regexp", "catchAll", "malformed"}, key : Nat, rex : Nat] :
     /\ s.typ \in {"static", "param"} => s.rex = 0
     /\ s.typ \in {"catchAll", "malformed"} => s.key = Empty /\ s.rex = 0}

Items == [pattern : Seq(Segments), methods : SUBSET Methods, valid : BOOLEAN]

ASSUME DocumentsAssumption ==
  \A d \in Documents :
    /\ d \in Seq(Items)
    /\ \A i \in DOMAIN d : 
         /\ d[i].pattern # <<>>
         /\ \A k \in 1..(Len(d[i].pattern) - 1) : d[i].pattern[k] # End

NewNode(path) == [path |-> path, methods |-> {}, owner |-> 0, pattern |-> 0]

(* The index of the node at path: its age among its siblings, too. *)
IndexOf(tree, path) == SelectInSeq(tree, LAMBDA n : n.path = path)
Exists(path) == IndexOf(nodes, path) # 0

TypeOK ==
  /\ doc \in Documents
  /\ next \in 1..Len(doc) + 1
  /\ failed \in BOOLEAN
  /\ \A i \in DOMAIN nodes :
       /\ nodes[i].methods \subseteq Methods
       /\ {nodes[i].owner, nodes[i].pattern} \subseteq 0..Len(doc)
       /\ IndexOf(nodes, nodes[i].path) = i
  /\ served.answer.status \in {"none", "notFound", "badRequest", "found"}

-----------------------------------------------------------------------------
(* InsertRoute                                                             *)

(* The edges from the root to the leaf of a pattern.  A trailing slash is   *)
(* dropped behind a static segment; behind a parameter, with or without the *)
(* slash, and in "/", an empty static child ends the path.                  *)
LeafPath(item) ==
  LET segs == IF Last(item.pattern) = End THEN Front(item.pattern) ELSE item.pattern
  IN  IF segs = <<>> \/ Last(segs).typ \in {"param", "regexp"}
        THEN Append(segs, End)
        ELSE segs

NewNodes_Unshared(item) ==
  [i \in DOMAIN LeafPath(item) |-> NewNode(SubSeq(LeafPath(item), 1, i))]

(* The nodes insertChildNode appends on its way down.  Where it checks the  *)
(* operations before it appends the leaf, an item without any adds no leaf. *)
NewNodes(item) ==
  LET path == LeafPath(item)
      noLeaf == Last(path) \in {End, CatchAll} /\ item.methods = {}
      depth == IF noLeaf THEN Len(path) - 1 ELSE Len(path)
      old == Cardinality({k \in 1..depth : Exists(SubSeq(path, 1, k))})
  IN  [i \in 1..(depth - old) |-> NewNode(SubSeq(path, 1, old + i))]

Duplicated_Never(item) == FALSE

(* ErrDuplicatedRoutingPattern: checked for catch-all and parameter leaves, *)
(* not by insertChildStaticNode.                                            *)
Duplicated(item) ==
  LET path == LeafPath(item)
  IN  Exists(path) /\ \/ Last(path) = CatchAll
                      \/ /\ Last(path) = End
                         /\ item.methods # {}
                         /\ nodes[IndexOf(nodes, path)].methods # {}

(* The errors of InsertRoute: a segment patNextSegment rejects, a wildcard  *)
(* that is not last, an operation createMethods rejects, a duplicate.       *)
InsertError(item) ==
  \/ Malformed \in Range(item.pattern)
  \/ \E k \in 1..(Len(item.pattern) - 1) : item.pattern[k] = CatchAll
  \/ ~item.valid
  \/ Duplicated(item)

(* child.handlers = handlers, and the pattern of the first insertion stays. *)
SetLeaf(all, i) ==
  [n \in DOMAIN all |->
     IF all[n].path = LeafPath(doc[i]) /\ doc[i].methods # {}
       THEN [all[n] EXCEPT !.methods = doc[i].methods,
                           !.owner = i,
                           !.pattern = IF @ = 0 THEN i ELSE @]
       ELSE all[n]]

-----------------------------------------------------------------------------
(* FindRoute                                                               *)

NotFound == [status |-> "notFound"]

Found(n, method) ==
  IF method \in n.methods
    THEN [status |-> "found", owner |-> n.owner, pattern |-> n.pattern, params |-> <<>>]
    ELSE NotFound

Precedes_ParamsFirst(tree, m, n) ==
  LET e == Last(m.path)
      f == Last(n.path)
  IN  \/ Group(e) > Group(f)
      \/ (Group(e) = Group(f) /\ IndexOf(tree, m.path) < IndexOf(tree, n.path))

(* Children are tried group by group, sorted by key, oldest first. *)
Precedes(tree, m, n) ==
  LET e == Last(m.path)
      f == Last(n.path)
  IN  \/ Group(e) < Group(f)
      \/ (Group(e) = Group(f) /\ e.key < f.key)
      \/ (Group(e) = Group(f) /\ e.key = f.key /\ IndexOf(tree, m.path) < IndexOf(tree, n.path))

Children(tree, path) ==
  {n \in Range(tree) : Len(n.path) = Len(path) + 1 /\ Front(n.path) = path}

First(tree, some) == CHOOSE m \in some : \A n \in some \ {m} : Precedes(tree, m, n)

(* What is left of a path behind its first k segments. *)
Rest(texts, k) == IF k < Len(texts) THEN SubSeq(texts, k + 1, Len(texts)) ELSE <<Empty>>

Matches(e, search) ==
  CASE e.typ = "static" -> e.key = Head(search)
    [] e.typ = "regexp" -> search # <<Empty>> /\ Head(search) \in Accepts[e.rex]
    [] e.typ = "param" -> search # <<Empty>>
    [] e.typ = "catchAll" -> TRUE

IsLeaf(e, remain) == e.typ = "catchAll" \/ (e.typ = "static" /\ remain = <<Empty>>)

(* On the way back every parameter overwrites the one of the same name      *)
(* found deeper.                                                            *)
With(params, key, text) ==
  [name \in DOMAIN params \cup {key} |-> IF name = key THEN text ELSE params[name]]

Bind(e, text, r) ==
  IF e.typ \in {"regexp", "param"} /\ r # NotFound
    THEN [r EXCEPT !.params = With(@, e.key, text)]
    ELSE r

(* findRouteRecursive: what the node at a path answers is what the first of *)
(* its children answers under which the rest of the texts is found.         *)
Try(n, texts, method, answer) ==
  LET e == Last(n.path)
      search == Rest(texts, Len(n.path) - 1)
  IN  IF ~Matches(e, search) THEN NotFound
      ELSE IF IsLeaf(e, Rest(texts, Len(n.path))) THEN Found(n, method)
      ELSE Bind(e, Head(search), answer[n.path])

FindBelow(tree, path, texts, method, answer) ==
  LET hits == {n \in Children(tree, path) : Try(n, texts, method, answer) # NotFound}
  IN  IF hits = {} THEN NotFound ELSE Try(First(tree, hits), texts, method, answer)

Places(tree) == {<<>>} \cup {n.path : n \in Range(tree)}

(* strings.TrimLeft(path, "/") *)
TrimLeft(request) ==
  LET texts == {k \in DOMAIN request : request[k] # Empty}
      first == CHOOSE k \in texts : \A j \in texts : k <= j
  IN  IF texts = {} THEN <<Empty>> ELSE SubSeq(request, first, Len(request))

RouteOf(tree, request, method) ==
  LET texts == TrimLeft(request)
      answer[path \in Places(tree)] == FindBelow(tree, path, texts, method, answer)
  IN  answer[<<>>]

(* A route is found first and its parameters are decoded afterwards: a text *)
(* that does not decode is an error and never another route.                *)
FindRoute(request, method) ==
  LET r == RouteOf(nodes, request, method)
  IN  IF r.status = "found" /\ Range(r.params) \cap Undecodable # {}
        THEN [status |-> "badRequest"]
        ELSE r

-----------------------------------------------------------------------------
Init ==
  /\ doc \in Documents
  /\ next = 1
  /\ nodes = <<>>
  /\ failed = FALSE
  /\ served = [answer |-> [status |-> "none"]]

(* BuildMetadataTree inserts the next path item, in document order. *)
InsertRoute ==
  /\ ~failed
  /\ next <= Len(doc)
  /\ ~InsertError(doc[next])
  /\ nodes' = SetLeaf(nodes \o NewNodes(doc[next]), next)
  /\ next' = next + 1
  /\ UNCHANGED <<doc, failed, served>>

(* The first error ends the construction of the client. *)
InsertRouteFails ==
  /\ ~failed
  /\ next <= Len(doc)
  /\ InsertError(doc[next])
  /\ failed' = TRUE
  /\ UNCHANGED <<doc, next, nodes, served>>

(* A client built from the whole document looks up a request. *)
Serve(request, method) ==
  /\ ~failed
  /\ next > Len(doc)
  /\ served' = [request |-> request, method |-> method, answer |-> FindRoute(request, method)]
  /\ UNCHANGED <<doc, next, nodes, failed>>

Next ==
  \/ InsertRoute
  \/ InsertRouteFails
  \/ \E request \in Requests, method \in Methods : Serve(request, method)

Spec == Init /\ [][Next]_vars

-----------------------------------------------------------------------------
(* What the tree is for, without a tree: the paths of the document a        *)
(* request matches, segment by segment, and which of them is the most       *)
(* specific.                                                                *)

Accepted(seg, text) ==
  CASE seg.typ = "static" -> text = seg.key
    [] seg.typ = "regexp" -> text \in Accepts[seg.rex]
    [] seg.typ = "param" -> TRUE

WithoutSlash(s, slash) == IF s # <<>> /\ Last(s) = slash THEN Front(s) ELSE s

(* A wildcard takes one or more segments; behind a parameter, or alone, it  *)
(* takes none as well.                                                      *)
MatchesPath(pattern, texts) ==
  LET segs == WithoutSlash(pattern, End)
      wild == segs # <<>> /\ Last(segs) = CatchAll
      fixed == IF wild THEN Front(segs) ELSE segs
      optional == fixed = <<>> \/ Last(fixed).typ # "static"
  IN  /\ IF wild
           THEN Len(texts) > Len(fixed) \/ (optional /\ Len(texts) = Len(fixed))
           ELSE Len(texts) = Len(fixed)
      /\ \A k \in DOMAIN fixed : Accepted(fixed[k], texts[k])

(* The path item that introduced the first k edges of item i. *)
Introduced(i, k) ==
  CHOOSE j \in 1..i :
    /\ IsPrefix(SubSeq(LeafPath(doc[i]), 1, k), LeafPath(doc[j]))
    /\ \A l \in 1..(j - 1) : ~IsPrefix(SubSeq(LeafPath(doc[i]), 1, k), LeafPath(doc[l]))

(* At the first edge where two paths part, a static segment beats a regexp, *)
(* a regexp beats a parameter, a parameter beats the wildcard.              *)
MoreSpecific(i, j) ==
  LET p == LeafPath(doc[i])
      q == LeafPath(doc[j])
      k == CHOOSE n \in DOMAIN p : p[n] # q[n] /\ SubSeq(p, 1, n - 1) = SubSeq(q, 1, n - 1)
  IN  \/ Group(p[k]) < Group(q[k])
      \/ (Group(p[k]) = Group(q[k]) /\ p[k].key < q[k].key)
      \/ /\ Group(p[k]) = Group(q[k])
         /\ p[k].key = q[k].key
         /\ Introduced(i, k) < Introduced(j, k)

Candidates(texts, method) ==
  {i \in DOMAIN doc : method \in doc[i].methods /\ MatchesPath(doc[i].pattern, texts)}

(* The value of a parameter is the leftmost segment that bears its name. *)
Bindings(i, texts) ==
  LET p == doc[i].pattern
      bound == {k \in DOMAIN p : p[k].typ \in {"regexp", "param"}}
      at(key) == CHOOSE k \in bound : p[k].key = key /\ \A j \in bound : p[j].key = key => k <= j
  IN  [key \in {p[k].key : k \in bound} |-> texts[at(key)]]

-----------------------------------------------------------------------------
(* A request without doubled slashes is routed to the most specific path of *)
(* the document that matches it and has its method, whatever the order of   *)
(* the document and however far the search has to backtrack (a deeper match *)
(* without the method included), with the parameters of that path; it is a  *)
(* bad request exactly when one of those does not decode.                   *)
RoutedToMostSpecific ==
  served.answer.status # "none" =>
    LET texts == WithoutSlash(TrimLeft(served.request), Empty)
        some == Candidates(texts, served.method)
        best == CHOOSE i \in some : \A j \in some \ {i} : MoreSpecific(i, j)
        params == Bindings(best, texts)
        answer == served.answer
    IN  Empty \notin Range(texts) =>
          IF some = {} THEN answer.status = "notFound"
          ELSE IF Range(params) \cap Undecodable # {} THEN answer.status = "badRequest"
          ELSE /\ answer.status = "found"
               /\ answer.owner = best
               /\ answer.pattern = best
               /\ answer.params = params

(* Inserting a path never takes a request away from the path that had it,   *)
(* except in favour of the new one.                                         *)
InsertionKeepsRoutes ==
  [][next' = next + 1 =>
       \A request \in Requests, method \in Methods :
         LET old == RouteOf(nodes, request, method)
             new == RouteOf(nodes', request, method)
         IN  old # NotFound => new = old \/ (new # NotFound /\ new.owner = next)]_vars

(* No two paths of an accepted document that have operations share the leaf *)
(* of a parameter or of a wildcard.                                         *)
NoSharedLeaf ==
  \A i, j \in 1..(next - 1) :
    /\ i < j
    /\ doc[i].methods # {} /\ doc[j].methods # {}
    /\ LeafPath(doc[i]) = LeafPath(doc[j])
    => /\ Last(LeafPath(doc[i])).typ = "static"
       /\ Last(LeafPath(doc[i])) # End

(* tree.go:58 "pattern is the full pattern of the leaf": the pattern a      *)
(* route reports is the path whose operation serves the request.            *)
PatternIsOfTheLeaf ==
  served.answer.status = "found" => served.answer.pattern = served.answer.owner
=============================================================================
