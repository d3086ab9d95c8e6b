----------------------------- MODULE ParameterNode -----------------------------
(***************************************************************************)
(* The decoder of deep objects (oasvalidator/parameter/param_node.go).     *)
(* DeepObject shows the tree of a query; this module starts from the       *)
(* normalized tree of keys of names that are no numbers, with at most one  *)
(* "[]" at the end, which is the same in every order of the query.         *)
(***************************************************************************)
EXTENDS ParameterDecode

CONSTANTS
  NodeBelow(_, _),         \* NodeAt, decodeArbitrary, NodeDecode and NodeObject where
  ArbitraryBelow(_),       \* they are applied to a node below or a part of the schema
  NodeDecodedBelow(_, _),
  NodeObjectOf(_, _)

(* A path is a sequence of names; "[]" is the empty name.                   *)
Bracket == <<>>

(* parseDeepObjectKey, one token at a time. *)
parseDeepObjectKey(key) ==
  LET Named(acc) == IF acc.name = <<>> THEN acc.path ELSE Append(acc.path, acc.name)
      Step(acc, i) ==
        CASE key[i] = "[" -> [acc EXCEPT !.path = Named(acc), !.name = <<>>, !.open = TRUE]
          [] key[i] = "]" -> [acc EXCEPT !.path = Append(@, acc.name), !.name = <<>>,
                                         !.open = i < Len(key),
                                         !.ok = @ /\ acc.open /\ (i = Len(key) \/ key[i + 1] = "[")]
          [] OTHER -> [acc EXCEPT !.name = Append(@, key[i])]
      end == FoldLeft(Step, [path |-> <<>>, name |-> <<>>, open |-> FALSE, ok |-> TRUE],
                      [i \in DOMAIN key |-> i])
  IN IF end.ok /\ ~end.open THEN {Named(end)} ELSE {}

Parsed(query) == UNION {parseDeepObjectKey(key) : key \in DOMAIN query \ {<<>>}}
Malformed(query) == \E key \in DOMAIN query \ {<<>>} : parseDeepObjectKey(key) = {}

ChildrenOf(paths, path) ==
  {p[Len(path) + 1] : p \in {q \in paths : Len(q) > Len(path) /\ SubSeq(q, 1, Len(path)) = path}}

(* Names beside "[]" below one parameter. *)
IsMixed(paths) ==
  \E p \in paths : \E n \in 1..(Len(p) - 1) :
    LET children == ChildrenOf(paths, SubSeq(p, 1, n))
    IN Bracket \in children /\ children # {Bracket}

(* A node has texts, and nodes below it by name.  "[]" is hoisted.          *)
NodeAt(query, path) ==
  LET Texts(p) == UNION {IF parseDeepObjectKey(key) = {p} THEN {query[key]} ELSE {} : key \in DOMAIN query}
      children == ChildrenOf(Parsed(query), path)
      own == IF children = {Bracket} THEN Texts(Append(path, Bracket)) ELSE Texts(path)
  IN [ values |-> IF own = {} THEN <<>> ELSE Only(own),
       items |-> [name \in children \ {Bracket} |-> NodeBelow(query, Append(path, name))] ]

NoItems == [name \in {} |-> <<>>]
IsLeaf(node) == node.items = NoItems

-----------------------------------------------------------------------------
decodeArbitrary(node) ==
  IF IsLeaf(node) THEN normalizeRawParamValue(node.values)
  ELSE Obj([name \in DOMAIN node.items |-> ArbitraryBelow(node.items[name])])

decodeArbitraryArray(node) ==
  LET names == SetToSeq(DOMAIN node.items)
  IN IF IsLeaf(node) THEN ToAnySlice(node.values)
     ELSE Arr([i \in DOMAIN names |-> decodeArbitrary(node.items[names[i]])])

(* Array items may be the named children of an object. *)
ItemsOf(ds) == Accept(Ok(Arr([i \in DOMAIN ds |-> ds[i].val])), UNION {ds[i].errs : i \in DOMAIN ds})

decodeArrayValues(node, s) ==
  LET names == SetToSeq(DOMAIN node.items)
      item == Only(TypedItems(s))
  IN IF TypedItems(s) = {} THEN Ok(decodeArbitraryArray(node))
     ELSE IF IsLeaf(node) THEN decodeArrayParamWithItemSchema(node.values, item)
     ELSE ItemsOf([i \in DOMAIN names |-> NodeDecodedBelow(node.items[names[i]], item)])

decodeArray(node, s) == Valid(s, decodeArrayValues(node, s))

(* The nodes of the names that have a schema, beside the fields there are.  *)
DecodeNode(node, schemas) ==
  LET typed == {t \in schemas : ~IsSchemaTypeEmpty(t)}
  IN IF typed = {} THEN Ok(decodeArbitrary(node)) ELSE NodeDecodedBelow(node, Only(typed))

DecodeNodes(node, fields, schemas) ==
  Beside(fields, [name \in DOMAIN schemas |-> DecodeNode(node.items[name], schemas[name])])

(* Only a property that is declared can be found to be missing, after the   *)
(* ones that are there are decoded.                                         *)
Missing(step, node, s) ==
  IF step = "declared" THEN (s.required \cap DOMAIN s.properties) \ DOMAIN node.items ELSE {}

(* The names that no property, and no step before, has decoded.             *)
NodeSchemas(step, node, fields, s) ==
  CASE step = "declared" -> DeclaredSchemas(DOMAIN node.items, s)
    [] step = "additional" -> AdditionalSchemas(DOMAIN node.items \ DOMAIN fields, s)
    [] step = "pattern" -> MatchingSchemas(DOMAIN node.items \ DOMAIN fields, s)

Found(d, missing) == Fields(d.val, d.errs \cup If(missing # {}, "required"))

NodeStep(step, node, s, d) ==
  IF Failed(d) THEN d
  ELSE Found(DecodeNodes(node, d.val, NodeSchemas(step, node, d.val, s)), Missing(step, node, s))

decodeObjectProperties(node, fields, s) ==
  NodeStep("pattern", node, s, NodeStep("additional", node, s,
    NodeStep("declared", node, s, Fields(fields, {}))))

decodeObjectOr(node, fields, branch) ==
  IF IsSchemaObjectEmpty(branch)
    THEN Fields(fields, ValidateObjectWithoutProperties(branch, fields))
    ELSE Join(fields, NodeObjectOf(node, branch))

AllBelow == INSTANCE Branches WITH Try <- decodeObjectProperties
SomeBelow == INSTANCE Branches WITH Try <- decodeObjectOr

(* Of the branches of allOf only the properties are decoded.                *)
NodeAllOf(node, s, d) ==
  IF Failed(d) THEN d ELSE AllBelow!AllOf(node, s.allOf, d.val)
NodeAnyOf(node, s, d) ==
  IF Failed(d) THEN d ELSE SomeBelow!AnyOf(node, s.anyOf, d.val)
NodeOneOf(node, s, d) ==
  IF Failed(d) THEN d ELSE SomeBelow!OneOf(node, s.oneOf, d.val)

FitsWithoutProperties(s, d) ==
  IF Failed(d) THEN d ELSE Fields(d.val, ValidateObjectWithoutProperties(s, d.val))

NodeObject(node, s) ==
  FitsWithoutProperties(s, NodeOneOf(node, s, NodeAnyOf(node, s, NodeAllOf(node, s,
    decodeObjectProperties(node, NoFields, s)))))

decodeObject(node, s) == AsObject(NodeObject(node, s))

NodeFirstType(node, types) ==
  FirstType([i \in DOMAIN types |-> decodePrimitiveQueryValues(types[i], node.values)])

(* A value that is decoded and not valid is a null without an error: the    *)
(* errors returned are the ones of the decoding.  Only a panic is seen.     *)
OrNull(v, errs) == IF errs = {} THEN Ok(v) ELSE Fail(errs \cap Panic)
ValidScalar(s, d) == IF Failed(d) THEN Fail(d.errs) ELSE OrNull(d.val, ValidateValue(s, d.val))

NodeScalar(node, s, types) ==
  ValidScalar(s, IF types = <<>> THEN Ok(Null) ELSE NodeFirstType(node, types))

(* ParameterNode.Decode *)
NodeDecode(node, s) ==
  IF IsSchemaTypeEmpty(s) THEN Ok(decodeArbitrary(node))
  ELSE IF node.values = <<>> /\ IsLeaf(node) THEN Accept(Ok(Null), If(~IsNullable(s), "required"))
  ELSE TryTypes(ExtractSchemaTypes(s), decodeObject(node, s), decodeArray(node, s),
                NodeScalar(node, s, Scalars(ExtractSchemaTypes(s))))

-----------------------------------------------------------------------------
(* One parameter of a deep-object query, its node found at the top.         *)
decodeQueryDeepObjectFromParameter(def, query) ==
  LET node == NodeAt(query, <<def.name>>)
  IN IF def.name \notin ChildrenOf(Parsed(query), <<>>)
       THEN Accept(Ok(Null), If(def.required, "required"))
     ELSE IF def.schema = None THEN Ok(decodeArbitrary(node))
     ELSE NodeDecode(node, Only(def.schema))
=============================================================================
