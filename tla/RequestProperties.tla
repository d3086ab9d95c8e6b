--------------------------- MODULE RequestProperties ---------------------------
(***************************************************************************)
(* What a request means to those who write it: the values that are encoded *)
(* are the ones that are decoded, and what a document of version 2 says of *)
(* a request is what is checked of it.  These properties recur over values *)
(* and schemas.                                                             *)
(***************************************************************************)
EXTENDS RequestValidation, Swagger

-----------------------------------------------------------------------------
(* Values that can be written and read back: scalars of the one type of     *)
(* their schema, without separators in their texts, and arrays and objects  *)
(* of them; no alternatives and no keys but the declared ones.              *)
Separators == {",", ".", ";", "=", " ", "|", "[", "]"}
IsPlainText(text) == text \notin {<<>>, NullText} /\ Range(text) \cap Separators = {}

IsPlainScalar(s, v) ==
  /\ Kind(v) \in ScalarKinds \ {"null"} /\ s.type = <<TypeName(v)>>
  /\ Len(WithBranches(s)) = 1 /\ Meets(s, v)
  /\ IsPlainText(FormatScalar(v))

IsPlainArray(s, v) ==
  /\ Kind(v) = "arr" /\ Content(v) # <<>> /\ s.type = <<"array">>
  /\ Len(WithBranches(s)) = 1 /\ Meets(s, v) /\ ~s.uniqueItems
  /\ s.items # None /\ \A t \in s.items : \A x \in Range(Content(v)) : IsPlainScalar(t, x)

IsObjectOf(s, v, Is(_, _)) ==
  /\ Kind(v) = "obj" /\ Content(v) # NoFields /\ s.type = <<"object">>
  /\ Len(WithBranches(s)) = 1 /\ Meets(s, v)
  /\ s.additionalProperties = None /\ s.patternProperties = NoFields /\ s.dependentRequired = NoFields
  /\ DOMAIN Content(v) \subseteq DOMAIN s.properties
  /\ \A k \in DOMAIN Content(v) : Is(s.properties[k], Content(v)[k])

IsPlainFlat(s, v) == IsPlainScalar(s, v) \/ IsPlainArray(s, v)

RECURSIVE IsPlainDeep(_, _)
IsPlainDeep(s, v) == IsPlainFlat(s, v) \/ IsObjectOf(s, v, IsPlainDeep)

(* Arrays may be fields where every text of a field is written with its     *)
(* key.  A string in matrix style is read with the name before it.          *)
RepeatsKeys(def) ==
  Explode(def) /\ (def.in = "query" \/ Style(def) = "matrix")

IsPlain(def, v) ==
  /\ def.schema # None /\ ~HasContent(def)
  /\ LET s == SchemaOf(def)
     IN IF Style(def) = "deepObject" THEN IsPlainDeep(s, v)
        ELSE \/ IsPlainScalar(s, v) /\ (Style(def) = "matrix" => Kind(v) # "str")
             \/ IsPlainArray(s, v)
             \/ IsObjectOf(s, v, IsPlainScalar)
             \/ RepeatsKeys(def) /\ IsObjectOf(s, v, IsPlainFlat)

(* Values nested deeper than the paths that are kept.                       *)
RECURSIVE Depth(_)
Depth(v) ==
  CASE Kind(v) = "arr" -> 1 + Max({0} \cup {Depth(x) : x \in Range(Content(v))})
    [] Kind(v) = "obj" -> 1 + Max({0} \cup {Depth(x) : x \in Range(Content(v))})
    [] OTHER -> 0

IsPlainRequest ==
  /\ request.wire = NothingSent /\ Range(request.parameters) = Parameters
  /\ \A i \in DOMAIN request.parameters :
       /\ request.values[i] = None => ~request.parameters[i].required /\ ~IsObjectParam(request.parameters[i])
       /\ \A v \in request.values[i] : IsPlain(request.parameters[i], v) /\ Depth(v) < 4
  /\ request.body.kind \in {"none", "json"} /\ Called.bodySchema = None
  /\ request.body.kind = "none" => ~Called.bodyRequired

(* The encoder and the decoders agree: a request of plain values that meet  *)
(* their schemas, written by the one in any style of any place and read by  *)
(* the others, is accepted, and the handler sees the values that were sent. *)
RoundTrip ==
  stage = "done" /\ IsPlainRequest =>
    /\ Accepted
    /\ \A i \in DOMAIN request.parameters : \A v \in request.values[i] :
         IsSeen(request.parameters[i]) /\ Seen(request.parameters[i]) = v

(* The leaves of a value, with the paths they are at.                       *)
RECURSIVE Leaves(_, _)
Leaves(v, keys) ==
  CASE Kind(v) \in ScalarKinds ->
         IF FormatScalar(v) \in {<<>>, NullText} THEN {} ELSE {Item(keys, FormatScalar(v))}
    [] Kind(v) = "arr" ->
         UNION {Leaves(Content(v)[i], Append(keys, ParamIndex(i - 1))) : i \in DOMAIN Content(v)}
    [] Kind(v) = "obj" ->
         UNION {Leaves(Content(v)[k], Append(keys, ParamKey(k))) : k \in DOMAIN Content(v)}

(* The fourth key of an item that has four: the items below one object or   *)
(* array of that depth share its place in memory.                           *)
WithoutShared(item) == IF Len(item.keys) = 4 THEN [item EXCEPT !.keys = SubSeq(@, 1, 3)] ELSE item

(* "Each item carries the full key path" (types.go), whatever the order of  *)
(* the maps, but for the shared key: an item of four keys is only said to   *)
(* be below the object or array its leaf is in, with the text of the leaf.  *)
(* Items of five keys and more are copied from there with all their keys.   *)
PathsAreKept ==
  phase = "ready" /\ stage = "encode" /\ encoded = 0 =>
    \A v \in UNION Range(request.values), order \in Orders :
      LET items == EvaluateParameterValue(v, <<>>, order)
      IN /\ Len(items) = Cardinality(Leaves(v, <<>>))
         /\ {WithoutShared(item) : item \in Range(items)} = {WithoutShared(leaf) : leaf \in Leaves(v, <<>>)}

-----------------------------------------------------------------------------
(* A document of version 2, and the parameters of the operation called in   *)
(* it.  The conversion gives up a lower limit of the length and one of the  *)
(* items that has no upper one, tabs between items, and bodies whose media  *)
(* types it overlooks (IsNotLoosened), and limits items that are numbers to *)
(* zeros (IsKept).                                                          *)
SwaggerOf == {ref.doc : ref \in {r \in definition.ref : r.doc.version = "2" /\ definition.spec = None}}
SwaggerOperation(swagger) == swagger.item.operations[request.operation]

IsNotLoosened(p, consumed) ==
  /\ p.in \in Places \cup {"body"}
  /\ p.in = "body" => consumed # <<>>
  /\ p.in # "body" => p.collectionFormat # "tsv" /\ (p.collectionFormat = "multi" => p.in = "query")
  /\ \A k \in {p.keywords} \cup p.keywords.items : k.minLength = None
  /\ p.keywords.minItems # None => Positive(p.keywords.maxItems) # None

IsKept(p) == \A k \in p.keywords.items : k.type = <<"string">>

IsAllowed(p) ==
  CASE p.in = "body" /\ request.body.kind = "json" -> \A s \in p.schema : Meets(s, request.body.val)
    [] p.in # "body" /\ p.name \in DOMAIN request.meant -> Meets(p.keywords, request.meant[p.name])
    [] OTHER -> ~p.required

(* What a document of version 2 says of a request is what is checked after  *)
(* the conversion to version 3: a request is accepted only if its           *)
(* parameters, written as their collection formats say, are allowed there,  *)
(* with the values that were meant, and it is accepted whenever they are,   *)
(* if all items are texts.                                                  *)
SwaggerIsKept ==
  stage = "done" /\ outcome # "crashed" =>
    \A swagger \in SwaggerOf :
      LET op == SwaggerOperation(swagger)
          all == Range(op.parameters) \cup Range(swagger.item.common)
      IN (\A p \in all : IsNotLoosened(p, Consumed(swagger, op))) =>
           /\ Accepted => \A p \in all :
                /\ IsAllowed(p)
                /\ p.in # "body" /\ p.name \in DOMAIN request.meant =>
                     params[p.in][p.name] = request.meant[p.name]
           /\ (\A p \in all : IsKept(p) /\ IsAllowed(p)) => Accepted
=============================================================================
