--------------------------- MODULE RequestValidation ---------------------------
(***************************************************************************)
(* The way of a request to its handler (openapiclient): a client is built, *)
(* the parameters of a request are written by the encoder of this library  *)
(* or by somebody else, they are decoded place by place, the body is       *)
(* validated, and the request is answered with all the errors or accepted  *)
(* with the values found, and credentials are chosen for what is sent on.  *)
(*                                                                         *)
(* A program calls Execute or Stream with a body that is a value; ServeHTTP *)
(* reads the body and the cookies from the wire.                           *)
(***************************************************************************)
EXTENDS Client, ParameterLocation

CONSTANTS
  Requests,  \* groups of pairs of the definition of a client and a request
  Orders,    \* the orders a Go map may be read in, sequences of its keys
  SubSchemasBelow(_),  \* SubSchemas where it is applied to a part of a schema
  DocumentSchemas,     \* the schemas of all documents and their parts, and their
  Height,              \* heights: a schema is higher than its parts
  PlainValues          \* the values of JSON documents, and the values in them

(* A query has finitely many keys, and none without a text.                 *)
IsQuery(query) ==
  IsFiniteSet(DOMAIN query) /\ \A key \in DOMAIN query : IsList(key) /\ IsList(query[key]) /\ query[key] # <<>>

IsWire(w) == {"path", "query", "headers", "cookies"} \subseteq DOMAIN w /\ IsQuery(w.query)

(* What is encoded is a list of items whose keys are texts.                 *)
IsWritten(def, v, order) ==
  LET items == EvaluateParameterValue(v, <<>>, order)
  IN /\ def.in \in {"path", "query", "header"} /\ IsList(def.name) /\ IsList(items)
     /\ \A item \in Range(items) :
          IsList(Format(item.keys, <<>>, FALSE)) /\ IsList(Format(item.keys, def.name, TRUE))

(* A request is for one of the operations of the document.                  *)
IsRequest(def, req) ==
  /\ IsList(req.parameters) /\ IsWire(req.wire)
  /\ req.body.kind \in {"none", "otherType", "malformed", "json"}
  /\ \A i \in DOMAIN req.parameters : \A v \in req.values[i], order \in Orders :
       IsWritten(req.parameters[i], v, order)
  /\ ~BuildPanics(def) => \A doc \in Built(def) : req.operation \in DOMAIN doc.item.operations

ASSUME RequestsAssumption ==
  \A group \in Requests : \A pair \in group : IsDefinition(pair[1]) /\ IsRequest(pair[1], pair[2])

(* Schemas are trees, and their branches are lists.                         *)
ASSUME SchemasAssumption ==
  \A s \in DocumentSchemas :
    /\ Height[s] \in Nat
    /\ \A t \in Parts(s) : t \in DocumentSchemas /\ Height[t] < Height[s]
    /\ IsList(s.allOf) /\ IsList(s.anyOf) /\ IsList(s.oneOf)
    /\ \A x, y \in s.items : x = y
    /\ \A x, y \in s.additionalProperties : x = y

(* What the operations of a document say of requests.                       *)
IsRequestItem(item) ==
  /\ \A op \in Range(item.operations) : "bodySchema" \in DOMAIN op
  /\ \A def \in DefinitionsOf(item) : {"schema", "content"} \subseteq DOMAIN def

(* The schema of a parameter or a body is optional, and so is the content   *)
(* of a parameter.                                                          *)
SchemasIn(def) == UNION ({def.schema} \cup def.content)

SchemasOf(item) ==
  UNION ({op.bodySchema : op \in Range(item.operations)} \cup {SchemasIn(def) : def \in DefinitionsOf(item)})

DefinitionSchemas(def) == IF BuildPanics(def) THEN {} ELSE UNION {SchemasOf(doc.item) : doc \in Built(def)}
GroupSchemas(group) == UNION {DefinitionSchemas(pair[1]) : pair \in group}
AllSchemas == {Typed("string")} \cup UNION {GroupSchemas(group) : group \in Requests}

ASSUME DocumentsAssumption ==
  /\ AllSchemas \subseteq DocumentSchemas
  /\ \A group \in Requests : \A pair \in group :
       ~BuildPanics(pair[1]) => \A doc \in Built(pair[1]) : IsRequestItem(doc.item)

(* Documents have no pointers, and a program has a nil pointer only for a   *)
(* whole body.                                                              *)
AreClosed(values) ==
  \A v \in values :
    \/ Kind(v) \in ScalarKinds \cup {"strs"}
    \/ Kind(v) \in {"arr", "obj"} /\ Range(Content(v)) \subseteq values

ASSUME ValuesAssumption ==
  /\ AreClosed(PlainValues)
  /\ \A text \in DOMAIN AsDocument : AsDocument[text] \in PlainValues
  /\ \A group \in Requests : \A pair \in group :
       \/ pair[2].body.val \in PlainValues
       \/ ~pair[2].served /\ Kind(pair[2].body.val) = "ptr"

(* A request: the number of its operation, the parameters to be encoded with *)
(* a value for some of them, the rest of the wire, the values that is meant *)
(* for, by name, and its body.                                              *)
NothingSent == [path |-> NoValues, query |-> NoValues, headers |-> NoValues, cookies |-> <<>>]
JSON(v) == [kind |-> "json", val |-> v]
NoBody == [kind |-> "none", val |-> Null]

VARIABLES
  request,
  stage,     \* what is done next
  encoded,   \* the number of parameters that are encoded
  wire,      \* the texts sent, by place
  params,    \* the values set on the request, by place
  errs,      \* the errors found
  outcome,   \* "none", "accepted", "rejected" or "crashed"
  authenticator  \* the scheme whose credentials go with an accepted request

requestVars == <<request, stage, encoded, wire, params, errs, outcome, authenticator>>
vars == <<clientVars, requestVars>>

Places == {"path", "query", "header", "cookie"}
Stages == {"encode", "path", "read", "query", "header", "body", "cookie", "settle", "forward", "done"}
Codes ==
  {"type", "enum", "format", "pattern", "minLength", "maxLength", "minItems", "maxItems",
   "minimum", "maximum", "multipleOf", "uniqueItems", "required", "dependentRequired",
   "minProperties", "maxProperties", "notNull", "syntax", "object", "document", "body",
   "contentType"}

(* The values set are found by name, each at its place; a request that is   *)
(* settled has an outcome, and only one with errors is rejected.            *)
TypeOK ==
  /\ ClientTypeOK
  /\ stage \in Stages
  /\ encoded \in 0..Len(request.parameters)
  /\ IsWire(wire)
  /\ DOMAIN params = Places
  /\ errs \subseteq Codes
  /\ outcome \in {"none", "accepted", "rejected", "crashed"}
  /\ stage = "done" <=> outcome # "none"
  /\ outcome = "rejected" => errs # {}
  /\ authenticator \subseteq schemes /\ (outcome # "accepted" => authenticator = None)

Init ==
  /\ \E group \in Requests : \E pair \in group : definition = pair[1] /\ request = pair[2]
  /\ ClientInit
  /\ stage = "encode"
  /\ encoded = 0
  /\ wire = request.wire
  /\ params = [place \in Places |-> NoFields]
  /\ errs = {}
  /\ outcome = "none"
  /\ authenticator = None

(* The operation the route tree finds for the request.                      *)
Called == tree[request.operation]

-----------------------------------------------------------------------------
Encoded(w, def, v, order) ==
  CASE def.in = "path" -> [w EXCEPT !.path = Over([name \in {def.name} |-> EncodePathValue(def, v, order)], @)]
    [] def.in = "query" -> [w EXCEPT !.query = SetQueryParam(@, def, v, order)]
    [] def.in = "header" -> [w EXCEPT !.headers = Over([name \in {def.name} |-> <<EncodeHeader(def, v, order)>>], @)]

(* The sender writes the next parameter, if there is a value for it.        *)
Encode ==
  /\ phase = "ready" /\ stage = "encode" /\ encoded < Len(request.parameters)
  /\ LET i == encoded + 1
         def == request.parameters[i]
     IN \/ /\ request.values[i] = None
           /\ wire' = wire
        \/ \E v \in request.values[i], order \in Orders : wire' = Encoded(wire, def, v, order)
  /\ encoded' = encoded + 1
  /\ UNCHANGED <<clientVars, request, stage, params, errs, outcome, authenticator>>

Send ==
  /\ phase = "ready" /\ stage = "encode" /\ encoded = Len(request.parameters)
  /\ stage' = "path"
  /\ UNCHANGED <<clientVars, request, encoded, wire, params, errs, outcome, authenticator>>

-----------------------------------------------------------------------------
(* The decoders of one place give a value to some of the parameters there   *)
(* and errors to others; a panic is the end of the request.                 *)
Parameters == Range(Called.parameters)
In(place) == {def \in Parameters : def.in = place}

AllErrors(ds) == UNION {ds[def].errs : def \in DOMAIN ds}

Values(ds, valued) ==
  LET Named(name) == CHOOSE def \in valued : def.name = name
  IN [name \in {def.name : def \in valued} |-> ds[Named(name)].val]

Crash ==
  /\ stage' = "done" /\ outcome' = "crashed"
  /\ UNCHANGED <<params, errs>>

(* A mutant: the errors are found and not answered. *)
Answer_Silent(found) ==
  /\ stage' = "done" /\ outcome' = "rejected"
  /\ UNCHANGED <<params, errs>>

Answer(found) ==
  /\ stage' = "done" /\ outcome' = "rejected" /\ errs' = found
  /\ UNCHANGED params

(* The next stage, with the values of the place unless it has errors.       *)
Continue(place, found, values, next) ==
  IF found \cap Panic # {} THEN Crash
  ELSE /\ stage' = next
       /\ errs' = errs \cup found
       /\ params' = IF found = {} THEN [params EXCEPT ![place] = values] ELSE params
       /\ outcome' = outcome

(* validateURLParams, which the router calls: its errors are answered       *)
(* before anything else is read.                                            *)
PathParameter(def) ==
  IF def.name \in DOMAIN wire.path THEN DecodePathValue(def, wire.path[def.name])
  ELSE Accept(Ok(Null), If(def.required, "required"))

HasPath(def) == def.name \in DOMAIN wire.path

SetPath(ds) ==
  LET values == Values(ds, {def \in DOMAIN ds : HasPath(def)})
      raw == [name \in DOMAIN wire.path |-> Str(wire.path[name])]
  IN IF AllErrors(ds) # {} /\ AllErrors(ds) \cap Panic = {}
       THEN Answer(AllErrors(ds))
       ELSE Continue("path", AllErrors(ds), Over(values, raw), "read")

DecodePath ==
  /\ stage = "path"
  /\ SetPath([def \in In("path") |-> PathParameter(def)])
  /\ UNCHANGED <<clientVars, request, encoded, wire, authenticator>>

(* parseHTTPRequestBody; a body given by a program is taken as it is.       *)
BodyError ==
  CASE ~request.served -> {}
    [] request.served /\ request.body.kind = "none" -> If(Called.bodyRequired, "body")
    [] request.served /\ request.body.kind = "otherType" -> {"contentType"}
    [] request.served /\ request.body.kind = "malformed" -> {"body"}
    [] request.served /\ request.body.kind = "json" -> {}

ReadBody ==
  /\ stage = "read"
  /\ IF BodyError # {} THEN Answer(BodyError)
     ELSE stage' = "query" /\ UNCHANGED <<params, errs, outcome>>
  /\ UNCHANGED <<clientVars, request, encoded, wire, authenticator>>

(* Deep objects last; if no parameter has a value, the query as it is.      *)
QueryValues(ps, ds) ==
  Over(Values(ds, DOMAIN ds), Values(ps, {def \in DOMAIN ps : ps[def].present}))

SetQuery(found, values) ==
  LET raw == [key \in DOMAIN wire.query |-> Strs(wire.query[key])]
  IN Continue("query", found, IF values = NoFields THEN raw ELSE values, "header")

ReadQuery(ps, ds) ==
  LET unreadable == DOMAIN ds # {} /\ QueryIsMalformed(wire.query)
  IN SetQuery(AllErrors(ps) \cup (IF unreadable THEN {"syntax"} ELSE AllErrors(ds)),
              QueryValues(ps, ds))

DecodeQuery ==
  /\ stage = "query"
  /\ LET deep == {def \in In("query") : Style(def) = "deepObject"}
     IN ReadQuery([def \in In("query") \ deep |-> decodeQueryFromParameter(def, wire.query)],
                  [def \in deep |-> decodeQueryDeepObjectFromParameter(def, wire.query)])
  /\ UNCHANGED <<clientVars, request, encoded, wire, authenticator>>

(* Every header is there, decoded if it has a definition; one that is not   *)
(* sent is a null.                                                          *)
SetHeaders(ds) ==
  Continue("header", AllErrors(ds), Over(Values(ds, DOMAIN ds), NormalizeHeaders(wire.headers)), "body")

DecodeHeaders ==
  /\ stage = "header"
  /\ SetHeaders([def \in In("header") |-> decodeHeaderParameter(def, wire.headers)])
  /\ UNCHANGED <<clientVars, request, encoded, wire, authenticator>>

(* validateRequestBody *)
ValidateBody ==
  /\ stage = "body"
  /\ LET found == UNION {ValidateValue(s, request.body.val) : s \in Called.bodySchema}
     IN IF found \cap Panic # {} THEN Crash
        ELSE stage' = "cookie" /\ errs' = errs \cup found /\ UNCHANGED <<params, outcome>>
  /\ UNCHANGED <<clientVars, request, encoded, wire, authenticator>>

(* Only the cookies of a request that has some are looked at.               *)
SetCookies(ds) == Continue("cookie", AllErrors(ds), Values(ds, DOMAIN ds), "settle")

DecodeCookies ==
  /\ stage = "cookie"
  /\ IF request.served /\ wire.cookies # <<>>
       THEN SetCookies([def \in In("cookie") |-> decodeCookieParameter(def, wire.cookies)])
       ELSE stage' = "settle" /\ UNCHANGED <<params, errs, outcome>>
  /\ UNCHANGED <<clientVars, request, encoded, wire, authenticator>>

Settle ==
  /\ stage = "settle"
  /\ IF errs = {} THEN stage' = "forward" /\ outcome' = outcome
     ELSE stage' = "done" /\ outcome' = "rejected"
  /\ UNCHANGED <<clientVars, request, encoded, wire, params, errs, authenticator>>

(* newRequestFunc: the handler sends a request of its own.                  *)
NewRequest ==
  /\ stage = "forward"
  /\ authenticator' \in GetAuthenticator(Called.security)
  /\ stage' = "done" /\ outcome' = "accepted"
  /\ UNCHANGED <<clientVars, request, encoded, wire, params, errs>>

Next ==
  \/ BuildDocument /\ UNCHANGED requestVars
  \/ InitOptions /\ UNCHANGED requestVars
  \/ InitServers /\ UNCHANGED requestVars
  \/ InitDefaultHeaders /\ UNCHANGED requestVars
  \/ NewAuthenticators /\ UNCHANGED requestVars
  \/ BuildMetadataTree /\ UNCHANGED requestVars
  \/ stage = "done" /\ Close /\ UNCHANGED requestVars
  \/ Encode \/ Send \/ DecodePath \/ ReadBody \/ DecodeQuery \/ DecodeHeaders
  \/ ValidateBody \/ DecodeCookies \/ Settle \/ NewRequest

Spec == Init /\ [][Next]_vars

-----------------------------------------------------------------------------
(* A schema, its parts, and theirs.                                         *)
SubSchemas(s) == {s} \cup UNION {SubSchemasBelow(t) : t \in Parts(s)}

Accepted == outcome = "accepted"
IsSeen(def) == def.name \in DOMAIN params[def.in]
Seen(def) == params[def.in][def.name]

(* What the validator holds a value to: items are not looked at if their    *)
(* schema has no type, nor declared properties by the patterns they match.  *)
(* A schema that says nothing needs no validation.                          *)
HasType(s) == IsSchemaTypeEmpty(s) => s = AnySchema
SaysNothing(s) == s \in {AnySchema, Typed("object")}
Patterns(s) == DOMAIN s.patternProperties \cap DOMAIN Matching

LooksAt(s) ==
  /\ \A t \in s.items : HasType(t)
  /\ \A p \in Patterns(s) : DOMAIN s.properties \cap Matching[p] = {}

IsValidated(s) == \A t \in SubSchemas(s) : LooksAt(t)

(* What the decoders hold a value to beside that.  They do not validate an  *)
(* object whose schema has neither properties nor branches, nor, of deep    *)
(* objects, a field without a type and what branches say of fields they do  *)
(* not declare; a field two branches declare is the one of the last, and    *)
(* one that additional properties take is held to no pattern.               *)
OnlyDeclares(branch) ==
  /\ branch.properties # NoFields /\ branch.required \subseteq DOMAIN branch.properties
  /\ TypeAllowed(branch, "object")
  /\ branch = [AnySchema EXCEPT !.type = branch.type, !.properties = branch.properties,
                                !.required = branch.required]

DeclaredBy(branches) == UNION {DOMAIN branch.properties : branch \in Range(branches)}

DeclaresOnce(s) ==
  /\ \A i, j \in DOMAIN s.allOf : i # j => DOMAIN s.allOf[i].properties \cap DOMAIN s.allOf[j].properties = {}
  /\ DeclaredBy(s.allOf) \cap (DeclaredBy(s.anyOf) \cup DeclaredBy(s.oneOf)) = {}
  /\ DeclaredBy(s.anyOf) \cap DeclaredBy(s.oneOf) = {}
  /\ DOMAIN s.properties \cap (DeclaredBy(s.allOf) \cup DeclaredBy(s.anyOf) \cup DeclaredBy(s.oneOf)) = {}

BranchesOf(s) == Range(s.allOf) \cup Range(s.anyOf) \cup Range(s.oneOf)

DecodesAll(s) ==
  /\ \A t \in Range(s.properties) \cup Range(s.patternProperties) \cup ExtraSchemas(s) : HasType(t)
  /\ Patterns(s) # {} => ~TakesAdditional(s)
  /\ \A p, q \in Patterns(s) : p # q => Matching[p] \cap Matching[q] = {}
  /\ "object" \in Range(ExtractSchemaTypes(s)) =>
       /\ IsSchemaObjectEmpty(s) => SaysNothing(s)
       /\ \A branch \in BranchesOf(s) : OnlyDeclares(branch)
       /\ BranchesOf(s) # {} => Patterns(s) = {} /\ ExtraSchemas(s) = {}
       /\ DeclaresOnce(s)

IsEnforced(s) == IsValidated(s) /\ \A t \in SubSchemas(s) : DecodesAll(t)

(* Of an array in the path only the items and their number are validated.   *)
IsHeldTo(def) ==
  /\ def.schema # None /\ ~HasContent(def) /\ IsEnforced(SchemaOf(def))
  /\ Style(def) = "deepObject" => HasType(SchemaOf(def))
  /\ def.in = "path" /\ "array" \in Range(TypesOf(def)) =>
       TypeAllowed(SchemaOf(def), "array") /\ BranchesOf(SchemaOf(def)) = {}

(* The handler of an operation sees only values its schemas allow: every    *)
(* value of a parameter, however it was written, and the body of an         *)
(* accepted request meet their schemas.  A null is allowed everywhere, and  *)
(* what is declared to be in a form is in no place that is looked at.       *)
AcceptedIsValid ==
  Accepted =>
    /\ \A place \in Places : \A def \in In(place) :
         IsHeldTo(def) /\ IsSeen(def) => Meets(SchemaOf(def), Seen(def))
    /\ \A s \in Called.bodySchema : IsValidated(s) => Meets(s, request.body.val)

(* The texts of a parameter in the request, in the path without the sign    *)
(* and the name of its style, and whether it is there.                      *)
Without(prefix, text) == IF IsPrefix(prefix, text) THEN SubSeq(text, Len(prefix) + 1, Len(text)) ELSE text

Bare(def, text) ==
  CASE Style(def) = "label" -> Without(<<".">>, text)
    [] Style(def) = "matrix" -> Without(def.name \o <<"=">>, Without(<<";">>, text))
    [] OTHER -> text

SentTexts(def) ==
  LET Of(texts) == IF def.name \in DOMAIN texts THEN texts[def.name] ELSE <<>>
  IN CASE def.in = "path" -> IF def.name \in DOMAIN wire.path THEN <<Bare(def, wire.path[def.name])>> ELSE <<>>
       [] def.in = "query" -> Of(wire.query)
       [] def.in = "header" -> Of(wire.headers)
       [] def.in = "cookie" -> CookieTexts(wire.cookies, def.name)

IsSent(def) ==
  CASE def.in = "query" /\ Style(def) = "deepObject" -> def.name \in ChildrenOf(Parsed(wire.query), <<>>)
    [] def.in = "query" /\ Style(def) # "deepObject" -> def.name \in DOMAIN wire.query
    [] OTHER -> SentTexts(def) # <<>>

(* Required in name only: an exploded object, whose fields stand for it, a  *)
(* cookie of a request without cookies, and a cookie that is an object or a *)
(* document, has no schema, or has one that is nullable.                    *)
MayBeMissing(def) ==
  \/ def.in = "query" /\ Style(def) # "deepObject" /\ Explode(def) /\ IsObjectParam(def)
  \/ /\ def.in = "cookie"
     /\ \/ ~request.served \/ wire.cookies = <<>>
        \/ HasContent(def) \/ def.schema = None
        \/ IsNullable(SchemaOf(def)) \/ "object" \in Range(TypesOf(def))

IsPresent(def) == def.required /\ ~MayBeMissing(def) => IsSent(def)

(* A request without a required parameter, or over HTTP without a required  *)
(* body, is never accepted, but for the exceptions above: the comment of    *)
(* validateRequest skips "cookies if the request is not streaming".  What   *)
(* is declared to be in a form or a body is in no place that is looked at.  *)
RequiredIsPresent ==
  Accepted =>
    /\ \A place \in Places : \A def \in In(place) : IsPresent(def)
    /\ request.served /\ Called.bodyRequired => request.body.kind # "none"

(* A parameter that is sent with a text is not turned into a null, which    *)
(* the handler cannot tell from one that is not sent.  Deep objects do so with a scalar *)
(* that is not valid (the errors returned are not the ones found), and a    *)
(* oneOf whose branches all allow the type of the value does so.            *)
NothingIsLost ==
  Accepted =>
    \A def \in Parameters :
      /\ \E text \in Range(SentTexts(def)) : text # <<>>
      /\ def.in = "cookie" => request.served
      /\ Style(def) # "deepObject" /\ ~HasContent(def)
      /\ \A s \in def.schema : s.oneOf = <<>>
      => IsSeen(def) /\ Seen(def) # Null

-----------------------------------------------------------------------------
OperationSchemas ==
  UNION {SubSchemas(s) : s \in UNION ({Called.bodySchema} \cup {SchemasIn(def) : def \in Parameters})}

(* The validator panics, and the request gets no answer, in two cases only: *)
(* a number at or below an exclusive minimum that is a number, in a schema  *)
(* without an exclusive maximum, and a nil pointer given by a program.      *)
CrashesOnlyOnExclusiveMinimum ==
  outcome = "crashed" =>
    \/ \E s \in OperationSchemas :
         s.exclusiveMaximum = None /\ \E x \in s.exclusiveMinimum : IsNumber(x)
    \/ ~request.served /\ Kind(request.body.val) = "ptr"
=============================================================================
