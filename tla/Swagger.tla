-------------------------------- MODULE Swagger --------------------------------
(***************************************************************************)
(* The conversion of a version 2 document into one of version 3            *)
(* (oaschema/resource_v2.go).                                              *)
(*                                                                         *)
(* A parameter of version 2 holds the keywords of its own schema, and so do *)
(* its items: they are kept as a schema that uses no others.  A document    *)
(* has one path item, whose operations are in the order of their methods.   *)
(***************************************************************************)
EXTENDS SchemaValidation

Positive(limit) == {n \in limit : n > 0}
OrElse(limit, default) == IF limit = None THEN {default} ELSE limit

(* A lower limit of the length is stored as the upper one.                  *)
LengthLimit(k) == IF Positive(k.minLength) # None THEN Positive(k.minLength) ELSE Positive(k.maxLength)

(* What items do not limit has the zero of its type as a limit; a multiple  *)
(* of zero is not written when the new document is rendered.                *)
RECURSIVE convertItems(_)
convertItems(k) ==
  [k EXCEPT !.minLength = None, !.maxLength = LengthLimit(k),
            !.minItems = Positive(@), !.maxItems = Positive(@),
            !.minimum = OrElse(@, 0), !.maximum = OrElse(@, 0), !.multipleOf = Positive(@),
            !.exclusiveMinimum = OrElse(@, Bool(FALSE)), !.exclusiveMaximum = OrElse(@, Bool(FALSE)),
            !.items = {convertItems(t) : t \in @}]

(* The number of items has a lower limit if it has an upper one, which is   *)
(* dereferenced for it.                                                     *)
LacksMaxItems(k) == k.minItems # None /\ k.maxItems = None

schemaFromParameter(k) ==
  [k EXCEPT !.minLength = None, !.maxLength = LengthLimit(k),
            !.minItems = IF Positive(k.maxItems) # None THEN @ ELSE None, !.maxItems = Positive(@),
            !.items = {convertItems(t) : t \in @}]

-----------------------------------------------------------------------------
Written(style, explode) == [style |-> style, explode |-> {explode}]

(* A mutant: every query is written with commas. *)
getStyleFromCollectionFormat_Commas(place, format) ==
  IF place \in {"path", "header"} THEN Written("simple", format = "multi")
  ELSE Written("form", format = "multi")

getStyleFromCollectionFormat(place, format) ==
  CASE place \in {"path", "header"} -> Written("simple", format = "multi")
    [] place = "query" /\ format = "ssv" -> Written("spaceDelimited", FALSE)
    [] place = "query" /\ format \in {"tsv", "pipes"} -> Written("pipeDelimited", FALSE)
    [] place = "query" /\ format \notin {"ssv", "tsv", "pipes"} -> Written("form", format = "multi")
    [] place = "cookie" -> Written("form", format = "multi")
    [] OTHER -> Written("", FALSE)

SchemaOfParameter(p) == IF p.schema # None THEN p.schema ELSE {schemaFromParameter(p.keywords)}

convertParameter(p) ==
  getStyleFromCollectionFormat(p.in, p.collectionFormat)
    @@ [ name |-> p.name, in |-> p.in, required |-> p.required,
         schema |-> SchemaOfParameter(p), content |-> None ]

convertParameters(ps) == [i \in DOMAIN ps |-> convertParameter(ps[i])]

(* The fields of a form are the properties of one object, which has to be   *)
(* there, and which takes the place of a body.                              *)
FormSchema(ps) ==
  LET FieldOf(name) == CHOOSE p \in Range(ps) : p.name = name
  IN [Typed("object") EXCEPT
        !.properties = [name \in {p.name : p \in Range(ps)} |-> schemaFromParameter(FieldOf(name).keywords)]]

(* A body is validated if there is a media type it is for; which ones are   *)
(* looked up depends on the media types the operation produces.             *)
Consumed(swagger, op) == IF op.produces # <<>> THEN op.consumes ELSE swagger.consumes

Operation(swagger, op, forms, bodies, others) ==
  [ parameters |-> convertParameters(others),
    bodySchema |->
      IF Consumed(swagger, op) = <<>> THEN None
      ELSE IF forms # <<>> THEN {FormSchema(forms)}
      ELSE UNION {SchemaOfParameter(p) : p \in Range(bodies)},
    bodyRequired |-> forms # <<>> \/ \E p \in Range(bodies) : p.required,
    security |-> op.security ]

convertOperation(swagger, op) ==
  LET In_(places) == SelectSeq(op.parameters, LAMBDA p : p.in \in places)
  IN Operation(swagger, op, In_({"formData"}), In_({"body"}),
               SelectSeq(op.parameters, LAMBDA p : p.in \notin {"formData", "body"}))

-----------------------------------------------------------------------------
(* Basic credentials are those of an HTTP scheme.  The credentials of an    *)
(* OAuth2 scheme stay beside the flow, where nobody looks for them.         *)
convertSecurityScheme(s) ==
  CASE s.type = "basic" -> [s EXCEPT !.type = "http", !.scheme = "basic"]
    [] s.type = "oauth2" -> [s EXCEPT !.credentials = "absent"]
    [] OTHER -> s

ParametersOf(swagger) ==
  LET lists == <<swagger.item.common>>
                 \o [i \in DOMAIN swagger.item.operations |-> swagger.item.operations[i].parameters]
  IN UNION {Range(lists[i]) : i \in DOMAIN lists}

(* Nil pointers: an upper limit that is not there, and the scopes of an     *)
(* OAuth2 scheme.                                                           *)
ConversionPanics(swagger) ==
  \/ \E p \in ParametersOf(swagger) : p.schema = None /\ LacksMaxItems(p.keywords)
  \/ \E i \in DOMAIN swagger.schemes : LET s == swagger.schemes[i][2] IN s.type = "oauth2" /\ ~s.scopes

Convert(swagger) ==
  [ version |-> "3",
    servers |-> IF swagger.host THEN <<"host">> ELSE <<>>,
    security |-> swagger.security,
    schemes |-> [i \in DOMAIN swagger.schemes |->
                   <<swagger.schemes[i][1], convertSecurityScheme(swagger.schemes[i][2])>>],
    paths |-> swagger.paths,
    item |-> [ common |-> convertParameters(swagger.item.common),
               placeholders |-> swagger.item.placeholders,
               operations |-> [i \in DOMAIN swagger.item.operations |->
                                 convertOperation(swagger, swagger.item.operations[i])] ] ]
=============================================================================
