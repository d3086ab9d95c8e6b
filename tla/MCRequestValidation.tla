-------------------------- MODULE MCRequestValidation --------------------------
(* Requests of one parameter in every place and style, encoded from a value *)
(* or written by hand, of several parameters, and of bodies, each with the  *)
(* schemas whose keywords the decoders and the validator look at.           *)
EXTENDS RequestProperties

MCSize ==
  [t \in {"a", "b", "c", "d", "e", "p", "q", "x", "y", "1", "5", "7",
          ",", ".", ";", "=", " ", "|", "[", "]", "0", "tab"} |-> 1]
    @@ "true" :> 4 @@ "false" :> 5 @@ "null" :> 4

T(token) == <<token>>
X == T("x")
FIVE == T("5")
SEVEN == T("7")
A == T("a")
B == T("b")
C == T("c")
P == T("p")
Q == T("q")

MCMatching == "^[x5]$" :> {X, FIVE} @@ "^c" :> {C, <<"c", "x">>}
MCWellFormed == "date" :> {SEVEN}
MCAsBoolean == <<"true">> :> TRUE @@ <<"false">> :> FALSE
MCAsInteger == T("1") :> 10 @@ FIVE :> 50 @@ SEVEN :> 70
MCAsNumber == MCAsInteger @@ <<"1", ".", "5">> :> 15
MCAsDocument ==
  FIVE :> Num(50) @@ NullText :> Null @@ <<"[", "5", "]">> :> Arr(<<Num(50)>>)
    @@ <<"a", "5">> :> Obj(A :> Num(50))

-----------------------------------------------------------------------------
String == Typed("string")
Integer == Typed("integer")
Number == Typed("number")
Boolean == Typed("boolean")
ArrayOf(t) == [Typed("array") EXCEPT !.items = {t}]
ObjectOf(fields) == [Typed("object") EXCEPT !.properties = fields]
AB == ObjectOf(A :> Integer @@ B :> String)
A_Required == [ObjectOf(A :> Integer) EXCEPT !.required = {A}]
Untyped(fields) == [AnySchema EXCEPT !.properties = fields, !.required = DOMAIN fields]

I5 == Int_(50)
I7 == Int_(70)

(* Values and the schemas they meet. *)
Pairs ==
  { <<String, Str(X)>>, <<[String EXCEPT !.minLength = {2}, !.maxLength = {2}], Str(<<"x", "y">>)>>,
    <<Integer, I5>>, <<[Integer EXCEPT !.minimum = {50}, !.maximum = {70}], I7>>,
    <<[Integer EXCEPT !.exclusiveMaximum = {Num(70)}, !.exclusiveMinimum = {Num(10)}], I5>>,
    <<Number, Num(15)>>, <<Number, Num(50)>>, <<Boolean, Bool(TRUE)>>,
    <<ArrayOf(Integer), Arr(<<I5, I7>>)>>, <<ArrayOf(Integer), Arr(<<I5>>)>>,
    <<[ArrayOf(String) EXCEPT !.minItems = {2}], Arr(<<Str(X), Str(FIVE)>>)>>,
    <<AB, Obj(A :> I5 @@ B :> Str(X))>>, <<A_Required, Obj(A :> I5)>>,
    <<ObjectOf(A :> ArrayOf(Integer) @@ B :> String), Obj(A :> Arr(<<I5, I7>>) @@ B :> Str(X))>>,
    <<ObjectOf(A :> ObjectOf(B :> Integer @@ C :> ArrayOf(String))),
      Obj(A :> Obj(B :> I5 @@ C :> Arr(<<Str(X), Str(FIVE)>>)))>>,
    <<ObjectOf(A :> AB), Obj(A :> Obj(A :> I5 @@ B :> Null))>> }

(* Objects of objects, with siblings at the fourth and the fifth level.     *)
Leafy == Obj(A :> I5 @@ B :> Str(X))
Nested(v) == Obj(A :> v)
DeepValues ==
  { Nested(Nested(Leafy)), Nested(Nested(Nested(Leafy))),
    Nested(Nested(Obj(A :> Leafy @@ B :> I7))), Nested(Nested(Nested(Nested(Leafy)))),
    Nested(Nested(Obj(A :> Obj(A :> Leafy @@ B :> I7 @@ C :> Null) @@ B :> Arr(<<I5, I7>>)))) }

Forms ==
  {"path"} \X {"", "label", "matrix"} \X {{}, {TRUE}}
    \cup {"query"} \X {"", "form"} \X {{}}
    \cup {"query"} \X {"form", "spaceDelimited", "pipeDelimited"} \X {{FALSE}}
    \cup {"query"} \X {"deepObject"} \X {{TRUE}}
    \cup {"header"} \X {"", "simple"} \X {{}, {TRUE}}

RawForms == {f \in Forms : f[2] # "form"} \cup {"cookie"} \X {""} \X {{}, {FALSE}}

Def(name, form, required, schema) ==
  [ name |-> name, in |-> form[1], style |-> form[2], explode |-> form[3],
    required |-> required, schema |-> schema, content |-> None ]

Form == <<"query", "", {}>>
FormFlat == <<"query", "form", {FALSE}>>
Deep == <<"query", "deepObject", {TRUE}>>
Path == <<"path", "", {}>>
Header == <<"header", "", {}>>
Cookie == <<"cookie", "", {}>>

Request(defs, values, w) ==
  [ parameters |-> defs, values |-> values, wire |-> w, served |-> TRUE,
    body |-> NoBody, bodySchema |-> None, bodyRequired |-> FALSE ]

(* An operation of its own for each request, and the client for it.         *)
NoItem == [common |-> <<>>, placeholders |-> <<>>, operations |-> <<>>]
NoDocument ==
  [version |-> "3", servers |-> <<"host">>, security |-> <<>>, schemes |-> <<>>, paths |-> TRUE, item |-> NoItem]
NoDefinition == [spec |-> None, ref |-> None, patches |-> None, invalid |-> {}]
Defined(doc) == [NoDefinition EXCEPT !.spec = {doc}]

Operated(defs, schema, required, security) ==
  [parameters |-> defs, bodySchema |-> schema, bodyRequired |-> required, security |-> security]

Sent(r, operation, meant) ==
  [ operation |-> operation, parameters |-> r.parameters, values |-> r.values, wire |-> r.wire,
    meant |-> meant, served |-> r.served, body |-> r.body ]

PathNames(r) ==
  DOMAIN r.wire.path \cup
  {r.parameters[i].name : i \in {j \in DOMAIN r.parameters : r.parameters[j].in = "path" /\ r.values[j] # None}}

ItemOf(r) ==
  [ common |-> <<>>, placeholders |-> SetToSeq(PathNames(r)),
    operations |-> <<Operated(r.parameters, r.bodySchema, r.bodyRequired, <<>>)>> ]

Alone(requests) ==
  {<<Defined([NoDocument EXCEPT !.item = ItemOf(r)]), Sent(r, 1, NoFields)>> : r \in requests}

EncodedOne ==
  {Request(<<Def(P, form, form[1] = "path", {pair[1]})>>, <<{pair[2]}>>, NothingSent)
     : form \in Forms, pair \in Pairs}
  \cup {Request(<<Def(P, Deep, FALSE, {Typed("object")})>>, <<{v}>>, NothingSent) : v \in DeepValues}

-----------------------------------------------------------------------------
(* Schemas for texts that are written by hand. *)
Either(s, t) == [AnySchema EXCEPT !.oneOf = <<s, t>>]
Schemas ==
  { [AnySchema EXCEPT !.type = <<"integer", "string">>],
    [AnySchema EXCEPT !.type = <<"string", "null">>, !.enum = {FIVE}],
    [AnySchema EXCEPT !.type = <<"array", "object", "integer">>, !.items = {Integer},
                      !.properties = (A :> Integer)],
    AnySchema, [AnySchema EXCEPT !.enum = {FIVE, X}], Typed("null"), Typed("object"),
    Either(Integer, String), Either([AnySchema EXCEPT !.minimum = {60}], Integer),
    Either(ObjectOf(A :> Integer), ObjectOf(B :> String)),
    [AnySchema EXCEPT !.anyOf = <<Integer, Boolean>>],
    [AnySchema EXCEPT !.allOf = <<Integer, [Integer EXCEPT !.minimum = {60}]>>],
    [Integer EXCEPT !.nullable = TRUE, !.multipleOf = {20}],
    [Integer EXCEPT !.exclusiveMinimum = {Num(50)}], [Integer EXCEPT !.exclusiveMaximum = {Num(70)}],
    [Integer EXCEPT !.exclusiveMaximum = {Bool(TRUE)}, !.maximum = {70}, !.const = {FIVE}],
    [String EXCEPT !.pattern = {"^[x5]$"}, !.maxLength = {3}],
    [String EXCEPT !.format = "date"],
    [ArrayOf(Integer) EXCEPT !.minItems = {2}, !.uniqueItems = TRUE],
    [ArrayOf(AnySchema) EXCEPT !.maxItems = {1}],
    [A_Required EXCEPT !.additionalProperties = {<<"schema", Integer>>}],
    [AB EXCEPT !.patternProperties = ("^c" :> Integer), !.minProperties = {2}],
    [Typed("object") EXCEPT !.additionalProperties = {Bool(TRUE)}, !.maxProperties = {1}],
    [ObjectOf(A :> Integer) EXCEPT !.allOf = <<Untyped(B :> String)>>],
    [ObjectOf(A :> Integer) EXCEPT !.anyOf = <<Untyped(B :> Integer), Untyped(C :> String)>>],
    [ObjectOf(A :> Integer) EXCEPT !.oneOf = <<[AnySchema EXCEPT !.required = {B}], Untyped(B :> String)>>],
    [A_Required EXCEPT !.type = <<"object", "integer">>] }

Texts ==
  { <<FIVE>>, <<X>>, <<(<<>>)>>, <<SEVEN, FIVE>>, <<FIVE, FIVE>>, <<(<<"5", ",", "7">>)>>,
    <<(<<"a", ",", "5", ",", "b", ",", "x">>)>>, <<(<<"a", "=", "5", ",", "b", "=", "x">>)>>,
    <<(<<"a", ",", "5", ",", "b">>)>>, <<(<<"a", ",", "x", ",", "c", "x", ",", "5">>)>> }

Sign(def) ==
  CASE Style(def) = "label" -> <<".">>
    [] Style(def) = "matrix" -> <<";">> \o (IF Explode(def) THEN <<>> ELSE <<"p", "=">>)
    [] OTHER -> <<>>

(* The texts at the place of a parameter.                                   *)
At(def, texts) ==
  CASE def.in = "path" -> [NothingSent EXCEPT !.path = def.name :> (Sign(def) \o texts[1])]
    [] def.in = "query" -> [NothingSent EXCEPT !.query = def.name :> texts]
    [] def.in = "header" -> [NothingSent EXCEPT !.headers = def.name :> texts]
    [] def.in = "cookie" -> [NothingSent EXCEPT !.cookies = [i \in DOMAIN texts |-> <<def.name, texts[i]>>]]

WrittenOne ==
  UNION {{Request(<<Def(P, form, TRUE, {s})>>, <<None>>, At(Def(P, form, TRUE, {s}), texts))
            : s \in Schemas, texts \in {t \in Texts : form[1] = "path" => Len(t) = 1}} : form \in RawForms}

(* Fields as keys of a query, of deep objects and of cookies.               *)
Keyed ==
  { <<A, FIVE>>, <<B, X>>, <<C, FIVE>>, <<A, X>>, <<P, FIVE>>,
    <<(<<"p", "[", "a", "]">>), FIVE>>, <<(<<"p", "[", "a", "]">>), X>>, <<(<<"p", "[", "b", "]">>), X>>,
    <<(<<"p", "[", "c", "]">>), FIVE>>, <<(<<"p", "[", "]">>), SEVEN>>, <<(<<"p", "[", "a">>), X>> }

QueryOf(entries) == [k \in {e[1] : e \in entries} |-> <<(CHOOSE e \in entries : e[1] = k)[2]>>]
OneText(entries) == \A d, e \in entries : d[1] = e[1] => d = e

WrittenFields ==
  {Request(<<Def(P, form, FALSE, {s})>>, <<None>>,
           [NothingSent EXCEPT !.query = QueryOf(entries),
                               !.cookies = SetToSeq({e \in entries : form = Cookie})])
     : form \in {Form, Deep, Cookie}, s \in Schemas,
       entries \in {es \in kSubset(1, Keyed) \cup kSubset(2, Keyed) : OneText(es)}}

(* Not sent, no schema, or a document instead of a style.                   *)
NoSchema(form, required) == Def(P, form, required, None)
WithContent(form, required, s) == [NoSchema(form, required) EXCEPT !.content = {s}]

Others ==
  {Request(<<def>>, <<None>>, w)
     : def \in {NoSchema(f, r) : f \in RawForms, r \in BOOLEAN}
         \cup {WithContent(f, r, s) : f \in {Path, Form, Header, Cookie}, r \in BOOLEAN,
                 s \in {None, {Number}, {ArrayOf(Number)}, {[Number EXCEPT !.nullable = TRUE]}}}
         \cup {Def(P, f, r, {s}) : f \in RawForms, r \in BOOLEAN, s \in {Integer, AB, A_Required}},
       w \in {NothingSent, [NothingSent EXCEPT !.cookies = <<<<Q, X>>>>, !.query = Q :> <<X>>,
                                               !.headers = Q :> <<X, FIVE>>]}
               \cup {At(Def(P, f, TRUE, None), texts)
                       : f \in {Path, Form, Header, Cookie},
                         texts \in {<<FIVE>>, <<FIVE, FIVE>>, <<(<<"[", "5", "]">>)>>, <<(<<>>)>>, <<X>>}}}

-----------------------------------------------------------------------------
Bodies ==
  { Null, Bool(TRUE), Str(X), Num(15), Num(50), Arr(<<Num(50), Str(X)>>), Arr(<<Num(50)>>),
    Obj(A :> Num(50) @@ B :> Str(X)), Obj(A :> Str(X) @@ C :> Num(15)), Obj(C :> Str(FIVE)),
    Obj(A :> Null) }

BodySchemas ==
  Schemas \cup
  { Number, [Number EXCEPT !.minimum = {15}, !.exclusiveMinimum = {Bool(TRUE)}],
    [Number EXCEPT !.exclusiveMinimum = {Num(15)}], Boolean, ArrayOf(Number),
    ArrayOf([Number EXCEPT !.exclusiveMinimum = {Num(50)}]),
    [ObjectOf(A :> Number @@ B :> String) EXCEPT !.required = {B}],
    [ObjectOf(A :> Number) EXCEPT !.dependentRequired = (C :> {B})],
    [AnySchema EXCEPT !.anyOf = <<Number, ObjectOf(A :> Number)>>],
    Either(String, ObjectOf(A :> Integer)) }

WithBody(body, schema, required, served) ==
  [Request(<<>>, <<>>, NothingSent) EXCEPT
     !.body = body, !.bodySchema = schema, !.bodyRequired = required, !.served = served]

BodyOnly ==
  {WithBody(JSON(v), {s}, TRUE, served) : v \in Bodies, s \in BodySchemas, served \in BOOLEAN}
  \cup {WithBody(JSON(NilPointer(k)), {s}, TRUE, FALSE) : k \in {"int", "str"}, s \in Schemas}
  \cup {WithBody([kind |-> k, val |-> Null], s, required, TRUE)
          : k \in {"none", "otherType", "malformed"}, s \in {None, {Integer}}, required \in BOOLEAN}
  \cup {WithBody(NoBody, {Integer}, required, FALSE) : required \in BOOLEAN}

(* One parameter in each place, a body, and a flaw in one of them.          *)
Several ==
  LET defs == <<Def(P, Path, TRUE, {Integer}), Def(Q, Form, TRUE, {AB}),
                Def(P, Deep, FALSE, {AB}), Def(P, Header, TRUE, {ArrayOf(Integer)}),
                Def(Q, Cookie, TRUE, {Integer}), Def(C, FormFlat, FALSE, {ArrayOf(String)})>>
      object == Obj(A :> I5 @@ B :> Str(X))
      values(path, deep) == <<{path}, {object}, {deep}, {Arr(<<I5, I7>>)}, None, {Arr(<<Str(X)>>)}>>
  IN {[Request(defs, values(path, deep), [NothingSent EXCEPT !.cookies = cookies])
         EXCEPT !.body = JSON(body), !.bodySchema = {Number}, !.served = served]
        : path \in {I5, Str(X)}, deep \in {object, Obj(A :> Str(X))},
          cookies \in {<<>>, <<<<Q, FIVE>>>>, <<<<Q, X>>>>, <<<<P, FIVE>>>>},
          body \in {Num(50), Str(X)}, served \in BOOLEAN}

(* The same without cookies or a body, which a plain request does not have. *)
SeveralPlain ==
  {Request(<<Def(P, Path, TRUE, {Integer}), Def(Q, Form, FALSE, {AB}), Def(P, form, FALSE, {s}),
             Def(P, Header, TRUE, {ArrayOf(Integer)}), Def(C, FormFlat, FALSE, {ArrayOf(String)})>>,
           <<{I5}, {Obj(A :> I5 @@ B :> Str(X))}, v, {Arr(<<I5, I7>>)}, {Arr(<<Str(X), Str(FIVE)>>)}>>,
           NothingSent)
     : form \in {Form, FormFlat, Deep}, s \in {Integer}, v \in {None, {I5}}}

-----------------------------------------------------------------------------
(* Path items: a name declared by the path item, by the operation before    *)
(* the one that is called and by that one, in each place, as often as that. *)
Named(name, place, s) == Def(name, <<place, "", {}>>, FALSE, {s})

Items ==
  UNION {{[ common |-> common, placeholders |-> keys,
            operations |-> <<Operated(first, None, FALSE, <<>>), Operated(second, None, FALSE, <<>>)>> ]
            : common \in {<<>>, <<Named(P, place, Integer)>>, <<Named(P, place, Integer), Named(P, place, String)>>},
              first \in {<<>>, <<Named(P, place, String)>>, <<Named(Q, place, Boolean), Named(P, place, Boolean)>>},
              second \in {<<>>, <<Named(P, place, Boolean)>>,
                          <<Named(P, place, String), Named(X, place, Integer), Named(P, place, Integer)>>,
                          <<Named(Q, "path", Integer)>>},
              keys \in {<<P>>, <<>>}}
         : place \in {"path", "query", "header"}}

(* x is the name of a header in another form than its canonical one.        *)
MCCanonical == X :> P

Nothing(i) == Sent(Request(<<>>, <<>>, NothingSent), i, NoFields)
WithItems ==
  {<<Defined([NoDocument EXCEPT !.item = item]),
     [Nothing(i) EXCEPT !.wire.path = [key \in Range(item.placeholders) |-> FIVE]]>>
     : item \in Items, i \in {1, 2}}

-----------------------------------------------------------------------------
(* Security schemes, requirements, and what makes a construction fail.      *)
Scheme(type, credentials) ==
  [ type |-> type, in |-> "header", name |-> "", scheme |-> "", credentials |-> credentials,
    tokenUrl |-> TRUE, scopes |-> TRUE ]

Schemes ==
  {Scheme(type, credentials)
     : type \in {"apiKey", "http", "oauth2", "mutualTLS", "basic"},
       credentials \in {"absent", "empty", "partial", "malformed", "full"}}
  \cup {[Scheme("apiKey", "full") EXCEPT !.in = "query"], [Scheme("apiKey", "full") EXCEPT !.in = "invalid"],
        [Scheme("oauth2", "full") EXCEPT !.in = "invalid"], [Scheme("oauth2", "full") EXCEPT !.tokenUrl = FALSE],
        [Scheme("oauth2", "full") EXCEPT !.scopes = FALSE],
        [Scheme("http", "partial") EXCEPT !.scheme = "basic"], [Scheme("http", "empty") EXCEPT !.scheme = "basic"],
        [Scheme("http", "malformed") EXCEPT !.scheme = "basic"]}

Named2(one, two) == <<<<"one", one>>, <<"two", two>>>>
Key_ == Scheme("apiKey", "full")
NoKey == Scheme("apiKey", "absent")

Called1(security) == [NoItem EXCEPT !.operations = <<Operated(<<>>, None, FALSE, security)>>]

Requirements ==
  {<<>>, <<<<"one">>>>, <<<<"two">>>>, <<<<"one">>, <<"two">>>>, <<<<"one", "two">>>>, <<<<"one">>, <<>>>>,
   <<<<>>, <<"two">>>>, <<<<>>>>, <<<<"three">>, <<"one">>, <<"two">>>>, <<<<"three">>, <<>>>>}

Secured ==
  {<<Defined([NoDocument EXCEPT !.schemes = pair, !.security = all, !.item = Called1(own)]), Nothing(1)>>
     : pair \in {<<>>, Named2(Key_, Key_), Named2(Key_, NoKey), Named2(NoKey, Key_), Named2(NoKey, NoKey)},
       all \in Requirements, own \in Requirements}
  \cup {<<Defined([NoDocument EXCEPT !.schemes = Named2(s, Key_), !.security = <<<<"one">>>>, !.item = Called1(<<>>)]),
          Nothing(1)>> : s \in Schemes}

(* Documents by their source, and patches of the servers or the version.    *)
Plain == [NoDocument EXCEPT !.item = Called1(<<>>)]
OfVersion(doc, version) == [doc EXCEPT !.version = version]
Patch(valid, replaces) == [valid |-> valid, replaces |-> replaces]

NoSwagger ==
  [ version |-> "2", host |-> TRUE, security |-> <<>>, schemes |-> <<>>, paths |-> TRUE, consumes |-> <<"json">>,
    item |-> [NoItem EXCEPT !.operations =
                <<[parameters |-> <<>>, consumes |-> <<>>, produces |-> <<>>, security |-> <<>>]>>] ]

Refs ==
  {[yaml |-> yaml, doc |-> doc]
     : yaml \in BOOLEAN,
       doc \in {Plain, NoSwagger, OfVersion(Plain, "none"), [Plain EXCEPT !.servers = <<"invalid">>],
                [NoSwagger EXCEPT !.host = FALSE], [NoSwagger EXCEPT !.paths = FALSE]}}

Sources ==
  {<<[NoDefinition EXCEPT !.spec = spec, !.ref = ref, !.patches = patches], Nothing(1)>>
     : spec \in {None, {Plain}, {OfVersion(Plain, "none")}}, ref \in {None} \cup {{r} : r \in Refs},
       patches \in {None, {Patch(FALSE, NoFields)}, {Patch(TRUE, [servers |-> <<"empty", "host">>])},
                    {Patch(TRUE, [version |-> "3"] @@ Plain)}, {Patch(TRUE, [version |-> "none"])}}}

Failing ==
  {<<[Defined([Plain EXCEPT !.servers = servers, !.paths = paths]) EXCEPT !.invalid = invalid], Nothing(1)>>
     : servers \in {<<>>, <<"empty">>, <<"host", "invalid">>, <<"host", "host">>}, paths \in BOOLEAN,
       invalid \in SUBSET {"http", "health", "headers"}}
  \cup {<<Defined([NoDocument EXCEPT !.item = [NoItem EXCEPT !.operations =
            <<Operated(<<Def(P, f, FALSE, {Integer})>>, None, FALSE, <<>>)>>]]), Nothing(1)>>
          : f \in {<<"query", "wrong", {}>>, <<"wrong", "form", {}>>, <<"query", "form", {TRUE}>>}}

-----------------------------------------------------------------------------
(* Parameters of version 2 with the values and the texts they are sent as.  *)
Param(name, place, format, required, k) ==
  [ name |-> name, in |-> place, collectionFormat |-> format, required |-> required,
    schema |-> None, keywords |-> k ]

Scalars2 ==
  { <<String, Str(X)>>, <<[String EXCEPT !.maxLength = {1}], Str(<<"x", "y">>)>>,
    <<[String EXCEPT !.minLength = {1}], Str(<<"x", "y">>)>>, <<[String EXCEPT !.pattern = {"^[x5]$"}], Str(X)>>,
    <<[String EXCEPT !.enum = {FIVE}], Str(FIVE)>>, <<[String EXCEPT !.enum = {FIVE}], Str(X)>>,
    <<[Integer EXCEPT !.minimum = {50}, !.maximum = {70}], I5>>, <<[Integer EXCEPT !.minimum = {60}], I5>>,
    <<[Integer EXCEPT !.maximum = {50}, !.exclusiveMaximum = {Bool(TRUE)}], I5>>,
    <<[Integer EXCEPT !.multipleOf = {20}], I5>>, <<Number, Num(15)>>, <<Boolean, Bool(TRUE)>>, <<Integer, Str(X)>> }

Listed == Arr(<<Str(X), Str(FIVE)>>)
Arrays2 ==
  { <<ArrayOf(String), Listed>>, <<ArrayOf(String), Arr(<<Str(X)>>)>>,
    <<ArrayOf([String EXCEPT !.enum = {FIVE}]), Listed>>, <<ArrayOf([String EXCEPT !.pattern = {"^[x5]$"}]), Listed>>,
    <<ArrayOf([String EXCEPT !.maxLength = {1}]), Listed>>, <<ArrayOf([String EXCEPT !.minLength = {1}]), Listed>>,
    <<[ArrayOf(String) EXCEPT !.maxItems = {1}], Listed>>, <<[ArrayOf(String) EXCEPT !.minItems = {2}], Listed>>,
    <<[ArrayOf(String) EXCEPT !.minItems = {2}, !.maxItems = {5}], Arr(<<Str(X)>>)>>,
    <<[ArrayOf(String) EXCEPT !.minItems = {2}, !.maxItems = {0}], Arr(<<Str(X)>>)>>,
    <<ArrayOf(Integer), Arr(<<I5, I7>>)>>, <<ArrayOf([Integer EXCEPT !.maximum = {70}]), Arr(<<I5, I7>>)>>,
    <<ArrayOf([Integer EXCEPT !.maximum = {50}]), Arr(<<I5, I7>>)>>,
    <<ArrayOf([Integer EXCEPT !.minimum = {60}, !.maximum = {70}]), Arr(<<I5, I7>>)>> }

Between2(format) ==
  CASE format = "ssv" -> <<" ">> [] format = "tsv" -> <<"tab">> [] format = "pipes" -> <<"|">> [] OTHER -> <<",">>

TextsOf(format, v) ==
  IF Kind(v) # "arr" THEN <<FormatScalar(v)>>
  ELSE LET texts == [i \in DOMAIN Content(v) |-> FormatScalar(Content(v)[i])]
       IN IF format = "multi" THEN texts ELSE <<Joined(texts, Between2(format))>>

Places2 ==
  {"path", "header"} \X {"", "csv"} \cup {"query"} \X {"", "csv", "ssv", "tsv", "pipes", "multi"}

Operation2(ps, consumes, produces) ==
  [parameters |-> ps, consumes |-> consumes, produces |-> produces, security |-> <<>>]

FromFile(doc) == [NoDefinition EXCEPT !.ref = {[yaml |-> FALSE, doc |-> doc]}]
SwaggerWith(common, op, keys) ==
  FromFile([NoSwagger EXCEPT !.item = [common |-> common, placeholders |-> keys, operations |-> <<op>>]])

Written2 ==
  {LET p == Param(P, place[1], place[2], TRUE, pair[1])
       op == Operation2(IF shared THEN <<>> ELSE <<p>>, <<>>, <<>>)
   IN <<SwaggerWith(IF shared THEN <<p>> ELSE <<>>, op, IF place[1] = "path" THEN <<P>> ELSE <<>>),
        [Nothing(1) EXCEPT !.meant = P :> pair[2],
                           !.wire = At(Def(P, <<place[1], "", {}>>, TRUE, None), TextsOf(place[2], pair[2]))]>>
     : place \in Places2, pair \in Scalars2 \cup Arrays2, shared \in BOOLEAN}

Unsent2 ==
  {<<SwaggerWith(<<>>, Operation2(<<Param(P, place, "", required, String)>>, <<>>, <<>>), <<>>), Nothing(1)>>
     : place \in {"query", "header"}, required \in BOOLEAN}

Body2(required, s) == [Param(P, "body", "", required, AnySchema) EXCEPT !.schema = {s}]
Bodies2 ==
  {<<SwaggerWith(<<>>, Operation2(ps, consumes, produces), <<>>), [Nothing(1) EXCEPT !.body = body]>>
     : ps \in {<<Body2(r, s)>> : r \in BOOLEAN, s \in {Number, ObjectOf(A :> Number)}}
             \cup {<<Param(A, "formData", "", TRUE, Number), Param(B, "formData", "", FALSE, String)>>},
       consumes \in {<<>>, <<"json">>}, produces \in {<<>>, <<"json">>},
       body \in {NoBody} \cup {JSON(v) : v \in {Num(50), Str(X), Obj(A :> Num(50)), Obj(A :> Str(X))}}}

Schemes2 ==
  {<<FromFile([NoSwagger EXCEPT !.schemes = <<<<"one", s>>>>, !.security = <<<<"one">>>>]), Nothing(1)>> : s \in Schemes}

MCRequests ==
  {Alone(requests) : requests \in {EncodedOne, WrittenOne, WrittenFields, Others, BodyOnly, Several, SeveralPlain}}
    \cup {WithItems, Secured, Sources, Failing, Written2, Unsent2, Bodies2, Schemes2}

MCOrders == {<<A, B, C>>, <<C, B, A>>}

RECURSIVE WithParts(_), HeightOf(_), WithContents(_)
WithParts(schemas) ==
  IF schemas = {} THEN {} ELSE UNION {schemas, WithParts(UNION {Parts(s) : s \in schemas})}
HeightOf(s) == 1 + Max({0} \cup {HeightOf(t) : t \in Parts(s)})

Contents(v) == IF Kind(v) \in {"arr", "obj"} THEN Range(Content(v)) ELSE {}
WithContents(values) ==
  IF values = {} THEN {} ELSE UNION {values, WithContents(UNION {Contents(v) : v \in values})}

BodiesOf(group) == {v \in {pair[2].body.val : pair \in group} : Kind(v) # "ptr"}
MCPlainValues == WithContents(UNION {Range(MCAsDocument), UNION {BodiesOf(group) : group \in MCRequests}})

MCDocumentSchemas == WithParts(AllSchemas)
MCHeight == [s \in MCDocumentSchemas |-> HeightOf(s)]

-----------------------------------------------------------------------------
(* The operators that are applied to parts of their arguments are recursive: *)
(* what they call on a part is the operator itself.                         *)
MCValidated(s, v) == LET errors == ValidateValue(s, v) IN errors
MCMet(s, v) == LET meets == Meets(s, v) IN meets
MCFlattened(v, keys, order) == LET items == EvaluateParameterValue(v, keys, order) IN items
MCItemDecoded(schema, texts, types) == LET d == ParamDecode(schema, texts, types) IN d
MCBranchDecoded(raw, fields, s) == LET d == ObjectDecode(raw, fields, s) IN d
MCNodeBelow(query, path) == LET node == NodeAt(query, path) IN node
MCArbitraryBelow(node) == LET v == decodeArbitrary(node) IN v
MCNodeDecodedBelow(node, s) == LET d == NodeDecode(node, s) IN d
MCNodeObjectOf(node, s) == LET d == NodeObject(node, s) IN d
MCSubSchemasBelow(s) == LET schemas == SubSchemas(s) IN schemas
=============================================================================
