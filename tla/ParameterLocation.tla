--------------------------- MODULE ParameterLocation ---------------------------
(***************************************************************************)
(* The parameters of a request by the place they are in: a segment of the  *)
(* path, the query, the headers and the cookies (oasvalidator/parameter).  *)
(*                                                                         *)
(* A query is a function from keys to sequences of texts, and so are the   *)
(* headers; the cookies are a sequence of names and texts.                 *)
(***************************************************************************)
EXTENDS ParameterNode

SchemaOf(def) == Only(def.schema)
TypesOf(def) == ExtractSchemaTypes(SchemaOf(def))
HasContent(def) == def.content # None
Document(def, texts) == decodeParameterFromContent(Only(def.content), texts)

-----------------------------------------------------------------------------
(* DecodePathValue *)

CutPrefix(text, prefix) ==
  IF IsPrefix(prefix, text) THEN {SubSeq(text, Len(prefix) + 1, Len(text))} ELSE {}

NamePrefix(def) == def.name \o <<"=">>

(* The label and the matrix style begin with a sign of their own.           *)
trimPathValueByStyle(def, text) ==
  CASE Style(def) = "label" -> CutPrefix(text, <<".">>)
    [] Style(def) = "matrix" -> CutPrefix(text, <<";">>)
    [] OTHER -> {text}

(* The texts of a segment, or none.                                         *)
parsePathArrayParam(def, text) ==
  LET parts == SplitText(text, ";")
      values == {CutPrefix(part, NamePrefix(def)) : part \in Range(parts)}
  IN CASE Style(def) = "label" /\ text = <<>> -> {<<>>}
       [] Style(def) = "label" /\ text # <<>> -> {SplitText(text, IF Explode(def) THEN "." ELSE ",")}
       [] Style(def) = "matrix" /\ Explode(def) ->
            IF {} \in values THEN {}
            ELSE {[i \in DOMAIN parts |-> Only(CutPrefix(parts[i], NamePrefix(def)))]}
       [] Style(def) = "matrix" /\ ~Explode(def) ->
            {SplitText(value, ",") : value \in CutPrefix(text, NamePrefix(def))}
       [] OTHER -> {SplitText(text, ",")}

(* A mutant: the label style is taken for the simple one. *)
ExplodeSeparator_NoLabel(def) == IF Style(def) = "matrix" THEN ";" ELSE ","

ExplodeSeparator(def) ==
  CASE Style(def) = "label" -> "." [] Style(def) = "matrix" -> ";" [] OTHER -> ","

parsePathObjectParam(def, text) ==
  IF text = <<>> THEN {NoValues}
  ELSE IF Explode(def) THEN parseExplodeObjectParam(text, ExplodeSeparator(def))
  ELSE UNION {parseNonExplodeObject(SplitText(value, ",")) :
                value \in IF Style(def) = "matrix" THEN CutPrefix(text, NamePrefix(def)) ELSE {text}}

decodePathObjectParam(def, text) ==
  DecodeObject(parsePathObjectParam(def, text), SchemaOf(def))

(* Of an array only its length is validated beside its items.               *)
FitsArray(s, d) == IF Failed(d) THEN d ELSE Accept(d, ValidateArray(s, d.val))

decodePathArrayParam(def, texts) ==
  FitsArray(SchemaOf(def), decodeArrayParam(texts, SchemaOf(def)))

(* What the texts of a segment, if there are some, are decoded to.          *)
FromPath(def, text, d) == IF parsePathArrayParam(def, text) = {} THEN Fail({"syntax"}) ELSE d

(* A schema that allows strings takes the text as it is, without its sign.  *)
PathTexts(def, texts, types) ==
  TryType(types, "array", decodePathArrayParam(def, texts), ParamDecode(def.schema, texts, Scalars(types)))

PathBySchema(def, text, texts) ==
  LET types == TypesOf(def)
  IN IF "string" \in Range(types) THEN Valid(SchemaOf(def), Ok(Str(text)))
     ELSE TryType(types, "object", decodePathObjectParam(def, text),
                  FromPath(def, text, PathTexts(def, texts, Less(types, "object"))))

DecodePathText(def, text, texts) ==
  IF HasContent(def) THEN FromPath(def, text, Document(def, texts))
  ELSE IF def.schema = None THEN FromPath(def, text, Ok(normalizeRawParamValue(texts)))
  ELSE PathBySchema(def, text, texts)

DecodePathValue(def, segment) ==
  LET trimmed == trimPathValueByStyle(def, segment)
      text == Only(trimmed)
  IN IF segment = <<>> THEN Fail({"required"})
     ELSE IF trimmed = {} THEN Fail({"syntax"})
     ELSE DecodePathText(def, text, Only(parsePathArrayParam(def, text)))

-----------------------------------------------------------------------------
(* DecodeQueryFromParameters.  A parameter that is not there has no value.  *)

NotPresent == [val |-> Null, errs |-> {}, present |-> FALSE]
Present(d) == [val |-> d.val, errs |-> d.errs, present |-> ~Failed(d)]

(* A mutant: whether the parameter is required is not asked. *)
FromQuery_Optional(def, query, d) ==
  IF def.name \notin DOMAIN query THEN NotPresent ELSE Present(d)

(* getQueryParameterRawValues, with what the texts found are decoded to; a  *)
(* key of a query has a text at least.                                      *)
FromQuery(def, query, d) ==
  IF def.name \notin DOMAIN query
    THEN IF def.required THEN Present(Fail({"required"})) ELSE NotPresent
  ELSE Present(d)

parseNonExplodeQueryObject(def, texts) ==
  LET Odd(text) == text # <<>> /\ Len(SplitText(text, Separator(Style(def))[1])) % 2 # 0
  IN IF \E text \in Range(texts) : Odd(text) THEN {}
     ELSE parseNonExplodeObject(splitNonExplodeDelimitedStyle(texts, Style(def)))

QueryParts(def, texts) ==
  IF Explode(def) THEN texts ELSE splitNonExplodeDelimitedStyle(texts, Style(def))

decodeQueryArrayParam(def, texts) ==
  Valid(SchemaOf(def), decodeArrayParam(QueryParts(def, texts), SchemaOf(def)))

(* Only a type of the schema itself, not of a branch, makes an object.      *)
IsObjectParam(def) == def.schema # None /\ "object" \in Range(SchemaOf(def).type)

(* The fields of an exploded object are the keys of the query.              *)
QueryObjects(def, query) ==
  IF Explode(def) THEN {query} ELSE parseNonExplodeQueryObject(def, query[def.name])

QueryTexts(def, texts, types) ==
  TryType(types, "array", decodeQueryArrayParam(def, texts),
          ParamDecode(def.schema, texts, Less(types, "array")))

QueryBySchema(def, query, object, rest) ==
  LET decided == IsObjectParam(def) /\ Decides(TypesOf(def), "object", object)
  IN IF Explode(def) /\ decided THEN Present(object)
     ELSE FromQuery(def, query, IF decided THEN object ELSE rest)

decodeQueryFromParameter(def, query) ==
  LET texts == query[def.name]
  IN IF HasContent(def) THEN FromQuery(def, query, Document(def, texts))
     ELSE IF def.schema = None THEN
       FromQuery(def, query, Ok(normalizeRawParamValue(QueryParts(def, texts))))
     ELSE QueryBySchema(def, query, DecodeObject(QueryObjects(def, query), SchemaOf(def)),
            QueryTexts(def, texts, IF IsObjectParam(def) THEN Less(TypesOf(def), "object") ELSE TypesOf(def)))

(* Keys that cannot be read fail a request that has deep objects.           *)
QueryIsMalformed(query) == Malformed(query) \/ IsMixed(Parsed(query))

-----------------------------------------------------------------------------
(* DecodeHeaderParameters *)

NormalizeHeaders(headers) == normalizeRawObjectValues(headers)

splitAndDecodeArrayParam(def, texts) ==
  Valid(SchemaOf(def), decodeArrayParam(splitArrayParams(texts), SchemaOf(def)))

splitObjectFromHeaderValues(def, parts) ==
  IF Explode(def) THEN setExplodeObjectProperties(SelectSeq(parts, LAMBDA part : part # <<>>))
  ELSE parseNonExplodeObject(parts)

decodeHeaderObjectParam(def, texts) ==
  DecodeObject(splitObjectFromHeaderValues(def, splitArrayParams(texts)), SchemaOf(def))

decodeHeaderParameter(def, headers) ==
  LET texts == headers[def.name]
  IN IF def.name \notin DOMAIN headers \/ texts = <<>> THEN Accept(Ok(Null), If(def.required, "required"))
     ELSE IF HasContent(def) THEN Document(def, texts)
     ELSE IF def.schema = None THEN Ok(normalizeRawParamValue(splitArrayParams(texts)))
     ELSE TryTypes(TypesOf(def), decodeHeaderObjectParam(def, texts), splitAndDecodeArrayParam(def, texts),
                   ParamDecode(def.schema, texts, Scalars(TypesOf(def))))

-----------------------------------------------------------------------------
(* DecodeCookieParameters *)

CookieTexts(cookies, name) ==
  LET own == SelectSeq(cookies, LAMBDA cookie : cookie[1] = name)
  IN [i \in DOMAIN own |-> own[i][2]]

createCookieMap(cookies) ==
  FoldLeft(LAMBDA map, cookie : Add(map, cookie[1], cookie[2]), NoValues, cookies)

(* A cookie that is not there is an error only if it may not be null.       *)
findCookies(def, cookies, nullable, d) ==
  IF CookieTexts(cookies, def.name) = <<>> /\ def.required /\ ~nullable THEN Fail({"required"}) ELSE d

CookieObjects(def, cookies) ==
  IF Explode(def) THEN {createCookieMap(cookies)}
  ELSE parseNonExplodeObject(splitArrayParams(CookieTexts(cookies, def.name)))

decodeCookieObjectParameter(def, cookies) ==
  DecodeObject(CookieObjects(def, cookies), SchemaOf(def))

CookieBySchema(def, cookies, types) ==
  LET texts == CookieTexts(cookies, def.name)
      flat == TryType(types, "array", splitAndDecodeArrayParam(def, texts),
                      ParamDecode(def.schema, texts, Less(types, "array")))
  IN findCookies(def, cookies, IsNullable(SchemaOf(def)), IF texts = <<>> THEN Ok(Null) ELSE flat)

decodeCookieParameter(def, cookies) ==
  LET texts == CookieTexts(cookies, def.name)
  IN IF HasContent(def) THEN findCookies(def, cookies, TRUE, Document(def, texts))
     ELSE IF def.schema = None
       THEN findCookies(def, cookies, TRUE, Ok(normalizeRawParamValue(splitArrayParams(texts))))
     ELSE TryType(TypesOf(def), "object", decodeCookieObjectParameter(def, cookies),
                  CookieBySchema(def, cookies, Less(TypesOf(def), "object")))
=============================================================================
