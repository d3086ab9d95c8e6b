---------------------------- MODULE ParameterDecode ----------------------------
(***************************************************************************)
(* The decoders of parameters (oasvalidator/parameter): the texts of a     *)
(* parameter in the path, the query, the headers or the cookies, read as   *)
(* its style asks and turned into a value of a type its schema allows.     *)
(*                                                                         *)
(* A decoder returns a value and errors; the value counts if there are no  *)
(* errors.                                                                 *)
(***************************************************************************)
EXTENDS ParameterEncode

CONSTANTS
  AsDocument,  \* the value of each text that is a JSON document
  ItemDecoded(_, _, _),   \* ParamDecode where it is applied to an item
  BranchDecoded(_, _, _)  \* ObjectDecode where it is applied to a branch

Ok(v) == [val |-> v, errs |-> {}]
Fail(errs) == [val |-> Null, errs |-> errs]
Failed(d) == d.errs # {}
Then(d, Next(_)) == IF Failed(d) THEN Fail(d.errs) ELSE Next(d.val)
Accept(d, errs) == IF errs = {} THEN d ELSE Fail(errs)
Only(S) == CHOOSE x \in S : TRUE

(* The decoded items, or the errors of the first that fails.                *)
Collect(ds) ==
  LET failing == {i \in DOMAIN ds : Failed(ds[i])}
  IN IF failing = {} THEN Ok(Arr([i \in DOMAIN ds |-> ds[i].val]))
     ELSE Fail(UNION {ds[i].errs : i \in FirstIn(failing)})

-----------------------------------------------------------------------------
(* The types of a schema and its branches, in the order they are met.  The  *)
(* type "null" has an empty name, and makes no schema nullable.             *)
NormalizeType(type) == IF type = "null" THEN "" ELSE type

IsKeyed(s) == s.properties # NoFields \/ s.patternProperties # NoFields

AddTypes(types, s) ==
  LET Add1(ts, type) == IF type \in Range(ts) THEN ts ELSE Append(ts, type)
      own == [i \in DOMAIN s.type |-> NormalizeType(s.type[i])]
  IN IF s.type # <<>> THEN FoldLeft(Add1, types, own)
     ELSE IF IsKeyed(s) /\ "object" \notin Range(types) THEN Append(types, "object")
     ELSE IF s.items # None THEN Add1(types, "array")
     ELSE types

WithBranches(s) == <<s>> \o s.allOf \o s.oneOf \o s.anyOf
ExtractSchemaTypes(s) == FoldLeft(AddTypes, <<>>, WithBranches(s))
IsNullable(s) == \E branch \in Range(WithBranches(s)) : branch.nullable

(* One type is tried; the others are left if it fails and is not the last.  *)
Decides(types, type, attempt) ==
  /\ type \in Range(types)
  /\ ~Failed(attempt) \/ attempt.errs \cap Panic # {} \/ Cardinality(DOMAIN types) = 1

TryType(types, type, attempt, rest) == IF Decides(types, type, attempt) THEN attempt ELSE rest

Less(types, type) == Restrict(types, {i \in DOMAIN types : types[i] # type})
Scalars(types) == Less(Less(types, "object"), "array")

TryTypes(types, object, array, rest) ==
  TryType(types, "object", object, TryType(Less(types, "object"), "array", array, rest))

-----------------------------------------------------------------------------
normalizeRawParamValue(texts) ==
  CASE Len(texts) = 0 -> Null [] Len(texts) = 1 -> Str(texts[1]) [] OTHER -> Strs(texts)

normalizeRawObjectValues(raw) == [k \in DOMAIN raw |-> normalizeRawParamValue(raw[k])]

ToAnySlice(texts) == Arr([i \in DOMAIN texts |-> Str(texts[i])])

SplitText(text, separator) ==
  LET cuts == {i \in DOMAIN text : text[i] = separator}
      ends == SetToSortSeq(cuts \cup {Len(text) + 1}, <)
      Start(j) == IF j = 1 THEN 1 ELSE ends[j - 1] + 1
  IN [j \in 1..Len(ends) |-> SubSeq(text, Start(j), ends[j] - 1)]

SplitAll(texts, separator) ==
  FlattenSeq([i \in DOMAIN texts |-> IF texts[i] = <<>> THEN <<>> ELSE SplitText(texts[i], separator)])

(* Without a comma the texts are left as they are, empty ones included.     *)
splitArrayParams(texts) ==
  IF \A text \in Range(texts) : "," \notin Range(text) THEN texts ELSE SplitAll(texts, ",")

splitNonExplodeDelimitedStyle(texts, style) == SplitAll(texts, Separator(style)[1])

(* An object of keys and values by turns; a set of at most one map.         *)
parseNonExplodeObject(parts) ==
  IF Len(parts) % 2 # 0 \/ \E i \in DOMAIN parts : i % 2 = 1 /\ parts[i] = <<>> THEN {}
  ELSE {FoldLeft(LAMBDA raw, i : Add(raw, parts[2 * i - 1], parts[2 * i]),
                 NoValues, [i \in 1..(Len(parts) \div 2) |-> i])}

(* An object of key=value parts: the key ends at the first "=".             *)
CutAt(part) == {i \in DOMAIN part : part[i] = "=" /\ \A j \in 1..(i - 1) : part[j] # "="}
setExplodeObjectProperties(parts) ==
  IF \E part \in Range(parts) : CutAt(part) \in {{}, {1}} THEN {}
  ELSE {FoldLeft(LAMBDA raw, part :
                   LET cut == Only(CutAt(part))
                   IN Add(raw, SubSeq(part, 1, cut - 1), SubSeq(part, cut + 1, Len(part))),
                 NoValues, parts)}

parseExplodeObjectParam(text, separator) == setExplodeObjectProperties(SplitText(text, separator))

-----------------------------------------------------------------------------
(* The value of a type a text is read as, a set of at most one.             *)
DecodePrimitiveValueFromType(text, type) ==
  CASE type = "boolean" -> {Bool(AsBoolean[t]) : t \in {text} \cap DOMAIN AsBoolean}
    [] type = "integer" -> {Int_(AsInteger[t]) : t \in {text} \cap DOMAIN AsInteger}
    [] type = "number" -> {Num(AsNumber[t]) : t \in {text} \cap DOMAIN AsNumber}

Primitives == {"boolean", "integer", "number"}
Decoded(v, type, errs) == [val |-> v, type |-> type, errs |-> errs]

(* The first text that is not empty decides; an unknown type leaves it.     *)
decodePrimitiveQueryValues(type, texts) ==
  LET filled == SelectSeq(texts, LAMBDA text : text # <<>>)
      read == DecodePrimitiveValueFromType(filled[1], type)
  IN IF texts = <<>> THEN Decoded(Null, type, {})
     ELSE IF type = "string" THEN Decoded(Str(IF filled = <<>> THEN <<>> ELSE filled[1]), type, {})
     ELSE IF filled = <<>> THEN Decoded(Strs(texts), "", {})
     ELSE IF type \notin Primitives THEN Decoded(Str(filled[1]), "", {})
     ELSE IF read = {} THEN Decoded(Null, "", {"syntax"})
     ELSE Decoded(Only(read), type, {})

(* A mutant: the errors of the types are lost. *)
FirstType_NoErrors(ds) ==
  LET reading == {i \in DOMAIN ds : ~Failed(ds[i])}
  IN IF reading # {} THEN ds[Min(reading)] ELSE Decoded(Null, "null", {})

(* The first of the types that reads the texts, or the errors of the last.  *)
FirstType(ds) ==
  LET ending == {i \in DOMAIN ds : ~Failed(ds[i]) \/ ds[i].errs \cap Panic # {}}
      errs == IF DOMAIN ds = {} THEN {"object"} ELSE UNION {ds[i].errs : i \in LastIn(DOMAIN ds)}
  IN IF FirstIn(ending) # {} THEN ds[Only(FirstIn(ending))] ELSE Decoded(Null, "", errs)

(* What a schema finds wrong with a value that is decoded.                  *)
Valid(s, d) == IF Failed(d) THEN Fail(d.errs) ELSE Accept(d, ValidateValue(s, d.val))

(* A branch of oneOf that allows the type of the value is skipped, the      *)
(* others are tried; if there are none left the value is lost.              *)
OneOfTried(s, type) == Restrict(s.oneOf, {i \in DOMAIN s.oneOf : type \notin Range(s.oneOf[i].type)})

TryOneOf(tried, d) ==
  IF DOMAIN tried = {} THEN Ok(Null)
  ELSE Accept(Ok(d.val), OneOfErrors([i \in DOMAIN tried |-> ValidateValue(tried[i], d.val)]))

DecodeOneOf(s, d) ==
  IF Failed(d) \/ s.oneOf = <<>> \/ ExtractSchemaTypes(s) = <<>> THEN d
  ELSE TryOneOf(OneOfTried(s, d.type), d)

decodeArrayParamWithItemSchema(texts, item) ==
  Collect([i \in DOMAIN texts |-> ItemDecoded({item}, <<texts[i]>>, <<>>)])

TypedItems(s) == {item \in s.items : ~IsSchemaTypeEmpty(item)}

decodeArrayParam(texts, s) ==
  IF texts = <<>> \/ TypedItems(s) = {} THEN Ok(ToAnySlice(texts))
  ELSE decodeArrayParamWithItemSchema(texts, Only(TypedItems(s)))

(* A text that is read as no type is left by decodePrimitiveQueryValues.    *)
IsTyped(d) == IF ~Failed(d) /\ d.type = "" THEN Decoded(Null, "", {"type"}) ELSE d
AsArray(d) == Decoded(d.val, "array", d.errs)

decodeFromSchemaType(s, texts, type) ==
  IF type = "array" THEN AsArray(decodeArrayParam(texts, s))
  ELSE IsTyped(decodePrimitiveQueryValues(type, texts))

decodeFromSchemaTypes(s, texts, types) ==
  FirstType([i \in DOMAIN types |-> decodeFromSchemaType(s, texts, types[i])])

(* A schema without types takes the texts as they are.                      *)
RawTexts(s, texts) ==
  Decoded(normalizeRawParamValue(texts), "", If(texts = <<>> /\ ~IsNullable(s), "required"))

(* paramDecoder.Decode.  The schema is optional.  Its allOf and anyOf are   *)
(* validated twice, which finds nothing more.                               *)
DecodeTexts(s, texts, types) ==
  IF ExtractSchemaTypes(s) = <<>> THEN RawTexts(s, texts)
  ELSE decodeFromSchemaTypes(s, texts, Less(IF types = <<>> THEN ExtractSchemaTypes(s) ELSE types, "object"))

ParamDecode(schema, texts, types) ==
  IF schema = None THEN Ok(normalizeRawParamValue(texts))
  ELSE LET s == Only(schema) IN DecodeOneOf(s, Valid(s, DecodeTexts(s, texts, types)))

-----------------------------------------------------------------------------
(* decodeParameterFromContent: every text is a document of its own, and an  *)
(* array schema is one of the list of the documents.                        *)
normalizeRawDocuments(vs) ==
  CASE DOMAIN vs = {} -> Null [] DOMAIN vs = {1} -> vs[1] [] OTHER -> Arr(vs)

decodeParameterFromContent(schema, texts) ==
  LET filled == SelectSeq(texts, LAMBDA text : text # <<>>)
      documents == [i \in DOMAIN filled |-> AsDocument[filled[i]]]
      s == Only(schema)
      isList == "array" \in Range(ExtractSchemaTypes(s))
      v == IF isList THEN Arr(documents) ELSE documents[1]
  IN IF ~(Range(filled) \subseteq DOMAIN AsDocument) THEN Fail({"document"})
     ELSE IF schema = None THEN Ok(normalizeRawDocuments(documents))
     ELSE IF 1 \notin DOMAIN filled THEN Accept(Ok(Null), If(~IsNullable(s), "required"))
     ELSE IF Len(filled) > 1 /\ ~isList THEN Fail({"type"})
     ELSE Accept(Ok(v), ValidateValue(s, v))

-----------------------------------------------------------------------------
(* objectParamDecoder: the texts by key are decoded into the fields of the  *)
(* result, which the branches of the schema share.  Here a result is a      *)
(* record of the fields and the errors.                                     *)
Fields(fields, errs) == [val |-> fields, errs |-> errs]

Good(ds) == {k \in DOMAIN ds : ~Failed(ds[k])}

(* What is decoded goes beside the fields there are.                        *)
Beside(fields, ds) ==
  Fields(Over([k \in Good(ds) |-> ds[k].val], fields), UNION {ds[k].errs : k \in DOMAIN ds})

DecodeKeys(raw, fields, schemas) ==
  Beside(fields, [k \in DOMAIN schemas |-> ParamDecode(schemas[k], raw[k], <<>>)])

(* No key matches two of the patterns of a schema. *)
PatternSchemas(s, k) ==
  {s.patternProperties[p] : p \in {q \in DOMAIN s.patternProperties \cap DOMAIN Matching : k \in Matching[q]}}

(* The keys that are neither declared nor decoded.                          *)
Remaining(raw, fields, s) == DOMAIN raw \ (DOMAIN s.properties \cup DOMAIN fields)

TakesAdditional(s) == s.additionalProperties \notin {None, {Bool(FALSE)}}

DeclaredSchemas(keys, s) == [k \in DOMAIN s.properties \cap keys |-> {s.properties[k]}]

AdditionalSchemas(remaining, s) ==
  [k \in {r \in remaining : TakesAdditional(s)} |-> ExtraSchemas(s)]

MatchingSchemas(remaining, s) ==
  [k \in {r \in remaining : PatternSchemas(s, r) # {}} |-> PatternSchemas(s, k)]

(* The keys a step decodes, with their schemas: the declared ones, and of   *)
(* the others all, before the ones that match a pattern.                    *)
KeySchemas(step, raw, fields, s) ==
  CASE step = "declared" -> DeclaredSchemas(DOMAIN raw, s)
    [] step = "additional" -> AdditionalSchemas(Remaining(raw, fields, s), s)
    [] step = "pattern" -> MatchingSchemas(Remaining(raw, fields, s), s)

DecodeStep(step, raw, s, d) ==
  IF Failed(d) THEN d ELSE DecodeKeys(raw, d.val, KeySchemas(step, raw, d.val, s))

decodeProperties(raw, fields, s) ==
  DecodeStep("pattern", raw, s, DecodeStep("additional", raw, s,
    DecodeStep("declared", raw, s, Fields(fields, {}))))

Join(fields, d) == Fields(Over(d.val, fields), d.errs)

decodeOrUnionItem(raw, fields, branch) ==
  IF IsSchemaObjectEmpty(branch) THEN Fields(fields, ValidateObject(branch, fields))
  ELSE Join(fields, BranchDecoded(raw, NoFields, branch))

All == INSTANCE Branches WITH Try <- BranchDecoded
Some == INSTANCE Branches WITH Try <- decodeOrUnionItem

(* The steps of an object, each left out after one that failed.             *)
ObjectAllOf(raw, s, d) ==
  IF Failed(d) THEN d ELSE All!AllOf(raw, s.allOf, d.val)
ObjectAnyOf(raw, s, d) ==
  IF Failed(d) THEN d ELSE Some!AnyOf(raw, s.anyOf, d.val)
ObjectOneOf(raw, s, d) ==
  IF Failed(d) THEN d ELSE Some!OneOf(raw, s.oneOf, d.val)

(* The last step: the fields must fit the schema.                           *)
FitsObject(s, d) == IF Failed(d) THEN d ELSE Fields(d.val, ValidateObject(s, d.val))

(* A schema without properties or branches takes the texts as they are, in  *)
(* the place of the fields there are, and is not validated.                 *)
ObjectDecode(raw, fields, s) ==
  IF IsSchemaObjectEmpty(s) THEN Fields(normalizeRawObjectValues(raw), {})
  ELSE FitsObject(s, ObjectOneOf(raw, s, ObjectAnyOf(raw, s, ObjectAllOf(raw, s,
         decodeProperties(raw, fields, s)))))

AsObject(d) == IF Failed(d) THEN Fail(d.errs) ELSE Ok(Obj(d.val))

(* The object of the texts by key, if they were read: a set of at most one. *)
DecodeObject(raws, s) ==
  IF raws = {} THEN Fail({"syntax"}) ELSE AsObject(ObjectDecode(Only(raws), NoFields, s))
=============================================================================
