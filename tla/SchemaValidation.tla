---------------------------- MODULE SchemaValidation ----------------------------
(***************************************************************************)
(* The validator of values (oasvalidator/validation.go): ValidateValue and *)
(* the functions it is made of, one for each type of a value, and beside   *)
(* them what a schema says about a value, which mentions no function of    *)
(* the code.                                                               *)
(***************************************************************************)
EXTENDS Schema, Integers, Sequences, FiniteSets, SequencesExt

CONSTANTS
  Size,        \* the length in bytes of each token
  Matching,    \* the texts a pattern matches, for each pattern that compiles
  WellFormed,  \* the texts of each format that is checked
  AsBoolean,   \* the boolean, the integer and the number read in a text, for
  AsInteger,   \* each text that has one
  AsNumber,
  Validated(_, _),  \* ValidateValue and Meets where they are applied to a part of
  Met(_, _)         \* the schema they are applied to

(* A schema without a format has an empty one, which is not checked.         *)
ASSUME FormatsAssumption == "" \notin DOMAIN WellFormed

If(condition, error) == IF condition THEN {error} ELSE {}

(* The first and the last of some indexes, sets of at most one.             *)
FirstIn(indexes) == {i \in indexes : \A j \in indexes : i <= j}
LastIn(indexes) == {i \in indexes : \A j \in indexes : j <= i}

NullText == <<"null">>
TextSize(text) == FoldLeft(LAMBDA n, token : n + Size[token], 0, text)

-----------------------------------------------------------------------------
TypeAllowed(s, type) == s.type = <<>> \/ type \in Range(s.type)

CanNull(s) == s.nullable \/ "null" \in Range(s.type) \/ NullText \in s.enum

(* The content of a scalar of the YAML document, loaded as a value's type.  *)
Loads(text, v) ==
  CASE Kind(v) = "str" -> text = Content(v)
    [] Kind(v) = "bool" -> text \in DOMAIN AsBoolean /\ AsBoolean[text] = Content(v)
    [] Kind(v) = "int" -> text \in DOMAIN AsInteger /\ AsInteger[text] = Content(v)
    [] Kind(v) = "num" -> text \in DOMAIN AsNumber /\ AsNumber[text] = Content(v)

ValidateEnum(s, v) ==
  LET enums == IF s.const # None THEN s.const ELSE s.enum
  IN enums = {} \/ \E text \in enums : Loads(text, v)

ValidateBoolean(s, v) ==
  IF ~TypeAllowed(s, "boolean") THEN {"type"} ELSE If(~ValidateEnum(s, v), "enum")

-----------------------------------------------------------------------------
ValidateArrayLength(s, length) ==
  IF \E m \in s.maxItems : length > m THEN {"maxItems"}
  ELSE If(\E m \in s.minItems : length < m, "minItems")

LengthErrors(s, length) ==
  IF \E m \in s.maxLength : length > m THEN {"maxLength"}
  ELSE If(\E m \in s.minLength : length < m, "minLength")

PatternErrors(s, text) ==
  If(\E p \in s.pattern \cap DOMAIN Matching : text \notin Matching[p], "pattern")

(* A mutant: neither the format nor the pattern is looked at. *)
ValidateString_LengthOnly(s, text) ==
  IF ~TypeAllowed(s, "string") THEN {"type"}
  ELSE IF ~ValidateEnum(s, Str(text)) THEN {"enum"}
  ELSE LengthErrors(s, TextSize(text))

(* A string must also have the number of items of an array. *)
ValidateString(s, text) ==
  IF ~TypeAllowed(s, "string") THEN {"type"}
  ELSE IF s.format \in DOMAIN WellFormed /\ text \notin WellFormed[s.format] THEN {"format"}
  ELSE IF ~ValidateEnum(s, Str(text)) THEN {"enum"}
  ELSE LET length == TextSize(text)
       IN LengthErrors(s, length) \cup ValidateArrayLength(s, length) \cup PatternErrors(s, text)

-----------------------------------------------------------------------------
IsFlag(x) == x = Bool(TRUE)
IsNumber(x) == Kind(x) = "num"

AboveMaximum(s, n) ==
  \/ \E x \in s.exclusiveMaximum : IsNumber(x) /\ n >= Content(x)
  \/ \E x \in s.exclusiveMaximum : IsFlag(x) /\ \E m \in s.maximum : n >= m
  \/ \E m \in s.maximum : n > m

AtExclusiveMinimum(s, n) ==
  \E x \in s.exclusiveMinimum : IsNumber(x) /\ n <= Content(x)

BelowMinimum(s, n) ==
  \/ \E x \in s.exclusiveMinimum : IsFlag(x) /\ \E m \in s.minimum : n <= m
  \/ \E m \in s.minimum : n < m

MultipleErrors(s, n) ==
  If(\E m \in s.multipleOf : m > 0 /\ n # 0 /\ n % m # 0, "multipleOf")

(* A mutant: the message of the maximum is made from the other limit too. *)
validateNumberRules_Swapped(s, n) ==
  IF AboveMaximum(s, n)
    THEN IF s.exclusiveMaximum # None /\ s.exclusiveMinimum = None THEN Panic ELSE {"maximum"}
    ELSE MultipleErrors(s, n) \cup If(BelowMinimum(s, n), "minimum")

(* One switch for both limits; the message of a numeric exclusiveMinimum is *)
(* made from the exclusiveMaximum, which may be nil.                        *)
validateNumberRules(s, n) ==
  MultipleErrors(s, n) \cup
  (IF AboveMaximum(s, n) THEN {"maximum"}
   ELSE IF AtExclusiveMinimum(s, n)
     THEN IF s.exclusiveMaximum = None THEN Panic ELSE {"minimum"}
   ELSE If(BelowMinimum(s, n), "minimum"))

ValidateNumber(s, v) ==
  IF ~TypeAllowed(s, "number") THEN {"type"}
  ELSE IF ~ValidateEnum(s, v) THEN {"enum"} ELSE validateNumberRules(s, Content(v))

ValidateInteger(s, v) ==
  IF ~TypeAllowed(s, "integer") THEN {"type"}
  ELSE IF ~ValidateEnum(s, v) THEN {"enum"} ELSE validateNumberRules(s, Content(v))

-----------------------------------------------------------------------------
(* The items of a slice of strings are compared, those of []any are not. *)
FindDuplicatedItems(texts) ==
  {texts[i] : i \in {j \in DOMAIN texts : \E k \in DOMAIN texts : k # j /\ texts[k] = texts[j]}}

ValidateArray(s, v) ==
  ValidateArrayLength(s, Len(Content(v))) \cup
  If(Kind(v) = "strs" /\ s.uniqueItems /\ FindDuplicatedItems(Content(v)) # {}, "uniqueItems")

validateObjectPropertiesLength(s, size) ==
  IF \E m \in s.maxProperties : m < size THEN {"maxProperties"}
  ELSE If(\E m \in s.minProperties : m > size, "minProperties")

(* dependentRequired asks for the dependents whether or not the key is there. *)
ValidateObjectWithoutProperties(s, fields) ==
  IF ~TypeAllowed(s, "object") THEN {"type"}
  ELSE validateObjectPropertiesLength(s, Cardinality(DOMAIN fields))
       \cup If(~(s.required \subseteq DOMAIN fields), "required")
       \cup If(\E k \in DOMAIN s.dependentRequired :
                 ~(s.dependentRequired[k] \subseteq DOMAIN fields), "dependentRequired")

IsSchemaTypeEmpty(s) ==
  /\ s.type = <<>> /\ s.allOf = <<>> /\ s.anyOf = <<>> /\ s.oneOf = <<>>
  /\ s.properties = NoFields /\ s.patternProperties = NoFields
  /\ s.additionalProperties = None /\ s.items = None

IsSchemaObjectEmpty(s) ==
  /\ s.allOf = <<>> /\ s.anyOf = <<>> /\ s.oneOf = <<>>
  /\ s.properties = NoFields /\ s.patternProperties = NoFields
  /\ s.additionalProperties = None

Field(fields, k) == IF k \in DOMAIN fields THEN fields[k] ELSE Null

NilPointerType(kind) ==
  CASE kind = "bool" -> "boolean" [] kind = "str" -> "string"
    [] kind = "int" -> "integer" [] kind = "num" -> "number"

(* The errors of alternatives: none if one of them has none, but a panic in *)
(* an alternative that is tried is a panic.  Those of oneOf after the first *)
(* without errors are not tried.                                            *)
AnyErrors(tried) ==
  IF tried = {} \/ {} \in tried THEN (UNION tried) \cap Panic ELSE UNION tried

AnyOfErrors(branches) == AnyErrors(Range(branches))

OneOfErrors(branches) ==
  LET passing == {i \in DOMAIN branches : branches[i] = {}}
  IN AnyErrors({branches[i] : i \in {k \in DOMAIN branches : \A j \in passing : k <= j}})

(* The items of a slice of strings are strings.                              *)
AsValue(v, x) == IF Kind(v) = "strs" THEN Str(x) ELSE x

ValidateArrayAndItems(s, v) ==
  IF ~TypeAllowed(s, "array") THEN {"type"}
  ELSE LET itemSchemas == {t \in s.items : ~IsSchemaTypeEmpty(t)}
       IN ValidateArray(s, v) \cup
          UNION {Validated(t, AsValue(v, x)) : t \in itemSchemas, x \in Range(Content(v))}

(* Every declared property is validated, as null where there is none.       *)
ValidateObject(s, fields) ==
  LET extra == DOMAIN fields \ DOMAIN s.properties
  IN ValidateObjectWithoutProperties(s, fields)
     \cup (UNION {Validated(s.properties[k], Field(fields, k)) : k \in DOMAIN s.properties})
     \cup (UNION {Validated(t, fields[k]) : t \in ExtraSchemas(s), k \in extra})
     \cup (UNION {UNION {Validated(s.patternProperties[p], fields[k]) : k \in extra \cap Matching[p]}
                  : p \in DOMAIN s.patternProperties \cap DOMAIN Matching})

(* A nil pointer of a type that may be null is dereferenced. *)
ValidateNullable(s) == IF CanNull(s) THEN Panic ELSE {"notNull"}

validateValueOnly(s, v) ==
  CASE Kind(v) = "null" -> {}
    [] Kind(v) = "bool" -> ValidateBoolean(s, v)
    [] Kind(v) = "str" -> ValidateString(s, Content(v))
    [] Kind(v) = "int" -> ValidateInteger(s, v)
    [] Kind(v) = "num" -> ValidateNumber(s, v)
    [] Kind(v) \in {"strs", "arr"} -> ValidateArrayAndItems(s, v)
    [] Kind(v) = "obj" -> ValidateObject(s, Content(v))
    [] OTHER -> ValidateNullable(s)

ValidateValue(s, v) ==
  LET Branches(branches) == [i \in DOMAIN branches |-> Validated(branches[i], v)]
  IN validateValueOnly(s, v)
     \cup (UNION Range(Branches(s.allOf)))
     \cup AnyOfErrors(Branches(s.anyOf))
     \cup OneOfErrors(Branches(s.oneOf))

-----------------------------------------------------------------------------
(* What a schema says of a value.  A null is taken for a value that is not  *)
(* there, and an alternative for one that may hold beside others.           *)

TypeName(v) ==
  CASE Kind(v) = "bool" -> "boolean" [] Kind(v) = "str" -> "string"
    [] Kind(v) = "int" -> "integer" [] Kind(v) = "num" -> "number"
    [] Kind(v) \in {"strs", "arr"} -> "array" [] Kind(v) = "obj" -> "object"

Between(low, n, high) == (\A m \in low : ~(n < m)) /\ (\A m \in high : ~(n > m))

LimitOf(limit, exclusive) ==
  {Content(x) : x \in {y \in exclusive : IsNumber(y)}}
    \cup (IF Bool(TRUE) \in exclusive THEN limit ELSE {})

InRange(s, n) ==
  /\ Between(s.minimum, n, s.maximum)
  /\ \A m \in LimitOf(s.minimum, s.exclusiveMinimum) : ~(n <= m)
  /\ \A m \in LimitOf(s.maximum, s.exclusiveMaximum) : ~(n >= m)
  /\ \A m \in s.multipleOf : m > 0 /\ n # 0 => n % m = 0

TextMeets(s, text) ==
  /\ Between(s.minLength, TextSize(text), s.maxLength)
  /\ s.format \in DOMAIN WellFormed => text \in WellFormed[s.format]
  /\ \A p \in s.pattern \cap DOMAIN Matching : text \in Matching[p]

ScalarMeets(s, v) ==
  /\ s.enum # {} /\ s.const = None => \E text \in s.enum : Loads(text, v)
  /\ s.const # None => \E text \in s.const : Loads(text, v)

ItemsMeet(s, v) ==
  /\ Between(s.minItems, Len(Content(v)), s.maxItems)
  /\ \A t \in s.items : \A x \in Range(Content(v)) : Met(t, AsValue(v, x))

FieldsMeet(s, fields) ==
  /\ Between(s.minProperties, Cardinality(DOMAIN fields), s.maxProperties)
  /\ s.required \subseteq DOMAIN fields
  /\ \A k \in DOMAIN fields \cap DOMAIN s.dependentRequired : s.dependentRequired[k] \subseteq DOMAIN fields
  /\ \A k \in DOMAIN fields \cap DOMAIN s.properties : Met(s.properties[k], fields[k])
  /\ \A p \in DOMAIN s.patternProperties \cap DOMAIN Matching :
       \A k \in DOMAIN fields \cap Matching[p] : Met(s.patternProperties[p], fields[k])
  /\ \A t \in ExtraSchemas(s) : \A k \in DOMAIN fields \ DOMAIN s.properties :
       \/ \E p \in DOMAIN s.patternProperties \cap DOMAIN Matching : k \in Matching[p]
       \/ Met(t, fields[k])

BranchesMeet(s, v) ==
  /\ \A branch \in Range(s.allOf) : Met(branch, v)
  /\ Range(s.anyOf) # {} => \E branch \in Range(s.anyOf) : Met(branch, v)
  /\ Range(s.oneOf) # {} => \E branch \in Range(s.oneOf) : Met(branch, v)

Meets(s, v) ==
  \/ Kind(v) = "null"
  \/ /\ s.type # <<>> => \E i \in DOMAIN s.type : s.type[i] = TypeName(v)
     /\ BranchesMeet(s, v)
     /\ Kind(v) \in {"bool", "str", "int", "num"} => ScalarMeets(s, v)
     /\ Kind(v) \in {"int", "num"} => InRange(s, Content(v))
     /\ Kind(v) = "str" => TextMeets(s, Content(v))
     /\ Kind(v) \in {"arr", "strs"} => ItemsMeet(s, v)
     /\ Kind(v) = "obj" => FieldsMeet(s, Content(v))
=============================================================================
