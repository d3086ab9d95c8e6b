--------------------------------- MODULE Schema ---------------------------------
(***************************************************************************)
(* The values of parameters and bodies, and the schemas they are held to   *)
(* (oasvalidator), without what a schema says about a value.               *)
(*                                                                         *)
(* A text is a sequence of tokens, so that it can be split and joined; the *)
(* empty text is the empty sequence.  Numbers are counted in tenths.       *)
(***************************************************************************)
(* A value is its kind and its content.  "strs" is a slice of strings, as   *)
(* raw parameters are; "arr" a slice of anything; "ptr" a nil pointer.      *)
Null == <<"null", "nil">>
Bool(b) == <<"bool", b>>
Int_(n) == <<"int", n>>
Num(n) == <<"num", n>>
Str(text) == <<"str", text>>
Strs(texts) == <<"strs", texts>>
Arr(items) == <<"arr", items>>
Obj(fields) == <<"obj", fields>>
NilPointer(kind) == <<"ptr", kind>>

Kind(v) == v[1]
Content(v) == v[2]

(* Errors are their codes; a panic ends the validation of the request.      *)
Panic == {"panic"}

None == {}
NoFields == [k \in {} |-> Null]

(* A schema: an optional keyword is a set of at most one element, enums are *)
(* texts of YAML scalars, exclusive limits are a flag or a number.          *)
AnySchema ==
  [ type |-> <<>>, nullable |-> FALSE, enum |-> {}, const |-> None,
    format |-> "", pattern |-> None, minLength |-> None, maxLength |-> None,
    multipleOf |-> None, minimum |-> None, maximum |-> None,
    exclusiveMinimum |-> None, exclusiveMaximum |-> None,
    minItems |-> None, maxItems |-> None, uniqueItems |-> FALSE, items |-> None,
    properties |-> NoFields, required |-> {}, dependentRequired |-> NoFields,
    minProperties |-> None, maxProperties |-> None,
    additionalProperties |-> None, patternProperties |-> NoFields,
    allOf |-> <<>>, anyOf |-> <<>>, oneOf |-> <<>> ]

Typed(type) == [AnySchema EXCEPT !.type = <<type>>]

(* The schemas a schema is made of.                                         *)
ExtraSchemas(s) == {Content(x) : x \in {y \in s.additionalProperties : Kind(y) = "schema"}}

Parts(s) ==
  LET In(parts) == {parts[i] : i \in DOMAIN parts}
  IN s.items \cup ExtraSchemas(s) \cup In(s.properties) \cup In(s.patternProperties)
       \cup In(s.allOf) \cup In(s.anyOf) \cup In(s.oneOf)

(* The fields of one function, and those of another beside them.            *)
Over(fields, others) ==
  [k \in DOMAIN fields \cup DOMAIN others |-> IF k \in DOMAIN fields THEN fields[k] ELSE others[k]]
=================================================================================
