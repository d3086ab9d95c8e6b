----------------------------- MODULE SchemaMerge -----------------------------
(***************************************************************************)
(* Flattening "allOf" (oasvalidator/schema.go).  When a document is loaded *)
(* ValidateSchema merges every allOf branch into the schema itself, in     *)
(* place, and then clears allOf: from there on requests and responses are  *)
(* validated against the merged schema alone.  So the merged schema has to *)
(* accept what the schema and all of its branches accept together.         *)
(*                                                                         *)
(* A limit is a pair of bounds on a number, one that the number may reach  *)
(* and one that it may not (OpenAPI 3.1), and a flag that turns the first  *)
(* into the second (the boolean exclusiveMaximum of OpenAPI 3.0).  The     *)
(* lower limits are kept negated: each of the minimum functions of the     *)
(* code is then the maximum function it mirrors.                           *)
(***************************************************************************)
EXTENDS Integers, Sequences, FiniteSets

CONSTANTS
  Numbers,      \* the numbers bounds are taken from and values are tested with
  Types,        \* the normalized type names
  Names,        \* the property names
  Literals,     \* the values enums list
  Subs,         \* the schemas of properties, additional properties and items
  Definitions,  \* the schemas that are loaded: [own, allOf]
  NoBound       \* a nil bound

ASSUME NumbersAssumption == Numbers \subseteq Int
ASSUME NoBoundAssumption == NoBound \notin Int
ASSUME TypesAssumption == {"object", "array"} \subseteq Types
ASSUME SubsAssumption == {"unset", "any", "none"} \cap Subs = {}

VARIABLES
  def,      \* the schema as it was parsed
  pc,       \* "load", "merge", "done" or "failed"
  merged,   \* how many branches have been merged
  schema    \* the schema that is modified in place

vars == <<def, pc, merged, schema>>

-----------------------------------------------------------------------------
Bounds == Numbers \cup {NoBound}

Limits == [incl : Bounds, excl : Bounds, strict : BOOLEAN]

(* A map from names to schemas is not written without entries; a dynamic    *)
(* value is unset, a boolean ("any", "none") or a schema.                   *)
SchemaMaps == UNION {[D -> Subs] : D \in SUBSET Names}
DynamicValues == {"unset", "any", "none"} \cup Subs

(* No enum means any value, and no type the one that is inferred, if any.   *)
Schemas ==
  [ types : SUBSET Types, upper : Limits, lower : Limits,
    maxItems : Bounds, minItems : Bounds,
    enum : SUBSET Literals, required : SUBSET Names,
    props : SchemaMaps, patterns : SchemaMaps,
    items : DynamicValues, additional : DynamicValues ]

(* A keyword has one dialect: the flag never stands beside a number.        *)
OneDialect(lim) == lim.strict => lim.excl = NoBound
WellFormed(s) == OneDialect(s.upper) /\ OneDialect(s.lower)

ASSUME DefinitionsAssumption ==
  \A d \in Definitions :
    /\ d.own \in Schemas /\ WellFormed(d.own)
    /\ Len(d.allOf) \in Nat
    /\ \A i \in 1..Len(d.allOf) : d.allOf[i] \in Schemas /\ WellFormed(d.allOf[i])

TypeOK ==
  /\ def \in Definitions
  /\ pc \in {"load", "merge", "done", "failed"}
  /\ merged \in 0..Len(def.allOf)
  /\ schema \in Schemas /\ WellFormed(schema)

-----------------------------------------------------------------------------
(* The types of a schema.                                                  *)

IsKeyed(s) == DOMAIN s.props # {} \/ DOMAIN s.patterns # {}
HasItems(s) == s.items \in {"any"} \cup Subs

(* GetSchemaTypes of one schema: if it names no type, the one its keywords  *)
(* are about, an object before an array.                                    *)
TypesOf(s) ==
  IF s.types # {} THEN s.types
  ELSE IF IsKeyed(s) THEN {"object"}
  ELSE IF HasItems(s) THEN {"array"}
  ELSE {}

(* The schema itself and its branches.                                      *)
Part(i) == IF i = 0 THEN def.own ELSE def.allOf[i]

(* In a list of schemas one that is an object and has items is taken for an *)
(* array as well if there is an object before it.                           *)
TakenForArray(i) ==
  /\ Part(i).types = {} /\ IsKeyed(Part(i)) /\ HasItems(Part(i))
  /\ \E j \in 0..(i - 1) : "object" \in TypesOf(Part(j))

(* ExtractSchemaTypes: the types of the schema and of all its branches.     *)
AllTypes ==
  (UNION {TypesOf(Part(i)) : i \in 0..Len(def.allOf)})
    \cup {type \in {"array"} : \E i \in 1..Len(def.allOf) : TakenForArray(i)}

-----------------------------------------------------------------------------
(* Merging.                                                                *)

(* evaluateSchemaMaximum: of two bounds the stricter one remains. *)
Evaluate(lim) ==
  IF lim.incl = NoBound THEN [lim EXCEPT !.strict = FALSE]
  ELSE IF lim.excl = NoBound THEN lim
  ELSE IF lim.incl < lim.excl THEN [lim EXCEPT !.excl = NoBound]
  ELSE [lim EXCEPT !.incl = NoBound]

(* mergeSchemaMaximum *)
Tighter(dest, src) ==
  IF src = NoBound THEN dest
  ELSE IF dest = NoBound \/ dest > src THEN src
  ELSE dest

(* mergeSchemaExclusiveMaximum, after the inclusive bounds are merged: the   *)
(* flag of a branch is kept if there is a bound that it can refer to ...    *)
MergeFlag_Forgotten(d) == d

MergeFlag(d) ==
  IF d.excl # NoBound THEN d ELSE [d EXCEPT !.strict = d.incl # NoBound]

(* ... and its exclusive bound if it is stricter than the one that is there. *)
MergeExclusiveBound_DropsEqual(d, x) ==
  IF d.excl # NoBound THEN [d EXCEPT !.excl = Tighter(d.excl, x)]
  ELSE IF d.incl # NoBound /\ d.incl <= x THEN d
  ELSE [incl |-> NoBound, excl |-> x, strict |-> FALSE]

MergeExclusiveBound_BesideTheFlag(d, x) ==
  IF d.excl # NoBound THEN [d EXCEPT !.excl = Tighter(d.excl, x)]
  ELSE IF d.incl # NoBound /\ d.incl < x THEN d
  ELSE [d EXCEPT !.incl = NoBound, !.excl = x]

MergeExclusiveBound(d, x) ==
  IF d.excl # NoBound THEN [d EXCEPT !.excl = Tighter(d.excl, x)]
  ELSE IF d.incl # NoBound /\ d.incl < x THEN d
  ELSE [incl |-> NoBound, excl |-> x, strict |-> FALSE]

MergeExclusive(d, s) ==
  IF s.excl # NoBound THEN MergeExclusiveBound(d, s.excl)
  ELSE IF s.strict THEN MergeFlag(d)
  ELSE d

MergeLimit(dest, src) ==
  MergeExclusive([dest EXCEPT !.incl = Tighter(dest.incl, src.incl)], src)

(* Two dynamic values: a schema prevails over a boolean, and of    *)
(* two booleans the one that allows more (mergeDynamicValue).               *)
MergeDynamic(dest, src) ==
  CASE src = "unset" -> dest
    [] src # "unset" /\ dest = "unset" -> src
    [] src \in Subs /\ dest \in {"any", "none"} -> src
    [] src = "any" /\ dest = "none" -> src
    [] OTHER -> dest

(* MergeDefaultOrderedMap, whose result validateAllOfSchema does not use:   *)
(* a nil map stays nil, and present keys stay as they are.                  *)
MergeProps(dest, src) ==
  IF DOMAIN dest = {} THEN dest
  ELSE [n \in DOMAIN dest \cup DOMAIN src |-> IF n \in DOMAIN dest THEN dest[n] ELSE src[n]]

(* validateIntersectedTypes *)
Compatible(types, srcTypes) ==
  types = {} \/ srcTypes = {} \/ types \cap srcTypes # {}

Intersected_Union(types, srcTypes) == types \cup srcTypes

Intersected(types, srcTypes) ==
  IF srcTypes = {} THEN types ELSE IF types = {} THEN srcTypes ELSE types \cap srcTypes

Merge_LastRequired(d, s) ==
  [ types |-> Intersected(d.types, TypesOf(s)),
    upper |-> MergeLimit(d.upper, Evaluate(s.upper)),
    lower |-> MergeLimit(d.lower, Evaluate(s.lower)),
    maxItems |-> Tighter(d.maxItems, s.maxItems),
    minItems |-> Tighter(d.minItems, s.minItems),
    enum |-> d.enum \cup s.enum,
    required |-> IF s.required # {} THEN s.required ELSE d.required,
    props |-> MergeProps(d.props, s.props),
    patterns |-> MergeProps(d.patterns, s.patterns),
    items |-> MergeDynamic(d.items, s.items),
    additional |-> MergeDynamic(d.additional, s.additional) ]

(* One turn of the loop over allOf; the branch was evaluated by itself.     *)
Merge(d, s) ==
  [ types |-> Intersected(d.types, TypesOf(s)),
    upper |-> MergeLimit(d.upper, Evaluate(s.upper)),
    lower |-> MergeLimit(d.lower, Evaluate(s.lower)),
    maxItems |-> Tighter(d.maxItems, s.maxItems),
    minItems |-> Tighter(d.minItems, s.minItems),
    enum |-> d.enum \cup s.enum,
    required |-> d.required \cup s.required,
    props |-> MergeProps(d.props, s.props),
    patterns |-> MergeProps(d.patterns, s.patterns),
    items |-> MergeDynamic(d.items, s.items),
    additional |-> MergeDynamic(d.additional, s.additional) ]

-----------------------------------------------------------------------------
Init ==
  /\ def \in Definitions
  /\ pc = "load"
  /\ merged = 0
  /\ schema = def.own

(* ValidateSchema normalizes the types and the limits of the schema. *)
Load ==
  /\ pc = "load"
  /\ schema' = [schema EXCEPT !.types = AllTypes,
                              !.upper = Evaluate(@),
                              !.lower = Evaluate(@)]
  /\ pc' = "merge"
  /\ UNCHANGED <<def, merged>>

(* validateAllOfSchema merges the next branch ... *)
MergeBranch ==
  /\ pc = "merge"
  /\ merged < Len(def.allOf)
  /\ Compatible(schema.types, TypesOf(def.allOf[merged + 1]))
  /\ schema' = Merge(schema, def.allOf[merged + 1])
  /\ merged' = merged + 1
  /\ UNCHANGED <<def, pc>>

(* ... or rejects the document, *)
TypeMismatch ==
  /\ pc = "merge"
  /\ merged < Len(def.allOf)
  /\ ~Compatible(schema.types, TypesOf(def.allOf[merged + 1]))
  /\ pc' = "failed"
  /\ UNCHANGED <<def, merged, schema>>

(* ... and clears allOf after the last one. *)
ClearAllOf ==
  /\ pc = "merge"
  /\ merged = Len(def.allOf)
  /\ pc' = "done"
  /\ UNCHANGED <<def, merged, schema>>

(* ValidateSchema is called again for every operation that refers to the    *)
(* schema: there is no allOf left, but the types are inferred and the       *)
(* limits evaluated again.                                                  *)
Revalidate ==
  /\ pc = "done"
  /\ schema' = [schema EXCEPT !.types = TypesOf(schema),
                              !.upper = Evaluate(@),
                              !.lower = Evaluate(@)]
  /\ UNCHANGED <<def, pc, merged>>

Next == Load \/ MergeBranch \/ TypeMismatch \/ ClearAllOf \/ Revalidate

Spec == Init /\ [][Next]_vars

-----------------------------------------------------------------------------
(* What a schema means, keyword by keyword, whatever was merged into it.   *)

Under(x, lim) ==
  /\ lim.incl # NoBound => x <= lim.incl /\ (lim.strict => x # lim.incl)
  /\ lim.excl # NoBound => x < lim.excl

AcceptsNumber(s, x) == Under(x, s.upper) /\ Under(-x, s.lower)

AcceptsLength(s, n) ==
  /\ s.maxItems # NoBound => n <= s.maxItems
  /\ s.minItems # NoBound => -n <= s.minItems

AcceptsType(s, t) == TypesOf(s) = {} \/ t \in TypesOf(s)

(* The schema and the branches that are merged so far. *)
Parts == {def.own} \cup {def.allOf[i] : i \in 1..merged}

Loaded == pc \in {"merge", "done"}

(* The document writes exclusive bounds as numbers (OpenAPI 3.1). *)
Numeric(lim) == ~lim.strict
NumericDialect ==
  \A s \in {def.own} \cup {def.allOf[i] : i \in 1..Len(def.allOf)} :
    Numeric(s.upper) /\ Numeric(s.lower)

(* ... or as flags (OpenAPI 3.0). *)
Boolean(lim) == lim.excl = NoBound
BooleanDialect ==
  \A s \in {def.own} \cup {def.allOf[i] : i \in 1..Len(def.allOf)} :
    Boolean(s.upper) /\ Boolean(s.lower)

(* A schema whose exclusive bounds are numbers accepts, however many        *)
(* branches are merged and however often it is validated again, exactly the *)
(* numbers the schema and the merged branches all accept: of two bounds the *)
(* stricter one survives and no bound is lost (schema.go:327-513).          *)
NumbersAreExact ==
  Loaded /\ NumericDialect =>
    \A x \in Numbers : AcceptsNumber(schema, x) <=> \A s \in Parts : AcceptsNumber(s, x)

(* With boolean flags the merged schema may reject too much, but it never   *)
(* accepts a number that one of the parts rejects.                          *)
NumbersNeverLooser ==
  Loaded /\ BooleanDialect =>
    \A x \in Numbers : AcceptsNumber(schema, x) => \A s \in Parts : AcceptsNumber(s, x)

(* Lengths and required properties are merged exactly.                      *)
LengthsAndRequiredAreExact ==
  Loaded =>
    /\ \A n \in Numbers : AcceptsLength(schema, n) <=> \A s \in Parts : AcceptsLength(s, n)
    /\ schema.required = UNION {s.required : s \in Parts}

(* Types, named or inferred: the merged schema accepts no type that one of  *)
(* the branches rejects and every type that the schema and its branches all *)
(* accept, so that the types of a schema without a type of its own are      *)
(* exactly those of all branches.  Some type is left, and a document is     *)
(* rejected only if there is no type that all branches accept.              *)
TypesAreExact ==
  LET Branches == {def.allOf[i] : i \in 1..Len(def.allOf)}
  IN /\ pc = "done" =>
          /\ \A t \in Types :
               /\ AcceptsType(schema, t) => \A s \in Branches : AcceptsType(s, t)
               /\ (\A s \in Parts : AcceptsType(s, t)) => AcceptsType(schema, t)
          /\ \E t \in Types : AcceptsType(schema, t)
     /\ pc = "failed" => ~\E t \in Types : \A s \in Branches : AcceptsType(s, t)

(* schema.go:88 "merges every allOf sub-schema into schema in-place,        *)
(* reconciling types, constraints, and properties": the properties of the   *)
(* branches are properties of the merged schema.                            *)
PropertiesAreMerged ==
  pc = "done" =>
    \A s \in Parts : \A n \in DOMAIN s.props : n \in DOMAIN schema.props
=============================================================================
