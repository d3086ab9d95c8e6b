-------------------------- MODULE SchemaMergeProofs --------------------------
(***************************************************************************)
(* What merging allOf preserves, for schemas with any number of branches   *)
(* and for all integer bounds.  The lemmas say what each merging function  *)
(* of oasvalidator/schema.go does to the set of accepted numbers; the      *)
(* theorems follow from one invariant per keyword, by induction on the     *)
(* branches that are merged.                                               *)
(***************************************************************************)
EXTENDS SchemaMerge, TLAPS

-----------------------------------------------------------------------------
(* The merging functions.                                                  *)

(* evaluateSchemaMaximum drops only redundant bounds. *)
LEMMA EvaluateKeeps ==
  ASSUME NEW lim \in Limits, OneDialect(lim)
  PROVE  /\ Evaluate(lim) \in Limits
         /\ OneDialect(Evaluate(lim))
         /\ Numeric(lim) => Numeric(Evaluate(lim))
         /\ Boolean(lim) => Boolean(Evaluate(lim))
         /\ \A x \in Int : Under(x, Evaluate(lim)) <=> Under(x, lim)
<1> USE NumbersAssumption, NoBoundAssumption DEF Limits, Bounds, OneDialect
<1>1. CASE lim.incl = NoBound
  BY <1>1 DEF Evaluate, Numeric, Boolean, Under
<1>2. CASE lim.incl # NoBound /\ lim.excl = NoBound
  BY <1>2 DEF Evaluate, Numeric, Boolean, Under
<1>3. CASE lim.incl # NoBound /\ lim.excl # NoBound
  BY <1>3 DEF Evaluate, Numeric, Boolean, Under
<1> QED BY <1>1, <1>2, <1>3

(* mergeSchemaMaximum and mergeSchemaMinimum keep the stricter bound. *)
LEMMA TighterIsBoth ==
  ASSUME NEW d \in Bounds, NEW s \in Bounds
  PROVE  /\ Tighter(d, s) \in Bounds
         /\ Tighter(d, s) = NoBound <=> d = NoBound /\ s = NoBound
         /\ \A x \in Int : (Tighter(d, s) # NoBound => x <= Tighter(d, s))
              <=> (d # NoBound => x <= d) /\ (s # NoBound => x <= s)
         /\ \A x \in Int : (Tighter(d, s) # NoBound => x < Tighter(d, s))
              <=> (d # NoBound => x < d) /\ (s # NoBound => x < s)
BY NumbersAssumption, NoBoundAssumption DEF Bounds, Tighter

(* Merging the limits of a branch: nothing that either side rejects is     *)
(* accepted, and without flags nothing else is rejected.                   *)
LEMMA MergeLimitKeeps ==
  ASSUME NEW d \in Limits, OneDialect(d), NEW s \in Limits, OneDialect(s)
  PROVE  /\ MergeLimit(d, s) \in Limits
         /\ OneDialect(MergeLimit(d, s))
         /\ Numeric(d) /\ Numeric(s) =>
              /\ Numeric(MergeLimit(d, s))
              /\ \A x \in Int : Under(x, MergeLimit(d, s)) <=> Under(x, d) /\ Under(x, s)
         /\ Boolean(d) /\ Boolean(s) =>
              /\ Boolean(MergeLimit(d, s))
              /\ \A x \in Int : Under(x, MergeLimit(d, s)) => Under(x, d) /\ Under(x, s)
<1> DEFINE t == Tighter(d.incl, s.incl)
           e == [d EXCEPT !.incl = t]
           m == MergeLimit(d, s)
<1>a. d.incl \in Bounds /\ d.excl \in Bounds /\ s.incl \in Bounds /\ s.excl \in Bounds
  BY DEF Limits
<1>b. t \in Bounds
  BY <1>a, TighterIsBoth
<1>c. \A b \in Bounds : b # NoBound => b \in Int
  BY NumbersAssumption DEF Bounds
<1>1. /\ d.incl \in Bounds /\ (d.incl # NoBound => d.incl \in Int)
      /\ d.excl \in Bounds /\ (d.excl # NoBound => d.excl \in Int)
      /\ s.incl \in Bounds /\ (s.incl # NoBound => s.incl \in Int)
      /\ s.excl \in Bounds /\ (s.excl # NoBound => s.excl \in Int)
      /\ t \in Bounds /\ (t # NoBound => t \in Int)
  BY <1>a, <1>b, <1>c
<1>2. e \in Limits /\ e.incl = t /\ e.excl = d.excl /\ e.strict = d.strict
  BY <1>1 DEF Limits
<1>3. m = MergeExclusive(e, s)
  BY DEF MergeLimit
<1>4. t = NoBound <=> d.incl = NoBound /\ s.incl = NoBound
  BY <1>a, TighterIsBoth
<1>5. \A x \in Int :
        /\ (t # NoBound => x <= t)
             <=> (d.incl # NoBound => x <= d.incl) /\ (s.incl # NoBound => x <= s.incl)
        /\ (t # NoBound => x < t)
             <=> (d.incl # NoBound => x < d.incl) /\ (s.incl # NoBound => x < s.incl)
  BY <1>a, TighterIsBoth
<1> HIDE DEF t, m
<1>6. CASE s.excl = NoBound /\ ~s.strict
  <2>1. m = e
    BY <1>3, <1>6 DEF MergeExclusive
  <2>2. \A x \in Int : Under(x, m) => Under(x, d) /\ Under(x, s)
    BY <1>1, <1>2, <1>4, <1>5, <1>6, <2>1 DEF Under
  <2>3. ASSUME ~d.strict  PROVE \A x \in Int : Under(x, d) /\ Under(x, s) => Under(x, m)
    BY <1>1, <1>2, <1>4, <1>5, <1>6, <2>1, <2>3 DEF Under
  <2> QED BY <1>2, <2>1, <2>2, <2>3 DEF m, OneDialect, Numeric, Boolean
<1>7. CASE s.excl = NoBound /\ s.strict
  <2>1. m = MergeFlag(e)
    BY <1>3, <1>7 DEF MergeExclusive
  <2>2. ~Numeric(s)
    BY <1>7 DEF Numeric
  <2>3. CASE d.excl # NoBound
    <3>1. m = e /\ ~Boolean(d)
      BY <1>2, <2>1, <2>3 DEF MergeFlag, Boolean
    <3> QED BY <1>2, <2>2, <3>1 DEF m, OneDialect
  <2>4. CASE d.excl = NoBound /\ t = NoBound
    <3>1. m = [incl |-> NoBound, excl |-> NoBound, strict |-> FALSE]
      BY <1>2, <2>1, <2>4, Zenon DEF MergeFlag, Limits
    <3>2. m \in Limits /\ OneDialect(m) /\ Boolean(m)
      BY <3>1 DEF Limits, Bounds, OneDialect, Boolean
    <3>3. \A x \in Int : Under(x, d) /\ Under(x, s)
      BY <1>4, <1>7, <2>4, Zenon DEF Under
    <3> QED BY <2>2, <3>2, <3>3 DEF m
  <2>5. CASE d.excl = NoBound /\ t # NoBound
    <3>1. m = [incl |-> t, excl |-> NoBound, strict |-> TRUE]
      BY <1>2, <2>1, <2>5, Zenon DEF MergeFlag, Limits
    <3>2. m \in Limits /\ OneDialect(m) /\ Boolean(m)
      BY <1>1, <3>1 DEF Limits, Bounds, OneDialect, Boolean
    <3>3. ASSUME NEW x \in Int, Under(x, m)  PROVE Under(x, d) /\ Under(x, s)
      <4>1. x <= t /\ x # t
        BY <2>5, <3>1, <3>3 DEF Under
      <4>2. x < t
        BY <1>1, <2>5, <4>1
      <4>3. (d.incl # NoBound => x < d.incl) /\ (s.incl # NoBound => x < s.incl)
        BY <1>5, <2>5, <4>2
      <4>4. Under(x, d)
        BY <1>1, <2>5, <4>3 DEF Under
      <4>5. Under(x, s)
        BY <1>1, <1>7, <4>3 DEF Under
      <4> QED BY <4>4, <4>5
    <3> QED BY <2>2, <3>2, <3>3 DEF m
  <2> QED BY <2>3, <2>4, <2>5
<1>8. CASE s.excl # NoBound
  <2>1. m = MergeExclusiveBound(e, s.excl) /\ ~s.strict /\ ~Boolean(s)
    BY <1>3, <1>8 DEF MergeExclusive, OneDialect, Boolean
  <2>2. CASE d.excl # NoBound
    <3> DEFINE u == Tighter(d.excl, s.excl)
    <3>1. m = [incl |-> t, excl |-> u, strict |-> d.strict] /\ ~d.strict
      BY <1>2, <2>1, <2>2 DEF MergeExclusiveBound, Limits, OneDialect
    <3>2. u \in Bounds /\ u # NoBound
      BY <1>1, <2>2, TighterIsBoth
    <3>3. \A x \in Int : x < u <=> x < d.excl /\ x < s.excl
      BY <1>1, <1>8, <2>2, <3>2, TighterIsBoth
    <3> HIDE DEF u
    <3>4. \A x \in Int : Under(x, m) <=> Under(x, d) /\ Under(x, s)
      BY <1>1, <1>5, <1>8, <2>1, <2>2, <3>1, <3>2, <3>3 DEF Under
    <3>5. m \in Limits /\ OneDialect(m) /\ Numeric(m)
      BY <1>1, <3>1, <3>2 DEF Limits, OneDialect, Numeric
    <3> QED BY <2>1, <3>4, <3>5 DEF m
  <2>3. CASE d.excl = NoBound /\ t # NoBound /\ t < s.excl
    <3>1. m = e
      BY <1>2, <2>1, <2>3 DEF MergeExclusiveBound
    <3>2. ASSUME ~d.strict  PROVE \A x \in Int : Under(x, m) <=> Under(x, d) /\ Under(x, s)
      <4> SUFFICES ASSUME NEW x \in Int
                   PROVE  Under(x, m) <=> Under(x, d) /\ Under(x, s)
        OBVIOUS
      <4>1. Under(x, m) <=> x <= t
        BY <1>2, <2>3, <3>1, <3>2 DEF Under
      <4>2. Under(x, d) <=> (d.incl # NoBound => x <= d.incl)
        BY <2>3, <3>2 DEF Under
      <4>3. Under(x, s) <=> x < s.excl /\ (s.incl # NoBound => x <= s.incl)
        BY <1>8, <2>1 DEF Under
      <4>4. x <= t => x < s.excl
        BY <1>1, <1>8, <2>3
      <4> QED BY <1>5, <2>3, <4>1, <4>2, <4>3, <4>4
    <3> QED BY <1>2, <2>1, <2>3, <3>1, <3>2 DEF m, OneDialect, Numeric
  <2>4. CASE d.excl = NoBound /\ ~(t # NoBound /\ t < s.excl)
    <3>1. m = [incl |-> NoBound, excl |-> s.excl, strict |-> FALSE]
      BY <1>2, <2>1, <2>4 DEF MergeExclusiveBound
    <3>2. m \in Limits /\ OneDialect(m) /\ Numeric(m)
      BY <1>1, <3>1 DEF Limits, Bounds, OneDialect, Numeric
    <3>3. ASSUME ~d.strict  PROVE \A x \in Int : Under(x, m) <=> Under(x, d) /\ Under(x, s)
      BY <1>1, <1>5, <1>8, <2>1, <2>4, <3>1, <3>3 DEF Under
    <3> QED BY <2>1, <3>2, <3>3 DEF m, Numeric
  <2> QED BY <2>2, <2>3, <2>4
<1> QED BY <1>6, <1>7, <1>8

(* A merged property map is a property map. *)
LEMMA MergePropsType ==
  ASSUME NEW D1 \in SUBSET Names, NEW D2 \in SUBSET Names,
         NEW d \in [D1 -> Subs], NEW s \in [D2 -> Subs]
  PROVE  \E D \in SUBSET Names : MergeProps(d, s) \in [D -> Subs]
<1>1. CASE DOMAIN d = {}
  BY <1>1 DEF MergeProps
<1>2. CASE DOMAIN d # {}
  <2>1. MergeProps(d, s) \in [D1 \cup D2 -> Subs]
    BY <1>2 DEF MergeProps
  <2> QED BY <2>1
<1> QED BY <1>1, <1>2

(* So is a merged map of any names.                                        *)
LEMMA MergeMaps ==
  ASSUME NEW d \in SchemaMaps, NEW s \in SchemaMaps
  PROVE  MergeProps(d, s) \in SchemaMaps
<1>1. PICK D1 \in SUBSET Names : d \in [D1 -> Subs]
  BY DEF SchemaMaps
<1>2. PICK D2 \in SUBSET Names : s \in [D2 -> Subs]
  BY DEF SchemaMaps
<1>3. QED
  BY <1>1, <1>2, MergePropsType DEF SchemaMaps

(* Of two dynamic values one remains.                                      *)
LEMMA MergeDynamicIsOne ==
  ASSUME NEW d, NEW s
  PROVE  MergeDynamic(d, s) \in {d, s}
BY DEF MergeDynamic

(* The types of a schema are types. *)
LEMMA TypesAreTypes ==
  ASSUME NEW s \in Schemas
  PROVE  TypesOf(s) \in SUBSET Types
BY TypesAssumption DEF TypesOf, Schemas

(* One turn of the loop of validateAllOfSchema. *)
LEMMA MergeType ==
  ASSUME NEW d \in Schemas, WellFormed(d), NEW s \in Schemas, WellFormed(s)
  PROVE  Merge(d, s) \in Schemas /\ WellFormed(Merge(d, s))
<1>1. /\ Intersected(d.types, TypesOf(s)) \in SUBSET Types
      /\ d.enum \cup s.enum \in SUBSET Literals
      /\ d.required \cup s.required \in SUBSET Names
  BY TypesAreTypes DEF Schemas, Intersected
<1>2. /\ MergeLimit(d.upper, Evaluate(s.upper)) \in Limits
      /\ OneDialect(MergeLimit(d.upper, Evaluate(s.upper)))
      /\ MergeLimit(d.lower, Evaluate(s.lower)) \in Limits
      /\ OneDialect(MergeLimit(d.lower, Evaluate(s.lower)))
  <2>1. d.upper \in Limits /\ d.lower \in Limits /\ s.upper \in Limits /\ s.lower \in Limits
    BY DEF Schemas
  <2> QED BY <2>1, EvaluateKeeps, MergeLimitKeeps DEF WellFormed
<1>3. /\ Tighter(d.maxItems, s.maxItems) \in Bounds
      /\ Tighter(d.minItems, s.minItems) \in Bounds
  BY DEF Schemas, Tighter
<1>4. MergeProps(d.props, s.props) \in SchemaMaps /\ MergeProps(d.patterns, s.patterns) \in SchemaMaps
  BY MergeMaps DEF Schemas
<1>5. /\ MergeDynamic(d.items, s.items) \in DynamicValues
      /\ MergeDynamic(d.additional, s.additional) \in DynamicValues
  <2>1. {d.items, s.items, d.additional, s.additional} \subseteq DynamicValues
    BY DEF Schemas
  <2>2. QED
    BY <2>1, MergeDynamicIsOne
<1> QED BY <1>1, <1>2, <1>3, <1>4, <1>5 DEF Merge, Schemas, WellFormed

-----------------------------------------------------------------------------
(* The variables keep their types, and flags never stand beside a number.   *)

LEMMA TypeStep == TypeOK /\ [Next]_vars => TypeOK'
<1> SUFFICES ASSUME TypeOK, [Next]_vars PROVE TypeOK'
  OBVIOUS
<1>1. /\ def \in Definitions /\ Len(def.allOf) \in Nat
      /\ \A i \in 1..Len(def.allOf) : def.allOf[i] \in Schemas /\ WellFormed(def.allOf[i])
  BY DefinitionsAssumption DEF TypeOK
<1>2. \A t \in SUBSET Types :
        LET s == [schema EXCEPT !.types = t, !.upper = Evaluate(@), !.lower = Evaluate(@)]
        IN  s \in Schemas /\ WellFormed(s)
  <2>1. schema.upper \in Limits /\ schema.lower \in Limits
    BY DEF TypeOK, Schemas
  <2>2. /\ Evaluate(schema.upper) \in Limits /\ OneDialect(Evaluate(schema.upper))
        /\ Evaluate(schema.lower) \in Limits /\ OneDialect(Evaluate(schema.lower))
    BY <2>1, EvaluateKeeps DEF TypeOK, WellFormed
  <2> QED BY <2>2 DEF TypeOK, Schemas, WellFormed
<1>3. CASE Load
  <2>1. AllTypes \in SUBSET Types
    <3>1. \A i \in 0..Len(def.allOf) : Part(i) \in Schemas
      BY <1>1, DefinitionsAssumption DEF Part
    <3>2. \A i \in 0..Len(def.allOf) : TypesOf(Part(i)) \in SUBSET Types
      BY <3>1, TypesAreTypes
    <3>3. QED
      BY <3>2, TypesAssumption DEF AllTypes
  <2> QED BY <1>2, <1>3, <2>1, <1>1 DEF Load, TypeOK
<1>4. CASE MergeBranch
  <2>1. merged + 1 \in 1..Len(def.allOf)
    BY <1>1, <1>4 DEF MergeBranch, TypeOK
  <2>2. schema' \in Schemas /\ WellFormed(schema')
    BY <1>1, <1>4, <2>1, MergeType DEF MergeBranch, TypeOK
  <2> QED BY <1>1, <1>4, <2>1, <2>2 DEF MergeBranch, TypeOK
<1>5. CASE TypeMismatch \/ ClearAllOf
  BY <1>5 DEF TypeMismatch, ClearAllOf, TypeOK
<1>6. CASE Revalidate
  <2>1. schema' = [schema EXCEPT !.types = TypesOf(schema),
                                 !.upper = Evaluate(@), !.lower = Evaluate(@)]
    BY <1>6 DEF Revalidate
  <2>2. TypesOf(schema) \in SUBSET Types
    BY TypesAreTypes DEF TypeOK
  <2> QED BY <1>2, <1>6, <2>1, <2>2 DEF Revalidate, TypeOK
<1>7. CASE UNCHANGED vars
  BY <1>7 DEF vars, TypeOK
<1> QED BY <1>3, <1>4, <1>5, <1>6, <1>7 DEF Next

LEMMA TypeInit == Init => TypeOK
<1> SUFFICES ASSUME Init PROVE TypeOK
  OBVIOUS
<1>1. def \in Definitions /\ Len(def.allOf) \in Nat
  BY DefinitionsAssumption DEF Init
<1> QED BY <1>1, DefinitionsAssumption DEF Init, TypeOK

(* Every merged schema is a schema, for any document. *)
THEOREM TypeCorrect == Spec => []TypeOK
BY TypeInit, TypeStep, PTL DEF Spec

-----------------------------------------------------------------------------
(* Numbers.  The invariants count the merged branches by their index.      *)

NumericInv ==
  Loaded /\ NumericDialect =>
    /\ Numeric(schema.upper) /\ Numeric(schema.lower)
    /\ \A x \in Int :
         AcceptsNumber(schema, x) <=>
           /\ AcceptsNumber(def.own, x)
           /\ \A i \in 1..merged : AcceptsNumber(def.allOf[i], x)

BooleanInv ==
  Loaded /\ BooleanDialect =>
    /\ Boolean(schema.upper) /\ Boolean(schema.lower)
    /\ \A x \in Int :
         AcceptsNumber(schema, x) =>
           /\ AcceptsNumber(def.own, x)
           /\ \A i \in 1..merged : AcceptsNumber(def.allOf[i], x)

FreshInv == pc = "load" => merged = 0 /\ schema = def.own

(* What evaluating a schema does to the numbers that it accepts. *)
LEMMA EvaluateNumbers ==
  ASSUME NEW s \in Schemas, WellFormed(s), NEW e,
         e.upper = Evaluate(s.upper), e.lower = Evaluate(s.lower)
  PROVE  /\ \A x \in Int : AcceptsNumber(e, x) <=> AcceptsNumber(s, x)
         /\ Numeric(s.upper) => Numeric(e.upper)
         /\ Numeric(s.lower) => Numeric(e.lower)
         /\ Boolean(s.upper) => Boolean(e.upper)
         /\ Boolean(s.lower) => Boolean(e.lower)
<1>1. s.upper \in Limits /\ s.lower \in Limits /\ OneDialect(s.upper) /\ OneDialect(s.lower)
  BY DEF Schemas, WellFormed
<1>2. \A x \in Int : -x \in Int
  OBVIOUS
<1> QED BY <1>1, <1>2, EvaluateKeeps DEF AcceptsNumber

(* What merging a branch does to them. *)
LEMMA MergeNumbers ==
  ASSUME NEW d \in Schemas, WellFormed(d), NEW s \in Schemas, WellFormed(s)
  PROVE  LET m == Merge(d, s) IN
         /\ Numeric(d.upper) /\ Numeric(d.lower) /\ Numeric(s.upper) /\ Numeric(s.lower) =>
              /\ Numeric(m.upper) /\ Numeric(m.lower)
              /\ \A x \in Int : AcceptsNumber(m, x) <=> AcceptsNumber(d, x) /\ AcceptsNumber(s, x)
         /\ Boolean(d.upper) /\ Boolean(d.lower) /\ Boolean(s.upper) /\ Boolean(s.lower) =>
              /\ Boolean(m.upper) /\ Boolean(m.lower)
              /\ \A x \in Int : AcceptsNumber(m, x) => AcceptsNumber(d, x) /\ AcceptsNumber(s, x)
<1> DEFINE m == Merge(d, s)
           U == Evaluate(s.upper)
           L == Evaluate(s.lower)
<1>1. /\ d.upper \in Limits /\ d.lower \in Limits /\ OneDialect(d.upper) /\ OneDialect(d.lower)
      /\ s.upper \in Limits /\ s.lower \in Limits /\ OneDialect(s.upper) /\ OneDialect(s.lower)
  BY DEF Schemas, WellFormed
<1>2. /\ U \in Limits /\ OneDialect(U) /\ L \in Limits /\ OneDialect(L)
      /\ (Numeric(s.upper) => Numeric(U)) /\ (Numeric(s.lower) => Numeric(L))
      /\ (Boolean(s.upper) => Boolean(U)) /\ (Boolean(s.lower) => Boolean(L))
      /\ \A x \in Int : Under(x, U) <=> Under(x, s.upper)
      /\ \A x \in Int : Under(x, L) <=> Under(x, s.lower)
  BY <1>1, EvaluateKeeps
<1>3. m.upper = MergeLimit(d.upper, U) /\ m.lower = MergeLimit(d.lower, L)
  BY DEF Merge
<1> HIDE DEF m, U, L
<1>4. /\ Numeric(d.upper) /\ Numeric(U) =>
           /\ Numeric(m.upper)
           /\ \A x \in Int : Under(x, m.upper) <=> Under(x, d.upper) /\ Under(x, U)
      /\ Boolean(d.upper) /\ Boolean(U) =>
           /\ Boolean(m.upper)
           /\ \A x \in Int : Under(x, m.upper) => Under(x, d.upper) /\ Under(x, U)
  BY <1>1, <1>2, <1>3, MergeLimitKeeps
<1>5. /\ Numeric(d.lower) /\ Numeric(L) =>
           /\ Numeric(m.lower)
           /\ \A x \in Int : Under(x, m.lower) <=> Under(x, d.lower) /\ Under(x, L)
      /\ Boolean(d.lower) /\ Boolean(L) =>
           /\ Boolean(m.lower)
           /\ \A x \in Int : Under(x, m.lower) => Under(x, d.lower) /\ Under(x, L)
  BY <1>1, <1>2, <1>3, MergeLimitKeeps
<1>6. \A x \in Int : -x \in Int
  OBVIOUS
<1>7. ASSUME Numeric(d.upper), Numeric(d.lower), Numeric(s.upper), Numeric(s.lower)
      PROVE  /\ Numeric(m.upper) /\ Numeric(m.lower)
             /\ \A x \in Int : AcceptsNumber(m, x) <=> AcceptsNumber(d, x) /\ AcceptsNumber(s, x)
  BY <1>2, <1>4, <1>5, <1>6, <1>7 DEF AcceptsNumber
<1>8. ASSUME Boolean(d.upper), Boolean(d.lower), Boolean(s.upper), Boolean(s.lower)
      PROVE  /\ Boolean(m.upper) /\ Boolean(m.lower)
             /\ \A x \in Int : AcceptsNumber(m, x) => AcceptsNumber(d, x) /\ AcceptsNumber(s, x)
  BY <1>2, <1>4, <1>5, <1>6, <1>8 DEF AcceptsNumber
<1> QED BY <1>7, <1>8 DEF m

LEMMA NumbersInit == Init => FreshInv /\ NumericInv /\ BooleanInv
BY DEF Init, FreshInv, NumericInv, BooleanInv, Loaded

LEMMA NumbersStep ==
  TypeOK /\ FreshInv /\ NumericInv /\ BooleanInv /\ [Next]_vars
    => FreshInv' /\ NumericInv' /\ BooleanInv'
<1> SUFFICES ASSUME TypeOK, FreshInv, NumericInv, BooleanInv, [Next]_vars
             PROVE  FreshInv' /\ NumericInv' /\ BooleanInv'
  OBVIOUS
<1>1. def' = def /\ (NumericDialect' <=> NumericDialect) /\ (BooleanDialect' <=> BooleanDialect)
  BY DEF Next, vars, Load, MergeBranch, TypeMismatch, ClearAllOf, Revalidate,
         NumericDialect, BooleanDialect
<1>2. /\ schema \in Schemas /\ WellFormed(schema) /\ merged \in Nat
      /\ Len(def.allOf) \in Nat
      /\ \A i \in 1..Len(def.allOf) : def.allOf[i] \in Schemas /\ WellFormed(def.allOf[i])
  BY DefinitionsAssumption DEF TypeOK
<1>3. CASE Load
  <2>1. schema = def.own /\ merged = 0 /\ merged' = 0 /\ pc' = "merge"
    BY <1>3 DEF Load, FreshInv
  <2>2. schema'.upper = Evaluate(schema.upper) /\ schema'.lower = Evaluate(schema.lower)
    BY <1>2, <1>3 DEF Load, Schemas
  <2>3. /\ \A x \in Int : AcceptsNumber(schema', x) <=> AcceptsNumber(def.own, x)
        /\ Numeric(def.own.upper) => Numeric(schema'.upper)
        /\ Numeric(def.own.lower) => Numeric(schema'.lower)
        /\ Boolean(def.own.upper) => Boolean(schema'.upper)
        /\ Boolean(def.own.lower) => Boolean(schema'.lower)
    BY <1>2, <2>1, <2>2, EvaluateNumbers
  <2>4. 1..merged' = {}
    BY <2>1
  <2>5. NumericInv'
    BY <1>1, <2>3, <2>4 DEF NumericInv, NumericDialect
  <2>6. BooleanInv'
    BY <1>1, <2>3, <2>4 DEF BooleanInv, BooleanDialect
  <2> QED BY <2>1, <2>5, <2>6 DEF FreshInv
<1>4. CASE MergeBranch
  <2> DEFINE b == def.allOf[merged + 1]
  <2>1. /\ merged' = merged + 1 /\ pc = "merge" /\ pc' = "merge" /\ schema' = Merge(schema, b)
        /\ merged + 1 \in 1..Len(def.allOf)
    BY <1>2, <1>4 DEF MergeBranch
  <2>2. 1..merged' = (1..merged) \cup {merged + 1}
    BY <1>2, <2>1
  <2>3. b \in Schemas /\ WellFormed(b)
    BY <1>2, <2>1
  <2>4. ASSUME NumericDialect
        PROVE  /\ Numeric(schema'.upper) /\ Numeric(schema'.lower)
               /\ \A x \in Int : AcceptsNumber(schema', x)
                    <=> AcceptsNumber(schema, x) /\ AcceptsNumber(b, x)
    <3>1. Numeric(b.upper) /\ Numeric(b.lower)
      BY <2>1, <2>4 DEF NumericDialect
    <3>2. Numeric(schema.upper) /\ Numeric(schema.lower)
      BY <2>1, <2>4 DEF NumericInv, Loaded
    <3> QED BY <1>2, <2>1, <2>3, <3>1, <3>2, MergeNumbers
  <2>5. ASSUME BooleanDialect
        PROVE  /\ Boolean(schema'.upper) /\ Boolean(schema'.lower)
               /\ \A x \in Int : AcceptsNumber(schema', x)
                    => AcceptsNumber(schema, x) /\ AcceptsNumber(b, x)
    <3>1. Boolean(b.upper) /\ Boolean(b.lower)
      BY <2>1, <2>5 DEF BooleanDialect
    <3>2. Boolean(schema.upper) /\ Boolean(schema.lower)
      BY <2>1, <2>5 DEF BooleanInv, Loaded
    <3> QED BY <1>2, <2>1, <2>3, <3>1, <3>2, MergeNumbers
  <2>6. NumericInv'
    BY <1>1, <2>1, <2>2, <2>4 DEF NumericInv, Loaded
  <2>7. BooleanInv'
    BY <1>1, <2>1, <2>2, <2>5 DEF BooleanInv, Loaded
  <2> QED BY <2>1, <2>6, <2>7 DEF FreshInv
<1>5. CASE TypeMismatch \/ ClearAllOf
  <2>1. UNCHANGED <<def, merged, schema>> /\ (Loaded' => Loaded) /\ pc' # "load"
    BY <1>5 DEF TypeMismatch, ClearAllOf, Loaded
  <2> QED BY <1>1, <2>1 DEF FreshInv, NumericInv, BooleanInv
<1>6. CASE Revalidate
  <2>1. /\ schema'.upper = Evaluate(schema.upper) /\ schema'.lower = Evaluate(schema.lower)
        /\ merged' = merged /\ pc = "done" /\ pc' = "done"
    BY <1>2, <1>6 DEF Revalidate, Schemas
  <2>2. /\ \A x \in Int : AcceptsNumber(schema', x) <=> AcceptsNumber(schema, x)
        /\ Numeric(schema.upper) => Numeric(schema'.upper)
        /\ Numeric(schema.lower) => Numeric(schema'.lower)
        /\ Boolean(schema.upper) => Boolean(schema'.upper)
        /\ Boolean(schema.lower) => Boolean(schema'.lower)
    BY <1>2, <2>1, EvaluateNumbers
  <2> QED BY <1>1, <2>1, <2>2 DEF FreshInv, NumericInv, BooleanInv, Loaded
<1>7. CASE UNCHANGED vars
  <2>1. UNCHANGED <<def, pc, merged, schema>>
    BY <1>7 DEF vars
  <2> QED BY <1>1, <2>1 DEF FreshInv, NumericInv, BooleanInv, Loaded
<1> QED BY <1>3, <1>4, <1>5, <1>6, <1>7 DEF Next

LEMMA NumbersInvariance == Spec => [](FreshInv /\ NumericInv /\ BooleanInv)
<1>1. Init => FreshInv /\ NumericInv /\ BooleanInv
  BY NumbersInit
<1> QED BY <1>1, NumbersStep, TypeCorrect, PTL DEF Spec

(* The parts, by their index. *)
LEMMA PartsNumbers ==
  ASSUME NEW x
  PROVE  (\A s \in Parts : AcceptsNumber(s, x))
           <=> /\ AcceptsNumber(def.own, x)
               /\ \A i \in 1..merged : AcceptsNumber(def.allOf[i], x)
BY Zenon DEF Parts

(* Bounds that are numbers are merged exactly, however many branches there *)
(* are: the merged schema accepts what all of its parts accept.            *)
THEOREM ExactNumbers == Spec => []NumbersAreExact
<1>1. NumericInv => NumbersAreExact
  BY PartsNumbers, NumbersAssumption DEF NumericInv, NumbersAreExact
<1> QED BY <1>1, NumbersInvariance, PTL

(* Bounds with flags are never loosened by a merge.                        *)
THEOREM NeverLooser == Spec => []NumbersNeverLooser
<1>1. BooleanInv => NumbersNeverLooser
  BY PartsNumbers, NumbersAssumption DEF BooleanInv, NumbersNeverLooser
<1> QED BY <1>1, NumbersInvariance, PTL

-----------------------------------------------------------------------------
(* Lengths and required properties.                                        *)

LengthsInv ==
  Loaded =>
    /\ \A n \in Int :
         AcceptsLength(schema, n) <=>
           /\ AcceptsLength(def.own, n)
           /\ \A i \in 1..merged : AcceptsLength(def.allOf[i], n)
    /\ schema.required = def.own.required \cup UNION {def.allOf[i].required : i \in 1..merged}

LEMMA MergeLengths ==
  ASSUME NEW d \in Schemas, NEW s \in Schemas, NEW n \in Int
  PROVE  AcceptsLength(Merge(d, s), n) <=> AcceptsLength(d, n) /\ AcceptsLength(s, n)
<1>1. d.maxItems \in Bounds /\ d.minItems \in Bounds /\ s.maxItems \in Bounds /\ s.minItems \in Bounds
  BY DEF Schemas
<1>2. -n \in Int
  OBVIOUS
<1>3. (Tighter(d.maxItems, s.maxItems) # NoBound => n <= Tighter(d.maxItems, s.maxItems))
        <=> (d.maxItems # NoBound => n <= d.maxItems) /\ (s.maxItems # NoBound => n <= s.maxItems)
  BY <1>1, TighterIsBoth
<1>4. (Tighter(d.minItems, s.minItems) # NoBound => -n <= Tighter(d.minItems, s.minItems))
        <=> (d.minItems # NoBound => -n <= d.minItems) /\ (s.minItems # NoBound => -n <= s.minItems)
  BY <1>1, <1>2, TighterIsBoth
<1>5. /\ Merge(d, s).maxItems = Tighter(d.maxItems, s.maxItems)
      /\ Merge(d, s).minItems = Tighter(d.minItems, s.minItems)
  BY DEF Merge
<1> QED BY <1>3, <1>4, <1>5 DEF AcceptsLength

LEMMA LengthsStep ==
  TypeOK /\ FreshInv /\ LengthsInv /\ [Next]_vars => LengthsInv'
<1> SUFFICES ASSUME TypeOK, FreshInv, LengthsInv, [Next]_vars PROVE LengthsInv'
  OBVIOUS
<1>1. /\ schema \in Schemas /\ merged \in Nat /\ Len(def.allOf) \in Nat
      /\ \A i \in 1..Len(def.allOf) : def.allOf[i] \in Schemas
  BY DefinitionsAssumption DEF TypeOK
<1>2. CASE Load
  <2>1. /\ schema = def.own /\ merged' = 0 /\ def' = def
        /\ schema'.maxItems = schema.maxItems /\ schema'.minItems = schema.minItems
        /\ schema'.required = schema.required
    BY <1>1, <1>2 DEF Load, FreshInv, Schemas
  <2>2. 1..merged' = {}
    BY <2>1
  <2> QED BY <2>1, <2>2 DEF LengthsInv, AcceptsLength
<1>3. CASE MergeBranch
  <2> DEFINE b == def.allOf[merged + 1]
  <2>1. /\ merged' = merged + 1 /\ pc = "merge" /\ schema' = Merge(schema, b) /\ def' = def
        /\ merged + 1 \in 1..Len(def.allOf)
    BY <1>1, <1>3 DEF MergeBranch
  <2>2. 1..merged' = (1..merged) \cup {merged + 1}
    BY <1>1, <2>1
  <2>3. b \in Schemas
    BY <1>1, <2>1
  <2>4. \A n \in Int : AcceptsLength(schema', n) <=> AcceptsLength(schema, n) /\ AcceptsLength(b, n)
    BY <1>1, <2>1, <2>3, MergeLengths
  <2>5. schema'.required = schema.required \cup b.required
    BY <2>1 DEF Merge
  <2>6. UNION {def.allOf[i].required : i \in 1..merged'}
          = (UNION {def.allOf[i].required : i \in 1..merged}) \cup b.required
    BY <2>2
  <2>7. Loaded
    BY <2>1 DEF Loaded
  <2> QED BY <2>1, <2>2, <2>4, <2>5, <2>6, <2>7 DEF LengthsInv
<1>4. CASE TypeMismatch \/ ClearAllOf \/ UNCHANGED vars
  <2>1. UNCHANGED <<def, merged, schema>> /\ (Loaded' => Loaded)
    BY <1>4 DEF TypeMismatch, ClearAllOf, vars, Loaded
  <2> QED BY <2>1 DEF LengthsInv
<1>5. CASE Revalidate
  <2>1. /\ Loaded /\ merged' = merged /\ def' = def
        /\ schema'.maxItems = schema.maxItems /\ schema'.minItems = schema.minItems
        /\ schema'.required = schema.required
    BY <1>1, <1>5 DEF Revalidate, Loaded, Schemas
  <2> QED BY <2>1 DEF LengthsInv, AcceptsLength
<1> QED BY <1>2, <1>3, <1>4, <1>5 DEF Next

(* Lengths and required properties are merged exactly.                     *)
THEOREM ExactLengths == Spec => []LengthsAndRequiredAreExact
<1>1. Init => LengthsInv
  BY DEF Init, LengthsInv, Loaded
<1>2. LengthsInv => LengthsAndRequiredAreExact
  <2>1. \A n : (\A s \in Parts : AcceptsLength(s, n))
                <=> /\ AcceptsLength(def.own, n)
                    /\ \A i \in 1..merged : AcceptsLength(def.allOf[i], n)
    BY Zenon DEF Parts
  <2>2. UNION {s.required : s \in Parts}
          = def.own.required \cup UNION {def.allOf[i].required : i \in 1..merged}
    BY DEF Parts
  <2> QED BY <2>1, <2>2, NumbersAssumption DEF LengthsInv, LengthsAndRequiredAreExact
<1> QED BY <1>1, <1>2, LengthsStep, TypeCorrect, NumbersInvariance, PTL DEF Spec

-----------------------------------------------------------------------------
(* Types.  What survives of all types after some branches; the schema has   *)
(* nothing that a type could be inferred from if none of its parts has.     *)
Surviving(n) == {t \in AllTypes : \A i \in 1..n : AcceptsType(def.allOf[i], t)}

TypesInv ==
  /\ Loaded =>
       /\ schema.types = Surviving(merged)
       /\ schema.types = {} => AllTypes = {}
       /\ AllTypes = {} => ~IsKeyed(schema) /\ ~HasItems(schema)
  /\ pc = "done" => merged = Len(def.allOf)
  /\ pc = "failed" =>
       ~\E t \in Types : \A i \in 1..Len(def.allOf) : AcceptsType(def.allOf[i], t)

(* The types of every part are among all types, and a part without types    *)
(* has no keywords that they could be inferred from.                        *)
LEMMA PartTypes ==
  ASSUME TypeOK
  PROVE  /\ \A i \in 0..Len(def.allOf) : TypesOf(Part(i)) \subseteq AllTypes
         /\ AllTypes = {} =>
              \A i \in 0..Len(def.allOf) : ~IsKeyed(Part(i)) /\ ~HasItems(Part(i)) /\ TypesOf(Part(i)) = {}
<1>1. \A i \in 0..Len(def.allOf) : TypesOf(Part(i)) \subseteq AllTypes
  BY DEF AllTypes
<1>2. \A s : TypesOf(s) = {} => ~IsKeyed(s) /\ ~HasItems(s)
  BY DEF TypesOf
<1>3. ASSUME AllTypes = {}, NEW i \in 0..Len(def.allOf)
      PROVE  ~IsKeyed(Part(i)) /\ ~HasItems(Part(i)) /\ TypesOf(Part(i)) = {}
  BY <1>1, <1>2, <1>3
<1>4. QED
  BY <1>1, <1>3

(* Merging adds no keywords to a schema that neither side has.              *)
LEMMA MergeAddsNoKeys ==
  ASSUME NEW d \in Schemas, NEW s \in Schemas, ~IsKeyed(d), ~HasItems(d), ~IsKeyed(s), ~HasItems(s)
  PROVE  ~IsKeyed(Merge(d, s)) /\ ~HasItems(Merge(d, s))
<1>1. /\ Merge(d, s).props = MergeProps(d.props, s.props)
      /\ Merge(d, s).patterns = MergeProps(d.patterns, s.patterns)
      /\ Merge(d, s).items = MergeDynamic(d.items, s.items)
  BY DEF Merge
<1>2. ~IsKeyed(Merge(d, s))
  BY <1>1 DEF IsKeyed, MergeProps
<1>3. ~HasItems(Merge(d, s))
  BY <1>1, MergeDynamicIsOne DEF HasItems
<1>4. QED
  BY <1>2, <1>3

LEMMA TypesStep == TypeOK /\ FreshInv /\ TypesInv /\ [Next]_vars => TypesInv'
<1> SUFFICES ASSUME TypeOK, FreshInv, TypesInv, [Next]_vars
             PROVE  TypesInv'
  OBVIOUS
<1>1. /\ schema \in Schemas /\ merged \in Nat /\ Len(def.allOf) \in Nat
      /\ \A i \in 1..Len(def.allOf) : def.allOf[i] \in Schemas
  BY DefinitionsAssumption DEF TypeOK
<1>2. def' = def /\ AllTypes' = AllTypes
  BY DEF Next, vars, Load, MergeBranch, TypeMismatch, ClearAllOf, Revalidate, AllTypes, TakenForArray, Part
<1>3. CASE Load
  <2>1. /\ schema = def.own /\ merged' = 0 /\ pc' = "merge" /\ schema'.types = AllTypes
        /\ schema'.props = schema.props /\ schema'.patterns = schema.patterns
        /\ schema'.items = schema.items
    BY <1>1, <1>3 DEF Load, FreshInv, Schemas
  <2>2. 1..merged' = {}
    BY <2>1
  <2>3. Surviving(merged)' = AllTypes
    BY <1>2, <2>2 DEF Surviving
  <2>4. AllTypes = {} => ~IsKeyed(schema)' /\ ~HasItems(schema)'
    <3>1. 0 \in 0..Len(def.allOf) /\ Part(0) = schema
      BY <1>1, <2>1 DEF Part
    <3>2. AllTypes = {} => ~IsKeyed(schema) /\ ~HasItems(schema)
      BY <3>1, PartTypes
    <3>3. QED
      BY <2>1, <3>2 DEF IsKeyed, HasItems
  <2>5. QED
    BY <1>2, <2>1, <2>3, <2>4 DEF TypesInv
<1>4. CASE MergeBranch
  <2> DEFINE b == def.allOf[merged + 1]
  <2>1. /\ merged' = merged + 1 /\ pc = "merge" /\ pc' = "merge"
        /\ merged + 1 \in 1..Len(def.allOf)
        /\ Compatible(schema.types, TypesOf(b))
        /\ schema' = Merge(schema, b)
        /\ schema'.types = Intersected(schema.types, TypesOf(b))
    BY <1>1, <1>4 DEF MergeBranch, Merge
  <2>2. 1..merged' = (1..merged) \cup {merged + 1}
    BY <1>1, <2>1
  <2>3. Surviving(merged)' = {t \in Surviving(merged) : AcceptsType(b, t)}
    BY <1>2, <2>2 DEF Surviving
  <2>4. /\ schema.types = Surviving(merged) /\ (schema.types = {} => AllTypes = {})
        /\ AllTypes = {} => ~IsKeyed(schema) /\ ~HasItems(schema)
    BY <2>1 DEF TypesInv, Loaded
  <2>5. /\ TypesOf(b) \subseteq AllTypes
        /\ AllTypes = {} => ~IsKeyed(b) /\ ~HasItems(b)
    <3>1. merged + 1 \in 0..Len(def.allOf) /\ Part(merged + 1) = b
      BY <1>1, <2>1 DEF Part
    <3>2. QED
      BY <3>1, PartTypes
  <2>6. AllTypes = {} => ~IsKeyed(schema)' /\ ~HasItems(schema)'
    <3>1. b \in Schemas
      BY <1>1, <2>1
    <3>2. AllTypes = {} => ~IsKeyed(Merge(schema, b)) /\ ~HasItems(Merge(schema, b))
      BY <1>1, <2>4, <2>5, <3>1, MergeAddsNoKeys
    <3>3. QED
      BY <2>1, <3>2 DEF IsKeyed, HasItems
  <2>7. schema'.types = Surviving(merged)' /\ (schema'.types = {} => AllTypes = {})
    <3>1. CASE TypesOf(b) = {}
      <4>1. schema'.types = schema.types /\ Surviving(merged)' = Surviving(merged)
        BY <2>1, <2>3, <3>1 DEF Intersected, AcceptsType, Surviving
      <4>2. QED
        BY <2>4, <4>1
    <3>2. CASE TypesOf(b) # {}
      <4>1. schema.types # {} /\ schema.types \cap TypesOf(b) # {}
        BY <2>1, <2>4, <2>5, <3>2 DEF Compatible
      <4>2. schema'.types = schema.types \cap TypesOf(b)
        BY <2>1, <3>2, <4>1 DEF Intersected
      <4>3. Surviving(merged)' = Surviving(merged) \cap TypesOf(b)
        BY <2>3, <3>2 DEF AcceptsType, Surviving
      <4>4. QED
        BY <2>4, <4>1, <4>2, <4>3
    <3>3. QED
      BY <3>1, <3>2
  <2>8. QED
    BY <1>2, <2>1, <2>6, <2>7 DEF TypesInv
<1>5. CASE TypeMismatch
  <2> DEFINE b == def.allOf[merged + 1]
  <2>1. /\ pc = "merge" /\ pc' = "failed" /\ merged + 1 \in 1..Len(def.allOf)
        /\ schema.types # {} /\ TypesOf(b) # {} /\ schema.types \cap TypesOf(b) = {}
    BY <1>1, <1>5 DEF TypeMismatch, Compatible
  <2>2. schema.types = Surviving(merged)
    BY <2>1 DEF TypesInv, Loaded
  <2>3. TypesOf(b) \subseteq AllTypes
    <3>1. merged + 1 \in 0..Len(def.allOf) /\ Part(merged + 1) = b
      BY <1>1, <2>1 DEF Part
    <3>2. QED
      BY <3>1, PartTypes
  <2>4. ASSUME NEW t \in Types, \A i \in 1..Len(def.allOf) : AcceptsType(def.allOf[i], t)
        PROVE  FALSE
    <3>1. t \in TypesOf(b)
      BY <2>1, <2>4 DEF AcceptsType
    <3>2. t \in AllTypes
      BY <2>3, <3>1
    <3>3. \A i \in 1..merged : i \in 1..Len(def.allOf)
      BY <1>1, <2>1
    <3>4. t \in Surviving(merged)
      BY <2>4, <3>2, <3>3 DEF Surviving
    <3>5. QED
      BY <2>1, <2>2, <3>1, <3>4
  <2>5. QED
    BY <1>2, <2>1, <2>4 DEF TypesInv, Loaded
<1>6. CASE ClearAllOf
  <2>1. /\ pc = "merge" /\ pc' = "done" /\ merged = Len(def.allOf)
        /\ UNCHANGED <<def, merged, schema>>
    BY <1>6 DEF ClearAllOf
  <2>2. QED
    BY <1>2, <2>1 DEF TypesInv, Surviving, Loaded
<1>7. CASE Revalidate
  <2>1. /\ merged' = merged /\ pc = "done" /\ pc' = "done" /\ schema'.types = TypesOf(schema)
        /\ schema'.props = schema.props /\ schema'.patterns = schema.patterns
        /\ schema'.items = schema.items
    BY <1>1, <1>7 DEF Revalidate, Schemas
  <2>2. /\ schema.types = Surviving(merged) /\ (schema.types = {} => AllTypes = {})
        /\ AllTypes = {} => ~IsKeyed(schema) /\ ~HasItems(schema)
        /\ merged = Len(def.allOf)
    BY <2>1 DEF TypesInv, Loaded
  <2>3. TypesOf(schema) = schema.types
    BY <2>2 DEF TypesOf
  <2>4. Surviving(merged)' = Surviving(merged)
    BY <1>2, <2>1 DEF Surviving
  <2>5. (IsKeyed(schema)' <=> IsKeyed(schema)) /\ (HasItems(schema)' <=> HasItems(schema))
    BY <2>1 DEF IsKeyed, HasItems
  <2>6. QED
    BY <1>2, <2>1, <2>2, <2>3, <2>4, <2>5 DEF TypesInv
<1>8. CASE UNCHANGED vars
  BY <1>2, <1>8 DEF vars, TypesInv, Surviving, Loaded
<1>9. QED
  BY <1>3, <1>4, <1>5, <1>6, <1>7, <1>8 DEF Next

(* Of types, named or inferred, the merged schema accepts none that a       *)
(* branch rejects and every one that all parts accept; some type is left,   *)
(* and a document is rejected only if no type satisfies every branch.       *)
THEOREM ExactTypes == Spec => []TypesAreExact
<1>1. Init => TypesInv
  BY DEF Init, TypesInv, Loaded
<1>2. ASSUME TypeOK, TypesInv, pc = "done"
      PROVE  /\ \A t \in Types :
                  /\ AcceptsType(schema, t) => \A i \in 1..Len(def.allOf) : AcceptsType(def.allOf[i], t)
                  /\ (\A s \in Parts : AcceptsType(s, t)) => AcceptsType(schema, t)
             /\ \E t \in Types : AcceptsType(schema, t)
  <2>1. /\ schema.types = Surviving(Len(def.allOf)) /\ (schema.types = {} => AllTypes = {})
        /\ AllTypes = {} => ~IsKeyed(schema) /\ ~HasItems(schema)
        /\ merged = Len(def.allOf) /\ Len(def.allOf) \in Nat
    BY <1>2, DefinitionsAssumption DEF TypesInv, Loaded, TypeOK
  <2>2. TypesOf(schema) = schema.types
    BY <2>1 DEF TypesOf
  <2>3. CASE AllTypes = {}
    <3>1. schema.types = {}
      BY <2>1, <2>3 DEF Surviving
    <3>2. \A i \in 1..Len(def.allOf) : TypesOf(def.allOf[i]) = {}
      <4>1. ASSUME NEW i \in 1..Len(def.allOf) PROVE TypesOf(def.allOf[i]) = {}
        <5>1. i \in 0..Len(def.allOf) /\ Part(i) = def.allOf[i]
          BY <2>1 DEF Part
        <5>2. QED
          BY <1>2, <2>3, <5>1, PartTypes
      <4>2. QED
        BY <4>1
    <3>3. QED
      BY <2>2, <3>1, <3>2, TypesAssumption DEF AcceptsType
  <2>4. CASE AllTypes # {}
    <3>1. \A t : AcceptsType(schema, t) <=> t \in schema.types
      BY <2>1, <2>2, <2>4 DEF AcceptsType
    <3>2. \A t \in Types : AcceptsType(schema, t) => \A i \in 1..Len(def.allOf) : AcceptsType(def.allOf[i], t)
      BY <2>1, <3>1 DEF Surviving
    <3>3. ASSUME NEW t \in Types, \A s \in Parts : AcceptsType(s, t) PROVE AcceptsType(schema, t)
      <4>1. \A i \in 0..Len(def.allOf) : AcceptsType(Part(i), t)
        BY <2>1, <3>3 DEF Part, Parts
      <4>2. t \in AllTypes
        <5>1. ASSUME t \notin AllTypes PROVE FALSE
          <6>1. \A i \in 0..Len(def.allOf) : TypesOf(Part(i)) = {}
            BY <1>2, <4>1, <5>1, PartTypes DEF AcceptsType
          <6>2. \A i \in 1..Len(def.allOf) : ~TakenForArray(i)
            <7>1. ASSUME NEW i \in 1..Len(def.allOf), TakenForArray(i) PROVE FALSE
              <8>1. PICK j \in 0..(i - 1) : "object" \in TypesOf(Part(j))
                BY <7>1 DEF TakenForArray
              <8>2. j \in 0..Len(def.allOf)
                BY <2>1
              <8>3. QED
                BY <6>1, <8>1, <8>2
            <7>2. QED
              BY <7>1
          <6>3. QED
            BY <2>4, <6>1, <6>2 DEF AllTypes
        <5>2. QED
          BY <5>1
      <4>3. \A i \in 1..Len(def.allOf) : AcceptsType(def.allOf[i], t)
        BY <2>1, <3>3 DEF Parts
      <4>4. QED
        BY <2>1, <3>1, <4>2, <4>3 DEF Surviving
    <3>4. \E t \in Types : AcceptsType(schema, t)
      <4>1. schema.types # {} /\ schema.types \subseteq Types
        BY <1>2, <2>1, <2>4 DEF TypeOK, Schemas
      <4>2. QED
        BY <3>1, <4>1
    <3>5. QED
      BY <3>2, <3>3, <3>4
  <2>5. QED
    BY <2>3, <2>4
<1>3. TypeOK /\ TypesInv => TypesAreExact
  <2> SUFFICES ASSUME TypeOK, TypesInv PROVE TypesAreExact
    OBVIOUS
  <2> DEFINE Branches == {def.allOf[i] : i \in 1..Len(def.allOf)}
  <2>1. \A t : (\A s \in Branches : AcceptsType(s, t)) <=> \A i \in 1..Len(def.allOf) : AcceptsType(def.allOf[i], t)
    BY Zenon
  <2>2. pc = "failed" => ~\E t \in Types : \A s \in Branches : AcceptsType(s, t)
    BY <2>1 DEF TypesInv
  <2>3. pc = "done" =>
          /\ \A t \in Types :
               /\ AcceptsType(schema, t) => \A s \in Branches : AcceptsType(s, t)
               /\ (\A s \in Parts : AcceptsType(s, t)) => AcceptsType(schema, t)
          /\ \E t \in Types : AcceptsType(schema, t)
    BY <1>2, <2>1
  <2>4. QED
    BY <2>2, <2>3 DEF TypesAreExact
<1>4. QED
  BY <1>1, <1>3, TypesStep, TypeCorrect, NumbersInvariance, PTL DEF Spec
=============================================================================
