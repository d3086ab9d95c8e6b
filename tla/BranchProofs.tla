------------------------------ MODULE BranchProofs ------------------------------
(***************************************************************************)
(* Proofs of Branches, for every way to try a branch.  What it means that  *)
(* fields fit a branch is a parameter, as Try is, and so is what all fields *)
(* have.                                                                   *)
(***************************************************************************)
EXTENDS Branches, FiniteSets, WellFoundedInduction, TLAPS

CONSTANTS Fits(_, _), Has(_)

-----------------------------------------------------------------------------
LEMMA Smallest ==
  ASSUME NEW T \in SUBSET Nat, T # {}
  PROVE  \E x \in T : \A y \in T : x <= y
<1> DEFINE Older == OpToRel(<, Nat)
<1>1. IsWellFoundedOn(Older, Nat)
  BY NatLessThanWellFounded
<1>2. \A x, y \in Nat : x < y => <<x, y>> \in Older
  BY DEF OpToRel
<1> HIDE DEF Older
<1>3. PICK x \in T : \A y \in T : ~ (<<y, x>> \in Older)
  BY <1>1, WFMin
<1>4. ASSUME NEW y \in T PROVE x <= y
  <2>1. x \in Nat /\ y \in Nat
    OBVIOUS
  <2>2. ~(y < x)
    BY <1>2, <1>3, <2>1
  <2>3. QED
    BY <2>1, <2>2
<1>5. QED
  BY <1>3, <1>4

(* A set that has zero, and every number up to n with the one before it.    *)
LEMMA UpTo ==
  ASSUME NEW n \in Nat, NEW T, 0 \in T, \A k \in 1..n : k - 1 \in T => k \in T
  PROVE  \A k \in 0..n : k \in T
<1> DEFINE Rest == {k \in 0..n : k \notin T}
<1>1. SUFFICES ASSUME Rest # {} PROVE FALSE
  OBVIOUS
<1>2. Rest \in SUBSET Nat
  OBVIOUS
<1>3. PICK m \in Rest : \A k \in Rest : m <= k
  <2> HIDE DEF Rest
  <2>1. QED
    BY <1>1, <1>2, Smallest
<1>4. m \in 1..n
  OBVIOUS
<1>5. m - 1 \notin Rest
  <2>1. ~(m <= m - 1)
    BY <1>4
  <2>2. QED
    BY <1>3, <2>1
<1>6. m - 1 \in T
  BY <1>4, <1>5
<1>7. QED
  BY <1>4, <1>6

(* The fields and the errors after each branch.                             *)
LEMMA Steps ==
  ASSUME NEW keyword, NEW source, NEW branches, NEW fields, Len(branches) \in Nat
  PROVE  /\ Taken(keyword, source, branches, fields)[0] = Untried(fields)
         /\ \A k \in 1..Len(branches) :
              Taken(keyword, source, branches, fields)[k]
                = Next(keyword, source, Taken(keyword, source, branches, fields)[k - 1], branches[k])
<1> DEFINE n == Len(branches)
           Step(g, k) == IF k = 0 THEN Untried(fields) ELSE Next(keyword, source, g[k - 1], branches[k])
           Made(g, m) == g = [k \in 0..m |-> Step(g, k)]
           T == {m \in 0..n : \E g : Made(g, m)}
<1>1. 0 \in T
  <2>1. Made([k \in 0..0 |-> Untried(fields)], 0)
    OBVIOUS
  <2>2. 0 \in 0..n
    OBVIOUS
  <2> HIDE DEF Made
  <2>3. QED
    BY <2>1, <2>2
<1>2. ASSUME NEW m \in 1..n, m - 1 \in T PROVE m \in T
  <2>1. PICK g : Made(g, m - 1)
    BY <1>2
  <2> DEFINE h == [k \in 0..m |-> IF k = m THEN Step(g, m) ELSE g[k]]
  <2>2. ASSUME NEW k \in 0..m PROVE h[k] = Step(h, k)
    <3>1. CASE k = 0
      <4>1. 0 # m /\ 0 \in 0..(m - 1)
        OBVIOUS
      <4>2. g[0] = Step(g, 0)
        BY <2>1, <4>1
      <4>3. QED
        BY <3>1, <4>1, <4>2
    <3>2. CASE k # 0
      <4>1. k - 1 \in 0..m /\ k - 1 # m
        BY <3>2
      <4>2. h[k - 1] = g[k - 1]
        BY <4>1
      <4>3. CASE k = m
        BY <3>2, <4>2, <4>3
      <4>4. CASE k # m
        <5>1. k \in 0..(m - 1)
          BY <4>4
        <5>2. g[k] = Step(g, k)
          BY <2>1, <5>1
        <5>3. QED
          BY <3>2, <4>2, <4>4, <5>2
      <4>5. QED
        BY <4>3, <4>4
    <3>3. QED
      BY <3>1, <3>2
  <2>3. Made(h, m)
    BY <2>2
  <2>4. m \in 0..n
    OBVIOUS
  <2> HIDE DEF Made, h
  <2>5. QED
    BY <2>3, <2>4
<1>3. n \in T
  <2> HIDE DEF T
  <2>1. \A k \in 1..n : k - 1 \in T => k \in T
    BY <1>2
  <2>2. n \in 0..n
    OBVIOUS
  <2>3. QED
    BY <1>1, <2>1, <2>2, UpTo
<1> DEFINE accs == CHOOSE g : g = [k \in 0..n |-> Step(g, k)]
<1>4. accs = [k \in 0..n |-> Step(accs, k)]
  BY <1>3
<1>5. Taken(keyword, source, branches, fields) = accs
  BY DEF Taken
<1> HIDE DEF accs
<1>6. \A k \in 1..n : accs[k] = Next(keyword, source, accs[k - 1], branches[k])
  <2>1. ASSUME NEW k \in 1..n PROVE accs[k] = Next(keyword, source, accs[k - 1], branches[k])
    <3>1. k \in 0..n /\ k # 0
      OBVIOUS
    <3>2. accs[k] = Step(accs, k)
      BY <1>4, <3>1
    <3>3. QED
      BY <3>1, <3>2
  <2>2. QED
    BY <2>1
<1>7. accs[0] = Untried(fields)
  <2>1. 0 \in 0..n
    OBVIOUS
  <2>2. accs[0] = Step(accs, 0)
    BY <1>4, <2>1
  <2>3. QED
    BY <2>2
<1>8. QED
  BY <1>5, <1>6, <1>7

-----------------------------------------------------------------------------
IsAcc(acc) == acc = [val |-> acc.val, errs |-> acc.errs, matched |-> acc.matched]

TakesTo(keyword, acc, d, next) ==
  /\ IsAcc(next)
  /\ keyword = "allOf" => next = [val |-> d.val, errs |-> acc.errs \cup d.errs, matched |-> acc.matched]
  /\ keyword # "allOf" => \/ keyword = "oneOf" /\ acc.matched /\ next = acc
                          \/ d.errs # {} /\ next = [acc EXCEPT !.errs = acc.errs \cup d.errs]
                          \/ d.errs = {} /\ next = [acc EXCEPT !.val = d.val, !.matched = TRUE]

LEMMA Takes ==
  ASSUME NEW keyword, keyword \in {"allOf", "anyOf", "oneOf"}, NEW source, NEW acc, IsAcc(acc), NEW branch
  PROVE  TakesTo(keyword, acc, Try(source, acc.val, branch), Next(keyword, source, acc, branch))
BY DEF IsAcc, Next, Take, TakesTo

(* The fields outside of some keys stay.                                    *)
Agree(k, gs, fs) == (k \in DOMAIN gs <=> k \in DOMAIN fs) /\ (k \in DOMAIN fs => gs[k] = fs[k])
Keeps(gs, fs, keys) == \A k : k \in keys \/ Agree(k, gs, fs)

(* A branch that succeeds fits the fields after it, and has changed only    *)
(* the ones it declares; whether it fits depends on no other.               *)
Turns(keys, branch, gs, fs) ==
  DOMAIN gs \subseteq keys /\ Fits(branch, gs) /\ Keeps(gs, fs, DOMAIN branch.properties)

Succeeds(source, keys, branch) ==
  \A fs : DOMAIN fs \subseteq keys /\ Try(source, fs, branch).errs = {} =>
    Turns(keys, branch, Try(source, fs, branch).val, fs)

IsLocal(branch) ==
  \A fs, gs : Fits(branch, fs) /\ (\A k \in DOMAIN branch.properties : Agree(k, gs, fs)) => Fits(branch, gs)

Declared(branches, n) == UNION {DOMAIN branches[i].properties : i \in 1..n}

AreBranches(source, keys, branches) ==
  /\ branches \in Seq({branches[i] : i \in DOMAIN branches})
  /\ \A i \in 1..Len(branches) : Succeeds(source, keys, branches[i]) /\ IsLocal(branches[i])

LEMMA AllFit ==
  ASSUME NEW source, NEW keys, NEW branches, AreBranches(source, keys, branches),
         \A i, j \in 1..Len(branches) : i # j => DOMAIN branches[i].properties \cap DOMAIN branches[j].properties = {},
         NEW fields, DOMAIN fields \subseteq keys, AllOf(source, branches, fields).errs = {}
  PROVE  /\ DOMAIN AllOf(source, branches, fields).val \subseteq keys
         /\ Keeps(AllOf(source, branches, fields).val, fields, Declared(branches, Len(branches)))
         /\ \A i \in 1..Len(branches) : Fits(branches[i], AllOf(source, branches, fields).val)
<1> DEFINE n == Len(branches)
           accs == Taken("allOf", source, branches, fields)
           Good(k) == /\ DOMAIN accs[k].val \subseteq keys
                      /\ Keeps(accs[k].val, fields, Declared(branches, k))
                      /\ \A i \in 1..k : Fits(branches[i], accs[k].val)
           T == {k \in 0..n : IsAcc(accs[k]) /\ (accs[k].errs = {} => Good(k))}
<1>1. n \in Nat
  BY DEF AreBranches
<1>2. accs[0] = Untried(fields)
  BY <1>1, Steps
<1>3. \A k \in 1..n : accs[k] = Next("allOf", source, accs[k - 1], branches[k])
  BY <1>1, Steps
<1> HIDE DEF accs
<1>4. 0 \in T
  <2>1. IsAcc(accs[0]) /\ accs[0].val = fields
    BY <1>2 DEF Untried, IsAcc
  <2>2. Keeps(fields, fields, Declared(branches, 0))
    BY DEF Keeps, Agree
  <2>3. QED
    BY <1>1, <2>1, <2>2
<1>5. ASSUME NEW k \in 1..n, k - 1 \in T PROVE k \in T
  <2> DEFINE acc == accs[k - 1]
             d == Try(source, acc.val, branches[k])
  <2>1. IsAcc(acc)
    BY <1>5
  <2>2. IsAcc(accs[k]) /\ accs[k] = [val |-> d.val, errs |-> acc.errs \cup d.errs, matched |-> acc.matched]
    <3>1. TakesTo("allOf", acc, d, Next("allOf", source, acc, branches[k]))
      BY <2>1, Takes
    <3>2. QED
      BY <1>3, <3>1 DEF TakesTo
  <2>3. SUFFICES ASSUME accs[k].errs = {} PROVE Good(k)
    BY <2>2
  <2>4. acc.errs = {} /\ d.errs = {} /\ accs[k].val = d.val
    BY <2>2, <2>3
  <2>5. Good(k - 1)
    BY <1>5, <2>4
  <2>6. Turns(keys, branches[k], d.val, acc.val)
    BY <2>4, <2>5 DEF AreBranches, Succeeds
  <2>7. ASSUME NEW i \in 1..k PROVE Fits(branches[i], d.val)
    <3>1. CASE i = k
      BY <2>6, <3>1 DEF Turns
    <3>2. CASE i # k
      <4>1. i \in 1..(k - 1) /\ i \in 1..n
        BY <3>2
      <4>2. Fits(branches[i], acc.val) /\ IsLocal(branches[i])
        BY <2>5, <4>1 DEF AreBranches
      <4>3. \A x \in DOMAIN branches[i].properties : Agree(x, d.val, acc.val)
        BY <2>6, <3>2, <4>1 DEF Turns, Keeps
      <4>4. QED
        BY <4>2, <4>3 DEF IsLocal
    <3>3. QED
      BY <3>1, <3>2
  <2>8. Keeps(d.val, fields, Declared(branches, k))
    <3>1. ASSUME NEW x, x \notin Declared(branches, k) PROVE Agree(x, d.val, fields)
      <4>1. x \notin DOMAIN branches[k].properties /\ x \notin Declared(branches, k - 1)
        BY <3>1 DEF Declared
      <4>2. Agree(x, d.val, acc.val) /\ Agree(x, acc.val, fields)
        BY <2>5, <2>6, <4>1 DEF Turns, Keeps
      <4>3. QED
        BY <4>2 DEF Agree
    <3>2. QED
      BY <3>1 DEF Keeps
  <2>9. DOMAIN d.val \subseteq keys
    BY <2>6 DEF Turns
  <2>10. QED
    BY <2>4, <2>7, <2>8, <2>9
<1>6. n \in T
  <2> HIDE DEF T
  <2>1. \A k \in 1..n : k - 1 \in T => k \in T
    BY <1>5
  <2>2. n \in 0..n
    BY <1>1
  <2>3. QED
    BY <1>1, <1>4, <2>1, <2>2, UpTo
<1>7. AllOf(source, branches, fields) = [val |-> accs[n].val, errs |-> accs[n].errs]
  BY DEF AllOf, Fields, accs
<1>8. accs[n].errs = {} /\ AllOf(source, branches, fields).val = accs[n].val
  BY <1>7
<1>9. Good(n)
  BY <1>6, <1>8
<1>10. QED
  BY <1>8, <1>9

LEMMA NoBranches ==
  ASSUME NEW source, NEW fields
  PROVE  /\ AllOf(source, <<>>, fields) = Fields(fields, {})
         /\ AnyOf(source, <<>>, fields) = Fields(fields, {})
         /\ OneOf(source, <<>>, fields) = Fields(fields, {})
<1>1. Len(<<>>) \in Nat /\ Len(<<>>) = 0
  OBVIOUS
<1>2. \A keyword : Taken(keyword, source, <<>>, fields)[Len(<<>>)] = Untried(fields)
  BY <1>1, Steps
<1>3. AllOf(source, <<>>, fields) = Fields(fields, {})
  BY <1>2 DEF AllOf, Untried
<1>4. Settled(<<>>, Untried(fields)) = Fields(fields, {})
  BY DEF Settled, Untried
<1>5. QED
  BY <1>2, <1>3, <1>4 DEF AnyOf, OneOf

(* The fields d.val that alternatives leave, tried on some fields.          *)
LeavesFitting(keys, branches, fields, d) ==
  /\ DOMAIN d.val \subseteq keys
  /\ Keeps(d.val, fields, Declared(branches, Len(branches)))
  /\ branches # <<>> => \E i \in 1..Len(branches) : Fits(branches[i], d.val)

(* Of alternatives that are tried one fits the fields after all of them.    *)
TriedAll(keyword, source, branches, fields) ==
  Settled(branches, Taken(keyword, source, branches, fields)[Len(branches)])

LEMMA TriedFit ==
  ASSUME NEW keyword, keyword \in {"anyOf", "oneOf"}, NEW source, NEW keys, NEW branches,
         AreBranches(source, keys, branches), NEW fields, DOMAIN fields \subseteq keys,
         TriedAll(keyword, source, branches, fields).errs = {}
  PROVE  LeavesFitting(keys, branches, fields, TriedAll(keyword, source, branches, fields))
<1> DEFINE n == Len(branches)
           accs == Taken(keyword, source, branches, fields)
           Good(k) == /\ DOMAIN accs[k].val \subseteq keys
                      /\ Keeps(accs[k].val, fields, Declared(branches, k))
                      /\ accs[k].matched => \E i \in 1..k : Fits(branches[i], accs[k].val)
                      /\ accs[k].matched \/ k = 0 \/ accs[k].errs # {}
           T == {k \in 0..n : IsAcc(accs[k]) /\ Good(k)}
<1>1. n \in Nat
  BY DEF AreBranches
<1>2. accs[0] = Untried(fields)
  BY <1>1, Steps
<1>3. \A k \in 1..n : accs[k] = Next(keyword, source, accs[k - 1], branches[k])
  BY <1>1, Steps
<1>0. PICK d : d = TriedAll(keyword, source, branches, fields)
  OBVIOUS
<1>4. /\ d = Fields(accs[n].val, IF branches = <<>> \/ accs[n].matched THEN accs[n].errs \cap Panic ELSE accs[n].errs)
      /\ d.errs = {}
  BY <1>0 DEF Settled, TriedAll
<1> HIDE DEF accs
<1>5. 0 \in T
  <2>1. IsAcc(accs[0]) /\ accs[0].val = fields /\ accs[0].matched = FALSE
    BY <1>2 DEF Untried, IsAcc
  <2>2. Keeps(fields, fields, Declared(branches, 0))
    BY DEF Keeps, Agree
  <2>3. QED
    BY <1>1, <2>1, <2>2
<1>6. ASSUME NEW k \in 1..n, k - 1 \in T PROVE k \in T
  <2> DEFINE acc == accs[k - 1]
             t == Try(source, acc.val, branches[k])
  <2>1. IsAcc(acc) /\ Good(k - 1)
    BY <1>6
  <2>2. /\ IsAcc(accs[k])
        /\ \/ keyword = "oneOf" /\ acc.matched /\ accs[k] = acc
           \/ t.errs # {} /\ accs[k] = [acc EXCEPT !.errs = acc.errs \cup t.errs]
           \/ t.errs = {} /\ accs[k] = [acc EXCEPT !.val = t.val, !.matched = TRUE]
    <3>1. TakesTo(keyword, acc, t, Next(keyword, source, acc, branches[k]))
      BY <2>1, Takes
    <3>2. QED
      BY <1>3, <3>1 DEF TakesTo
  <2>3. CASE accs[k].val = acc.val /\ accs[k].matched = acc.matched /\ (acc.matched \/ accs[k].errs # {})
    <3>1. Keeps(acc.val, fields, Declared(branches, k))
      <4>1. Declared(branches, k - 1) \subseteq Declared(branches, k)
        BY DEF Declared
      <4>2. QED
        BY <2>1, <4>1 DEF Keeps
    <3>2. acc.matched => \E i \in 1..k : Fits(branches[i], acc.val)
      BY <2>1
    <3>3. QED
      BY <2>1, <2>2, <2>3, <3>1, <3>2
  <2>4. CASE t.errs = {} /\ accs[k].val = t.val /\ accs[k].matched = TRUE
    <3>1. Turns(keys, branches[k], t.val, acc.val)
      BY <2>1, <2>4 DEF AreBranches, Succeeds
    <3>2. Keeps(t.val, fields, Declared(branches, k))
      <4>1. ASSUME NEW x, x \notin Declared(branches, k) PROVE Agree(x, t.val, fields)
        <5>1. x \notin DOMAIN branches[k].properties /\ x \notin Declared(branches, k - 1)
          BY <4>1 DEF Declared
        <5>2. Agree(x, t.val, acc.val) /\ Agree(x, acc.val, fields)
          BY <2>1, <3>1, <5>1 DEF Turns, Keeps
        <5>3. QED
          BY <5>2 DEF Agree
      <4>2. QED
        BY <4>1 DEF Keeps
    <3>3. QED
      BY <2>2, <2>4, <3>1, <3>2 DEF Turns
  <2>5. QED
    <3>1. \/ accs[k] = acc /\ acc.matched
          \/ accs[k].val = acc.val /\ accs[k].matched = acc.matched /\ accs[k].errs # {}
          \/ t.errs = {} /\ accs[k].val = t.val /\ accs[k].matched = TRUE
      BY <2>1, <2>2 DEF IsAcc
    <3>2. QED
      BY <2>3, <2>4, <3>1
<1>7. n \in T
  <2> HIDE DEF T
  <2>1. \A k \in 1..n : k - 1 \in T => k \in T
    BY <1>6
  <2>2. n \in 0..n
    BY <1>1
  <2>3. QED
    BY <1>1, <1>5, <2>1, <2>2, UpTo
<1>8. d.val = accs[n].val
  BY <1>4 DEF Fields
<1>9. Good(n)
  BY <1>7
<1>10. branches # <<>> => n # 0
  OBVIOUS
<1>11. branches # <<>> => accs[n].matched
  BY <1>4, <1>9, <1>10 DEF Fields
<1>12. QED
  BY <1>0, <1>8, <1>9, <1>11 DEF LeavesFitting

LEMMA OneFits ==
  ASSUME NEW source, NEW keys, NEW branches, AreBranches(source, keys, branches),
         NEW fields, DOMAIN fields \subseteq keys
  PROVE  /\ AnyOf(source, branches, fields).errs = {} =>
              LeavesFitting(keys, branches, fields, AnyOf(source, branches, fields))
         /\ OneOf(source, branches, fields).errs = {} =>
              LeavesFitting(keys, branches, fields, OneOf(source, branches, fields))
BY TriedFit DEF AnyOf, OneOf, TriedAll

(* What every branch leaves of what the fields have is left by all, and     *)
(* there are no errors but theirs.                                          *)
Leaves(source, branches, E) ==
  \A i \in 1..Len(branches) : \A fs : Has(fs) =>
    Has(Try(source, fs, branches[i]).val) /\ Try(source, fs, branches[i]).errs \subseteq E

LEMMA AllLeave ==
  ASSUME NEW source, NEW branches, Len(branches) \in Nat, NEW E, Leaves(source, branches, E),
         NEW fields, Has(fields), NEW d,
         d \in {AllOf(source, branches, fields), AnyOf(source, branches, fields), OneOf(source, branches, fields)}
  PROVE  Has(d.val) /\ d.errs \subseteq E
<1> DEFINE n == Len(branches)
           Left(acc) == IsAcc(acc) /\ Has(acc.val) /\ acc.errs \subseteq E
<1>1. ASSUME NEW keyword \in {"allOf", "anyOf", "oneOf"}
      PROVE  Left(Taken(keyword, source, branches, fields)[n])
  <2> DEFINE accs == Taken(keyword, source, branches, fields)
             T == {k \in 0..n : Left(accs[k])}
  <2>1. /\ accs[0] = Untried(fields)
        /\ \A k \in 1..n : accs[k] = Next(keyword, source, accs[k - 1], branches[k])
    BY Steps
  <2> HIDE DEF accs
  <2>2. 0 \in T
    BY <2>1 DEF Untried, IsAcc
  <2>3. ASSUME NEW k \in 1..n, k - 1 \in T PROVE k \in T
    <3>1. PICK acc : acc = accs[k - 1]
      OBVIOUS
    <3>2. PICK d0 : d0 = Try(source, acc.val, branches[k])
      OBVIOUS
    <3>3. Left(acc)
      BY <2>3, <3>1
    <3>4. Has(d0.val) /\ d0.errs \subseteq E
      BY <3>2, <3>3 DEF Leaves
    <3>5. TakesTo(keyword, acc, d0, accs[k])
      BY <2>1, <3>1, <3>2, <3>3, Takes
    <3>6. acc = [val |-> acc.val, errs |-> acc.errs, matched |-> acc.matched]
      BY <3>3 DEF IsAcc
    <3>7. accs[k] \in { [val |-> d0.val, errs |-> acc.errs \cup d0.errs, matched |-> acc.matched], acc,
                        [val |-> acc.val, errs |-> acc.errs \cup d0.errs, matched |-> acc.matched],
                        [val |-> d0.val, errs |-> acc.errs, matched |-> TRUE] }
      BY <3>5, <3>6 DEF TakesTo
    <3>8. Has(accs[k].val) /\ accs[k].errs \subseteq E
      <4> DEFINE g == accs[k]
      <4>1. (g.val = d0.val \/ g.val = acc.val) /\ (g.errs = acc.errs \/ g.errs = acc.errs \cup d0.errs)
        BY <3>7
      <4>2. QED
        BY <3>3, <3>4, <4>1
    <3>9. QED
      BY <3>5, <3>8 DEF TakesTo
  <2>4. \A k \in 0..n : k \in T
    <3> HIDE DEF T
    <3>1. QED
      BY <2>2, <2>3, UpTo
  <2>5. n \in 0..n
    OBVIOUS
  <2>6. QED
    BY <2>4, <2>5 DEF accs
<1>2. PICK keyword \in {"allOf", "anyOf", "oneOf"} :
        LET acc == Taken(keyword, source, branches, fields)[n]
        IN d.val = acc.val /\ d.errs \subseteq acc.errs
  <2>1. CASE d = AllOf(source, branches, fields)
    BY <2>1 DEF AllOf, Fields
  <2>2. CASE d = AnyOf(source, branches, fields)
    BY <2>2 DEF AnyOf, Settled, Fields
  <2>3. CASE d = OneOf(source, branches, fields)
    BY <2>3 DEF OneOf, Settled, Fields
  <2>4. QED
    BY <2>1, <2>2, <2>3
<1>3. QED
  BY <1>1, <1>2
=================================================================================
