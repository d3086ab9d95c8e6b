------------------------------ MODULE RequestProofs ------------------------------
(***************************************************************************)
(* Proofs of RequestValidation, for every document and every request: the  *)
(* client that is built, what a request that is accepted must contain, and *)
(* what its values meet.                                                   *)
(*                                                                         *)
(* The parameters of a path item go through four loops: every operation's  *)
(* list is sorted into its own and the common parameters, the operations   *)
(* are gone through, then the placeholders, then each operation's lists    *)
(* are joined and reduced.  Each loop is a recursive function over a list; *)
(* Recursion says that it exists, UpTo is the induction over its steps,    *)
(* and what the loop keeps is stated in the terms of IsFirst and IsLast.   *)
(*                                                                         *)
(* A request is then followed place by place: PresenceInv says which place *)
(* has what is required of it, ValidInv which values meet their schemas.   *)
(* For that the validator and the decoders are sound, by induction over    *)
(* the heights of schemas: ValidatorSound, ParamYields, ObjectMeets and    *)
(* NodesAreSound.  BranchProofs has what they share: the branches of an    *)
(* object are decoded one after another into the same fields.              *)
(*                                                                         *)
(* Last, SafeInv says that the state has its type and that nothing panics  *)
(* without a reason: the errors of the validator and of the decoders are   *)
(* blamed on the schemas they come from, by the same induction.            *)
(***************************************************************************)
EXTENDS RequestValidation, FiniteSetTheorems, SequenceTheorems, WellFoundedInduction, TLAPS

(* The least and the greatest of some numbers. *)
LEMMA Smallest ==
  ASSUME NEW T \in SUBSET Nat, T # {}
  PROVE  \E x \in T : \A y \in T : x <= y
<1> DEFINE Older == OpToRel(<, Nat)
<1>1. IsWellFoundedOn(Older, Nat)
  BY NatLessThanWellFounded
<1>2. \A x, y \in Nat : x < y => <<x, y>> \in Older
  BY DEF OpToRel
<1> HIDE DEF Older
<1>3. PICK x \in T : \A y \in T : ~ (<<y, x>> \in Older)
  BY <1>1, WFMin
<1>4. ASSUME NEW y \in T PROVE x <= y
  <2>1. x \in Nat /\ y \in Nat
    OBVIOUS
  <2>2. ~(y < x)
    BY <1>2, <1>3, <2>1
  <2>3. QED
    BY <2>1, <2>2
<1>5. QED
  BY <1>3, <1>4

LEMMA Greatest ==
  ASSUME NEW n \in Nat, NEW T \in SUBSET (1..n), T # {}
  PROVE  \E x \in T : \A y \in T : y <= x
<1> DEFINE U == {n - x : x \in T}
<1>1. U \in SUBSET Nat /\ U # {}
  <2>1. \A x \in T : n - x \in Nat
    OBVIOUS
  <2>2. QED
    BY <2>1
<1>2. PICK u \in U : \A v \in U : u <= v
  <2> HIDE DEF U
  <2>1. QED
    BY <1>1, Smallest
<1>3. PICK x \in T : u = n - x
  OBVIOUS
<1>4. ASSUME NEW y \in T PROVE y <= x
  <2>1. n - y \in U
    OBVIOUS
  <2>2. n - x <= n - y
    BY <1>2, <1>3, <2>1
  <2>3. x \in Nat /\ y \in Nat
    OBVIOUS
  <2>4. QED
    BY <2>2, <2>3
<1>5. QED
  BY <1>4

(* A set that has zero, and every number up to n with the one before it.    *)
LEMMA UpTo ==
  ASSUME NEW n \in Nat, NEW T, 0 \in T, \A k \in 1..n : k - 1 \in T => k \in T
  PROVE  \A k \in 0..n : k \in T
<1> DEFINE Rest == {k \in 0..n : k \notin T}
<1>1. SUFFICES ASSUME Rest # {} PROVE FALSE
  OBVIOUS
<1>2. Rest \in SUBSET Nat
  OBVIOUS
<1>3. PICK m \in Rest : \A k \in Rest : m <= k
  <2> HIDE DEF Rest
  <2>1. QED
    BY <1>1, <1>2, Smallest
<1>4. m \in 1..n
  OBVIOUS
<1>5. m - 1 \notin Rest
  <2>1. ~(m <= m - 1)
    BY <1>4
  <2>2. QED
    BY <1>3, <2>1
<1>6. m - 1 \in T
  BY <1>4, <1>5
<1>7. QED
  BY <1>4, <1>6

(* A function defined by recursion over the numbers up to n.                *)
StepsIn(n, X, step) == \A k \in 1..n : \A x \in X : step[k][x] \in X

LEMMA Recursion ==
  ASSUME NEW n \in Nat, NEW X, NEW base \in X, NEW step, StepsIn(n, X, step)
  PROVE  \E g \in [0..n -> X] : g[0] = base /\ \A k \in 1..n : g[k] = step[k][g[k - 1]]
<1> DEFINE Follows(m, g) == g[0] = base /\ \A k \in 1..m : g[k] = step[k][g[k - 1]]
           T == {m \in 0..n : \E g \in [0..m -> X] : Follows(m, g)}
<1>1. 0 \in T
  <2>1. [k \in 0..0 |-> base] \in [0..0 -> X] /\ Follows(0, [k \in 0..0 |-> base])
    OBVIOUS
  <2>2. 0 \in 0..n
    OBVIOUS
  <2> HIDE DEF Follows
  <2>3. QED
    BY <2>1, <2>2
<1>2. ASSUME NEW m \in 1..n, m - 1 \in T PROVE m \in T
  <2>1. PICK g \in [0..(m - 1) -> X] : Follows(m - 1, g)
    BY <1>2
  <2> DEFINE h == [k \in 0..m |-> IF k = m THEN step[m][g[m - 1]] ELSE g[k]]
  <2>2. m - 1 \in 0..(m - 1) /\ g[m - 1] \in X
    OBVIOUS
  <2>3. step[m][g[m - 1]] \in X
    BY <2>2 DEF StepsIn
  <2>4. h \in [0..m -> X]
    <3>1. ASSUME NEW k \in 0..m PROVE h[k] \in X
      <4>1. k # m => k \in 0..(m - 1)
        OBVIOUS
      <4>2. QED
        BY <2>3, <4>1
    <3>2. QED
      BY <3>1
  <2>5. h[0] = base
    BY <2>1
  <2>6. ASSUME NEW k \in 1..m PROVE h[k] = step[k][h[k - 1]]
    <3>1. k - 1 \in 0..m /\ k - 1 # m /\ h[k - 1] = g[k - 1]
      OBVIOUS
    <3>2. CASE k = m
      BY <3>1, <3>2
    <3>3. CASE k # m
      <4>1. k \in 1..(m - 1) /\ h[k] = g[k]
        BY <3>3
      <4>2. g[k] = step[k][g[k - 1]]
        BY <2>1, <4>1
      <4>3. QED
        BY <3>1, <4>1, <4>2
    <3>4. QED
      BY <3>2, <3>3
  <2>7. Follows(m, h)
    BY <2>5, <2>6
  <2>8. m \in 0..n
    OBVIOUS
  <2> HIDE DEF Follows, h
  <2>9. QED
    BY <2>4, <2>7, <2>8
<1>3. n \in T
  <2> HIDE DEF T
  <2>1. \A k \in 1..n : k - 1 \in T => k \in T
    BY <1>2
  <2>2. n \in 0..n
    OBVIOUS
  <2>3. QED
    BY <1>1, <2>1, <2>2, UpTo
<1>4. QED
  BY <1>3

LEMMA AllIn ==
  ASSUME NEW n \in Nat, NEW X, NEW f, f = [k \in 0..n |-> f[k]], f[0] \in X,
         \A k \in 1..n : f[k - 1] \in X => f[k] \in X
  PROVE  f \in [0..n -> X]
<1> DEFINE T == {k \in 0..n : f[k] \in X}
<1>1. 0 \in T
  OBVIOUS
<1>2. \A k \in 1..n : k - 1 \in T => k \in T
  OBVIOUS
<1>3. \A k \in 0..n : k \in T
  <2> HIDE DEF T
  <2>1. QED
    BY <1>1, <1>2, UpTo
<1>4. QED
  BY <1>3

-----------------------------------------------------------------------------
(* The first and the last definition of a key in a list. *)
IsFirst(defs, key, def) ==
  \E i \in DOMAIN defs : /\ defs[i] = def /\ Key(def) = key
                         /\ \A j \in DOMAIN defs : Key(defs[j]) = key => i <= j

IsLast(defs, key, def) ==
  \E i \in DOMAIN defs : /\ defs[i] = def /\ Key(def) = key
                         /\ \A j \in DOMAIN defs : Key(defs[j]) = key => j <= i

LEMMA KeysAre ==
  ASSUME NEW defs
  PROVE  Keys(defs) = {Key(defs[i]) : i \in DOMAIN defs}
BY DEF Keys, Range

LEMMA OneLast ==
  ASSUME NEW D, NEW defs \in Seq(D), NEW key, NEW d, NEW e, IsLast(defs, key, d), IsLast(defs, key, e)
  PROVE  d = e
<1>1. PICK i \in DOMAIN defs : defs[i] = d /\ Key(d) = key /\ \A k \in DOMAIN defs : Key(defs[k]) = key => k <= i
  BY DEF IsLast
<1>2. PICK j \in DOMAIN defs : defs[j] = e /\ Key(e) = key /\ \A k \in DOMAIN defs : Key(defs[k]) = key => k <= j
  BY DEF IsLast
<1>3. i <= j /\ j <= i
  BY <1>1, <1>2
<1>4. i \in Nat /\ j \in Nat
  OBVIOUS
<1>5. i = j
  BY <1>3, <1>4
<1>6. QED
  BY <1>1, <1>2, <1>5

(* SelectInSeq and SelectLastInSeq, of the numbers of the items that pass.  *)
LEMMA LeastOf ==
  ASSUME NEW n \in Nat, NEW T \in SUBSET (1..n), T # {}
  PROVE  Min(T) \in T /\ \A y \in T : Min(T) <= y
<1>1. T \in SUBSET Nat
  OBVIOUS
<1>2. \E x \in T : \A y \in T : x <= y
  BY <1>1, Smallest
<1>3. QED
  BY <1>2 DEF Min

LEMMA MostOf ==
  ASSUME NEW n \in Nat, NEW T \in SUBSET (1..n), T # {}
  PROVE  Max(T) \in T /\ \A y \in T : y <= Max(T)
<1>1. \E x \in T : \A y \in T : y <= x
  BY Greatest
<1>2. \E x \in T : \A y \in T : x >= y
  BY <1>1
<1>3. Max(T) \in T /\ \A y \in T : Max(T) >= y
  BY <1>2 DEF Max
<1>4. QED
  BY <1>3

LEMMA LastIs ==
  ASSUME NEW D, NEW defs \in Seq(D), NEW key \in Keys(defs)
  PROVE  IsLast(defs, key, LastOf(defs, key))
<1> DEFINE I == {i \in 1..Len(defs) : Key(defs[i]) = key}
<1>1. Len(defs) \in Nat /\ DOMAIN defs = 1..Len(defs)
  OBVIOUS
<1>2. I # {}
  BY <1>1, KeysAre
<1>3. I \in SUBSET (1..Len(defs))
  OBVIOUS
<1>4. LastOf(defs, key) = defs[Max(I)]
  BY <1>2 DEF LastOf, SelectLastInSeq
<1>5. Max(I) \in I /\ \A y \in I : y <= Max(I)
  <2> HIDE DEF I
  <2>1. QED
    BY <1>1, <1>2, <1>3, MostOf
<1>6. QED
  BY <1>1, <1>4, <1>5 DEF IsLast

LEMMA FirstIs ==
  ASSUME NEW D, NEW defs \in Seq(D), NEW key \in Keys(defs)
  PROVE  IsFirst(defs, key, FirstOf(defs, key))
<1> DEFINE I == {i \in 1..Len(defs) : Key(defs[i]) = key}
<1>1. Len(defs) \in Nat /\ DOMAIN defs = 1..Len(defs)
  OBVIOUS
<1>2. I # {}
  BY <1>1, KeysAre
<1>3. I \in SUBSET (1..Len(defs))
  OBVIOUS
<1>4. FirstOf(defs, key) = defs[Min(I)]
  BY <1>2 DEF FirstOf, SelectInSeq
<1>5. Min(I) \in I /\ \A y \in I : Min(I) <= y
  <2> HIDE DEF I
  <2>1. QED
    BY <1>1, <1>2, <1>3, LeastOf
<1>6. QED
  BY <1>1, <1>4, <1>5 DEF IsFirst

-----------------------------------------------------------------------------
(* One more definition in a list, and two lists one after the other.        *)
LEMMA Appended ==
  ASSUME NEW D, NEW defs \in Seq(D), NEW d
  PROVE  /\ Keys(Append(defs, d)) = Keys(defs) \cup {Key(d)}
         /\ IsLast(Append(defs, d), Key(d), d)
         /\ \A key, e : key # Key(d) /\ IsLast(defs, key, e) => IsLast(Append(defs, d), key, e)
<1> DEFINE l == Append(defs, d)
           n == Len(defs)
<1>1. n \in Nat /\ DOMAIN defs = 1..n
  OBVIOUS
<1>2. DOMAIN l = 1..(n + 1) /\ l[n + 1] = d /\ \A i \in 1..n : l[i] = defs[i]
  OBVIOUS
<1> HIDE DEF l, n
<1>3. Keys(l) = Keys(defs) \cup {Key(d)}
  <2>1. Keys(l) = {Key(l[i]) : i \in 1..(n + 1)}
    BY <1>2, KeysAre
  <2>2. Keys(defs) = {Key(defs[i]) : i \in 1..n}
    BY <1>1, KeysAre
  <2>3. \A i \in 1..(n + 1) : i = n + 1 \/ i \in 1..n
    BY <1>1
  <2>4. \A i \in 1..n : i \in 1..(n + 1)
    BY <1>1
  <2>5. n + 1 \in 1..(n + 1)
    BY <1>1
  <2>6. QED
    BY <1>2, <2>1, <2>2, <2>3, <2>4, <2>5
<1>4. IsLast(l, Key(d), d)
  <2>1. n + 1 \in DOMAIN l /\ \A j \in DOMAIN l : j <= n + 1
    BY <1>1, <1>2
  <2>2. QED
    BY <1>2, <2>1 DEF IsLast
<1>5. ASSUME NEW key, NEW e, key # Key(d), IsLast(defs, key, e) PROVE IsLast(l, key, e)
  <2>1. PICK i \in 1..n : defs[i] = e /\ Key(e) = key /\ \A j \in 1..n : Key(defs[j]) = key => j <= i
    BY <1>1, <1>5 DEF IsLast
  <2>2. i \in DOMAIN l /\ l[i] = e
    BY <1>1, <1>2, <2>1
  <2>3. ASSUME NEW j \in DOMAIN l, Key(l[j]) = key PROVE j <= i
    <3>1. j # n + 1
      BY <1>2, <1>5, <2>3
    <3>2. j \in 1..n
      BY <1>1, <1>2, <3>1
    <3>3. QED
      BY <1>2, <2>1, <2>3, <3>2
  <2>4. QED
    BY <2>1, <2>2, <2>3 DEF IsLast
<1>6. QED
  BY <1>3, <1>4, <1>5 DEF l

LEMMA ListsJoined ==
  ASSUME NEW D, NEW one \in Seq(D), NEW two \in Seq(D)
  PROVE  /\ Keys(one \o two) = Keys(one) \cup Keys(two)
         /\ \A key, e : IsLast(two, key, e) => IsLast(one \o two, key, e)
         /\ \A key, e : key \notin Keys(two) /\ IsLast(one, key, e) => IsLast(one \o two, key, e)
<1> DEFINE l == one \o two
           m == Len(one)
           n == Len(two)
<1>1. m \in Nat /\ DOMAIN one = 1..m /\ n \in Nat /\ DOMAIN two = 1..n
  OBVIOUS
<1>2. DOMAIN l = 1..(m + n) /\ (\A i \in 1..m : l[i] = one[i]) /\ (\A i \in 1..n : l[m + i] = two[i])
  OBVIOUS
<1> HIDE DEF l, m, n
<1>3. \A i \in 1..(m + n) : i \in 1..m \/ (i - m \in 1..n /\ l[i] = two[i - m])
  <2>1. \A i \in 1..(m + n) : i \in 1..m \/ (i - m \in 1..n /\ m + (i - m) = i)
    BY <1>1
  <2>2. QED
    BY <1>2, <2>1
<1>4. \A i \in 1..m : i \in 1..(m + n)
  BY <1>1
<1>5. \A i \in 1..n : m + i \in 1..(m + n)
  BY <1>1
<1>6. Keys(l) = Keys(one) \cup Keys(two)
  <2>1. Keys(l) = {Key(l[i]) : i \in 1..(m + n)}
    BY <1>2, KeysAre
  <2>2. Keys(one) = {Key(one[i]) : i \in 1..m} /\ Keys(two) = {Key(two[i]) : i \in 1..n}
    BY <1>1, KeysAre
  <2>3. QED
    BY <1>2, <1>3, <1>4, <1>5, <2>1, <2>2
<1>7. ASSUME NEW key, NEW e, IsLast(two, key, e) PROVE IsLast(l, key, e)
  <2>1. PICK i \in 1..n : two[i] = e /\ Key(e) = key /\ \A j \in 1..n : Key(two[j]) = key => j <= i
    BY <1>1, <1>7 DEF IsLast
  <2>2. m + i \in DOMAIN l /\ l[m + i] = e
    BY <1>2, <1>5, <2>1
  <2>3. ASSUME NEW j \in DOMAIN l, Key(l[j]) = key PROVE j <= m + i
    <3>1. CASE j \in 1..m
      BY <1>1, <3>1
    <3>2. CASE j \notin 1..m
      <4>1. j - m \in 1..n /\ Key(two[j - m]) = key
        BY <1>2, <1>3, <2>3, <3>2
      <4>2. j - m <= i
        BY <2>1, <4>1
      <4>3. j \in Nat
        BY <1>1, <1>2
      <4>4. QED
        BY <1>1, <4>2, <4>3
    <3>3. QED
      BY <3>1, <3>2
  <2>4. QED
    BY <2>1, <2>2, <2>3 DEF IsLast
<1>8. ASSUME NEW key, NEW e, key \notin Keys(two), IsLast(one, key, e) PROVE IsLast(l, key, e)
  <2>1. PICK i \in 1..m : one[i] = e /\ Key(e) = key /\ \A j \in 1..m : Key(one[j]) = key => j <= i
    BY <1>1, <1>8 DEF IsLast
  <2>2. i \in DOMAIN l /\ l[i] = e
    BY <1>2, <1>4, <2>1
  <2>3. ASSUME NEW j \in DOMAIN l, Key(l[j]) = key PROVE j <= i
    <3>1. j \in 1..m
      BY <1>1, <1>2, <1>3, <1>8, <2>3, KeysAre
    <3>2. QED
      BY <1>2, <2>1, <2>3, <3>1
  <2>4. QED
    BY <2>1, <2>2, <2>3 DEF IsLast
<1>9. QED
  BY <1>6, <1>7, <1>8 DEF l

-----------------------------------------------------------------------------
(* What the parameters of an operation are sorted into: those of the path   *)
(* item, and its own.                                                       *)
Sorted(D) == [common : Seq(D), own : Seq(D)]

LEMMA TakeOne ==
  ASSUME NEW D, NEW lists \in Sorted(D), NEW d \in D
  PROVE  /\ TakeParameter(lists, d) \in Sorted(D)
         /\ Declares(lists.common, d.name, d.in) => TakeParameter(lists, d) = lists
         /\ ~Declares(lists.common, d.name, d.in) /\ d.in = "path" =>
              TakeParameter(lists, d) = [common |-> Append(lists.common, d), own |-> lists.own]
         /\ ~Declares(lists.common, d.name, d.in) /\ d.in # "path" =>
              TakeParameter(lists, d) = [common |-> lists.common, own |-> Append(lists.own, d)]
<1>1. lists.common \in Seq(D) /\ lists.own \in Seq(D)
  BY DEF Sorted
<1>2. lists = [common |-> lists.common, own |-> lists.own]
  BY DEF Sorted
<1>3. Append(lists.common, d) \in Seq(D) /\ Append(lists.own, d) \in Seq(D)
  BY <1>1
<1>4. CASE Declares(lists.common, d.name, d.in)
  BY <1>4 DEF TakeParameter
<1>5. CASE ~Declares(lists.common, d.name, d.in) /\ d.in = "path"
  <2>1. TakeParameter(lists, d) = [common |-> Append(lists.common, d), own |-> lists.own]
    BY <1>2, <1>5 DEF TakeParameter
  <2>2. QED
    BY <1>1, <1>3, <1>5, <2>1 DEF Sorted
<1>6. CASE ~Declares(lists.common, d.name, d.in) /\ d.in # "path"
  <2>1. TakeParameter(lists, d) = [common |-> lists.common, own |-> Append(lists.own, d)]
    BY <1>2, <1>6 DEF TakeParameter
  <2>2. QED
    BY <1>1, <1>3, <1>6, <2>1 DEF Sorted
<1>7. QED
  BY <1>4, <1>5, <1>6

LEMMA TakenIs ==
  ASSUME NEW D, NEW common \in Seq(D), NEW written \in Seq(D)
  PROVE  LET lists == TakenParameters(common, written)
         IN /\ lists \in [0..Len(written) -> Sorted(D)]
            /\ lists[0] = [common |-> common, own |-> <<>>]
            /\ \A k \in 1..Len(written) : lists[k] = TakeParameter(lists[k - 1], written[k])
<1> DEFINE n == Len(written)
           base == [common |-> common, own |-> <<>>]
           Next_(g) == [k \in 0..n |-> IF k = 0 THEN base ELSE TakeParameter(g[k - 1], written[k])]
           step == [k \in 1..n |-> [x \in Sorted(D) |-> TakeParameter(x, written[k])]]
           lists == TakenParameters(common, written)
<1>1. n \in Nat /\ \A k \in 1..n : written[k] \in D
  OBVIOUS
<1>2. base \in Sorted(D)
  BY DEF Sorted
<1>3. StepsIn(n, Sorted(D), step)
  BY <1>1, TakeOne DEF StepsIn
<1>4. lists = CHOOSE g : g = Next_(g)
  BY DEF TakenParameters
<1> HIDE DEF base
<1>5. PICK f \in [0..n -> Sorted(D)] : f[0] = base /\ \A k \in 1..n : f[k] = step[k][f[k - 1]]
  <2> DEFINE X == Sorted(D)
  <2>1. n \in Nat /\ base \in X /\ StepsIn(n, X, step)
    BY <1>1, <1>2, <1>3
  <2> HIDE DEF n, step, X, Next_, lists
  <2>2. \E g \in [0..n -> X] : g[0] = base /\ \A k \in 1..n : g[k] = step[k][g[k - 1]]
    BY <2>1, Recursion
  <2>3. QED
    BY <2>2 DEF X
<1>6. f = Next_(f)
  <2>1. ASSUME NEW k \in 1..n PROVE f[k] = TakeParameter(f[k - 1], written[k])
    <3>1. f[k - 1] \in Sorted(D)
      BY <1>1, <1>5
    <3>2. QED
      BY <1>5, <3>1
  <2>2. \A k \in 0..n : k = 0 \/ k \in 1..n
    BY <1>1
  <2>3. QED
    BY <1>5, <2>1, <2>2
<1>7. lists = Next_(lists)
  <2> HIDE DEF Next_, lists
  <2>1. QED
    BY <1>4, <1>6
<1>8. ASSUME NEW k \in 1..n PROVE lists[k] = TakeParameter(lists[k - 1], written[k])
  <2>1. k \in 0..n /\ k # 0
    BY <1>1
  <2> HIDE DEF lists
  <2>2. QED
    BY <1>7, <2>1
<1>9. lists[0] = base /\ DOMAIN lists = 0..n
  <2>1. 0 \in 0..n
    BY <1>1
  <2> HIDE DEF lists
  <2>2. QED
    BY <1>7, <2>1
<1>10. lists = [k \in 0..n |-> lists[k]]
  <2> HIDE DEF lists
  <2>1. QED
    BY <1>7
<1>11. lists \in [0..n -> Sorted(D)]
  <2>1. \A k \in 1..n : lists[k - 1] \in Sorted(D) => lists[k] \in Sorted(D)
    <3> HIDE DEF lists, n
    <3>1. QED
      BY <1>1, <1>8, TakeOne
  <2>2. lists[0] \in Sorted(D)
    BY <1>2, <1>9
  <2> HIDE DEF lists, n
  <2>3. QED
    BY <1>1, <1>10, <2>1, <2>2, AllIn
<1>12. QED
  BY <1>8, <1>9, <1>11 DEF base

LEMMA PlaceholdersAre ==
  ASSUME NEW D, NEW common \in Seq(D), NEW N, NEW keys \in Seq(N), \A key \in N : Unknown(key) \in D
  PROVE  LET commons == TakenPlaceholders(common, keys)
         IN /\ commons \in [0..Len(keys) -> Seq(D)]
            /\ commons[0] = common
            /\ \A k \in 1..Len(keys) : commons[k] = TakePlaceholder(commons[k - 1], keys[k])
<1> DEFINE n == Len(keys)
           X == Seq(D)
           Next_(g) == [k \in 0..n |-> IF k = 0 THEN common ELSE TakePlaceholder(g[k - 1], keys[k])]
           step == [k \in 1..n |-> [x \in X |-> TakePlaceholder(x, keys[k])]]
           commons == TakenPlaceholders(common, keys)
<1>1. n \in Nat /\ \A k \in 1..n : keys[k] \in N
  OBVIOUS
<1>2. common \in X
  OBVIOUS
<1>3. ASSUME NEW k \in 1..n, NEW x \in X PROVE TakePlaceholder(x, keys[k]) \in X
  <2>1. Unknown(keys[k]) \in D
    BY <1>1
  <2>2. Append(x, Unknown(keys[k])) \in X
    BY <2>1
  <2>3. QED
    BY <2>2 DEF TakePlaceholder
<1>4. commons = CHOOSE g : g = Next_(g)
  BY DEF TakenPlaceholders
<1>5. StepsIn(n, X, step)
  <2> HIDE DEF X, n
  <2>1. QED
    BY <1>3 DEF StepsIn
<1> HIDE DEF X
<1>6. PICK f \in [0..n -> X] : f[0] = common /\ \A k \in 1..n : f[k] = step[k][f[k - 1]]
  <2> DEFINE base == common
  <2>1. n \in Nat /\ base \in X /\ StepsIn(n, X, step)
    BY <1>1, <1>2, <1>5
  <2> HIDE DEF n, step, Next_, commons, base
  <2>2. \E g \in [0..n -> X] : g[0] = base /\ \A k \in 1..n : g[k] = step[k][g[k - 1]]
    BY <2>1, Recursion, Z3
  <2>3. QED
    BY <2>2 DEF base
<1>7. f = Next_(f)
  <2>1. ASSUME NEW k \in 1..n PROVE f[k] = TakePlaceholder(f[k - 1], keys[k])
    <3>1. f[k - 1] \in X
      BY <1>1, <1>6
    <3>2. QED
      BY <1>6, <3>1
  <2>2. \A k \in 0..n : k = 0 \/ k \in 1..n
    BY <1>1
  <2>3. QED
    BY <1>6, <2>1, <2>2
<1>8. commons = Next_(commons)
  <2> HIDE DEF Next_, commons
  <2>1. QED
    BY <1>4, <1>7
<1>9. ASSUME NEW k \in 1..n PROVE commons[k] = TakePlaceholder(commons[k - 1], keys[k])
  <2>1. k \in 0..n /\ k # 0
    BY <1>1
  <2> HIDE DEF commons
  <2>2. QED
    BY <1>8, <2>1
<1>10. commons[0] = common
  <2>1. 0 \in 0..n
    BY <1>1
  <2> HIDE DEF commons
  <2>2. QED
    BY <1>8, <2>1
<1>11. commons = [k \in 0..n |-> commons[k]]
  <2> HIDE DEF commons
  <2>1. QED
    BY <1>8
<1>12. commons \in [0..n -> X]
  <2>1. \A k \in 1..n : commons[k - 1] \in X => commons[k] \in X
    BY <1>3, <1>9
  <2>2. commons[0] \in X
    BY <1>2, <1>10
  <2> HIDE DEF commons, n
  <2>3. QED
    BY <1>1, <1>11, <2>1, <2>2, AllIn
<1>13. QED
  BY <1>9, <1>10, <1>12 DEF X

(* One more definition for those an operation is held to. *)
LEMMA ReplacedIs ==
  ASSUME NEW R, NEW list \in Seq(R), NEW d \in R
  PROVE  /\ Replaced(list, d) \in Seq(R)
         /\ ~Declares(list, d.name, d.in) => Replaced(list, d) = Append(list, d)
         /\ Declares(list, d.name, d.in) =>
              /\ DOMAIN Replaced(list, d) = DOMAIN list
              /\ \A i \in DOMAIN list :
                   Replaced(list, d)[i] = IF list[i].name = d.name /\ list[i].in = d.in THEN d ELSE list[i]
<1> DEFINE Changed == [i \in DOMAIN list |-> IF list[i].name = d.name /\ list[i].in = d.in THEN d ELSE list[i]]
<1>1. DOMAIN list = 1..Len(list) /\ Len(list) \in Nat /\ \A i \in 1..Len(list) : list[i] \in R
  OBVIOUS
<1>2. Changed \in Seq(R)
  <2>1. Changed \in [1..Len(list) -> R]
    BY <1>1
  <2> HIDE DEF Changed
  <2>2. QED
    BY <1>1, <2>1, SeqDef
<1>3. CASE Declares(list, d.name, d.in)
  BY <1>2, <1>3 DEF Replaced
<1>4. CASE ~Declares(list, d.name, d.in)
  <2>1. Append(list, d) \in Seq(R)
    OBVIOUS
  <2>2. QED
    BY <1>4, <2>1 DEF Replaced
<1>5. QED
  BY <1>3, <1>4

LEMMA MergedIs ==
  ASSUME NEW D, NEW defs \in Seq(D)
  PROVE  LET lists == MergedDefinitions(defs)
             R == {Renamed(d) : d \in D}
         IN /\ lists \in [0..Len(defs) -> Seq(R)]
            /\ lists[0] = <<>>
            /\ \A k \in 1..Len(defs) : lists[k] = Replaced(lists[k - 1], Renamed(defs[k]))
<1> DEFINE n == Len(defs)
           R == {Renamed(d) : d \in D}
           X == Seq(R)
           Next_(g) == [k \in 0..n |-> IF k = 0 THEN <<>> ELSE Replaced(g[k - 1], Renamed(defs[k]))]
           step == [k \in 1..n |-> [x \in X |-> Replaced(x, Renamed(defs[k]))]]
           lists == MergedDefinitions(defs)
<1>1. n \in Nat /\ \A k \in 1..n : Renamed(defs[k]) \in R
  OBVIOUS
<1>2. <<>> \in X
  OBVIOUS
<1>3. ASSUME NEW k \in 1..n, NEW x \in X PROVE Replaced(x, Renamed(defs[k])) \in X
  <2> HIDE DEF R
  <2>1. QED
    BY <1>1, ReplacedIs
<1>4. lists = CHOOSE g : g = Next_(g)
  BY DEF MergedDefinitions
<1>5. StepsIn(n, X, step)
  <2> HIDE DEF X, n
  <2>1. QED
    BY <1>3 DEF StepsIn
<1> HIDE DEF X
<1>6. PICK f \in [0..n -> X] : f[0] = <<>> /\ \A k \in 1..n : f[k] = step[k][f[k - 1]]
  <2> HIDE DEF n, step, Next_, lists
  <2>1. QED
    BY <1>1, <1>2, <1>5, Recursion
<1>7. f = Next_(f)
  <2>1. ASSUME NEW k \in 1..n PROVE f[k] = Replaced(f[k - 1], Renamed(defs[k]))
    <3>1. f[k - 1] \in X
      BY <1>1, <1>6
    <3>2. QED
      BY <1>6, <3>1
  <2>2. \A k \in 0..n : k = 0 \/ k \in 1..n
    BY <1>1
  <2>3. QED
    BY <1>6, <2>1, <2>2
<1>8. lists = Next_(lists)
  <2> HIDE DEF Next_, lists
  <2>1. QED
    BY <1>4, <1>7
<1>9. ASSUME NEW k \in 1..n PROVE lists[k] = Replaced(lists[k - 1], Renamed(defs[k]))
  <2>1. k \in 0..n /\ k # 0
    BY <1>1
  <2> HIDE DEF lists
  <2>2. QED
    BY <1>8, <2>1
<1>10. lists[0] = <<>>
  <2>1. 0 \in 0..n
    BY <1>1
  <2> HIDE DEF lists
  <2>2. QED
    BY <1>8, <2>1
<1>11. lists = [k \in 0..n |-> lists[k]]
  <2> HIDE DEF lists
  <2>1. QED
    BY <1>8
<1>12. lists \in [0..n -> X]
  <2>1. \A k \in 1..n : lists[k - 1] \in X => lists[k] \in X
    BY <1>3, <1>9
  <2>2. lists[0] \in X
    BY <1>2, <1>10
  <2> HIDE DEF lists, n
  <2>3. QED
    BY <1>1, <1>11, <2>1, <2>2, AllIn
<1>13. QED
  BY <1>9, <1>10, <1>12 DEF X

-----------------------------------------------------------------------------
(* All the definitions an operation of a path item may be held to, and the  *)
(* path items on the way there.                                             *)
EveryDefinition(item) == DefinitionsOf(item) \cup {Unknown(name) : name \in Range(item.placeholders)}
WithParameters(op, own) == [op EXCEPT !.parameters = own]
OperationsOf(item) ==
  {WithParameters(op, own) : op \in Range(item.operations), own \in Seq(EveryDefinition(item))}

WithLists(item, common, operations) == [item EXCEPT !.common = common, !.operations = operations]
ItemsLike(item) ==
  UNION {{WithLists(item, common, operations) : operations \in Seq(OperationsOf(item))}
           : common \in Seq(EveryDefinition(item))}

LEMMA ListIn ==
  ASSUME NEW list, IsList(list), NEW D, Range(list) \subseteq D
  PROVE  list \in Seq(D)
<1>1. list \in Seq(Range(list))
  BY DEF IsList
<1>2. Len(list) \in Nat /\ list \in [1..Len(list) -> Range(list)]
  BY <1>1
<1>3. list \in [1..Len(list) -> D]
  BY <1>2
<1>4. QED
  BY <1>2, <1>3, SeqDef

LEMMA ItemLists ==
  ASSUME NEW item, IsItem(item)
  PROVE  /\ item.common \in Seq(EveryDefinition(item))
         /\ Len(item.operations) \in Nat /\ DOMAIN item.operations = 1..Len(item.operations)
         /\ Len(item.placeholders) \in Nat /\ item.placeholders \in Seq(Range(item.placeholders))
         /\ \A name \in Range(item.placeholders) : Unknown(name) \in EveryDefinition(item)
         /\ \A k \in DOMAIN item.operations :
              LET op == item.operations[k]
              IN /\ op \in Range(item.operations) /\ IsOperation(op)
                 /\ op.parameters \in Seq(EveryDefinition(item))
         /\ \A d \in EveryDefinition(item) : {"name", "in"} \subseteq DOMAIN d
<1>1. item.common \in Seq(EveryDefinition(item))
  <2>1. Range(item.common) \subseteq EveryDefinition(item)
    BY DEF EveryDefinition, DefinitionsOf
  <2>2. QED
    BY <2>1, ListIn DEF IsItem
<1>2. Len(item.operations) \in Nat /\ DOMAIN item.operations = 1..Len(item.operations)
  BY DEF IsItem, IsList
<1>3. Len(item.placeholders) \in Nat /\ item.placeholders \in Seq(Range(item.placeholders))
  BY DEF IsItem, IsList
<1>4. ASSUME NEW k \in DOMAIN item.operations
      PROVE  /\ item.operations[k] \in Range(item.operations)
             /\ IsOperation(item.operations[k])
             /\ item.operations[k].parameters \in Seq(EveryDefinition(item))
  <2>1. item.operations[k] \in Range(item.operations)
    BY DEF Range
  <2>2. IsOperation(item.operations[k])
    BY <2>1 DEF IsItem
  <2>3. Range(item.operations[k].parameters) \subseteq EveryDefinition(item)
    BY <2>1 DEF EveryDefinition, DefinitionsOf
  <2>4. QED
    BY <2>1, <2>2, <2>3, ListIn DEF IsOperation
<1>5. \A d \in EveryDefinition(item) : {"name", "in"} \subseteq DOMAIN d
  <2>1. \A name : {"name", "in"} \subseteq DOMAIN Unknown(name)
    BY DEF Unknown
  <2>2. \A d \in DefinitionsOf(item) : {"name", "in"} \subseteq DOMAIN d
    BY DEF IsItem
  <2>3. QED
    BY <2>1, <2>2 DEF EveryDefinition
<1>6. \A name \in Range(item.placeholders) : Unknown(name) \in EveryDefinition(item)
  BY DEF EveryDefinition
<1>7. QED
  BY <1>1, <1>2, <1>3, <1>4, <1>5, <1>6

LEMMA ListsOf ==
  ASSUME NEW item, IsItem(item), NEW c, NEW o
  PROVE  WithLists(item, c, o).common = c /\ WithLists(item, c, o).operations = o
<1>1. "common" \in DOMAIN item /\ "operations" \in DOMAIN item
  BY DEF IsItem
<1>2. QED
  BY <1>1 DEF WithLists

LEMMA Keeps ==
  ASSUME NEW item, IsItem(item), NEW c, NEW o, NEW op, NEW lists
  PROVE  KeepOperation(WithLists(item, c, o), op, lists)
           = WithLists(item, lists.common, Append(o, WithParameters(op, lists.own)))
<1>1. "common" \in DOMAIN item /\ "operations" \in DOMAIN item
  BY DEF IsItem
<1>2. QED
  BY <1>1 DEF KeepOperation, WithLists, WithParameters

LEMMA ItemOf ==
  ASSUME NEW item, NEW c \in Seq(EveryDefinition(item)), NEW o \in Seq(OperationsOf(item))
  PROVE  WithLists(item, c, o) \in ItemsLike(item)
BY DEF ItemsLike

LEMMA OperationsAre ==
  ASSUME NEW item, IsItem(item)
  PROVE  LET items == TakenOperations(item)
             n == Len(item.operations)
             Lists(k) == TakenParameters(items[k - 1].common, item.operations[k].parameters)
                           [Len(item.operations[k].parameters)]
         IN /\ items[0].common = item.common /\ items[0].operations = <<>>
            /\ \A k \in 0..n : items[k] = WithLists(item, items[k].common, items[k].operations)
            /\ \A k \in 0..n : items[k].common \in Seq(EveryDefinition(item)) /\ items[k].operations \in Seq(OperationsOf(item))
            /\ \A k \in 1..n :
                 /\ items[k].common = Lists(k).common
                 /\ items[k].operations =
                      Append(items[k - 1].operations, WithParameters(item.operations[k], Lists(k).own))
<1> DEFINE n == Len(item.operations)
           D == EveryDefinition(item)
           X == ItemsLike(item)
           base == [item EXCEPT !.operations = <<>>]
           Next_(g) == [k \in 0..n |-> IF k = 0 THEN base ELSE TakeOperation(g[k - 1], item.operations[k])]
           step == [k \in 1..n |-> [x \in X |-> TakeOperation(x, item.operations[k])]]
           items == TakenOperations(item)
           Lists(c, k) == TakenParameters(c, item.operations[k].parameters)[Len(item.operations[k].parameters)]
           Op(c, k) == WithParameters(item.operations[k], Lists(c, k).own)
<1>1. n \in Nat
  BY ItemLists
<1>2. base = WithLists(item, item.common, <<>>) /\ base \in X
  <2>1. base = WithLists(item, item.common, <<>>)
    BY DEF WithLists, IsItem
  <2>2. item.common \in Seq(D) /\ <<>> \in Seq(OperationsOf(item))
    BY ItemLists
  <2>3. WithLists(item, item.common, <<>>) \in X
    BY <2>2, ItemOf
  <2> HIDE DEF base, X
  <2>4. QED
    BY <2>1, <2>3
<1>3. ASSUME NEW k \in 1..n, NEW c \in Seq(D), NEW o \in Seq(OperationsOf(item))
      PROVE  /\ TakeOperation(WithLists(item, c, o), item.operations[k])
                  = WithLists(item, Lists(c, k).common, Append(o, Op(c, k)))
             /\ Lists(c, k).common \in Seq(D) /\ Append(o, Op(c, k)) \in Seq(OperationsOf(item))
  <2> DEFINE written == item.operations[k].parameters
  <2>1. written \in Seq(D) /\ item.operations[k] \in Range(item.operations)
    BY ItemLists
  <2>2. TakenParameters(c, written) \in [0..Len(written) -> Sorted(D)]
    <3> HIDE DEF D, written
    <3>1. QED
      BY <2>1, TakenIs
  <2>3. Lists(c, k) \in Sorted(D)
    <3>1. Len(written) \in 0..Len(written)
      BY <2>1
    <3>2. QED
      BY <2>2, <3>1
  <2>4. Lists(c, k).common \in Seq(D) /\ Lists(c, k).own \in Seq(D)
    <3> HIDE DEF Lists
    <3>1. QED
      BY <2>3 DEF Sorted
  <2>5. Op(c, k) \in OperationsOf(item)
    <3> HIDE DEF Lists
    <3>1. QED
      BY <2>1, <2>4 DEF OperationsOf
  <2>6. Append(o, Op(c, k)) \in Seq(OperationsOf(item))
    <3> HIDE DEF Op
    <3>1. QED
      BY <2>5
  <2>7. TakeOperation(WithLists(item, c, o), item.operations[k])
          = KeepOperation(WithLists(item, c, o), item.operations[k], Lists(c, k))
    <3>1. WithLists(item, c, o).common = c
      BY ListsOf
    <3>2. QED
      BY <3>1 DEF TakeOperation
  <2> HIDE DEF Lists
  <2>8. KeepOperation(WithLists(item, c, o), item.operations[k], Lists(c, k))
          = WithLists(item, Lists(c, k).common, Append(o, Op(c, k)))
    BY Keeps
  <2> HIDE DEF Op
  <2>9. QED
    BY <2>4, <2>6, <2>7, <2>8
<1> HIDE DEF Lists, Op
<1>4. ASSUME NEW k \in 1..n, NEW x \in X PROVE TakeOperation(x, item.operations[k]) \in X
  <2>1. PICK c \in Seq(D), o \in Seq(OperationsOf(item)) : x = WithLists(item, c, o)
    BY DEF ItemsLike
  <2>2. /\ TakeOperation(x, item.operations[k]) = WithLists(item, Lists(c, k).common, Append(o, Op(c, k)))
        /\ Lists(c, k).common \in Seq(D) /\ Append(o, Op(c, k)) \in Seq(OperationsOf(item))
    BY <1>3, <2>1
  <2>3. QED
    BY <2>2, ItemOf
<1>5. items = CHOOSE g : g = Next_(g)
  BY DEF TakenOperations
<1>6. StepsIn(n, X, step)
  <2> HIDE DEF X, n
  <2>1. QED
    BY <1>4 DEF StepsIn
<1> HIDE DEF X, base
<1>7. PICK f \in [0..n -> X] : f[0] = base /\ \A k \in 1..n : f[k] = step[k][f[k - 1]]
  <2>1. n \in Nat /\ base \in X /\ StepsIn(n, X, step)
    BY <1>1, <1>2, <1>6
  <2> HIDE DEF n, step, Next_, items
  <2>2. \E g \in [0..n -> X] : g[0] = base /\ \A k \in 1..n : g[k] = step[k][g[k - 1]]
    BY <2>1, Recursion
  <2>3. QED
    BY <2>2
<1>8. f = Next_(f)
  <2>1. ASSUME NEW k \in 1..n PROVE f[k] = TakeOperation(f[k - 1], item.operations[k])
    <3>1. f[k - 1] \in X
      BY <1>1, <1>7
    <3>2. QED
      BY <1>7, <3>1
  <2>2. \A k \in 0..n : k = 0 \/ k \in 1..n
    BY <1>1
  <2>3. QED
    BY <1>7, <2>1, <2>2
<1>9. items = Next_(items)
  <2> HIDE DEF Next_, items
  <2>1. QED
    BY <1>5, <1>8
<1>10. ASSUME NEW k \in 1..n PROVE items[k] = TakeOperation(items[k - 1], item.operations[k])
  <2>1. k \in 0..n /\ k # 0
    BY <1>1
  <2> HIDE DEF items
  <2>2. QED
    BY <1>9, <2>1
<1>11. items[0] = base
  <2>1. 0 \in 0..n
    BY <1>1
  <2> HIDE DEF items
  <2>2. QED
    BY <1>9, <2>1
<1>12. items = [k \in 0..n |-> items[k]]
  <2> HIDE DEF items
  <2>1. QED
    BY <1>9
<1>13. items \in [0..n -> X]
  <2>1. \A k \in 1..n : items[k - 1] \in X => items[k] \in X
    BY <1>4, <1>10
  <2>2. items[0] \in X
    BY <1>2, <1>11
  <2> HIDE DEF items, n
  <2>3. QED
    BY <1>1, <1>12, <2>1, <2>2, AllIn
<1>14. ASSUME NEW k \in 0..n
       PROVE  /\ items[k] = WithLists(item, items[k].common, items[k].operations)
              /\ items[k].common \in Seq(D) /\ items[k].operations \in Seq(OperationsOf(item))
  <2>1. items[k] \in X
    BY <1>13
  <2>2. PICK c \in Seq(D), o \in Seq(OperationsOf(item)) : items[k] = WithLists(item, c, o)
    BY <2>1 DEF ItemsLike, X
  <2> HIDE DEF items
  <2>3. items[k].common = c /\ items[k].operations = o
    BY <2>2, ListsOf
  <2>4. QED
    BY <2>2, <2>3
<1>15. ASSUME NEW k \in 1..n
       PROVE  /\ items[k].common = Lists(items[k - 1].common, k).common
              /\ items[k].operations = Append(items[k - 1].operations, Op(items[k - 1].common, k))
  <2>1. k - 1 \in 0..n
    BY <1>1
  <2> HIDE DEF items
  <2>2. items[k] = WithLists(item, Lists(items[k - 1].common, k).common,
                             Append(items[k - 1].operations, Op(items[k - 1].common, k)))
    BY <1>3, <1>10, <1>14, <2>1
  <2> DEFINE c == Lists(items[k - 1].common, k).common
             o == Append(items[k - 1].operations, Op(items[k - 1].common, k))
  <2>3. items[k] = WithLists(item, c, o)
    BY <2>2
  <2> HIDE DEF c, o
  <2>4. items[k].common = c /\ items[k].operations = o
    BY <2>3, ListsOf
  <2>5. QED
    BY <2>4 DEF c, o
<1>16. items[0].common = item.common /\ items[0].operations = <<>>
  <2> HIDE DEF items
  <2>1. QED
    BY <1>2, <1>11, ListsOf
<1>17. QED
  BY <1>14, <1>15, <1>16 DEF Lists, Op

-----------------------------------------------------------------------------
(* What declares a parameter has its key; in the path, the other way too.   *)
LEMMA DeclaredKey ==
  ASSUME NEW defs, NEW d, Declares(defs, d.name, d.in)
  PROVE  Key(d) \in Keys(defs)
<1>1. PICK i \in DOMAIN defs : defs[i].name = d.name /\ defs[i].in = d.in
  BY DEF Declares
<1>2. Key(defs[i]) = Key(d)
  BY <1>1 DEF Key, CanonicalName
<1>3. QED
  BY <1>2, KeysAre

LEMMA UndeclaredKey ==
  ASSUME NEW defs, NEW d, d.in = "path", ~Declares(defs, d.name, d.in)
  PROVE  Key(d) \notin Keys(defs)
<1>1. SUFFICES ASSUME NEW i \in DOMAIN defs, Key(defs[i]) = Key(d) PROVE FALSE
  BY KeysAre
<1>2. defs[i].in = d.in /\ CanonicalName(defs[i]) = CanonicalName(d)
  BY <1>1 DEF Key
<1>3. defs[i].name = d.name
  BY <1>2 DEF CanonicalName
<1>4. QED
  BY <1>2, <1>3 DEF Declares

LEMMA KeyPlace ==
  ASSUME NEW d
  PROVE  Key(d)[1] = CanonicalName(d) /\ Key(d)[2] = d.in /\ Key(d) = <<CanonicalName(d), d.in>>
BY DEF Key

(* The first k parameters of an operation, sorted into two lists.           *)
TakenTo(common, written, lists, k) ==
  /\ Keys(lists.common) = Keys(common) \cup {Key(written[j]) : j \in {i \in 1..k : written[i].in = "path"}}
  /\ \A key \in Keys(lists.own) : key[2] # "path" /\ \E j \in 1..k : Key(written[j]) = key
  /\ \A key, d : IsLast(common, key, d) => IsLast(lists.common, key, d)
  /\ \A j \in 1..k :
       /\ written[j].in = "path" /\ Key(written[j]) \notin Keys(common)
       /\ \A i \in 1..(j - 1) : Key(written[i]) # Key(written[j])
       => IsLast(lists.common, Key(written[j]), written[j])
  /\ \A j \in 1..k :
       /\ written[j].in # "path" /\ Key(written[j]) \notin Keys(common)
       /\ \A i \in (j + 1)..k : Key(written[i]) # Key(written[j])
       => IsLast(lists.own, Key(written[j]), written[j])

LEMMA TakenStep ==
  ASSUME NEW D, NEW common \in Seq(D), NEW written \in Seq(D), NEW k \in 1..Len(written),
         NEW lists \in Sorted(D), TakenTo(common, written, lists, k - 1)
  PROVE  TakenTo(common, written, TakeParameter(lists, written[k]), k)
<1> DEFINE d == written[k]
           new == TakeParameter(lists, d)
           C == lists.common
           O == lists.own
<1>1. d \in D /\ k \in Nat /\ k - 1 \in Nat /\ k \in 1..k /\ \A j \in 1..k : j = k \/ j \in 1..(k - 1)
  OBVIOUS
<1>2. C \in Seq(D) /\ O \in Seq(D) /\ lists = [common |-> C, own |-> O]
  BY DEF Sorted
<1>3. \A j \in 1..(k - 1) : j \in 1..k /\ k \in (j + 1)..k /\ \A i \in (j + 1)..(k - 1) : i \in (j + 1)..k
  BY <1>1
<1>4. /\ Keys(C) = Keys(common) \cup {Key(written[j]) : j \in {i \in 1..(k - 1) : written[i].in = "path"}}
      /\ \A key \in Keys(O) : key[2] # "path" /\ \E j \in 1..(k - 1) : Key(written[j]) = key
      /\ \A key, e : IsLast(common, key, e) => IsLast(C, key, e)
      /\ \A j \in 1..(k - 1) :
           /\ written[j].in = "path" /\ Key(written[j]) \notin Keys(common)
           /\ \A i \in 1..(j - 1) : Key(written[i]) # Key(written[j])
           => IsLast(C, Key(written[j]), written[j])
      /\ \A j \in 1..(k - 1) :
           /\ written[j].in # "path" /\ Key(written[j]) \notin Keys(common)
           /\ \A i \in (j + 1)..(k - 1) : Key(written[i]) # Key(written[j])
           => IsLast(O, Key(written[j]), written[j])
  BY DEF TakenTo
<1>5. Key(d)[2] = d.in /\ \A j \in 1..k : Key(written[j])[2] = written[j].in
  BY KeyPlace
<1>6. \A key, e : IsLast(common, key, e) => key \in Keys(common)
  BY KeysAre DEF IsLast
<1>7. CASE Declares(C, d.name, d.in)
  <2>1. new = lists
    BY <1>1, <1>7, TakeOne
  <2>2. Key(d) \in Keys(C)
    BY <1>7, DeclaredKey
  <2> HIDE DEF d, new, C, O
  <2>3. Key(written[k]) = Key(d) /\ written[k] = d
    BY DEF d
  <2>4. Keys(C) = Keys(common) \cup {Key(written[j]) : j \in {i \in 1..k : written[i].in = "path"}}
    BY <1>1, <1>3, <1>4, <2>2, <2>3
  <2>5. \A key \in Keys(O) : key[2] # "path" /\ \E j \in 1..k : Key(written[j]) = key
    BY <1>3, <1>4
  <2>6. ASSUME NEW j \in 1..k, written[j].in = "path", Key(written[j]) \notin Keys(common),
               \A i \in 1..(j - 1) : Key(written[i]) # Key(written[j])
        PROVE  IsLast(C, Key(written[j]), written[j])
    <3>1. j # k
      BY <1>4, <2>2, <2>3, <2>6
    <3>2. QED
      BY <1>1, <1>4, <2>6, <3>1
  <2>7. ASSUME NEW j \in 1..k, written[j].in # "path", Key(written[j]) \notin Keys(common),
               \A i \in (j + 1)..k : Key(written[i]) # Key(written[j])
        PROVE  IsLast(O, Key(written[j]), written[j])
    <3>1. j # k
      <4>1. SUFFICES ASSUME j = k PROVE FALSE
        OBVIOUS
      <4>2. PICK i \in 1..(k - 1) : written[i].in = "path" /\ Key(written[i]) = Key(d)
        BY <1>4, <2>2, <2>3, <2>7, <4>1
      <4>3. QED
        BY <1>3, <1>5, <2>3, <2>7, <4>1, <4>2
    <3>2. \A i \in (j + 1)..(k - 1) : Key(written[i]) # Key(written[j])
      BY <1>1, <1>3, <2>7, <3>1
    <3>3. QED
      BY <1>1, <1>4, <2>7, <3>1, <3>2
  <2>8. TakenTo(common, written, lists, k)
    BY <1>4, <2>4, <2>5, <2>6, <2>7 DEF TakenTo, C, O
  <2>9. QED
    BY <2>1, <2>8 DEF new, d
<1>8. CASE ~Declares(C, d.name, d.in) /\ d.in = "path"
  <2> DEFINE A == Append(C, d)
  <2>1. new = [common |-> A, own |-> O]
    BY <1>1, <1>8, TakeOne
  <2>2. Key(d) \notin Keys(C)
    BY <1>8, UndeclaredKey
  <2>3. /\ Keys(A) = Keys(C) \cup {Key(d)}
        /\ IsLast(A, Key(d), d)
        /\ \A key, e : key # Key(d) /\ IsLast(C, key, e) => IsLast(A, key, e)
    <3> HIDE DEF C, d
    <3>1. QED
      BY <1>2, Appended
  <2>4. new.common = A /\ new.own = O
    BY <2>1
  <2> HIDE DEF d, new, C, O, A
  <2>5. Key(written[k]) = Key(d) /\ written[k] = d
    BY DEF d
  <2>6. Keys(A) = Keys(common) \cup {Key(written[j]) : j \in {i \in 1..k : written[i].in = "path"}}
    BY <1>1, <1>3, <1>4, <1>8, <2>3, <2>5
  <2>7. \A key \in Keys(O) : key[2] # "path" /\ \E j \in 1..k : Key(written[j]) = key
    BY <1>3, <1>4
  <2>8. \A key, e : IsLast(common, key, e) => IsLast(A, key, e)
    BY <1>4, <1>6, <2>2, <2>3
  <2>9. ASSUME NEW j \in 1..k, written[j].in = "path", Key(written[j]) \notin Keys(common),
               \A i \in 1..(j - 1) : Key(written[i]) # Key(written[j])
        PROVE  IsLast(A, Key(written[j]), written[j])
    <3>1. CASE j = k
      BY <2>3, <2>5, <3>1
    <3>2. CASE j # k
      <4>1. j \in 1..(k - 1)
        BY <1>1, <3>2
      <4>2. Key(written[j]) # Key(d)
        BY <1>4, <2>2, <2>9, <4>1
      <4>3. QED
        BY <1>4, <2>3, <2>9, <4>1, <4>2
    <3>3. QED
      BY <3>1, <3>2
  <2>10. ASSUME NEW j \in 1..k, written[j].in # "path", Key(written[j]) \notin Keys(common),
                \A i \in (j + 1)..k : Key(written[i]) # Key(written[j])
         PROVE  IsLast(O, Key(written[j]), written[j])
    <3>1. j # k
      BY <1>8, <2>5, <2>10
    <3>2. \A i \in (j + 1)..(k - 1) : Key(written[i]) # Key(written[j])
      BY <1>1, <1>3, <2>10, <3>1
    <3>3. QED
      BY <1>1, <1>4, <2>10, <3>1, <3>2
  <2>11. TakenTo(common, written, new, k)
    BY <2>4, <2>6, <2>7, <2>8, <2>9, <2>10 DEF TakenTo
  <2>12. QED
    BY <2>11 DEF new, d
<1>9. CASE ~Declares(C, d.name, d.in) /\ d.in # "path"
  <2> DEFINE A == Append(O, d)
  <2>1. new = [common |-> C, own |-> A]
    BY <1>1, <1>9, TakeOne
  <2>2. /\ Keys(A) = Keys(O) \cup {Key(d)}
        /\ IsLast(A, Key(d), d)
        /\ \A key, e : key # Key(d) /\ IsLast(O, key, e) => IsLast(A, key, e)
    <3> HIDE DEF O, d
    <3>1. QED
      BY <1>2, Appended
  <2>3. new.common = C /\ new.own = A
    BY <2>1
  <2> HIDE DEF d, new, C, O, A
  <2>4. Key(written[k]) = Key(d) /\ written[k] = d
    BY DEF d
  <2>5. Keys(C) = Keys(common) \cup {Key(written[j]) : j \in {i \in 1..k : written[i].in = "path"}}
    BY <1>1, <1>3, <1>4, <1>9, <2>4
  <2>6. \A key \in Keys(A) : key[2] # "path" /\ \E j \in 1..k : Key(written[j]) = key
    BY <1>1, <1>3, <1>4, <1>5, <1>9, <2>2, <2>4
  <2>7. ASSUME NEW j \in 1..k, written[j].in = "path", Key(written[j]) \notin Keys(common),
               \A i \in 1..(j - 1) : Key(written[i]) # Key(written[j])
        PROVE  IsLast(C, Key(written[j]), written[j])
    <3>1. j # k
      BY <1>9, <2>4, <2>7
    <3>2. QED
      BY <1>1, <1>4, <2>7, <3>1
  <2>8. ASSUME NEW j \in 1..k, written[j].in # "path", Key(written[j]) \notin Keys(common),
               \A i \in (j + 1)..k : Key(written[i]) # Key(written[j])
        PROVE  IsLast(A, Key(written[j]), written[j])
    <3>1. CASE j = k
      BY <2>2, <2>4, <3>1
    <3>2. CASE j # k
      <4>1. j \in 1..(k - 1)
        BY <1>1, <3>2
      <4>2. Key(written[j]) # Key(d)
        BY <1>3, <2>4, <2>8, <4>1
      <4>3. \A i \in (j + 1)..(k - 1) : Key(written[i]) # Key(written[j])
        BY <1>3, <2>8, <4>1
      <4>4. QED
        BY <1>4, <2>2, <2>8, <4>1, <4>2, <4>3
    <3>3. QED
      BY <3>1, <3>2
  <2>9. TakenTo(common, written, new, k)
    BY <1>4, <2>3, <2>5, <2>6, <2>7, <2>8 DEF TakenTo
  <2>10. QED
    BY <2>9 DEF new, d
<1>10. QED
  BY <1>7, <1>8, <1>9

LEMMA ParametersTaken ==
  ASSUME NEW D, NEW common \in Seq(D), NEW written \in Seq(D)
  PROVE  LET lists == TakenParameters(common, written)[Len(written)]
         IN /\ lists \in Sorted(D)
            /\ Keys(lists.common) = Keys(common) \cup {key \in Keys(written) : key[2] = "path"}
            /\ \A key \in Keys(lists.own) : key[2] # "path" /\ key \in Keys(written)
            /\ \A key, d : IsLast(common, key, d) => IsLast(lists.common, key, d)
            /\ \A key, d : key[2] = "path" /\ key \notin Keys(common) /\ IsFirst(written, key, d)
                             => IsLast(lists.common, key, d)
            /\ \A key, d : key[2] # "path" /\ key \notin Keys(common) /\ IsLast(written, key, d)
                             => IsLast(lists.own, key, d)
<1> DEFINE all == TakenParameters(common, written)
           n == Len(written)
           T == {k \in 0..n : TakenTo(common, written, all[k], k)}
<1>1. n \in Nat /\ n \in 0..n /\ DOMAIN written = 1..n
  OBVIOUS
<1>2. /\ all \in [0..n -> Sorted(D)]
      /\ all[0] = [common |-> common, own |-> <<>>]
      /\ \A k \in 1..n : all[k] = TakeParameter(all[k - 1], written[k])
  BY TakenIs
<1> HIDE DEF all
<1>3. 0 \in T
  <2>1. all[0].common = common /\ all[0].own = <<>>
    BY <1>2
  <2>2. Keys(<<>>) = {}
    BY KeysAre
  <2>3. \A j : j \notin 1..0
    OBVIOUS
  <2>4. TakenTo(common, written, all[0], 0)
    BY <2>1, <2>2, <2>3 DEF TakenTo
  <2>5. 0 \in 0..n
    BY <1>1
  <2>6. QED
    BY <2>4, <2>5
<1>4. ASSUME NEW k \in 1..n, k - 1 \in T PROVE k \in T
  <2>1. all[k - 1] \in Sorted(D) /\ k \in 0..n
    BY <1>1, <1>2, <1>4
  <2>2. TakenTo(common, written, all[k - 1], k - 1)
    BY <1>4
  <2>3. TakenTo(common, written, TakeParameter(all[k - 1], written[k]), k)
    BY <2>1, <2>2, TakenStep
  <2>4. QED
    BY <1>2, <2>1, <2>3
<1>5. n \in T
  <2> HIDE DEF T, n
  <2>1. QED
    BY <1>1, <1>3, <1>4, UpTo
<1> DEFINE lists == all[n]
<1>6. TakenTo(common, written, lists, n) /\ lists \in Sorted(D)
  BY <1>1, <1>2, <1>5
<1>7. Keys(written) = {Key(written[j]) : j \in 1..n} /\ \A j \in 1..n : Key(written[j])[2] = written[j].in
  BY <1>1, KeysAre, KeyPlace
<1> HIDE DEF lists, n, T
<1>8. Keys(lists.common) = Keys(common) \cup {key \in Keys(written) : key[2] = "path"}
  <2>1. Keys(lists.common) = Keys(common) \cup {Key(written[j]) : j \in {i \in 1..n : written[i].in = "path"}}
    BY <1>6 DEF TakenTo
  <2>2. {Key(written[j]) : j \in {i \in 1..n : written[i].in = "path"}} = {key \in Keys(written) : key[2] = "path"}
    BY <1>7
  <2>3. QED
    BY <2>1, <2>2
<1>9. \A key \in Keys(lists.own) : key[2] # "path" /\ key \in Keys(written)
  BY <1>6, <1>7 DEF TakenTo
<1>10. \A key, d : IsLast(common, key, d) => IsLast(lists.common, key, d)
  BY <1>6 DEF TakenTo
<1>11. ASSUME NEW key, NEW d, key[2] = "path", key \notin Keys(common), IsFirst(written, key, d)
       PROVE  IsLast(lists.common, key, d)
  <2>1. PICK i \in 1..n : written[i] = d /\ Key(d) = key /\ \A j \in 1..n : Key(written[j]) = key => i <= j
    BY <1>1, <1>11 DEF IsFirst
  <2>2. \A j \in 1..(i - 1) : j \in 1..n /\ ~(i <= j)
    BY <1>1, <2>1
  <2>3. \A j \in 1..(i - 1) : Key(written[j]) # Key(written[i])
    BY <2>1, <2>2
  <2>4. written[i].in = "path" /\ Key(written[i]) = key
    BY <1>7, <1>11, <2>1
  <2>5. QED
    BY <1>6, <1>11, <2>1, <2>3, <2>4 DEF TakenTo
<1>12. ASSUME NEW key, NEW d, key[2] # "path", key \notin Keys(common), IsLast(written, key, d)
       PROVE  IsLast(lists.own, key, d)
  <2>1. PICK i \in 1..n : written[i] = d /\ Key(d) = key /\ \A j \in 1..n : Key(written[j]) = key => j <= i
    BY <1>1, <1>12 DEF IsLast
  <2>2. \A j \in (i + 1)..n : j \in 1..n /\ ~(j <= i)
    BY <1>1, <2>1
  <2>3. \A j \in (i + 1)..n : Key(written[j]) # Key(written[i])
    BY <2>1, <2>2
  <2>4. written[i].in # "path" /\ Key(written[i]) = key
    BY <1>7, <1>12, <2>1
  <2>5. QED
    BY <1>6, <1>12, <2>1, <2>3, <2>4 DEF TakenTo
<1>13. QED
  BY <1>6, <1>8, <1>9, <1>10, <1>11, <1>12 DEF lists, n, all

-----------------------------------------------------------------------------
(* The first k operations of a path item have been gone through.            *)
Former(item, k) == UNION {Keys(item.operations[j].parameters) : j \in 1..k}

OwnOf(item, i, op) ==
  /\ op.security = item.operations[i].security
  /\ op.parameters \in Seq(EveryDefinition(item))
  /\ \A key \in Keys(op.parameters) : key[2] # "path" /\ key \in Keys(item.operations[i].parameters)
  /\ \A key, d : key[2] # "path" /\ key \notin Keys(item.common) /\ IsLast(item.operations[i].parameters, key, d)
                   => IsLast(op.parameters, key, d)

PassedTo(item, now, k) ==
  /\ now.common \in Seq(EveryDefinition(item))
  /\ Keys(now.common) = Keys(item.common) \cup {key \in Former(item, k) : key[2] = "path"}
  /\ \A key, d : IsLast(item.common, key, d) => IsLast(now.common, key, d)
  /\ \A j \in 1..k : \A key, d :
       /\ key[2] = "path" /\ key \notin Keys(item.common) /\ key \notin Former(item, j - 1)
       /\ IsFirst(item.operations[j].parameters, key, d)
       => IsLast(now.common, key, d)
  /\ now.operations \in Seq(OperationsOf(item)) /\ Len(now.operations) = k
  /\ \A j \in 1..k : OwnOf(item, j, now.operations[j])

LEMMA PassedStep ==
  ASSUME NEW item, IsItem(item), NEW k \in 1..Len(item.operations), NEW now, PassedTo(item, now, k - 1),
         NEW then, then.operations \in Seq(OperationsOf(item)),
         LET op == item.operations[k]
             lists == TakenParameters(now.common, op.parameters)[Len(op.parameters)]
         IN then.common = lists.common
              /\ then.operations = Append(now.operations, WithParameters(op, lists.own))
  PROVE  PassedTo(item, then, k)
<1> DEFINE D == EveryDefinition(item)
           op == item.operations[k]
           written == op.parameters
           lists == TakenParameters(now.common, written)[Len(written)]
           new == WithParameters(op, lists.own)
<1>1. k \in Nat /\ k - 1 \in Nat /\ k \in 1..k /\ \A j \in 1..k : j = k \/ j \in 1..(k - 1)
  BY ItemLists
<1>2. k \in DOMAIN item.operations /\ IsOperation(op) /\ written \in Seq(D)
  BY ItemLists
<1>3. then.common = lists.common /\ then.operations = Append(now.operations, new)
  OBVIOUS
<1>4. now.common \in Seq(D)
  BY DEF PassedTo
<1>5. /\ lists \in Sorted(D)
      /\ Keys(lists.common) = Keys(now.common) \cup {key \in Keys(written) : key[2] = "path"}
      /\ \A key \in Keys(lists.own) : key[2] # "path" /\ key \in Keys(written)
      /\ \A key, d : IsLast(now.common, key, d) => IsLast(lists.common, key, d)
      /\ \A key, d : key[2] = "path" /\ key \notin Keys(now.common) /\ IsFirst(written, key, d)
                       => IsLast(lists.common, key, d)
      /\ \A key, d : key[2] # "path" /\ key \notin Keys(now.common) /\ IsLast(written, key, d)
                       => IsLast(lists.own, key, d)
  <2> HIDE DEF written, D
  <2>1. QED
    BY <1>2, <1>4, ParametersTaken
<1>6. new.parameters = lists.own /\ new.security = op.security
  <2>1. {"parameters", "security"} \subseteq DOMAIN op
    BY <1>2 DEF IsOperation
  <2> HIDE DEF lists, op
  <2>2. QED
    BY <2>1 DEF WithParameters
<1> HIDE DEF lists, new
<1>7. lists.common \in Seq(D) /\ lists.own \in Seq(D)
  BY <1>5 DEF Sorted
<1>8. Former(item, k) = Former(item, k - 1) \cup Keys(written)
  BY <1>1 DEF Former
<1>9. /\ Keys(now.common) = Keys(item.common) \cup {key \in Former(item, k - 1) : key[2] = "path"}
      /\ \A key, d : IsLast(item.common, key, d) => IsLast(now.common, key, d)
      /\ \A j \in 1..(k - 1) : \A key, d :
           /\ key[2] = "path" /\ key \notin Keys(item.common) /\ key \notin Former(item, j - 1)
           /\ IsFirst(item.operations[j].parameters, key, d)
           => IsLast(now.common, key, d)
      /\ now.operations \in Seq(OperationsOf(item)) /\ Len(now.operations) = k - 1
      /\ \A j \in 1..(k - 1) : OwnOf(item, j, now.operations[j])
  BY DEF PassedTo
<1> HIDE DEF written, D
<1>10. Keys(lists.common) = Keys(item.common) \cup {key \in Former(item, k) : key[2] = "path"}
  BY <1>5, <1>8, <1>9
<1>11. \A key, d : IsLast(item.common, key, d) => IsLast(lists.common, key, d)
  BY <1>5, <1>9
<1>12. ASSUME NEW j \in 1..k, NEW key, NEW d,
              key[2] = "path", key \notin Keys(item.common), key \notin Former(item, j - 1),
              IsFirst(item.operations[j].parameters, key, d)
       PROVE  IsLast(lists.common, key, d)
  <2>1. CASE j = k
    <3>1. key \notin Keys(now.common) /\ IsFirst(written, key, d)
      BY <1>9, <1>12, <2>1 DEF written
    <3>2. QED
      BY <1>5, <1>12, <3>1
  <2>2. CASE j # k
    BY <1>1, <1>5, <1>9, <1>12, <2>2
  <2>3. QED
    BY <2>1, <2>2
<1>13. OwnOf(item, k, new)
  <2>1. \A key, d : key[2] # "path" /\ key \notin Keys(item.common) => key \notin Keys(now.common)
    BY <1>9
  <2>2. QED
    BY <1>5, <1>6, <1>7, <2>1 DEF OwnOf, written, D
<1>14. Len(then.operations) = k /\ then.operations[k] = new
       /\ \A j \in 1..(k - 1) : then.operations[j] = now.operations[j]
  BY <1>1, <1>3, <1>9
<1>15. \A j \in 1..k : OwnOf(item, j, then.operations[j])
  BY <1>1, <1>9, <1>13, <1>14
<1>16. QED
  BY <1>3, <1>7, <1>10, <1>11, <1>12, <1>14, <1>15 DEF PassedTo, D

LEMMA OperationsPassed ==
  ASSUME NEW item, IsItem(item)
  PROVE  LET n == Len(item.operations)
             last == TakenOperations(item)[n]
         IN /\ PassedTo(item, last, n)
            /\ last = WithLists(item, last.common, last.operations)
<1> DEFINE n == Len(item.operations)
           items == TakenOperations(item)
           T == {k \in 0..n : PassedTo(item, items[k], k)}
           Lists(k) == TakenParameters(items[k - 1].common, item.operations[k].parameters)
                         [Len(item.operations[k].parameters)]
<1>1. n \in Nat /\ n \in 0..n
  BY ItemLists
<1>2. /\ items[0].common = item.common /\ items[0].operations = <<>>
      /\ \A k \in 0..n : items[k] = WithLists(item, items[k].common, items[k].operations)
      /\ \A k \in 0..n : items[k].common \in Seq(EveryDefinition(item)) /\ items[k].operations \in Seq(OperationsOf(item))
      /\ \A k \in 1..n :
           /\ items[k].common = Lists(k).common
           /\ items[k].operations =
                Append(items[k - 1].operations, WithParameters(item.operations[k], Lists(k).own))
  BY OperationsAre
<1> HIDE DEF items
<1>3. 0 \in T
  <2>1. Former(item, 0) = {} /\ 0 \in 0..n /\ \A j : j \notin 1..0
    BY <1>1 DEF Former
  <2>2. items[0].common \in Seq(EveryDefinition(item)) /\ items[0].operations \in Seq(OperationsOf(item))
    BY <1>2, <2>1
  <2>3. Len(items[0].operations) = 0
    BY <1>2
  <2>4. PassedTo(item, items[0], 0)
    BY <1>2, <2>1, <2>2, <2>3 DEF PassedTo
  <2>5. QED
    BY <2>1, <2>4
<1>4. ASSUME NEW k \in 1..n, k - 1 \in T PROVE k \in T
  <2>1. PassedTo(item, items[k - 1], k - 1) /\ k \in 0..n
    BY <1>1, <1>4
  <2>2. items[k].operations \in Seq(OperationsOf(item))
    BY <1>2, <2>1
  <2>3. PassedTo(item, items[k], k)
    BY <1>2, <2>1, <2>2, PassedStep
  <2>4. QED
    BY <2>1, <2>3
<1>5. n \in T
  <2> HIDE DEF T, n
  <2>1. QED
    BY <1>1, <1>3, <1>4, UpTo
<1>6. QED
  BY <1>1, <1>2, <1>5 DEF items

(* The placeholders nobody declares. *)
PlaceKey(name) == <<name, "path">>

LEMMA PlaceholdersTaken ==
  ASSUME NEW D, NEW common \in Seq(D), NEW N, NEW keys \in Seq(N), \A key \in N : Unknown(key) \in D
  PROVE  LET all == TakenPlaceholders(common, keys)[Len(keys)]
         IN /\ all \in Seq(D)
            /\ Keys(all) = Keys(common) \cup {PlaceKey(name) : name \in Range(keys)}
            /\ \A key, d : IsLast(common, key, d) => IsLast(all, key, d)
            /\ \A name \in Range(keys) : PlaceKey(name) \notin Keys(common)
                                          => IsLast(all, PlaceKey(name), Unknown(name))
<1> DEFINE n == Len(keys)
           commons == TakenPlaceholders(common, keys)
           Holds(k) == /\ Keys(commons[k]) = Keys(common) \cup {PlaceKey(keys[j]) : j \in 1..k}
                       /\ \A key, d : IsLast(common, key, d) => IsLast(commons[k], key, d)
                       /\ \A j \in 1..k : PlaceKey(keys[j]) \notin Keys(common)
                            => IsLast(commons[k], PlaceKey(keys[j]), Unknown(keys[j]))
           T == {k \in 0..n : Holds(k)}
<1>1. n \in Nat /\ n \in 0..n /\ DOMAIN keys = 1..n
  OBVIOUS
<1>2. /\ commons \in [0..n -> Seq(D)]
      /\ commons[0] = common
      /\ \A k \in 1..n : commons[k] = TakePlaceholder(commons[k - 1], keys[k])
  BY PlaceholdersAre
<1>3. \A key, d : IsLast(common, key, d) => key \in Keys(common)
  BY KeysAre DEF IsLast
<1>4. \A name : Key(Unknown(name)) = PlaceKey(name) /\ Unknown(name).name = name /\ Unknown(name).in = "path"
  BY DEF Key, CanonicalName, Unknown, PlaceKey
<1> HIDE DEF commons, n
<1>5. 0 \in T
  <2>1. \A j : j \notin 1..0
    OBVIOUS
  <2>2. Holds(0)
    BY <1>2, <2>1
  <2>3. 0 \in 0..n
    BY <1>1
  <2> HIDE DEF Holds
  <2>4. QED
    BY <2>2, <2>3
<1>6. ASSUME NEW k \in 1..n, k - 1 \in T PROVE k \in T
  <2> DEFINE C == commons[k - 1]
             A == Append(C, Unknown(keys[k]))
  <2>1. Holds(k - 1) /\ k \in 0..n /\ k - 1 \in 0..n
    BY <1>1, <1>6
  <2>2. C \in Seq(D)
    BY <1>2, <2>1
  <2>3. k \in 1..k /\ \A j \in 1..k : j = k \/ j \in 1..(k - 1)
    BY <1>1
  <2>4. \A j \in 1..(k - 1) : j \in 1..k
    BY <1>1
  <2>5. commons[k] = TakePlaceholder(C, keys[k])
    BY <1>2
  <2>6. /\ Keys(C) = Keys(common) \cup {PlaceKey(keys[j]) : j \in 1..(k - 1)}
        /\ \A key, d : IsLast(common, key, d) => IsLast(C, key, d)
        /\ \A j \in 1..(k - 1) : PlaceKey(keys[j]) \notin Keys(common)
             => IsLast(C, PlaceKey(keys[j]), Unknown(keys[j]))
    BY <2>1
  <2> HIDE DEF C
  <2>7. CASE Declares(C, keys[k], "path")
    <3>1. commons[k] = C
      BY <2>5, <2>7 DEF TakePlaceholder
    <3>2. PlaceKey(keys[k]) \in Keys(C)
      <4>1. Declares(C, Unknown(keys[k]).name, Unknown(keys[k]).in)
        BY <1>4, <2>7
      <4>2. QED
        BY <1>4, <4>1, DeclaredKey
    <3>3. Keys(C) = Keys(common) \cup {PlaceKey(keys[j]) : j \in 1..k}
      BY <2>3, <2>4, <2>6, <3>2
    <3>4. ASSUME NEW j \in 1..k, PlaceKey(keys[j]) \notin Keys(common)
          PROVE  IsLast(C, PlaceKey(keys[j]), Unknown(keys[j]))
      <4>1. PICK i \in 1..(k - 1) : PlaceKey(keys[i]) = PlaceKey(keys[j])
        BY <2>3, <2>6, <3>2, <3>4
      <4>2. keys[i] = keys[j]
        BY <4>1 DEF PlaceKey
      <4>3. QED
        BY <2>6, <3>4, <4>1, <4>2
    <3>5. Holds(k)
      BY <2>6, <3>1, <3>3, <3>4
    <3> HIDE DEF Holds
    <3>6. QED
      BY <2>1, <3>5
  <2>8. CASE ~Declares(C, keys[k], "path")
    <3>1. commons[k] = A
      BY <2>5, <2>8 DEF TakePlaceholder
    <3>2. PlaceKey(keys[k]) \notin Keys(C)
      <4>1. ~Declares(C, Unknown(keys[k]).name, Unknown(keys[k]).in)
        BY <1>4, <2>8
      <4>2. QED
        BY <1>4, <4>1, UndeclaredKey
    <3>3. /\ Keys(A) = Keys(C) \cup {PlaceKey(keys[k])}
          /\ IsLast(A, PlaceKey(keys[k]), Unknown(keys[k]))
          /\ \A key, e : key # PlaceKey(keys[k]) /\ IsLast(C, key, e) => IsLast(A, key, e)
      <4>1. Key(Unknown(keys[k])) = PlaceKey(keys[k])
        BY <1>4
      <4>2. QED
        BY <2>2, <4>1, Appended
    <3> HIDE DEF A
    <3>4. Keys(A) = Keys(common) \cup {PlaceKey(keys[j]) : j \in 1..k}
      BY <2>3, <2>4, <2>6, <3>3
    <3>5. \A key, d : IsLast(common, key, d) => IsLast(A, key, d)
      BY <1>3, <2>6, <3>2, <3>3
    <3>6. ASSUME NEW j \in 1..k, PlaceKey(keys[j]) \notin Keys(common)
          PROVE  IsLast(A, PlaceKey(keys[j]), Unknown(keys[j]))
      <4>1. CASE j = k
        BY <3>3, <4>1
      <4>2. CASE j # k
        <5>1. j \in 1..(k - 1)
          BY <2>3, <4>2
        <5>2. PlaceKey(keys[j]) # PlaceKey(keys[k])
          BY <2>6, <3>2, <5>1
        <5>3. QED
          BY <2>6, <3>3, <3>6, <5>1, <5>2
      <4>3. QED
        BY <4>1, <4>2
    <3>7. Holds(k)
      BY <3>1, <3>4, <3>5, <3>6
    <3> HIDE DEF Holds
    <3>8. QED
      BY <2>1, <3>7
  <2>9. QED
    BY <2>7, <2>8
<1>7. n \in T
  <2> HIDE DEF T
  <2>1. QED
    BY <1>1, <1>5, <1>6, UpTo
<1>8. Holds(n) /\ commons[n] \in Seq(D)
  BY <1>1, <1>2, <1>7
<1>9. Range(keys) = {keys[j] : j \in 1..n}
  BY <1>1 DEF Range
<1>10. QED
  BY <1>8, <1>9 DEF commons, n

-----------------------------------------------------------------------------
(* The first k definitions merged: one of each key, the last of it.         *)
MergedTo(defs, list, k) ==
  /\ \A a, b \in DOMAIN list : list[a].name = list[b].name /\ list[a].in = list[b].in => a = b
  /\ \A a \in DOMAIN list : \E i \in 1..k :
       list[a] = Renamed(defs[i]) /\ \A j \in (i + 1)..k : Key(defs[j]) # Key(defs[i])
  /\ \A i \in 1..k : \E a \in DOMAIN list : list[a].name = Key(defs[i])[1] /\ list[a].in = Key(defs[i])[2]

LEMMA RenamedIs ==
  ASSUME NEW d, {"name", "in"} \subseteq DOMAIN d
  PROVE  Renamed(d).name = Key(d)[1] /\ Renamed(d).in = Key(d)[2]
BY DEF Renamed, Key

LEMMA MergedStep ==
  ASSUME NEW D, NEW defs \in Seq(D), \A d \in D : {"name", "in"} \subseteq DOMAIN d,
         NEW k \in 1..Len(defs), NEW list \in Seq({Renamed(d) : d \in D}), MergedTo(defs, list, k - 1)
  PROVE  MergedTo(defs, Replaced(list, Renamed(defs[k])), k)
<1> DEFINE R == {Renamed(d) : d \in D}
           d == Renamed(defs[k])
           new == Replaced(list, d)
<1>1. k \in Nat /\ k - 1 \in Nat /\ k \in 1..k /\ \A j \in 1..k : j = k \/ j \in 1..(k - 1)
  OBVIOUS
<1>2. \A j \in 1..(k - 1) : j \in 1..k /\ \A i \in (j + 1)..k : i = k \/ i \in (j + 1)..(k - 1)
  BY <1>1
<1>3. \A i \in (k + 1)..k : FALSE
  BY <1>1
<1>4. \A j \in 1..k : defs[j] \in D /\ Renamed(defs[j]).name = Key(defs[j])[1]
                        /\ Renamed(defs[j]).in = Key(defs[j])[2]
  <2>1. \A j \in 1..k : j \in 1..Len(defs)
    BY <1>1
  <2>2. \A j \in 1..k : defs[j] \in D
    BY <2>1
  <2>3. QED
    BY <2>2, RenamedIs
<1>5. d \in R /\ d.name = Key(defs[k])[1] /\ d.in = Key(defs[k])[2]
  BY <1>1, <1>4
<1>6. \A i, j \in 1..k : Key(defs[i])[1] = Key(defs[j])[1] /\ Key(defs[i])[2] = Key(defs[j])[2]
                           <=> Key(defs[i]) = Key(defs[j])
  BY DEF Key
<1>7. /\ ~Declares(list, d.name, d.in) => new = Append(list, d)
      /\ Declares(list, d.name, d.in) =>
           /\ DOMAIN new = DOMAIN list
           /\ \A i \in DOMAIN list :
                new[i] = IF list[i].name = d.name /\ list[i].in = d.in THEN d ELSE list[i]
  <2> HIDE DEF d
  <2>1. QED
    BY DEF Replaced
<1>8. /\ \A a, b \in DOMAIN list : list[a].name = list[b].name /\ list[a].in = list[b].in => a = b
      /\ \A a \in DOMAIN list : \E i \in 1..(k - 1) :
           list[a] = Renamed(defs[i]) /\ \A j \in (i + 1)..(k - 1) : Key(defs[j]) # Key(defs[i])
      /\ \A i \in 1..(k - 1) : \E a \in DOMAIN list :
           list[a].name = Key(defs[i])[1] /\ list[a].in = Key(defs[i])[2]
  BY DEF MergedTo
(* What is left of the list is of another key, and remains the last of it.  *)
<1>9. ASSUME NEW a \in DOMAIN list, ~(list[a].name = d.name /\ list[a].in = d.in)
      PROVE  \E i \in 1..k : list[a] = Renamed(defs[i]) /\ \A j \in (i + 1)..k : Key(defs[j]) # Key(defs[i])
  <2>1. PICK i \in 1..(k - 1) :
          list[a] = Renamed(defs[i]) /\ \A j \in (i + 1)..(k - 1) : Key(defs[j]) # Key(defs[i])
    BY <1>8
  <2>2. i \in 1..k
    BY <1>2
  <2>3. Key(defs[k]) # Key(defs[i])
    BY <1>4, <1>5, <1>9, <2>1, <2>2
  <2>4. \A j \in (i + 1)..k : Key(defs[j]) # Key(defs[i])
    BY <1>2, <2>1, <2>3
  <2>5. QED
    BY <2>1, <2>2, <2>4
<1>10. \E i \in 1..k : d = Renamed(defs[i]) /\ \A j \in (i + 1)..k : Key(defs[j]) # Key(defs[i])
  BY <1>1, <1>3
<1> HIDE DEF d, new
<1>11. CASE Declares(list, d.name, d.in)
  <2>1. /\ DOMAIN new = DOMAIN list
        /\ \A i \in DOMAIN list : new[i] = IF list[i].name = d.name /\ list[i].in = d.in THEN d ELSE list[i]
    BY <1>7, <1>11
  <2>2. \A i \in DOMAIN list : new[i].name = list[i].name /\ new[i].in = list[i].in
    BY <2>1
  <2>3. \A a, b \in DOMAIN new : new[a].name = new[b].name /\ new[a].in = new[b].in => a = b
    BY <1>8, <2>1, <2>2
  <2>4. ASSUME NEW a \in DOMAIN new
        PROVE  \E i \in 1..k : new[a] = Renamed(defs[i]) /\ \A j \in (i + 1)..k : Key(defs[j]) # Key(defs[i])
    BY <1>9, <1>10, <2>1
  <2>5. PICK b \in DOMAIN list : list[b].name = d.name /\ list[b].in = d.in
    BY <1>11 DEF Declares
  <2>6. ASSUME NEW i \in 1..k
        PROVE  \E a \in DOMAIN new : new[a].name = Key(defs[i])[1] /\ new[a].in = Key(defs[i])[2]
    <3>1. CASE i = k
      <4>1. b \in DOMAIN new /\ new[b].name = d.name /\ new[b].in = d.in
        BY <2>1, <2>2, <2>5
      <4>2. d.name = Key(defs[i])[1] /\ d.in = Key(defs[i])[2]
        BY <1>5, <3>1
      <4>3. QED
        BY <4>1, <4>2
    <3>2. CASE i # k
      <4>1. PICK a \in DOMAIN list : list[a].name = Key(defs[i])[1] /\ list[a].in = Key(defs[i])[2]
        BY <1>1, <1>8, <3>2
      <4>2. a \in DOMAIN new /\ new[a].name = list[a].name /\ new[a].in = list[a].in
        BY <2>1, <2>2
      <4>3. QED
        BY <4>1, <4>2
    <3>3. QED
      BY <3>1, <3>2
  <2>7. MergedTo(defs, new, k)
    BY <2>3, <2>4, <2>6 DEF MergedTo
  <2>8. QED
    BY <2>7 DEF new, d
<1>12. CASE ~Declares(list, d.name, d.in)
  <2> DEFINE n == Len(list)
  <2>1. new = Append(list, d)
    BY <1>7, <1>12
  <2>2. n \in Nat /\ DOMAIN list = 1..n
    OBVIOUS
  <2>3. DOMAIN new = 1..(n + 1) /\ new[n + 1] = d /\ \A i \in 1..n : new[i] = list[i]
    BY <2>1
  <2> HIDE DEF n
  <2>4. \A i \in 1..(n + 1) : i = n + 1 \/ i \in 1..n
    BY <2>2
  <2>5. n + 1 \in 1..(n + 1) /\ \A i \in 1..n : i \in 1..(n + 1)
    BY <2>2
  <2>6. \A i \in 1..n : ~(list[i].name = d.name /\ list[i].in = d.in)
    BY <1>12, <2>2 DEF Declares
  <2>7. ASSUME NEW a \in DOMAIN new, NEW b \in DOMAIN new, new[a].name = new[b].name, new[a].in = new[b].in
        PROVE  a = b
    <3>1. CASE a \in 1..n /\ b \in 1..n
      BY <1>8, <2>2, <2>3, <2>7, <3>1
    <3>2. CASE a = n + 1 /\ b \in 1..n
      BY <2>3, <2>6, <2>7, <3>2
    <3>3. CASE a \in 1..n /\ b = n + 1
      BY <2>3, <2>6, <2>7, <3>3
    <3>4. CASE a = n + 1 /\ b = n + 1
      BY <3>4
    <3>5. QED
      BY <2>3, <2>4, <3>1, <3>2, <3>3, <3>4
  <2>8. ASSUME NEW a \in DOMAIN new
        PROVE  \E i \in 1..k : new[a] = Renamed(defs[i]) /\ \A j \in (i + 1)..k : Key(defs[j]) # Key(defs[i])
    <3>1. CASE a = n + 1
      BY <1>10, <2>3, <3>1
    <3>2. CASE a # n + 1
      BY <1>9, <2>2, <2>3, <2>4, <2>6, <3>2
    <3>3. QED
      BY <3>1, <3>2
  <2>9. ASSUME NEW i \in 1..k
        PROVE  \E a \in DOMAIN new : new[a].name = Key(defs[i])[1] /\ new[a].in = Key(defs[i])[2]
    <3>1. CASE i = k
      <4>1. n + 1 \in DOMAIN new /\ new[n + 1] = d
        BY <2>3, <2>5
      <4>2. d.name = Key(defs[i])[1] /\ d.in = Key(defs[i])[2]
        BY <1>5, <3>1
      <4>3. QED
        BY <4>1, <4>2
    <3>2. CASE i # k
      <4>1. PICK a \in DOMAIN list : list[a].name = Key(defs[i])[1] /\ list[a].in = Key(defs[i])[2]
        BY <1>1, <1>8, <3>2
      <4>2. a \in DOMAIN new /\ new[a] = list[a]
        BY <2>2, <2>3, <2>5
      <4>3. QED
        BY <4>1, <4>2
    <3>3. QED
      BY <3>1, <3>2
  <2>10. MergedTo(defs, new, k)
    BY <2>7, <2>8, <2>9 DEF MergedTo
  <2>11. QED
    BY <2>10 DEF new, d
<1>13. QED
  BY <1>11, <1>12

LEMMA DefinitionsMerged ==
  ASSUME NEW D, NEW defs \in Seq(D), \A d \in D : {"name", "in"} \subseteq DOMAIN d
  PROVE  LET held == ValidateParameterDefinitions(defs)
         IN /\ \A a, b \in DOMAIN held : held[a].name = held[b].name /\ held[a].in = held[b].in => a = b
            /\ \A a \in DOMAIN held : \E d : IsLast(defs, Key(d), d) /\ held[a] = Renamed(d)
            /\ \A d : IsLast(defs, Key(d), d) => \E a \in DOMAIN held : held[a] = Renamed(d)
<1> DEFINE n == Len(defs)
           R == {Renamed(d) : d \in D}
           lists == MergedDefinitions(defs)
           T == {k \in 0..n : MergedTo(defs, lists[k], k)}
           held == lists[n]
<1>1. n \in Nat /\ n \in 0..n /\ DOMAIN defs = 1..n /\ \A i \in 1..n : defs[i] \in D
  OBVIOUS
<1>2. /\ lists \in [0..n -> Seq(R)]
      /\ lists[0] = <<>>
      /\ \A k \in 1..n : lists[k] = Replaced(lists[k - 1], Renamed(defs[k]))
  BY MergedIs
<1> HIDE DEF lists
<1>3. 0 \in T
  <2>1. MergedTo(defs, <<>>, 0)
    BY DEF MergedTo
  <2>2. QED
    BY <1>1, <1>2, <2>1
<1>4. ASSUME NEW k \in 1..n, k - 1 \in T PROVE k \in T
  <2>1. MergedTo(defs, lists[k - 1], k - 1) /\ k - 1 \in 0..n /\ k \in 0..n
    BY <1>1, <1>4
  <2>2. lists[k - 1] \in Seq(R)
    BY <1>2, <2>1
  <2>3. MergedTo(defs, Replaced(lists[k - 1], Renamed(defs[k])), k)
    BY <2>1, <2>2, MergedStep
  <2>4. QED
    BY <1>2, <2>1, <2>3
<1>5. n \in T
  <2> HIDE DEF T, n
  <2>1. QED
    BY <1>1, <1>3, <1>4, UpTo
<1>6. MergedTo(defs, held, n)
  BY <1>5
<1> HIDE DEF held, T, n
<1>7. \A i \in 1..n : Renamed(defs[i]).name = Key(defs[i])[1] /\ Renamed(defs[i]).in = Key(defs[i])[2]
  BY <1>1, RenamedIs
<1>8. ASSUME NEW i \in 1..n, \A j \in (i + 1)..n : Key(defs[j]) # Key(defs[i])
      PROVE  IsLast(defs, Key(defs[i]), defs[i])
  <2>1. ASSUME NEW j \in 1..n, Key(defs[j]) = Key(defs[i]) PROVE j <= i
    <3>1. j \notin (i + 1)..n
      BY <1>8, <2>1
    <3>2. QED
      BY <1>1, <3>1
  <2>2. QED
    BY <1>1, <2>1 DEF IsLast
<1>9. \A a \in DOMAIN held : \E i \in 1..n : held[a] = Renamed(defs[i]) /\ IsLast(defs, Key(defs[i]), defs[i])
  <2>1. \A a \in DOMAIN held : \E i \in 1..n :
          held[a] = Renamed(defs[i]) /\ \A j \in (i + 1)..n : Key(defs[j]) # Key(defs[i])
    BY <1>6 DEF MergedTo
  <2>2. QED
    BY <1>8, <2>1
<1>10. ASSUME NEW d, IsLast(defs, Key(d), d) PROVE \E a \in DOMAIN held : held[a] = Renamed(d)
  <2>1. PICK i \in 1..n : defs[i] = d
    BY <1>1, <1>10 DEF IsLast
  <2>2. PICK a \in DOMAIN held : held[a].name = Key(defs[i])[1] /\ held[a].in = Key(defs[i])[2]
    BY <1>6 DEF MergedTo
  <2>3. PICK j \in 1..n : held[a] = Renamed(defs[j]) /\ IsLast(defs, Key(defs[j]), defs[j])
    BY <1>9
  <2>4. Key(defs[i])[1] = Key(defs[j])[1] /\ Key(defs[i])[2] = Key(defs[j])[2]
    BY <1>7, <2>2, <2>3
  <2>5. Key(defs[j]) = Key(d)
    BY <2>1, <2>4, KeyPlace
  <2>6. defs[j] = d
    BY <1>10, <2>3, <2>5, OneLast
  <2>7. QED
    BY <2>3, <2>6
<1>11. \A a, b \in DOMAIN held : held[a].name = held[b].name /\ held[a].in = held[b].in => a = b
  BY <1>6 DEF MergedTo
<1>12. held = ValidateParameterDefinitions(defs)
  BY DEF held, lists, n, ValidateParameterDefinitions
<1>13. \A a \in DOMAIN held : \E d : IsLast(defs, Key(d), d) /\ held[a] = Renamed(d)
  BY <1>9
<1>14. QED
  BY <1>10, <1>11, <1>12, <1>13

-----------------------------------------------------------------------------
(* The lists of an operation, its own and those of the whole path item, when *)
(* all operations and all placeholders have been gone through.               *)
LEMMA Extracted ==
  ASSUME NEW item, IsItem(item)
  PROVE  LET n == Len(item.operations)
             last == TakenOperations(item)[n]
             common == TakenPlaceholders(last.common, item.placeholders)[Len(item.placeholders)]
             all == extractParametersFromOperationV3(item)
         IN /\ PassedTo(item, last, n)
            /\ all.common = common /\ all.operations = last.operations
            /\ common \in Seq(EveryDefinition(item))
            /\ Keys(common) = Keys(last.common) \cup {PlaceKey(name) : name \in Range(item.placeholders)}
            /\ \A key, d : IsLast(last.common, key, d) => IsLast(common, key, d)
            /\ \A name \in Range(item.placeholders) : PlaceKey(name) \notin Keys(last.common)
                 => IsLast(common, PlaceKey(name), Unknown(name))
<1> DEFINE n == Len(item.operations)
           last == TakenOperations(item)[n]
           names == item.placeholders
           common == TakenPlaceholders(last.common, names)[Len(names)]
<1>1. PassedTo(item, last, n) /\ last = WithLists(item, last.common, last.operations)
  BY OperationsPassed
<1>2. last.common \in Seq(EveryDefinition(item))
  BY <1>1 DEF PassedTo
<1>3. names \in Seq(Range(names)) /\ \A name \in Range(names) : Unknown(name) \in EveryDefinition(item)
  BY ItemLists
<1>4. extractParametersFromOperationV3(item) = [last EXCEPT !.common = common]
  BY DEF extractParametersFromOperationV3
<1>5. /\ common \in Seq(EveryDefinition(item))
      /\ Keys(common) = Keys(last.common) \cup {PlaceKey(name) : name \in Range(names)}
      /\ \A key, d : IsLast(last.common, key, d) => IsLast(common, key, d)
      /\ \A name \in Range(names) : PlaceKey(name) \notin Keys(last.common)
           => IsLast(common, PlaceKey(name), Unknown(name))
  <2> HIDE DEF last, names
  <2>1. QED
    BY <1>2, <1>3, PlaceholdersTaken
<1>6. [last EXCEPT !.common = common].common = common /\ [last EXCEPT !.common = common].operations = last.operations
  <2>1. "common" \in DOMAIN item /\ "operations" \in DOMAIN item
    BY DEF IsItem
  <2>2. DOMAIN last = DOMAIN item
    <3> HIDE DEF last
    <3>1. DOMAIN WithLists(item, last.common, last.operations) = DOMAIN item
      BY DEF WithLists
    <3>2. QED
      BY <1>1, <3>1
  <2> HIDE DEF last, common
  <2>3. QED
    BY <2>1, <2>2
<1> HIDE DEF last, common, n
<1>7. QED
  BY <1>1, <1>4, <1>5, <1>6 DEF last, common, n

(* What the operations of the tree hold: the lists of the item it is built  *)
(* from, joined and reduced to one definition of each parameter.            *)
LEMMA MethodsAre ==
  ASSUME NEW item, IsItem(item)
  PROVE  LET all == extractParametersFromOperationV3(item)
             methods == createMethods(all)
         IN /\ DOMAIN methods = DOMAIN item.operations
            /\ \A i \in DOMAIN item.operations :
                 /\ methods[i].security = item.operations[i].security
                 /\ methods[i].parameters
                      = ValidateParameterDefinitions(all.operations[i].parameters \o all.common)
<1> DEFINE n == Len(item.operations)
           last == TakenOperations(item)[n]
           all == extractParametersFromOperationV3(item)
           methods == createMethods(all)
<1>1. PassedTo(item, last, n) /\ all.operations = last.operations
  BY Extracted
<1>2. n \in Nat /\ DOMAIN item.operations = 1..n
  BY ItemLists
<1> HIDE DEF n, last, all
<1>3. last.operations \in Seq(OperationsOf(item)) /\ Len(last.operations) = n
  BY <1>1 DEF PassedTo
<1>4. DOMAIN all.operations = DOMAIN item.operations /\ \A i \in 1..n : all.operations[i] \in OperationsOf(item)
  BY <1>1, <1>2, <1>3
<1>5. DOMAIN methods = DOMAIN item.operations
  BY <1>4 DEF createMethods
<1>6. ASSUME NEW i \in DOMAIN item.operations
      PROVE  /\ methods[i].security = item.operations[i].security
             /\ methods[i].parameters
                  = ValidateParameterDefinitions(all.operations[i].parameters \o all.common)
  <2> DEFINE op == all.operations[i]
             defs == op.parameters \o all.common
  <2>1. op \in OperationsOf(item)
    BY <1>2, <1>4
  <2>2. {"parameters", "security"} \subseteq DOMAIN op
    <3>1. PICK o \in Range(item.operations), own \in Seq(EveryDefinition(item)) : op = WithParameters(o, own)
      BY <2>1 DEF OperationsOf
    <3>2. {"parameters", "security"} \subseteq DOMAIN o
      BY DEF IsItem, IsOperation
    <3> HIDE DEF op
    <3>3. QED
      BY <3>1, <3>2 DEF WithParameters
  <2>3. op.security = item.operations[i].security
    BY <1>1, <1>2 DEF PassedTo, OwnOf
  <2>4. methods[i] = [op EXCEPT !.parameters = ValidateParameterDefinitions(defs)]
    BY <1>4 DEF createMethods, ValidateOperation
  <2> HIDE DEF op, defs, methods
  <2>5. methods[i].parameters = ValidateParameterDefinitions(defs) /\ methods[i].security = op.security
    BY <2>2, <2>4
  <2>6. methods[i].security = item.operations[i].security
    BY <2>3, <2>5
  <2>7. methods[i].parameters = ValidateParameterDefinitions(defs)
    BY <2>5
  <2>8. QED
    BY <2>6, <2>7 DEF op, defs
<1>7. QED
  BY <1>5, <1>6 DEF all

(* For a parameter of the path that the path item does not declare, the     *)
(* first definition in any operation is the one the path item is handed.    *)
LEMMA FromOperationsIs ==
  ASSUME NEW item, IsItem(item), NEW now, PassedTo(item, now, Len(item.operations)),
         NEW key, key[2] = "path", key \notin Keys(item.common)
  PROVE  /\ key \in Former(item, Len(item.operations)) => IsLast(now.common, key, FromOperations(item, key))
         /\ key \notin Former(item, Len(item.operations)) => FromOperations(item, key) = Unknown(key[1])
<1> DEFINE n == Len(item.operations)
           J == {j \in 1..n : key \in Keys(item.operations[j].parameters)}
           D == EveryDefinition(item)
<1>1. n \in Nat /\ \A j \in 1..n : item.operations[j].parameters \in Seq(D)
  BY ItemLists
<1>2. FromOperations(item, key)
        = LET first == IF J = {} THEN 0 ELSE Min(J)
          IN IF first = 0 THEN Unknown(key[1]) ELSE FirstOf(item.operations[first].parameters, key)
  BY DEF FromOperations, SelectInSeq
<1>3. key \in Former(item, n) <=> J # {}
  BY DEF Former
<1>4. J \in SUBSET (1..n)
  OBVIOUS
<1>5. ASSUME J # {} PROVE IsLast(now.common, key, FromOperations(item, key))
  <2> DEFINE first == Min(J)
             written == item.operations[first].parameters
  <2>1. first \in J /\ \A j \in J : first <= j
    <3> HIDE DEF J, n
    <3>1. QED
      BY <1>1, <1>4, <1>5, LeastOf
  <2>2. first \in 1..n /\ first # 0 /\ key \in Keys(written)
    BY <1>1, <2>1
  <2>3. FromOperations(item, key) = FirstOf(written, key)
    BY <1>2, <1>5, <2>2
  <2>4. key \notin Former(item, first - 1)
    <3>1. SUFFICES ASSUME NEW j \in 1..(first - 1), key \in Keys(item.operations[j].parameters) PROVE FALSE
      BY DEF Former
    <3> HIDE DEF first
    <3>2. j \in 1..n /\ j < first
      BY <1>1, <2>2
    <3>3. j \in J
      BY <3>1, <3>2
    <3>4. first <= j /\ first \in Nat /\ j \in Nat
      BY <2>1, <2>2, <3>2, <3>3
    <3>5. QED
      BY <3>2, <3>4
  <2>5. IsFirst(written, key, FirstOf(written, key))
    BY <1>1, <2>2, FirstIs
  <2> HIDE DEF first, J
  <2>6. IsLast(now.common, key, FirstOf(written, key))
    BY <2>2, <2>4, <2>5 DEF PassedTo
  <2>7. QED
    BY <2>3, <2>6
<1>6. ASSUME J = {} PROVE FromOperations(item, key) = Unknown(key[1])
  BY <1>2, <1>6
<1>7. QED
  BY <1>3, <1>5, <1>6

(* The joined lists of an operation name the parameters that apply to it,   *)
(* and end, for each of them, with the definition it is to be held to.      *)
LEMMA Applies ==
  ASSUME NEW item, IsItem(item), NEW i \in DOMAIN item.operations
  PROVE  LET all == extractParametersFromOperationV3(item)
             own == item.operations[i].parameters
             defs == all.operations[i].parameters \o all.common
         IN /\ defs \in Seq(EveryDefinition(item))
            /\ Keys(defs) = KeysFor(item, own)
            /\ \A key \in KeysFor(item, own) : IsLast(defs, key, Applying(item, own, key))
<1> DEFINE n == Len(item.operations)
           D == EveryDefinition(item)
           names == item.placeholders
           last == TakenOperations(item)[n]
           all == extractParametersFromOperationV3(item)
           common == all.common
           own == item.operations[i].parameters
           mine == all.operations[i].parameters
           defs == mine \o common
           F == Former(item, n)
<1>1. n \in Nat /\ DOMAIN item.operations = 1..n /\ item.common \in Seq(D) /\ own \in Seq(D)
  BY ItemLists
<1>2. /\ PassedTo(item, last, n)
      /\ all.operations = last.operations
      /\ common \in Seq(D)
      /\ Keys(common) = Keys(last.common) \cup {PlaceKey(name) : name \in Range(names)}
      /\ \A key, d : IsLast(last.common, key, d) => IsLast(common, key, d)
      /\ \A name \in Range(names) : PlaceKey(name) \notin Keys(last.common)
           => IsLast(common, PlaceKey(name), Unknown(name))
  BY Extracted
<1> HIDE DEF all, last, n
<1>3. /\ Keys(last.common) = Keys(item.common) \cup {key \in F : key[2] = "path"}
      /\ \A key, d : IsLast(item.common, key, d) => IsLast(last.common, key, d)
      /\ OwnOf(item, i, last.operations[i])
  BY <1>1, <1>2 DEF PassedTo
<1>4. /\ mine \in Seq(D)
      /\ \A key \in Keys(mine) : key[2] # "path" /\ key \in Keys(own)
      /\ \A key, d : key[2] # "path" /\ key \notin Keys(item.common) /\ IsLast(own, key, d)
                       => IsLast(mine, key, d)
  BY <1>2, <1>3 DEF OwnOf
<1>5. /\ Keys(defs) = Keys(mine) \cup Keys(common)
      /\ \A key, d : IsLast(common, key, d) => IsLast(defs, key, d)
      /\ \A key, d : key \notin Keys(common) /\ IsLast(mine, key, d) => IsLast(defs, key, d)
  BY <1>2, <1>4, ListsJoined
<1>6. defs \in Seq(D)
  BY <1>2, <1>4
<1>7. F = UNION {Keys(op.parameters) : op \in Range(item.operations)}
  BY <1>1 DEF Former, Range
<1>8. KeysFor(item, own) = Keys(item.common) \cup Keys(own) \cup {key \in F : key[2] = "path"}
                             \cup {PlaceKey(name) : name \in Range(names)}
  BY <1>7 DEF KeysFor, PlaceKey
<1>9. Keys(own) \subseteq F
  BY <1>1 DEF Former
<1> HIDE DEF defs, common, mine, own, F, names
<1>10. Keys(common) = Keys(item.common) \cup {key \in F : key[2] = "path"} \cup {PlaceKey(name) : name \in Range(names)}
  BY <1>2, <1>3
<1>11. ASSUME NEW key \in KeysFor(item, own) PROVE IsLast(defs, key, Applying(item, own, key))
  <2>1. CASE key \in Keys(item.common)
    <3>1. Applying(item, own, key) = LastOf(item.common, key)
      BY <2>1 DEF Applying
    <3>2. IsLast(item.common, key, LastOf(item.common, key))
      BY <1>1, <2>1, LastIs
    <3>3. QED
      BY <1>2, <1>3, <1>5, <3>1, <3>2
  <2>2. CASE key \notin Keys(item.common) /\ key[2] = "path"
    <3>1. Applying(item, own, key) = FromOperations(item, key)
      BY <2>2 DEF Applying
    <3>2. /\ key \in F => IsLast(last.common, key, FromOperations(item, key))
          /\ key \notin F => FromOperations(item, key) = Unknown(key[1])
      BY <1>2, <2>2, FromOperationsIs DEF F, n
    <3>3. CASE key \in F
      BY <1>2, <1>5, <3>1, <3>2, <3>3
    <3>4. CASE key \notin F
      <4>1. PICK name \in Range(names) : key = PlaceKey(name)
        BY <1>8, <1>9, <2>2, <3>4
      <4>2. key[1] = name
        BY <4>1 DEF PlaceKey
      <4>3. key \notin Keys(last.common)
        BY <1>3, <2>2, <3>4
      <4>4. IsLast(common, key, Unknown(name))
        BY <1>2, <4>1, <4>3
      <4>5. QED
        BY <1>5, <3>1, <3>2, <3>4, <4>2, <4>4
    <3>5. QED
      BY <3>3, <3>4
  <2>3. CASE key \notin Keys(item.common) /\ key[2] # "path"
    <3>1. key \notin {PlaceKey(name) : name \in Range(names)}
      BY <2>3 DEF PlaceKey
    <3>2. key \in Keys(own) /\ key \notin Keys(common)
      BY <1>8, <1>10, <2>3, <3>1
    <3>3. Applying(item, own, key) = LastOf(own, key)
      BY <2>3 DEF Applying
    <3>4. IsLast(own, key, LastOf(own, key))
      BY <1>1, <3>2, LastIs
    <3>5. IsLast(mine, key, LastOf(own, key))
      BY <1>4, <2>3, <3>4
    <3>6. QED
      BY <1>5, <3>2, <3>3, <3>5
  <2>4. QED
    BY <2>1, <2>2, <2>3
<1>12. Keys(defs) = KeysFor(item, own)
  <2>1. ASSUME NEW key \in KeysFor(item, own) PROVE key \in Keys(defs)
    <3>1. IsLast(defs, key, Applying(item, own, key))
      BY <1>11
    <3>2. QED
      BY <3>1, KeysAre DEF IsLast
  <2>2. Keys(defs) \subseteq KeysFor(item, own)
    BY <1>4, <1>5, <1>8, <1>10
  <2>3. QED
    BY <2>1, <2>2
<1>13. QED
  BY <1>6, <1>11, <1>12 DEF defs, mine, common, all, own

(* Every operation of the tree is held to one definition of each parameter  *)
(* that applies to it, the one of Applying, and to no other.                *)
LEMMA HeldTo ==
  ASSUME NEW item, IsItem(item), NEW i \in DOMAIN item.operations
  PROVE  LET held == createMethods(extractParametersFromOperationV3(item))[i].parameters
             own == item.operations[i].parameters
         IN /\ Range(held) = {[Applying(item, own, key) EXCEPT !.name = key[1]] : key \in KeysFor(item, own)}
            /\ \A a, b \in DOMAIN held :
                 held[a].name = held[b].name /\ held[a].in = held[b].in => a = b
<1> DEFINE all == extractParametersFromOperationV3(item)
           held == createMethods(all)[i].parameters
           own == item.operations[i].parameters
           defs == all.operations[i].parameters \o all.common
           D == EveryDefinition(item)
           K == KeysFor(item, own)
           As(key) == [Applying(item, own, key) EXCEPT !.name = key[1]]
<1>1. held = ValidateParameterDefinitions(defs)
  BY MethodsAre
<1>2. /\ defs \in Seq(D)
      /\ Keys(defs) = K
      /\ \A key \in K : IsLast(defs, key, Applying(item, own, key))
  BY Applies
<1>3. \A d \in D : {"name", "in"} \subseteq DOMAIN d
  BY ItemLists
<1> HIDE DEF D, defs, held, K, own
<1>4. /\ \A a, b \in DOMAIN held : held[a].name = held[b].name /\ held[a].in = held[b].in => a = b
      /\ \A a \in DOMAIN held : \E d : IsLast(defs, Key(d), d) /\ held[a] = Renamed(d)
      /\ \A d : IsLast(defs, Key(d), d) => \E a \in DOMAIN held : held[a] = Renamed(d)
  BY <1>1, <1>2, <1>3, DefinitionsMerged
<1>5. ASSUME NEW key \in K PROVE Key(Applying(item, own, key)) = key /\ Renamed(Applying(item, own, key)) = As(key)
  <2>1. Key(Applying(item, own, key)) = key
    BY <1>2 DEF IsLast
  <2>2. CanonicalName(Applying(item, own, key)) = key[1]
    BY <2>1, KeyPlace
  <2>3. QED
    BY <2>1, <2>2 DEF Renamed
<1>6. ASSUME NEW d, IsLast(defs, Key(d), d) PROVE Key(d) \in K /\ d = Applying(item, own, Key(d))
  <2>1. Key(d) \in Keys(defs)
    BY <1>6, KeysAre DEF IsLast
  <2>2. QED
    BY <1>2, <1>6, <2>1, OneLast
<1> HIDE DEF As
<1>7. Range(held) \subseteq {As(key) : key \in K}
  <2>1. SUFFICES ASSUME NEW a \in DOMAIN held PROVE held[a] \in {As(key) : key \in K}
    BY DEF Range
  <2>2. PICK d : IsLast(defs, Key(d), d) /\ held[a] = Renamed(d)
    BY <1>4
  <2>3. Key(d) \in K /\ d = Applying(item, own, Key(d))
    BY <1>6, <2>2
  <2>4. held[a] = As(Key(d))
    BY <1>5, <2>2, <2>3
  <2>5. QED
    BY <2>3, <2>4
<1>8. {As(key) : key \in K} \subseteq Range(held)
  <2>1. SUFFICES ASSUME NEW key \in K PROVE As(key) \in Range(held)
    OBVIOUS
  <2> DEFINE d == Applying(item, own, key)
  <2>2. Key(d) = key /\ Renamed(d) = As(key) /\ IsLast(defs, key, d)
    BY <1>2, <1>5
  <2>3. PICK a \in DOMAIN held : held[a] = Renamed(d)
    BY <1>4, <2>2
  <2>4. QED
    BY <2>2, <2>3 DEF Range
<1>9. Range(held) = {As(key) : key \in K}
  BY <1>7, <1>8
<1>10. QED
  BY <1>4, <1>9 DEF As, K, own, held

-----------------------------------------------------------------------------
(* The construction.  A client gets past its first step only with a         *)
(* document, the document does not change, and a client that is ready has   *)
(* the tree that is built from the one path item of it.                     *)
ClientInv ==
  /\ ClientTypeOK
  /\ IsDefinition(definition)
  /\ phase \notin {"build", "failed", "panicked"} => ~BuildPanics(definition) /\ Built(definition) # {}
  /\ phase \in {"ready", "closed"} => tree = createMethods(extractParametersFromOperationV3(Loaded.item))

LEMMA DocumentIs ==
  ASSUME ClientInv, phase \notin {"build", "failed", "panicked"}
  PROVE  IsItem(Loaded.item) /\ IsList(Loaded.security)
<1>1. Loaded \in Built(definition)
  BY DEF ClientInv, Loaded
<1>2. QED
  BY <1>1 DEF ClientInv, IsDefinition

LEMMA Starts ==
  ASSUME ClientInit
  PROVE  ClientInv
BY DEF ClientInit, ClientInv, ClientTypeOK, Phases

LEMMA Stutters ==
  ASSUME ClientInv, UNCHANGED clientVars
  PROVE  ClientInv'
BY DEF ClientInv, ClientTypeOK, clientVars, Loaded

(* A step that gives the construction up leaves everything else as it was.  *)
LEMMA GivesUp ==
  ASSUME ClientInv, phase \notin {"ready", "closed"}, Abandon \/ Panicked
  PROVE  ClientInv'
<1>1. phase' \in {"failed", "panicked"} /\ UNCHANGED <<definition, balancer, schemes, tree>>
  BY DEF Abandon, Panicked
<1>2. ClientTypeOK'
  BY <1>1 DEF ClientInv, ClientTypeOK, Phases
<1>3. QED
  BY <1>1, <1>2 DEF ClientInv

(* So does a step to the next phase, except for the balancer, when it gives *)
(* requests their host, and the schemes.                                    *)
LEMMA GoesOn ==
  ASSUME ClientInv, phase \notin {"ready", "closed", "failed", "panicked"},
         NEW next \in {"options", "servers", "headers", "schemes", "paths"}, ContinueWith(next),
         next = "options" => ~BuildPanics(definition) /\ Built(definition) # {},
         next # "options" => phase # "build",
         balancer' \in {"none", "open"}, next = "options" => balancer' = "none",
         next \in {"headers", "schemes", "paths"} => balancer' = "open", UNCHANGED tree
  PROVE  ClientInv'
<1>1. phase' = next /\ definition' = definition /\ tree' = tree
  BY DEF ContinueWith
<1>2. tree = <<>>
  BY DEF ClientInv, ClientTypeOK
<1>3. ClientTypeOK'
  BY <1>1, <1>2 DEF ClientTypeOK, Phases
<1>4. ~BuildPanics(definition) /\ Built(definition) # {}
  BY <1>1 DEF ClientInv
<1>5. QED
  BY <1>1, <1>3, <1>4 DEF ClientInv

LEMMA TakesStep ==
  ASSUME ClientInv, ClientNext
  PROVE  ClientInv'
<1>1. CASE BuildDocument
  <2>1. CASE Panicked
    BY <1>1, <2>1, GivesUp DEF BuildDocument
  <2>2. CASE Abandon
    BY <1>1, <2>2, GivesUp DEF BuildDocument
  <2>3. CASE /\ ~BuildPanics(definition) /\ Built(definition) # {}
             /\ ContinueWith("options") /\ UNCHANGED <<balancer, schemes, tree>>
    <3>1. phase = "build" /\ balancer = "none"
      BY <1>1 DEF BuildDocument, ClientInv, ClientTypeOK
    <3>2. QED
      BY <2>3, <3>1, GoesOn
  <2>4. QED
    BY <1>1, <2>1, <2>2, <2>3 DEF BuildDocument
<1>2. CASE InitOptions
  <2>1. CASE Abandon
    BY <1>2, <2>1, GivesUp DEF InitOptions
  <2>2. CASE ContinueWith("servers") /\ UNCHANGED <<balancer, schemes, tree>>
    <3>1. phase = "options" /\ balancer = "none"
      BY <1>2 DEF InitOptions, ClientInv, ClientTypeOK
    <3>2. QED
      BY <2>2, <3>1, GoesOn
  <2>3. QED
    BY <1>2, <2>1, <2>2 DEF InitOptions
<1>3. CASE InitServers
  <2>1. CASE Abandon
    BY <1>3, <2>1, GivesUp DEF InitServers
  <2>2. CASE balancer' = "open" /\ ContinueWith("headers") /\ UNCHANGED <<schemes, tree>>
    <3>1. phase = "servers"
      BY <1>3 DEF InitServers
    <3>2. QED
      BY <2>2, <3>1, GoesOn
  <2>3. QED
    BY <1>3, <2>1, <2>2 DEF InitServers
<1>4. CASE InitDefaultHeaders
  <2>1. CASE Abandon
    BY <1>4, <2>1, GivesUp DEF InitDefaultHeaders
  <2>2. CASE ContinueWith("schemes") /\ UNCHANGED <<balancer, schemes, tree>>
    <3>1. phase = "headers" /\ balancer = "open"
      BY <1>4 DEF InitDefaultHeaders, ClientInv, ClientTypeOK
    <3>2. QED
      BY <2>2, <3>1, GoesOn
  <2>3. QED
    BY <1>4, <2>1, <2>2 DEF InitDefaultHeaders
<1>5. CASE NewAuthenticators
  <2>1. phase = "schemes" /\ balancer = "open"
    BY <1>5 DEF NewAuthenticators, ClientInv, ClientTypeOK
  <2>2. CASE Abandon
    BY <2>1, <2>2, GivesUp
  <2>3. CASE ContinueWith("paths") /\ UNCHANGED <<balancer, tree>>
    BY <2>1, <2>3, GoesOn
  <2>4. QED
    BY <1>5, <2>2, <2>3 DEF NewAuthenticators
<1>6. CASE BuildMetadataTree
  <2> DEFINE item == extractParametersFromOperationV3(Loaded.item)
  <2>1. phase = "paths" /\ balancer = "open"
    BY <1>6 DEF BuildMetadataTree, ClientInv, ClientTypeOK
  <2>2. CASE Panicked \/ Abandon
    BY <2>1, <2>2, GivesUp
  <2>3. CASE tree' = createMethods(item) /\ ContinueWith("ready") /\ UNCHANGED <<balancer, schemes>>
    <3>1. phase' = "ready" /\ definition' = definition /\ balancer' = "open"
      BY <2>1, <2>3 DEF ContinueWith
    <3>2. Loaded' = Loaded
      BY <3>1 DEF Loaded
    <3>3. tree' = createMethods(extractParametersFromOperationV3(Loaded'.item))
      BY <2>3, <3>2
    <3>4. ClientTypeOK'
      BY <3>1 DEF ClientTypeOK, Phases
    <3>5. ~BuildPanics(definition') /\ Built(definition') # {} /\ IsDefinition(definition')
      BY <2>1, <3>1 DEF ClientInv
    <3>6. QED
      BY <3>1, <3>3, <3>4, <3>5 DEF ClientInv
  <2>4. QED
    BY <1>6, <2>2, <2>3 DEF BuildMetadataTree, BuildTree
<1>7. CASE Close
  <2>1. /\ phase = "ready" /\ phase' = "closed" /\ balancer' = "closed"
        /\ definition' = definition /\ tree' = tree
    BY <1>7 DEF Close, ContinueWith
  <2>2. Loaded' = Loaded
    BY <2>1 DEF Loaded
  <2>3. ClientTypeOK'
    BY <2>1 DEF ClientTypeOK, Phases
  <2>4. tree' = createMethods(extractParametersFromOperationV3(Loaded'.item))
    BY <2>1, <2>2 DEF ClientInv
  <2>5. ~BuildPanics(definition') /\ Built(definition') # {} /\ IsDefinition(definition')
    BY <2>1 DEF ClientInv
  <2>6. QED
    BY <2>1, <2>3, <2>4, <2>5 DEF ClientInv
<1>8. QED
  BY <1>1, <1>2, <1>3, <1>4, <1>5, <1>6, <1>7 DEF ClientNext

LEMMA ClientAlways == ClientSpec => []ClientInv
<1>1. ClientInit => ClientInv
  BY Starts
<1>2. ClientInv /\ [ClientNext]_clientVars => ClientInv'
  BY TakesStep, Stutters
<1>3. QED
  BY <1>1, <1>2, PTL DEF ClientSpec

(* The states of a client: a balancer is open from when it has been given   *)
(* its servers until the client is closed, also when the construction fails *)
(* later, and there is a tree only when it has succeeded.                   *)
THEOREM ClientTypeCorrect == ClientSpec => []ClientTypeOK
<1>1. ClientInv => ClientTypeOK
  BY DEF ClientInv
<1>2. QED
  BY <1>1, ClientAlways, PTL

(* Every operation of a client is held to one definition of each parameter  *)
(* of its path item, its own and its path, and to no other, in whichever    *)
(* order the document declares them.                                        *)
THEOREM DeclaredApply == ClientSpec => []DeclaredParametersApply
<1>1. ASSUME ClientInv PROVE DeclaredParametersApply
  <2>1. SUFFICES ASSUME phase = "ready"
                 PROVE  /\ DOMAIN tree = DOMAIN Loaded.item.operations
                        /\ \A i \in DOMAIN tree :
                             LET own == Loaded.item.operations[i].parameters
                                 held == tree[i].parameters
                             IN /\ Range(held) = {[Applying(Loaded.item, own, key) EXCEPT !.name = key[1]]
                                                    : key \in KeysFor(Loaded.item, own)}
                                /\ \A a, b \in DOMAIN held :
                                     held[a].name = held[b].name /\ held[a].in = held[b].in => a = b
    BY DEF DeclaredParametersApply
  <2>2. IsItem(Loaded.item)
    BY <1>1, <2>1, DocumentIs
  <2>3. tree = createMethods(extractParametersFromOperationV3(Loaded.item))
    BY <1>1, <2>1 DEF ClientInv
  <2>4. DOMAIN tree = DOMAIN Loaded.item.operations
    BY <2>2, <2>3, MethodsAre
  <2>5. ASSUME NEW i \in DOMAIN tree
        PROVE  LET own == Loaded.item.operations[i].parameters
                   held == tree[i].parameters
               IN /\ Range(held) = {[Applying(Loaded.item, own, key) EXCEPT !.name = key[1]]
                                      : key \in KeysFor(Loaded.item, own)}
                  /\ \A a, b \in DOMAIN held :
                       held[a].name = held[b].name /\ held[a].in = held[b].in => a = b
    <3>1. i \in DOMAIN Loaded.item.operations
      BY <2>4
    <3>2. QED
      BY <2>2, <2>3, <3>1, HeldTo
  <2>6. QED
    BY <2>4, <2>5
<1>2. QED
  BY <1>1, ClientAlways, PTL

(* Which of some requirements LastKnown points at. *)
LEMMA LastKnownIs ==
  ASSUME NEW S, NEW requirements \in Seq(S)
  PROVE  LET offered == {Head(r) : r \in Range(requirements) \ {<<>>}} \cap schemes
             k == LastKnown(requirements)
         IN /\ k # 0 => Head(requirements[k]) \in offered
            /\ k = 0 => offered = {}
<1> DEFINE I == {i \in 1..Len(requirements) : requirements[i] # <<>> /\ Head(requirements[i]) \in schemes}
           n == Len(requirements)
<1>1. n \in Nat /\ DOMAIN requirements = 1..n
  OBVIOUS
<1>2. LastKnown(requirements) = IF I = {} THEN 0 ELSE Max(I)
  BY DEF LastKnown, SelectLastInSeq
<1>3. CASE I = {}
  <2>1. LastKnown(requirements) = 0
    BY <1>2, <1>3
  <2>2. \A r \in Range(requirements) \ {<<>>} : Head(r) \notin schemes
    BY <1>1, <1>3 DEF Range
  <2>3. QED
    BY <2>1, <2>2
<1>4. CASE I # {}
  <2>1. Max(I) \in I
    <3>1. I \in SUBSET (1..n)
      OBVIOUS
    <3> HIDE DEF I, n
    <3>2. QED
      BY <1>1, <1>4, <3>1, MostOf
  <2>2. LastKnown(requirements) = Max(I)
    BY <1>2, <1>4
  <2> DEFINE k == LastKnown(requirements)
  <2>3. k \in 1..n /\ requirements[k] # <<>> /\ Head(requirements[k]) \in schemes
    BY <2>1, <2>2
  <2> HIDE DEF k
  <2>4. requirements[k] \in Range(requirements) \ {<<>>}
    BY <1>1, <2>3 DEF Range
  <2>5. k # 0
    BY <1>1, <2>3
  <2>6. QED
    BY <2>3, <2>4, <2>5 DEF k
<1>5. QED
  BY <1>3, <1>4

LEMMA CredentialsAt ==
  ASSUME ClientInv
  PROVE  CredentialsAreAskedFor
<1>1. SUFFICES ASSUME phase = "ready", NEW i \in DOMAIN tree,
                      NEW authenticated \in GetAuthenticator(tree[i].security)
               PROVE  LET asked == Loaded.item.operations[i].security
                          requirements == Range(IF asked = <<>> THEN Loaded.security ELSE asked)
                          offered == {Head(r) : r \in requirements \ {<<>>}} \cap schemes
                      IN /\ authenticated \subseteq schemes
                         /\ offered # {} => authenticated # None /\ authenticated \subseteq offered
                         /\ offered = {} /\ <<>> \in requirements => authenticated = None
                         /\ schemes # {} /\ <<>> \notin requirements => authenticated # None
  BY DEF CredentialsAreAskedFor
<1> DEFINE asked == Loaded.item.operations[i].security
           list == InForce(asked)
           offered == {Head(r) : r \in Range(list) \ {<<>>}} \cap schemes
<1>2. IsItem(Loaded.item) /\ IsList(Loaded.security)
  BY <1>1, DocumentIs
<1>3. tree = createMethods(extractParametersFromOperationV3(Loaded.item))
  BY <1>1 DEF ClientInv
<1>4. DOMAIN tree = DOMAIN Loaded.item.operations /\ tree[i].security = asked
  BY <1>1, <1>2, <1>3, MethodsAre
<1>5. IsList(asked)
  <2>1. Loaded.item.operations[i] \in Range(Loaded.item.operations)
    BY <1>1, <1>4 DEF Range
  <2>2. QED
    BY <1>2, <2>1 DEF IsItem, IsOperation
<1>6. list \in Seq(Range(list))
  BY <1>2, <1>5 DEF InForce, IsList
<1>7. authenticated \in IF schemes = {} THEN {None} ELSE Chosen(list)
  BY <1>1, <1>4 DEF GetAuthenticator
<1>8. list = IF asked = <<>> THEN Loaded.security ELSE asked
  BY DEF InForce
<1> HIDE DEF list, asked
<1>9. /\ LastKnown(list) # 0 => Head(list[LastKnown(list)]) \in offered
      /\ LastKnown(list) = 0 => offered = {}
  BY <1>6, LastKnownIs
<1> DEFINE k == LastKnown(list)
<1> HIDE DEF offered
<1>10. offered \subseteq schemes
  BY DEF offered
<1>11. /\ authenticated \subseteq schemes
       /\ offered # {} => authenticated # None /\ authenticated \subseteq offered
       /\ offered = {} /\ <<>> \in Range(list) => authenticated = None
       /\ schemes # {} /\ <<>> \notin Range(list) => authenticated # None
  <2>1. CASE schemes = {}
    BY <1>7, <1>10, <2>1 DEF None
  <2>2. CASE schemes # {} /\ k # 0
    <3>1. authenticated = {Head(list[k])}
      BY <1>7, <2>2 DEF Chosen
    <3>2. Head(list[k]) \in offered
      BY <1>9, <2>2
    <3>3. QED
      BY <1>10, <3>1, <3>2 DEF None
  <2>3. CASE schemes # {} /\ k = 0
    <3>1. offered = {}
      BY <1>9, <2>3
    <3>2. CASE <<>> \in Range(list)
      <4>1. authenticated = None
        BY <1>7, <2>3, <3>2 DEF Chosen
      <4>2. QED
        BY <3>1, <3>2, <4>1 DEF None
    <3>3. CASE <<>> \notin Range(list)
      <4>1. PICK name \in schemes : authenticated = {name}
        BY <1>7, <2>3, <3>3 DEF Chosen
      <4>2. QED
        BY <3>1, <3>3, <4>1 DEF None
    <3>4. QED
      BY <3>2, <3>3
  <2>4. QED
    BY <2>1, <2>2, <2>3
<1>12. QED
  BY <1>8, <1>11 DEF offered, asked

(* A request for an operation of a client that is ready is sent with the    *)
(* credentials of a scheme the document asks for, whenever one it names     *)
(* first is known, and without any only where that is said or nothing is.   *)
THEOREM CredentialsAsked == ClientSpec => []CredentialsAreAskedFor
BY CredentialsAt, ClientAlways, PTL

-----------------------------------------------------------------------------
(* What is required is there.  The stages after which the parameters of a   *)
(* place have been decoded, and the body has been read:                     *)
Ends == {"settle", "forward", "done"}
After(place) ==
  CASE place = "path" -> {"read", "query", "header", "body", "cookie"} \cup Ends
    [] place = "query" -> {"header", "body", "cookie"} \cup Ends
    [] place = "header" -> {"body", "cookie"} \cup Ends
    [] place = "cookie" -> Ends
AfterBody == {"query", "header", "body", "cookie"} \cup Ends

PresentAt(place) == \A def \in In(place) : IsPresent(def)
BodyIsPresent == request.served /\ Called.bodyRequired => request.body.kind # "none"

(* Nothing has been found wrong so far.                                     *)
IsClean == errs = {} /\ outcome \in {"none", "accepted"}

PresenceInv ==
  /\ stage # "encode" => phase \in {"ready", "closed"}
  /\ phase = "closed" => stage = "done"
  /\ stage = "done" <=> outcome # "none"
  /\ stage = "forward" \/ Accepted => errs = {}
  /\ \A place \in Places : IsClean /\ stage \in After(place) => PresentAt(place)
  /\ IsClean /\ stage \in AfterBody => BodyIsPresent

LEMMA PresenceStays ==
  ASSUME UNCHANGED <<tree, request, wire>>, NEW place \in Places
  PROVE  PresentAt(place)' = PresentAt(place) /\ BodyIsPresent' = BodyIsPresent
<1>1. tree' = tree /\ request' = request /\ wire' = wire
  OBVIOUS
<1>2. In(place)' = In(place) /\ Called' = Called
  BY <1>1 DEF In, Parameters, Called
<1>3. ASSUME NEW def PROVE IsPresent(def)' = IsPresent(def)
  BY <1>1 DEF IsPresent, IsSent, MayBeMissing, SentTexts
<1>4. QED
  BY <1>1, <1>2, <1>3 DEF PresentAt, BodyIsPresent

(* A decoder that finds nothing wrong with a parameter has found it, if it  *)
(* must be there.                                                           *)
LEMMA RequiredInPath ==
  ASSUME NEW def, def.in = "path", PathParameter(def).errs = {}
  PROVE  IsPresent(def)
<1>1. CASE def.name \in DOMAIN wire.path
  <2>1. SentTexts(def) = <<Bare(def, wire.path[def.name])>>
    BY <1>1 DEF SentTexts
  <2>2. IsSent(def)
    BY <2>1 DEF IsSent
  <2>3. QED
    BY <2>2 DEF IsPresent
<1>2. CASE def.name \notin DOMAIN wire.path
  BY <1>2 DEF PathParameter, Accept, Fail, Ok, If, IsPresent
<1>3. QED
  BY <1>1, <1>2

LEMMA RequiredFromQuery ==
  ASSUME NEW def, NEW query, NEW d, FromQuery(def, query, d).errs = {}, def.required
  PROVE  def.name \in DOMAIN query
BY DEF FromQuery, Present, Fail

LEMMA RequiredInQuery ==
  ASSUME NEW def, def.in = "query", Style(def) # "deepObject",
         decodeQueryFromParameter(def, wire.query).errs = {}
  PROVE  IsPresent(def)
<1>1. SUFFICES ASSUME def.required, ~MayBeMissing(def) PROVE def.name \in DOMAIN wire.query
  BY DEF IsPresent, IsSent
<1>2. ~(Explode(def) /\ IsObjectParam(def))
  BY <1>1 DEF MayBeMissing
<1>3. PICK d : decodeQueryFromParameter(def, wire.query) = FromQuery(def, wire.query, d)
  BY <1>2 DEF decodeQueryFromParameter, QueryBySchema
<1>4. QED
  BY <1>1, <1>3, RequiredFromQuery

LEMMA RequiredDeep ==
  ASSUME NEW def, def.in = "query", Style(def) = "deepObject",
         decodeQueryDeepObjectFromParameter(def, wire.query).errs = {}
  PROVE  IsPresent(def)
BY DEF IsPresent, IsSent, decodeQueryDeepObjectFromParameter, Accept, Fail, Ok, If

LEMMA RequiredInHeaders ==
  ASSUME NEW def, def.in = "header", decodeHeaderParameter(def, wire.headers).errs = {}
  PROVE  IsPresent(def)
<1>1. SUFFICES ASSUME def.required PROVE def.name \in DOMAIN wire.headers /\ wire.headers[def.name] # <<>>
  BY DEF IsPresent, IsSent, SentTexts
<1>2. QED
  BY <1>1 DEF decodeHeaderParameter, Accept, Fail, Ok, If

LEMMA RequiredInCookies ==
  ASSUME NEW def, def.in = "cookie", decodeCookieParameter(def, wire.cookies).errs = {}
  PROVE  IsPresent(def)
<1>1. SUFFICES ASSUME def.required, ~MayBeMissing(def) PROVE CookieTexts(wire.cookies, def.name) # <<>>
  BY DEF IsPresent, IsSent, SentTexts
<1>2. /\ ~HasContent(def) /\ def.schema # None /\ ~IsNullable(SchemaOf(def))
      /\ "object" \notin Range(TypesOf(def))
  BY <1>1 DEF MayBeMissing
<1>3. PICK d : decodeCookieParameter(def, wire.cookies)
                 = findCookies(def, wire.cookies, IsNullable(SchemaOf(def)), d)
  BY <1>2 DEF decodeCookieParameter, TryType, Decides, CookieBySchema
<1>4. QED
  BY <1>1, <1>2, <1>3 DEF findCookies, Fail

LEMMA NoErrors ==
  ASSUME NEW S, NEW ds, DOMAIN ds = S, AllErrors(ds) = {}
  PROVE  \A def \in S : ds[def].errs = {}
BY DEF AllErrors

-----------------------------------------------------------------------------
(* A step that goes on has found nothing wrong, or is not clean any more.   *)
LEMMA ContinuesClean ==
  ASSUME NEW place, NEW found, NEW values, NEW next, Continue(place, found, values, next), IsClean'
  PROVE  found = {} /\ IsClean /\ stage' = next
BY DEF Continue, Crash, IsClean

LEMMA PresenceStarts ==
  ASSUME Init
  PROVE  PresenceInv
BY DEF Init, ClientInit, PresenceInv, Accepted, After, AfterBody, Ends, Places

(* A step of a request that is on its way changes nothing of what is sent   *)
(* and what is asked for.                                                   *)
LEMMA PresenceStep ==
  ASSUME PresenceInv, stage \notin {"encode", "done"}, UNCHANGED <<clientVars, request, wire>>,
         stage' # "encode", stage' = "done" <=> outcome' # "none",
         stage' = "forward" \/ Accepted' => errs' = {},
         \A place \in Places : IsClean' /\ stage' \in After(place) => PresentAt(place),
         IsClean' /\ stage' \in AfterBody => BodyIsPresent
  PROVE  PresenceInv'
<1>1. phase' = phase /\ phase = "ready"
  BY DEF PresenceInv, clientVars
<1>2. UNCHANGED <<tree, request, wire>>
  BY DEF clientVars
<1>3. \A place \in Places : PresentAt(place)' = PresentAt(place)
  BY <1>2, PresenceStays
<1>4. BodyIsPresent' = BodyIsPresent
  BY <1>2 DEF BodyIsPresent, Called
<1>5. QED
  BY <1>1, <1>3, <1>4 DEF PresenceInv, Accepted

LEMMA PresenceNext ==
  ASSUME PresenceInv, Next
  PROVE  PresenceInv'
<1>1. CASE /\ \/ BuildDocument \/ InitOptions \/ InitServers \/ InitDefaultHeaders
              \/ NewAuthenticators \/ BuildMetadataTree
           /\ UNCHANGED requestVars
  <2>1. phase \notin {"ready", "closed"} /\ phase' # "closed"
    BY <1>1 DEF BuildDocument, InitOptions, InitServers, InitDefaultHeaders, NewAuthenticators,
                BuildMetadataTree, BuildTree, Abandon, Panicked, ContinueWith
  <2>2. stage = "encode" /\ stage' = "encode" /\ outcome' = "none"
    BY <1>1, <2>1 DEF PresenceInv, requestVars
  <2>3. QED
    BY <2>1, <2>2 DEF PresenceInv, Accepted, After, AfterBody, Ends, Places
<1>2. CASE Close /\ stage = "done" /\ UNCHANGED requestVars
  <2>1. UNCHANGED <<tree, request, wire, stage, outcome, errs>>
    BY <1>2 DEF Close, requestVars
  <2>2. \A place \in Places : PresentAt(place)' = PresentAt(place)
    BY <2>1, PresenceStays
  <2>3. BodyIsPresent' = BodyIsPresent
    BY <2>1 DEF BodyIsPresent, Called
  <2>4. phase' = "closed"
    BY <1>2 DEF Close, ContinueWith
  <2>5. QED
    BY <1>2, <2>1, <2>2, <2>3, <2>4 DEF PresenceInv, Accepted, IsClean
<1>3. CASE Encode \/ Send
  <2>1. phase' = "ready" /\ stage' \in {"encode", "path"} /\ outcome' = "none"
    BY <1>3 DEF Encode, Send, clientVars, PresenceInv
  <2>2. QED
    BY <2>1 DEF PresenceInv, Accepted, After, AfterBody, Ends, Places
<1>4. CASE DecodePath
  <2> DEFINE ds == [def \in In("path") |-> PathParameter(def)]
  <2>1. stage = "path" /\ SetPath(ds) /\ UNCHANGED <<clientVars, request, wire>>
    BY <1>4 DEF DecodePath
  <2>2. AllErrors(ds) = {} => PresentAt("path")
    <3>1. ASSUME AllErrors(ds) = {}, NEW def \in In("path") PROVE IsPresent(def)
      <4>1. ds[def].errs = {} /\ def.in = "path"
        BY <3>1 DEF AllErrors, In
      <4>2. QED
        BY <4>1, RequiredInPath
    <3>2. QED
      BY <3>1 DEF PresentAt
  <2> HIDE DEF ds
  <2>3. /\ stage' \in {"read", "done"} /\ (stage' = "done" <=> outcome' # "none")
        /\ outcome' # "accepted"
        /\ IsClean' => IsClean /\ AllErrors(ds) = {} /\ stage' = "read"
    BY <2>1 DEF SetPath, Answer, Continue, Crash, IsClean, PresenceInv
  <2>4. QED
    <3> DEFINE passed == AllErrors(ds) = {}
    <3>1. \A place \in Places : IsClean' /\ stage' \in After(place) => place = "path"
      BY <2>3 DEF After, Ends, Places
    <3>2. IsClean' => stage' \notin AfterBody
      BY <2>3 DEF AfterBody, Ends
    <3> HIDE DEF passed
    <3>3. IsClean' => IsClean /\ passed
      BY <2>3 DEF passed
    <3>4. passed => PresentAt("path")
      BY <2>2 DEF passed
    <3>5. \A place \in Places : IsClean' /\ stage' \in After(place) => PresentAt(place)
      BY <3>1, <3>3, <3>4
    <3>6. QED
      BY <2>1, <2>3, <3>2, <3>5, PresenceStep DEF Accepted
<1>5. CASE ReadBody
  <2>1. stage = "read" /\ UNCHANGED <<clientVars, request, wire>>
    BY <1>5 DEF ReadBody
  <2>2. BodyError = {} => BodyIsPresent
    BY DEF BodyError, BodyIsPresent, If
  <2> DEFINE passed == BodyError = {}
  <2>3. /\ stage' \in {"query", "done"} /\ (stage' = "done" <=> outcome' # "none")
        /\ outcome' # "accepted"
        /\ IsClean' => IsClean /\ passed /\ stage' = "query"
    BY <1>5, <2>1 DEF ReadBody, Answer, IsClean, PresenceInv
  <2>4. \A place \in Places : IsClean' /\ stage' \in After(place) => stage \in After(place)
    BY <2>1, <2>3 DEF After, Ends, Places
  <2> HIDE DEF passed
  <2>5. passed => BodyIsPresent
    BY <2>2 DEF passed
  <2>6. /\ \A place \in Places : IsClean' /\ stage' \in After(place) => PresentAt(place)
        /\ IsClean' /\ stage' \in AfterBody => BodyIsPresent
    BY <2>3, <2>4, <2>5 DEF PresenceInv
  <2>7. QED
    BY <2>1, <2>3, <2>6, PresenceStep DEF Accepted
<1>6. CASE DecodeQuery
  <2> DEFINE deep == {def \in In("query") : Style(def) = "deepObject"}
             ps == [def \in In("query") \ deep |-> decodeQueryFromParameter(def, wire.query)]
             ds == [def \in deep |-> decodeQueryDeepObjectFromParameter(def, wire.query)]
             passed == AllErrors(ps) = {} /\ AllErrors(ds) = {}
  <2>1. stage = "query" /\ ReadQuery(ps, ds) /\ UNCHANGED <<clientVars, request, wire>>
    BY <1>6 DEF DecodeQuery
  <2>2. passed => PresentAt("query")
    <3>1. ASSUME passed, NEW def \in In("query") PROVE IsPresent(def)
      <4>1. def.in = "query"
        BY DEF In
      <4>2. CASE def \in deep
        <5>1. ds[def].errs = {}
          BY <3>1, <4>2 DEF AllErrors
        <5>2. QED
          BY <4>1, <4>2, <5>1, RequiredDeep
      <4>3. CASE def \notin deep
        <5>1. ps[def].errs = {}
          BY <3>1, <4>3 DEF AllErrors
        <5>2. QED
          BY <4>1, <4>3, <5>1, RequiredInQuery
      <4>4. QED
        BY <4>2, <4>3
    <3>2. QED
      BY <3>1 DEF PresentAt
  <2> HIDE DEF ds, ps
  <2>3. PICK found, values : /\ Continue("query", found, values, "header")
                             /\ found = {} => passed
    BY <2>1 DEF ReadQuery, SetQuery
  <2> HIDE DEF passed
  <2>4. /\ stage' \in {"header", "done"} /\ (stage' = "done" <=> outcome' # "none")
        /\ outcome' # "accepted"
        /\ IsClean' => IsClean /\ passed /\ stage' = "header"
    BY <2>1, <2>3 DEF Continue, Crash, IsClean, PresenceInv
  <2>5. /\ \A place \in Places : IsClean' /\ stage' \in After(place) => stage \in After(place) \/ place = "query"
        /\ stage \in AfterBody
    BY <2>1, <2>4 DEF After, AfterBody, Ends, Places
  <2>6. /\ \A place \in Places : IsClean' /\ stage' \in After(place) => PresentAt(place)
        /\ IsClean' /\ stage' \in AfterBody => BodyIsPresent
    BY <2>2, <2>4, <2>5 DEF PresenceInv
  <2>7. QED
    BY <2>1, <2>4, <2>6, PresenceStep DEF Accepted
<1>7. CASE DecodeHeaders
  <2> DEFINE ds == [def \in In("header") |-> decodeHeaderParameter(def, wire.headers)]
             passed == AllErrors(ds) = {}
  <2>1. stage = "header" /\ SetHeaders(ds) /\ UNCHANGED <<clientVars, request, wire>>
    BY <1>7 DEF DecodeHeaders
  <2>2. passed => PresentAt("header")
    <3>1. ASSUME passed, NEW def \in In("header") PROVE IsPresent(def)
      <4>1. ds[def].errs = {} /\ def.in = "header"
        BY <3>1 DEF AllErrors, In
      <4>2. QED
        BY <4>1, RequiredInHeaders
    <3>2. QED
      BY <3>1 DEF PresentAt
  <2> HIDE DEF ds
  <2>3. PICK found, values : Continue("header", found, values, "body") /\ (found = {} => passed)
    BY <2>1 DEF SetHeaders
  <2> HIDE DEF passed
  <2>4. /\ stage' \in {"body", "done"} /\ (stage' = "done" <=> outcome' # "none")
        /\ outcome' # "accepted"
        /\ IsClean' => IsClean /\ passed /\ stage' = "body"
    BY <2>1, <2>3 DEF Continue, Crash, IsClean, PresenceInv
  <2>5. /\ \A place \in Places : IsClean' /\ stage' \in After(place) => stage \in After(place) \/ place = "header"
        /\ stage \in AfterBody
    BY <2>1, <2>4 DEF After, AfterBody, Ends, Places
  <2>6. /\ \A place \in Places : IsClean' /\ stage' \in After(place) => PresentAt(place)
        /\ IsClean' /\ stage' \in AfterBody => BodyIsPresent
    BY <2>2, <2>4, <2>5 DEF PresenceInv
  <2>7. QED
    BY <2>1, <2>4, <2>6, PresenceStep DEF Accepted
<1>8. CASE ValidateBody
  <2>1. stage = "body" /\ UNCHANGED <<clientVars, request, wire>>
    BY <1>8 DEF ValidateBody
  <2>2. /\ stage' \in {"cookie", "done"} /\ (stage' = "done" <=> outcome' # "none")
        /\ outcome' # "accepted"
        /\ IsClean' => IsClean /\ stage' = "cookie"
    BY <1>8, <2>1 DEF ValidateBody, Crash, IsClean, PresenceInv
  <2>3. /\ \A place \in Places : IsClean' /\ stage' \in After(place) => stage \in After(place)
        /\ stage \in AfterBody
    BY <2>1, <2>2 DEF After, AfterBody, Ends, Places
  <2>4. /\ \A place \in Places : IsClean' /\ stage' \in After(place) => PresentAt(place)
        /\ IsClean' /\ stage' \in AfterBody => BodyIsPresent
    BY <2>2, <2>3 DEF PresenceInv
  <2>5. QED
    BY <2>1, <2>2, <2>4, PresenceStep DEF Accepted
<1>9. CASE DecodeCookies
  <2> DEFINE ds == [def \in In("cookie") |-> decodeCookieParameter(def, wire.cookies)]
             skipped == ~(request.served /\ wire.cookies # <<>>)
             passed == skipped \/ AllErrors(ds) = {}
  <2>1. stage = "cookie" /\ UNCHANGED <<clientVars, request, wire>>
    BY <1>9 DEF DecodeCookies
  <2>2. passed => PresentAt("cookie")
    <3>1. ASSUME passed, NEW def \in In("cookie") PROVE IsPresent(def)
      <4>1. def.in = "cookie"
        BY DEF In
      <4>2. CASE skipped
        BY <4>1, <4>2 DEF IsPresent, MayBeMissing
      <4>3. CASE AllErrors(ds) = {}
        <5>1. ds[def].errs = {}
          BY <4>3 DEF AllErrors
        <5>2. QED
          BY <4>1, <5>1, RequiredInCookies
      <4>4. QED
        BY <3>1, <4>2, <4>3
    <3>2. QED
      BY <3>1 DEF PresentAt
  <2> HIDE DEF ds
  <2>3. /\ stage' \in {"settle", "done"} /\ (stage' = "done" <=> outcome' # "none")
        /\ outcome' # "accepted"
        /\ IsClean' => IsClean /\ passed /\ stage' = "settle"
    <3>1. CASE skipped
      BY <1>9, <2>1, <3>1 DEF DecodeCookies, IsClean, PresenceInv
    <3>2. CASE ~skipped
      <4>1. SetCookies(ds)
        BY <1>9, <3>2 DEF DecodeCookies, ds
      <4> HIDE DEF skipped
      <4>2. QED
        BY <2>1, <4>1 DEF SetCookies, Continue, Crash, IsClean, PresenceInv
    <3>3. QED
      BY <3>1, <3>2
  <2> HIDE DEF passed
  <2>4. /\ \A place \in Places : IsClean' /\ stage' \in After(place) => stage \in After(place) \/ place = "cookie"
        /\ stage \in AfterBody
    BY <2>1, <2>3 DEF After, AfterBody, Ends, Places
  <2>5. /\ \A place \in Places : IsClean' /\ stage' \in After(place) => PresentAt(place)
        /\ IsClean' /\ stage' \in AfterBody => BodyIsPresent
    BY <2>2, <2>3, <2>4 DEF PresenceInv
  <2>6. QED
    BY <2>1, <2>3, <2>5, PresenceStep DEF Accepted
<1>10. CASE Settle
  <2>1. stage = "settle" /\ UNCHANGED <<clientVars, request, wire, errs>>
    BY <1>10 DEF Settle
  <2>2. /\ stage' \in {"forward", "done"} /\ (stage' = "done" <=> outcome' # "none")
        /\ outcome' # "accepted" /\ (stage' = "forward" => errs' = {})
        /\ IsClean' => IsClean
    BY <1>10, <2>1 DEF Settle, IsClean, PresenceInv
  <2>3. (\A place \in Places : stage \in After(place)) /\ stage \in AfterBody
    BY <2>1 DEF After, AfterBody, Ends, Places
  <2>4. /\ \A place \in Places : IsClean' /\ stage' \in After(place) => PresentAt(place)
        /\ IsClean' /\ stage' \in AfterBody => BodyIsPresent
    BY <2>2, <2>3 DEF PresenceInv
  <2>5. QED
    BY <2>1, <2>2, <2>4, PresenceStep DEF Accepted
<1>11. CASE NewRequest
  <2>1. stage = "forward" /\ UNCHANGED <<clientVars, request, wire, errs>>
    BY <1>11 DEF NewRequest
  <2>2. stage' = "done" /\ outcome' = "accepted" /\ errs' = {} /\ (IsClean' => IsClean)
    BY <1>11, <2>1 DEF NewRequest, IsClean, PresenceInv
  <2>3. (\A place \in Places : stage \in After(place)) /\ stage \in AfterBody
    BY <2>1 DEF After, AfterBody, Ends, Places
  <2>4. /\ \A place \in Places : IsClean' /\ stage' \in After(place) => PresentAt(place)
        /\ IsClean' /\ stage' \in AfterBody => BodyIsPresent
    BY <2>2, <2>3 DEF PresenceInv
  <2>5. QED
    BY <2>1, <2>2, <2>4, PresenceStep DEF Accepted
<1>12. QED
  BY <1>1, <1>2, <1>3, <1>4, <1>5, <1>6, <1>7, <1>8, <1>9, <1>10, <1>11 DEF Next

LEMMA PresenceAlways == Spec => []PresenceInv
<1>1. ASSUME PresenceInv, UNCHANGED vars PROVE PresenceInv'
  <2>1. UNCHANGED <<tree, request, wire, stage, outcome, errs, phase>>
    BY <1>1 DEF vars, requestVars, clientVars
  <2>2. \A place \in Places : PresentAt(place)' = PresentAt(place)
    BY <2>1, PresenceStays
  <2>3. BodyIsPresent' = BodyIsPresent
    BY <2>1 DEF BodyIsPresent, Called
  <2>4. QED
    BY <1>1, <2>1, <2>2, <2>3 DEF PresenceInv, Accepted, IsClean
<1>2. QED
  BY <1>1, PresenceStarts, PresenceNext, PTL DEF Spec

(* No request is accepted without a parameter that must be there, in any    *)
(* place, or over HTTP without a body that must be there, whatever the      *)
(* schemas, the styles, and the other parameters.                           *)
THEOREM RequiredPresent == Spec => []RequiredIsPresent
<1>1. ASSUME PresenceInv PROVE RequiredIsPresent
  <2>1. SUFFICES ASSUME Accepted PROVE (\A place \in Places : PresentAt(place)) /\ BodyIsPresent
    BY DEF RequiredIsPresent, PresentAt, BodyIsPresent
  <2>2. IsClean /\ stage = "done"
    BY <1>1, <2>1 DEF PresenceInv, Accepted, IsClean
  <2>3. (\A place \in Places : stage \in After(place)) /\ stage \in AfterBody
    BY <2>2 DEF After, AfterBody, Ends, Places
  <2>4. QED
    BY <1>1, <2>2, <2>3 DEF PresenceInv
<1>2. QED
  BY <1>1, PresenceAlways, PTL

-----------------------------------------------------------------------------
(* The operators of a recursion are the ones they stand for, on the schemas *)
(* of the documents.  They can be: each is applied to a lower schema.       *)
IsRecursive ==
  \A s \in DocumentSchemas :
    /\ SubSchemasBelow(s) = SubSchemas(s)
    /\ \A v : Validated(s, v) = ValidateValue(s, v) /\ Met(s, v) = Meets(s, v)
    /\ \A texts, types : ItemDecoded({s}, texts, types) = ParamDecode({s}, texts, types)
    /\ \A raw, fields : BranchDecoded(raw, fields, s) = ObjectDecode(raw, fields, s)
    /\ \A node : NodeDecodedBelow(node, s) = NodeDecode(node, s) /\ NodeObjectOf(node, s) = NodeObject(node, s)

(* What holds of a schema if it holds of the lower ones holds of all.       *)
LEMMA ByHeight ==
  ASSUME NEW T,
         \A s \in DocumentSchemas :
           (\A t \in DocumentSchemas : Height[t] < Height[s] => t \in T) => s \in T
  PROVE  DocumentSchemas \subseteq T
<1> DEFINE Rest == {s \in DocumentSchemas : s \notin T}
           Heights == {Height[s] : s \in Rest}
<1>1. SUFFICES ASSUME Rest # {} PROVE FALSE
  OBVIOUS
<1>2. \A s \in DocumentSchemas : Height[s] \in Nat
  BY SchemasAssumption
<1>3. Heights \in SUBSET Nat /\ Heights # {}
  BY <1>1, <1>2
<1>4. PICK h \in Heights : \A k \in Heights : h <= k
  <2> HIDE DEF Heights
  <2>1. QED
    BY <1>3, Smallest
<1>5. PICK s \in Rest : h = Height[s]
  OBVIOUS
<1>6. ASSUME NEW t \in DocumentSchemas, Height[t] < Height[s] PROVE t \in T
  <2>1. SUFFICES ASSUME t \notin T PROVE FALSE
    OBVIOUS
  <2>2. Height[s] <= Height[t]
    BY <1>4, <1>5, <2>1
  <2>3. Height[s] \in Nat /\ Height[t] \in Nat
    BY <1>2
  <2>4. QED
    BY <1>6, <2>2, <2>3
<1>7. QED
  BY <1>6

LEMMA PartsAre ==
  ASSUME NEW s, NEW t
  PROVE  /\ t \in s.items => t \in Parts(s)
         /\ t \in ExtraSchemas(s) => t \in Parts(s)
         /\ t \in Range(s.properties) => t \in Parts(s)
         /\ t \in Range(s.patternProperties) => t \in Parts(s)
         /\ t \in BranchesOf(s) => t \in Parts(s)
BY DEF Parts, Range, BranchesOf

LEMMA LowerParts ==
  ASSUME IsRecursive, NEW s \in DocumentSchemas, NEW t \in Parts(s)
  PROVE  /\ t \in DocumentSchemas /\ Height[t] < Height[s]
         /\ SubSchemas(t) \subseteq SubSchemas(s)
         /\ IsValidated(s) => IsValidated(t)
         /\ IsEnforced(s) => IsEnforced(t)
<1>1. t \in DocumentSchemas /\ Height[t] < Height[s]
  BY SchemasAssumption
<1>2. SubSchemasBelow(t) = SubSchemas(t)
  BY <1>1 DEF IsRecursive
<1>3. SubSchemas(t) \subseteq SubSchemas(s)
  BY <1>2 DEF SubSchemas
<1>4. QED
  BY <1>1, <1>3 DEF IsValidated, IsEnforced

LEMMA IsItsPart ==
  ASSUME NEW s
  PROVE  s \in SubSchemas(s)
BY DEF SubSchemas

-----------------------------------------------------------------------------
(* A value the validator finds nothing wrong with meets the schema.         *)
IsSound(s) == \A v : Validated(s, v) = {} => Met(s, v)
LowerAreSound(s) == \A t \in Parts(s) : IsSound(t)

LEMMA AnythingMeets ==
  ASSUME NEW v
  PROVE  Meets(AnySchema, v) /\ Meets(Typed("object"), Obj(v))
<1>1. BranchesMeet(AnySchema, v)
  BY DEF AnySchema, BranchesMeet, Range
<1>2. BranchesMeet(Typed("object"), Obj(v))
  BY DEF AnySchema, Typed, BranchesMeet, Range
<1>3. ScalarMeets(AnySchema, v)
  BY DEF AnySchema, ScalarMeets, None
<1>4. InRange(AnySchema, Content(v))
  BY DEF AnySchema, InRange, Between, LimitOf, None
<1>5. TextMeets(AnySchema, Content(v))
  BY FormatsAssumption DEF AnySchema, TextMeets, Between, None
<1>6. ItemsMeet(AnySchema, v)
  BY DEF AnySchema, ItemsMeet, Between, None
<1>7. FieldsMeet(AnySchema, Content(v))
  BY DEF AnySchema, FieldsMeet, Between, None, NoFields, ExtraSchemas
<1>8. FieldsMeet(Typed("object"), Content(Obj(v)))
  BY DEF AnySchema, Typed, FieldsMeet, Between, None, NoFields, ExtraSchemas
<1>9. Meets(AnySchema, v)
  BY <1>1, <1>3, <1>4, <1>5, <1>6, <1>7 DEF Meets, AnySchema
<1>10. Typed("object").type = <<"object">> /\ Kind(Obj(v)) = "obj"
  BY DEF AnySchema, Typed, Kind, Obj
<1>11. Meets(Typed("object"), Obj(v))
  BY <1>2, <1>8, <1>10 DEF Meets, TypeName
<1>12. QED
  BY <1>9, <1>11

LEMMA BranchesSound ==
  ASSUME NEW s, NEW v, LowerAreSound(s), ValidateValue(s, v) = {}
  PROVE  BranchesMeet(s, v)
<1> DEFINE Of(branches) == [i \in DOMAIN branches |-> Validated(branches[i], v)]
<1>1. UNION Range(Of(s.allOf)) = {} /\ AnyOfErrors(Of(s.anyOf)) = {} /\ OneOfErrors(Of(s.oneOf)) = {}
  <2> DEFINE allErrors == UNION Range(Of(s.allOf))
             anyErrors == AnyOfErrors(Of(s.anyOf))
             oneErrors == OneOfErrors(Of(s.oneOf))
             own == validateValueOnly(s, v)
  <2>1. ValidateValue(s, v) = own \cup allErrors \cup anyErrors \cup oneErrors
    BY Zenon DEF ValidateValue
  <2> HIDE DEF allErrors, anyErrors, oneErrors, own
  <2>2. allErrors = {} /\ anyErrors = {} /\ oneErrors = {}
    BY <2>1
  <2>3. QED
    BY <2>2 DEF allErrors, anyErrors, oneErrors
<1>2. ASSUME NEW b, b \in BranchesOf(s), Validated(b, v) = {} PROVE Met(b, v)
  BY <1>2, PartsAre DEF LowerAreSound, IsSound
<1>3. ASSUME NEW b \in Range(s.allOf) PROVE Met(b, v)
  <2>1. PICK i \in DOMAIN s.allOf : b = s.allOf[i]
    BY DEF Range
  <2>2. Validated(b, v) = {}
    BY <1>1, <2>1 DEF Range
  <2>3. QED
    BY <1>2, <2>2 DEF BranchesOf
<1>4. ASSUME NEW branches, Range(branches) # {}, AnyOfErrors(Of(branches)) = {}
      PROVE  \E b \in Range(branches) : Validated(b, v) = {}
  <2>1. PICK i \in DOMAIN branches : TRUE
    BY <1>4 DEF Range
  <2>2. Range(Of(branches)) # {}
    BY <2>1 DEF Range
  <2>3. {} \in Range(Of(branches)) \/ UNION Range(Of(branches)) = {}
    BY <1>4, <2>2 DEF AnyOfErrors, AnyErrors
  <2>4. CASE {} \in Range(Of(branches))
    BY <2>4 DEF Range
  <2>5. CASE UNION Range(Of(branches)) = {}
    BY <2>1, <2>5 DEF Range
  <2>6. QED
    BY <2>3, <2>4, <2>5
<1>5. Range(s.anyOf) # {} => \E b \in Range(s.anyOf) : Met(b, v)
  BY <1>1, <1>2, <1>4 DEF BranchesOf
<1>6. ASSUME Range(s.oneOf) # {} PROVE \E b \in Range(s.oneOf) : Validated(b, v) = {}
  <2> DEFINE passing == {i \in DOMAIN Of(s.oneOf) : Of(s.oneOf)[i] = {}}
  <2>1. CASE passing = {}
    <3>1. AnyErrors(Range(Of(s.oneOf))) = {}
      <4>1. {Of(s.oneOf)[i] : i \in {k \in DOMAIN Of(s.oneOf) : \A j \in passing : k <= j}} = Range(Of(s.oneOf))
        BY <2>1 DEF Range
      <4>2. OneOfErrors(Of(s.oneOf)) = AnyErrors(Range(Of(s.oneOf)))
        BY <4>1 DEF OneOfErrors
      <4>3. QED
        BY <1>1, <4>2
    <3>2. AnyOfErrors(Of(s.oneOf)) = {}
      BY <3>1 DEF AnyOfErrors
    <3>3. QED
      BY <1>4, <1>6, <3>2
  <2>2. CASE passing # {}
    BY <2>2 DEF Range
  <2>3. QED
    BY <2>1, <2>2
<1>7. Range(s.oneOf) # {} => \E b \in Range(s.oneOf) : Met(b, v)
  BY <1>2, <1>6 DEF BranchesOf
<1>8. QED
  BY <1>3, <1>5, <1>7 DEF BranchesMeet

LEMMA EmptyTypes ==
  ASSUME IsRecursive, NEW t \in DocumentSchemas, HasType(t), IsSchemaTypeEmpty(t)
  PROVE  \A v : Met(t, v)
BY AnythingMeets DEF IsRecursive, HasType

LEMMA LengthSound ==
  ASSUME NEW s, NEW n, ValidateArrayLength(s, n) = {}
  PROVE  Between(s.minItems, n, s.maxItems)
BY DEF ValidateArrayLength, Between, If

LEMMA ItemsSound ==
  ASSUME IsRecursive, NEW s \in DocumentSchemas, LooksAt(s), LowerAreSound(s), NEW v,
         ValidateArrayAndItems(s, v) = {}
  PROVE  TypeAllowed(s, "array") /\ ItemsMeet(s, v)
<1>1. /\ TypeAllowed(s, "array") /\ ValidateArray(s, v) = {}
      /\ \A t \in s.items : ~IsSchemaTypeEmpty(t) =>
           \A x \in Range(Content(v)) : Validated(t, AsValue(v, x)) = {}
  BY DEF ValidateArrayAndItems
<1>2. ValidateArrayLength(s, Len(Content(v))) = {}
  BY <1>1 DEF ValidateArray
<1>3. Between(s.minItems, Len(Content(v)), s.maxItems)
  BY <1>2, LengthSound
<1>4. ASSUME NEW t \in s.items, NEW x \in Range(Content(v)) PROVE Met(t, AsValue(v, x))
  <2>1. t \in Parts(s) /\ t \in DocumentSchemas /\ HasType(t)
    BY PartsAre, LowerParts DEF LooksAt
  <2>2. CASE IsSchemaTypeEmpty(t)
    BY <2>1, <2>2, EmptyTypes
  <2>3. CASE ~IsSchemaTypeEmpty(t)
    BY <1>1, <2>1, <2>3 DEF LowerAreSound, IsSound
  <2>4. QED
    BY <2>2, <2>3
<1>5. QED
  BY <1>1, <1>3, <1>4 DEF ItemsMeet

LEMMA SizesSound ==
  ASSUME NEW s, NEW fields, ValidateObjectWithoutProperties(s, fields) = {}
  PROVE  /\ TypeAllowed(s, "object")
         /\ Between(s.minProperties, Cardinality(DOMAIN fields), s.maxProperties)
         /\ s.required \subseteq DOMAIN fields
         /\ \A k \in DOMAIN s.dependentRequired : s.dependentRequired[k] \subseteq DOMAIN fields
<1>1. /\ TypeAllowed(s, "object")
      /\ validateObjectPropertiesLength(s, Cardinality(DOMAIN fields)) = {}
      /\ If(~(s.required \subseteq DOMAIN fields), "required") = {}
      /\ If(\E k \in DOMAIN s.dependentRequired :
                 ~(s.dependentRequired[k] \subseteq DOMAIN fields), "dependentRequired") = {}
  BY DEF ValidateObjectWithoutProperties
<1>2. Between(s.minProperties, Cardinality(DOMAIN fields), s.maxProperties)
  BY <1>1 DEF validateObjectPropertiesLength, If, Between
<1>3. QED
  BY <1>1, <1>2 DEF If

LEMMA FieldsSound ==
  ASSUME IsRecursive, NEW s \in DocumentSchemas, LooksAt(s), LowerAreSound(s), NEW fields,
         ValidateObject(s, fields) = {}
  PROVE  TypeAllowed(s, "object") /\ FieldsMeet(s, fields)
<1> DEFINE extra == DOMAIN fields \ DOMAIN s.properties
<1>1. /\ ValidateObjectWithoutProperties(s, fields) = {}
      /\ \A k \in DOMAIN s.properties : Validated(s.properties[k], Field(fields, k)) = {}
      /\ \A t \in ExtraSchemas(s) : \A k \in extra : Validated(t, fields[k]) = {}
      /\ \A p \in Patterns(s) : \A k \in extra \cap Matching[p] : Validated(s.patternProperties[p], fields[k]) = {}
  <2> DEFINE own == ValidateObjectWithoutProperties(s, fields)
             declared == UNION {Validated(s.properties[k], Field(fields, k)) : k \in DOMAIN s.properties}
             others == UNION {Validated(t, fields[k]) : t \in ExtraSchemas(s), k \in extra}
             matching == UNION {UNION {Validated(s.patternProperties[p], fields[k]) : k \in extra \cap Matching[p]}
                                : p \in Patterns(s)}
  <2>1. ValidateObject(s, fields) = own \cup declared \cup others \cup matching
    BY DEF ValidateObject, Patterns
  <2> HIDE DEF own, declared, others, matching
  <2>2. own = {} /\ declared = {} /\ others = {} /\ matching = {}
    BY <2>1
  <2>3. QED
    BY <2>2 DEF own, declared, others, matching
<1>2. ASSUME NEW t \in Parts(s), NEW v, Validated(t, v) = {} PROVE Met(t, v)
  BY <1>2 DEF LowerAreSound, IsSound
<1>3. ASSUME NEW k \in DOMAIN fields \cap DOMAIN s.properties PROVE Met(s.properties[k], fields[k])
  <2>1. s.properties[k] \in Parts(s)
    BY PartsAre DEF Range
  <2>2. Validated(s.properties[k], fields[k]) = {}
    BY <1>1 DEF Field
  <2>3. QED
    BY <1>2, <2>1, <2>2
<1>4. ASSUME NEW p \in Patterns(s), NEW k \in DOMAIN fields \cap Matching[p]
      PROVE  Met(s.patternProperties[p], fields[k])
  <2>1. k \in extra \cap Matching[p]
    BY DEF LooksAt
  <2>2. s.patternProperties[p] \in Parts(s)
    BY PartsAre DEF Range, Patterns
  <2>3. QED
    BY <1>1, <1>2, <2>1, <2>2
<1>5. ASSUME NEW t \in ExtraSchemas(s), NEW k \in extra PROVE Met(t, fields[k])
  BY <1>1, <1>2, PartsAre
<1>6. QED
  BY <1>1, <1>3, <1>4, <1>5, SizesSound DEF FieldsMeet, Patterns

-----------------------------------------------------------------------------
LEMMA TypeSound ==
  ASSUME NEW s, NEW type, TypeAllowed(s, type)
  PROVE  s.type # <<>> => \E i \in DOMAIN s.type : s.type[i] = type
BY DEF TypeAllowed, Range

LEMMA EnumSound ==
  ASSUME NEW s, NEW v, ValidateEnum(s, v)
  PROVE  ScalarMeets(s, v)
BY DEF ValidateEnum, ScalarMeets, None

LEMMA NumberSound ==
  ASSUME NEW s, NEW n, validateNumberRules(s, n) = {}
  PROVE  InRange(s, n)
<1>1. /\ MultipleErrors(s, n) = {} /\ ~AboveMaximum(s, n) /\ ~AtExclusiveMinimum(s, n) /\ ~BelowMinimum(s, n)
  BY DEF validateNumberRules, If, Panic
<1>2. \A m \in s.multipleOf : m > 0 /\ n # 0 => n % m = 0
  BY <1>1 DEF MultipleErrors, If
<1>3. Between(s.minimum, n, s.maximum)
  BY <1>1 DEF Between, AboveMaximum, BelowMinimum
<1>4. \A m \in LimitOf(s.minimum, s.exclusiveMinimum) : ~(n <= m)
  BY <1>1 DEF LimitOf, AtExclusiveMinimum, BelowMinimum, IsFlag
<1>5. \A m \in LimitOf(s.maximum, s.exclusiveMaximum) : ~(n >= m)
  BY <1>1 DEF LimitOf, AboveMaximum, IsFlag
<1>6. QED
  BY <1>2, <1>3, <1>4, <1>5 DEF InRange

LEMMA TextSound ==
  ASSUME NEW s, NEW text, ValidateString(s, text) = {}
  PROVE  TypeAllowed(s, "string") /\ ValidateEnum(s, Str(text)) /\ TextMeets(s, text)
<1>1. /\ TypeAllowed(s, "string") /\ ValidateEnum(s, Str(text))
      /\ s.format \in DOMAIN WellFormed => text \in WellFormed[s.format]
      /\ LengthErrors(s, TextSize(text)) = {} /\ PatternErrors(s, text) = {}
  BY DEF ValidateString
<1>2. Between(s.minLength, TextSize(text), s.maxLength)
  BY <1>1 DEF LengthErrors, Between, If
<1>3. \A p \in s.pattern \cap DOMAIN Matching : text \in Matching[p]
  BY <1>1 DEF PatternErrors, If
<1>4. QED
  BY <1>1, <1>2, <1>3 DEF TextMeets

LEMMA ValueSound ==
  ASSUME IsRecursive, NEW s \in DocumentSchemas, LooksAt(s), LowerAreSound(s), NEW v,
         ValidateValue(s, v) = {}
  PROVE  Meets(s, v)
<1>1. validateValueOnly(s, v) = {}
  <2> DEFINE Of(branches) == [i \in DOMAIN branches |-> Validated(branches[i], v)]
             own == validateValueOnly(s, v)
             rest == (UNION Range(Of(s.allOf))) \cup AnyOfErrors(Of(s.anyOf)) \cup OneOfErrors(Of(s.oneOf))
  <2>1. ValidateValue(s, v) = own \cup rest
    BY DEF ValidateValue
  <2> HIDE DEF own, rest
  <2>2. own = {}
    BY <2>1
  <2>3. QED
    BY <2>2 DEF own
<1>2. BranchesMeet(s, v)
  BY BranchesSound
<1>3. CASE Kind(v) = "null"
  BY <1>3 DEF Meets
<1>4. CASE Kind(v) = "bool"
  <2>1. ValidateBoolean(s, v) = {}
    BY <1>1, <1>4 DEF validateValueOnly
  <2>2. TypeAllowed(s, "boolean") /\ ValidateEnum(s, v)
    BY <2>1 DEF ValidateBoolean, If
  <2>3. TypeName(v) = "boolean"
    BY <1>4 DEF TypeName
  <2>4. QED
    BY <1>2, <1>4, <2>2, <2>3, TypeSound, EnumSound DEF Meets
<1>5. CASE Kind(v) = "str"
  <2>1. ValidateString(s, Content(v)) = {}
    BY <1>1, <1>5 DEF validateValueOnly
  <2>2. TypeName(v) = "string"
    BY <1>5 DEF TypeName
  <2>3. ValidateEnum(s, v)
    <3>1. \A text : Loads(text, v) = Loads(text, Str(Content(v)))
      BY <1>5 DEF Loads, Str, Kind, Content
    <3>2. QED
      BY <2>1, <3>1, TextSound DEF ValidateEnum
  <2>4. QED
    BY <1>2, <1>5, <2>1, <2>2, <2>3, TextSound, TypeSound, EnumSound DEF Meets
<1>6. CASE Kind(v) = "int"
  <2>1. ValidateInteger(s, v) = {}
    BY <1>1, <1>6 DEF validateValueOnly
  <2>2. TypeAllowed(s, "integer") /\ ValidateEnum(s, v) /\ validateNumberRules(s, Content(v)) = {}
    BY <2>1 DEF ValidateInteger
  <2>3. TypeName(v) = "integer"
    BY <1>6 DEF TypeName
  <2>4. QED
    BY <1>2, <1>6, <2>2, <2>3, TypeSound, EnumSound, NumberSound DEF Meets
<1>7. CASE Kind(v) = "num"
  <2>1. ValidateNumber(s, v) = {}
    BY <1>1, <1>7 DEF validateValueOnly
  <2>2. TypeAllowed(s, "number") /\ ValidateEnum(s, v) /\ validateNumberRules(s, Content(v)) = {}
    BY <2>1 DEF ValidateNumber
  <2>3. TypeName(v) = "number"
    BY <1>7 DEF TypeName
  <2>4. QED
    BY <1>2, <1>7, <2>2, <2>3, TypeSound, EnumSound, NumberSound DEF Meets
<1>8. CASE Kind(v) \in {"strs", "arr"}
  <2>1. ValidateArrayAndItems(s, v) = {}
    BY <1>1, <1>8 DEF validateValueOnly
  <2>2. TypeName(v) = "array"
    BY <1>8 DEF TypeName
  <2>3. QED
    BY <1>2, <1>8, <2>1, <2>2, ItemsSound, TypeSound DEF Meets
<1>9. CASE Kind(v) = "obj"
  <2>1. ValidateObject(s, Content(v)) = {}
    BY <1>1, <1>9 DEF validateValueOnly
  <2>2. TypeName(v) = "object"
    BY <1>9 DEF TypeName
  <2>3. QED
    BY <1>2, <1>9, <2>1, <2>2, FieldsSound, TypeSound DEF Meets
<1>10. CASE Kind(v) \notin {"null", "bool", "str", "int", "num", "strs", "arr", "obj"}
  BY <1>1, <1>10 DEF validateValueOnly, ValidateNullable, Panic
<1>11. QED
  BY <1>3, <1>4, <1>5, <1>6, <1>7, <1>8, <1>9, <1>10

(* Of every schema of the documents, by induction over their heights.       *)
LEMMA ValidatorSound ==
  ASSUME IsRecursive
  PROVE  \A s \in DocumentSchemas : IsValidated(s) => IsSound(s) /\ LowerAreSound(s)
<1> DEFINE T == {s \in DocumentSchemas : IsValidated(s) => IsSound(s) /\ LowerAreSound(s)}
<1>1. ASSUME NEW s \in DocumentSchemas, \A t \in DocumentSchemas : Height[t] < Height[s] => t \in T
      PROVE  s \in T
  <2>1. SUFFICES ASSUME IsValidated(s) PROVE IsSound(s) /\ LowerAreSound(s)
    OBVIOUS
  <2>2. LowerAreSound(s)
    <3>1. ASSUME NEW t \in Parts(s) PROVE IsSound(t)
      <4>1. t \in DocumentSchemas /\ Height[t] < Height[s] /\ IsValidated(t)
        BY <2>1, LowerParts
      <4>2. QED
        BY <1>1, <4>1
    <3>2. QED
      BY <3>1 DEF LowerAreSound
  <2>3. LooksAt(s)
    BY <2>1, IsItsPart DEF IsValidated
  <2>4. \A v : Validated(s, v) = ValidateValue(s, v) /\ Met(s, v) = Meets(s, v)
    BY DEF IsRecursive
  <2>5. IsSound(s)
    BY <2>2, <2>3, <2>4, ValueSound DEF IsSound
  <2>6. QED
    BY <2>2, <2>5
<1>2. DocumentSchemas \subseteq T
  <2> HIDE DEF T
  <2>1. QED
    BY <1>1, ByHeight
<1>3. QED
  BY <1>2

(* Fields that fit a branch which only declares some of them.               *)
Fitted(branch, fields) ==
  /\ TypeAllowed(branch, "object")
  /\ branch.required \subseteq DOMAIN fields
  /\ \A k \in DOMAIN fields \cap DOMAIN branch.properties : Met(branch.properties[k], fields[k])

(* A value is data if it and all values in it are of the kinds of JSON      *)
(* values.                                                                  *)
IsData(v) == \E values : v \in values /\ AreClosed(values)
HasData(fields) == \A k \in DOMAIN fields : IsData(fields[k])

AllTried == INSTANCE BranchProofs WITH Try <- BranchDecoded, Fits <- Fitted, Has <- HasData
SomeTried == INSTANCE BranchProofs WITH Try <- decodeOrUnionItem, Fits <- Fitted, Has <- HasData
AllTriedBelow == INSTANCE BranchProofs WITH Try <- decodeObjectProperties, Fits <- Fitted, Has <- HasData
SomeTriedBelow == INSTANCE BranchProofs WITH Try <- decodeObjectOr, Fits <- Fitted, Has <- HasData

LEMMA SameBranches ==
  ASSUME NEW source, NEW branches, NEW fields
  PROVE  /\ All!AllOf(source, branches, fields) = AllTried!AllOf(source, branches, fields)
         /\ Some!AnyOf(source, branches, fields) = SomeTried!AnyOf(source, branches, fields)
         /\ Some!OneOf(source, branches, fields) = SomeTried!OneOf(source, branches, fields)
         /\ AllBelow!AllOf(source, branches, fields) = AllTriedBelow!AllOf(source, branches, fields)
         /\ SomeBelow!AnyOf(source, branches, fields) = SomeTriedBelow!AnyOf(source, branches, fields)
         /\ SomeBelow!OneOf(source, branches, fields) = SomeTriedBelow!OneOf(source, branches, fields)
<1>1. All!AllOf(source, branches, fields) = AllTried!AllOf(source, branches, fields)
  BY DEF All!AllOf, AllTried!AllOf, All!Taken, AllTried!Taken, All!Next, AllTried!Next, All!Take, AllTried!Take,
         All!Untried, AllTried!Untried, All!Fields, AllTried!Fields
<1>2. Some!AnyOf(source, branches, fields) = SomeTried!AnyOf(source, branches, fields)
  BY DEF Some!AnyOf, SomeTried!AnyOf, Some!Taken, SomeTried!Taken, Some!Next, SomeTried!Next, Some!Take, SomeTried!Take,
         Some!Untried, SomeTried!Untried, Some!Fields, SomeTried!Fields, Some!Settled, SomeTried!Settled,
         Some!Panic, SomeTried!Panic
<1>3. Some!OneOf(source, branches, fields) = SomeTried!OneOf(source, branches, fields)
  BY DEF Some!OneOf, SomeTried!OneOf, Some!Taken, SomeTried!Taken, Some!Next, SomeTried!Next, Some!Take, SomeTried!Take,
         Some!Untried, SomeTried!Untried, Some!Fields, SomeTried!Fields, Some!Settled, SomeTried!Settled,
         Some!Panic, SomeTried!Panic
<1>4. AllBelow!AllOf(source, branches, fields) = AllTriedBelow!AllOf(source, branches, fields)
  BY DEF AllBelow!AllOf, AllTriedBelow!AllOf, AllBelow!Taken, AllTriedBelow!Taken, AllBelow!Next, AllTriedBelow!Next,
         AllBelow!Take, AllTriedBelow!Take, AllBelow!Untried, AllTriedBelow!Untried, AllBelow!Fields, AllTriedBelow!Fields
<1>5. SomeBelow!AnyOf(source, branches, fields) = SomeTriedBelow!AnyOf(source, branches, fields)
  BY DEF SomeBelow!AnyOf, SomeTriedBelow!AnyOf, SomeBelow!Taken, SomeTriedBelow!Taken, SomeBelow!Next, SomeTriedBelow!Next,
         SomeBelow!Take, SomeTriedBelow!Take, SomeBelow!Untried, SomeTriedBelow!Untried, SomeBelow!Fields,
         SomeTriedBelow!Fields, SomeBelow!Settled, SomeTriedBelow!Settled, SomeBelow!Panic, SomeTriedBelow!Panic
<1>6. SomeBelow!OneOf(source, branches, fields) = SomeTriedBelow!OneOf(source, branches, fields)
  BY DEF SomeBelow!OneOf, SomeTriedBelow!OneOf, SomeBelow!Taken, SomeTriedBelow!Taken, SomeBelow!Next, SomeTriedBelow!Next,
         SomeBelow!Take, SomeTriedBelow!Take, SomeBelow!Untried, SomeTriedBelow!Untried, SomeBelow!Fields,
         SomeTriedBelow!Fields, SomeBelow!Settled, SomeTriedBelow!Settled, SomeBelow!Panic, SomeTriedBelow!Panic
<1>7. QED
  BY <1>1, <1>2, <1>3, <1>4, <1>5, <1>6

(* What is kept is the same in each of them.                                *)
Same(k, gs, fs) == (k \in DOMAIN gs <=> k \in DOMAIN fs) /\ (k \in DOMAIN fs => gs[k] = fs[k])
SameBut(gs, fs, keys) == \A k : k \in keys \/ Same(k, gs, fs)

LEMMA OnlyDeclaresIs ==
  ASSUME NEW b, OnlyDeclares(b)
  PROVE  /\ b.allOf = <<>> /\ b.anyOf = <<>> /\ b.oneOf = <<>> /\ b.patternProperties = NoFields
         /\ b.additionalProperties = None /\ b.dependentRequired = NoFields
         /\ b.minProperties = None /\ b.maxProperties = None
         /\ b.required \subseteq DOMAIN b.properties /\ TypeAllowed(b, "object")
         /\ ~IsSchemaObjectEmpty(b) /\ ~IsSchemaTypeEmpty(b)
<1>1. b = [AnySchema EXCEPT !.type = b.type, !.properties = b.properties, !.required = b.required]
  BY DEF OnlyDeclares
<1>2. /\ b.allOf = <<>> /\ b.anyOf = <<>> /\ b.oneOf = <<>> /\ b.patternProperties = NoFields
      /\ b.additionalProperties = None /\ b.dependentRequired = NoFields
      /\ b.minProperties = None /\ b.maxProperties = None
  BY <1>1 DEF AnySchema
<1>3. QED
  BY <1>2 DEF OnlyDeclares, IsSchemaObjectEmpty, IsSchemaTypeEmpty

LEMMA FittedMeets ==
  ASSUME NEW b, OnlyDeclares(b), NEW fields, Fitted(b, fields)
  PROVE  Meets(b, Obj(fields))
<1>1. Kind(Obj(fields)) = "obj" /\ Content(Obj(fields)) = fields
  BY DEF Kind, Content, Obj
<1>2. TypeName(Obj(fields)) = "object"
  BY <1>1 DEF TypeName
<1>3. BranchesMeet(b, Obj(fields))
  BY OnlyDeclaresIs DEF BranchesMeet, Range
<1>4. FieldsMeet(b, fields)
  BY OnlyDeclaresIs DEF FieldsMeet, Fitted, Between, None, NoFields, ExtraSchemas
<1>5. QED
  BY <1>1, <1>2, <1>3, <1>4, TypeSound DEF Meets, Fitted

(* The three groups of branches, one after the other, each of fields that   *)
(* no other group declares.                                                 *)
FitAll(branches, fields) == \A b \in Range(branches) : Fitted(b, fields)
FitOne(branches, fields) == Range(branches) # {} => \E b \in Range(branches) : Fitted(b, fields)
AllDeclared(s) == DeclaredBy(s.allOf) \cup DeclaredBy(s.anyOf) \cup DeclaredBy(s.oneOf)

LEMMA FittedStays ==
  ASSUME NEW b, OnlyDeclares(b), NEW gs, NEW fs, NEW keys, SameBut(gs, fs, keys),
         DOMAIN b.properties \cap keys = {}, Fitted(b, fs)
  PROVE  Fitted(b, gs)
<1>1. b.required \subseteq DOMAIN b.properties
  BY OnlyDeclaresIs
<1>2. \A k \in DOMAIN b.properties : Same(k, gs, fs)
  BY DEF SameBut
<1>3. QED
  BY <1>1, <1>2 DEF Fitted, Same

LEMMA GroupsMeet ==
  ASSUME IsRecursive, NEW s \in DocumentSchemas, DeclaresOnce(s), \A b \in BranchesOf(s) : OnlyDeclares(b),
         NEW f1, NEW f2, NEW f3, NEW f4,
         SameBut(f2, f1, DeclaredBy(s.allOf)), FitAll(s.allOf, f2),
         SameBut(f3, f2, DeclaredBy(s.anyOf)), FitOne(s.anyOf, f3),
         SameBut(f4, f3, DeclaredBy(s.oneOf)), FitOne(s.oneOf, f4)
  PROVE  BranchesMeet(s, Obj(f4)) /\ SameBut(f4, f1, AllDeclared(s))
<1>1. ASSUME NEW b \in BranchesOf(s), Fitted(b, f4) PROVE Met(b, Obj(f4))
  <2>1. b \in DocumentSchemas
    BY PartsAre, LowerParts
  <2>2. QED
    BY <1>1, <2>1, FittedMeets DEF IsRecursive
<1>2. \A b : \A branches : b \in Range(branches) => DOMAIN b.properties \subseteq DeclaredBy(branches)
  BY DEF DeclaredBy
<1>3. ASSUME NEW b \in Range(s.anyOf), Fitted(b, f3) PROVE Fitted(b, f4)
  <2>1. DOMAIN b.properties \cap DeclaredBy(s.oneOf) = {}
    BY <1>2 DEF DeclaresOnce
  <2>2. QED
    BY <1>3, <2>1, FittedStays DEF BranchesOf
<1>4. ASSUME NEW b \in Range(s.allOf) PROVE Fitted(b, f4)
  <2>1. DOMAIN b.properties \cap DeclaredBy(s.anyOf) = {} /\ DOMAIN b.properties \cap DeclaredBy(s.oneOf) = {}
    BY <1>2 DEF DeclaresOnce
  <2>2. Fitted(b, f2) /\ OnlyDeclares(b)
    BY DEF FitAll, BranchesOf
  <2>3. Fitted(b, f3)
    BY <2>1, <2>2, FittedStays
  <2>4. QED
    BY <2>1, <2>2, <2>3, FittedStays
<1>5. BranchesMeet(s, Obj(f4))
  BY <1>1, <1>3, <1>4 DEF BranchesMeet, FitOne, BranchesOf
<1>6. ASSUME NEW k, k \notin AllDeclared(s) PROVE Same(k, f4, f1)
  <2>1. Same(k, f4, f3) /\ Same(k, f3, f2) /\ Same(k, f2, f1)
    BY <1>6 DEF SameBut, AllDeclared
  <2>2. QED
    BY <2>1 DEF Same
<1>7. QED
  BY <1>5, <1>6 DEF SameBut

-----------------------------------------------------------------------------
(* What is decoded to a value that meets its schema, if it is decoded.      *)
Yields(s, d) == d.errs = {} => Meets(s, d.val)

LEMMA NullMeets ==
  ASSUME NEW s
  PROVE  Meets(s, Null)
BY DEF Meets, Null, Kind

LEMMA Accepts ==
  ASSUME NEW s, NEW d, NEW errors, Meets(s, d.val)
  PROVE  Yields(s, Accept(d, errors))
BY DEF Yields, Accept, Fail

LEMMA ValidYields ==
  ASSUME IsRecursive, NEW s \in DocumentSchemas, IsValidated(s), NEW d
  PROVE  Yields(s, Valid(s, d))
<1>1. \A v : ValidateValue(s, v) = {} => Meets(s, v)
  BY ValidatorSound DEF IsSound, IsRecursive
<1>2. QED
  BY <1>1 DEF Yields, Valid, Accept, Fail, Failed

LEMMA ParamYields ==
  ASSUME IsRecursive, NEW schema, schema # None, Only(schema) \in DocumentSchemas, IsValidated(Only(schema)),
         NEW texts, NEW types
  PROVE  Yields(Only(schema), ParamDecode(schema, texts, types))
<1> DEFINE s == Only(schema)
           d == Valid(s, DecodeTexts(s, texts, types))
<1>1. ParamDecode(schema, texts, types) = DecodeOneOf(s, d)
  BY DEF ParamDecode
<1>2. Yields(s, d)
  BY ValidYields
<1> HIDE DEF d
<1>3. Yields(s, TryOneOf(OneOfTried(s, d.type), d)) \/ Failed(d)
  BY <1>2, NullMeets, Accepts DEF TryOneOf, Ok, Yields, Failed
<1>4. Yields(s, DecodeOneOf(s, d))
  BY <1>2, <1>3 DEF DecodeOneOf
<1>5. QED
  BY <1>1, <1>4

LEMMA OnlyOne ==
  ASSUME NEW S, S # {}
  PROVE  Only(S) \in S
BY DEF Only

LEMMA OnlyIs ==
  ASSUME NEW x
  PROVE  Only({x}) = x
BY DEF Only

(* The items of an array that is decoded from texts, one from each.         *)
LEMMA ItemsYield ==
  ASSUME IsRecursive, NEW s \in DocumentSchemas, IsValidated(s), NEW texts, DOMAIN texts \subseteq Nat,
         NEW d, d = decodeArrayParam(texts, s), d.errs = {}
  PROVE  /\ Kind(d.val) = "arr"
         /\ \A t \in s.items : \A x \in Range(Content(d.val)) : Met(t, AsValue(d.val, x))
<1>1. LooksAt(s)
  BY IsItsPart DEF IsValidated
<1>2. CASE TypedItems(s) = {} \/ texts = <<>>
  <2>1. d.val = ToAnySlice(texts)
    BY <1>2 DEF decodeArrayParam, Ok
  <2>2. Kind(d.val) = "arr"
    BY <2>1 DEF ToAnySlice, Arr, Kind
  <2>3. CASE TypedItems(s) = {}
    <3>1. ASSUME NEW t \in s.items PROVE \A v : Met(t, v)
      <4>1. t \in DocumentSchemas /\ HasType(t) /\ IsSchemaTypeEmpty(t)
        BY <1>1, <2>3, PartsAre, LowerParts DEF LooksAt, TypedItems
      <4>2. QED
        BY <4>1, EmptyTypes
    <3>2. QED
      BY <2>2, <3>1
  <2>4. CASE texts = <<>>
    <3>1. Content(d.val) = [i \in DOMAIN texts |-> Str(texts[i])]
      BY <2>1 DEF ToAnySlice, Arr, Content
    <3>2. Range(Content(d.val)) = {}
      BY <2>4, <3>1 DEF Range
    <3>3. QED
      BY <2>2, <3>2
  <2>5. QED
    BY <1>2, <2>3, <2>4
<1>3. CASE TypedItems(s) # {} /\ texts # <<>>
  <2> DEFINE item == Only(TypedItems(s))
             ds == [i \in DOMAIN texts |-> ItemDecoded({item}, <<texts[i]>>, <<>>)]
             failing == {i \in DOMAIN ds : Failed(ds[i])}
  <2>1. item \in s.items /\ \A t \in s.items : t = item
    BY <1>3, OnlyOne, SchemasAssumption DEF TypedItems
  <2>2. item \in DocumentSchemas /\ IsValidated(item)
    BY <2>1, PartsAre, LowerParts
  <2>3. d = Collect(ds)
    BY <1>3 DEF decodeArrayParam, decodeArrayParamWithItemSchema
  <2>4. failing = {}
    <3>1. SUFFICES ASSUME failing # {} PROVE FALSE
      OBVIOUS
    <3>2. failing \in SUBSET Nat
      OBVIOUS
    <3>3. PICK least \in failing : \A j \in failing : least <= j
      <4> HIDE DEF failing
      <4>1. QED
        BY <3>1, <3>2, Smallest
    <3>4. least \in FirstIn(failing)
      <4> HIDE DEF failing
      <4>1. QED
        BY <3>3 DEF FirstIn
    <3>5. d.errs = UNION {ds[i].errs : i \in FirstIn(failing)}
      <4>1. Collect(ds) = Fail(UNION {ds[i].errs : i \in FirstIn(failing)})
        BY <3>1, Zenon DEF Collect
      <4> HIDE DEF failing, ds
      <4>2. QED
        BY <2>3, <4>1 DEF Fail
    <3>6. ds[least].errs # {}
      BY <3>3 DEF Failed
    <3>7. ds[least].errs \subseteq d.errs
      <4> HIDE DEF ds, failing
      <4>1. QED
        BY <3>4, <3>5
    <3>8. QED
      BY <3>6, <3>7 DEF Failed
  <2>5. d.val = Arr([i \in DOMAIN ds |-> ds[i].val])
    BY <2>3, <2>4 DEF Collect, Ok
  <2>6. Kind(d.val) = "arr" /\ Content(d.val) = [i \in DOMAIN ds |-> ds[i].val]
    BY <2>5 DEF Arr, Kind, Content
  <2>7. ASSUME NEW i \in DOMAIN texts PROVE Met(item, ds[i].val)
    <3>1. ds[i] = ParamDecode({item}, <<texts[i]>>, <<>>)
      BY <2>2 DEF IsRecursive
    <3>2. Only({item}) = item
      BY OnlyIs
    <3>3. Yields(item, ds[i])
      <4> HIDE DEF item, ds
      <4>1. {item} # None
        BY DEF None
      <4>2. QED
        BY <2>2, <3>1, <3>2, <4>1, ParamYields
    <3>4. ds[i].errs = {}
      BY <2>4 DEF Failed
    <3>5. Meets(item, ds[i].val)
      BY <3>3, <3>4 DEF Yields
    <3>6. QED
      BY <2>2, <3>5 DEF IsRecursive
  <2>8. ASSUME NEW x \in Range(Content(d.val)) PROVE Met(item, x)
    <3>1. PICK i \in DOMAIN texts : x = ds[i].val
      BY <2>6 DEF Range
    <3>2. QED
      BY <2>7, <3>1
  <2>9. \A x : AsValue(d.val, x) = x
    BY <2>6 DEF AsValue
  <2>10. QED
    BY <2>1, <2>6, <2>8, <2>9
<1>4. QED
  BY <1>2, <1>3

-----------------------------------------------------------------------------
(* Objects of texts by key.                                                 *)
LEMMA BesideIs ==
  ASSUME NEW fields, NEW ds, NEW d, d = Beside(fields, ds), d.errs = {}
  PROVE  /\ DOMAIN d.val = DOMAIN ds \cup DOMAIN fields
         /\ \A k \in DOMAIN ds : d.val[k] = ds[k].val /\ ds[k].errs = {}
         /\ \A k \in DOMAIN fields \ DOMAIN ds : d.val[k] = fields[k]
<1>1. d.val = Over([k \in Good(ds) |-> ds[k].val], fields) /\ \A k \in DOMAIN ds : ds[k].errs = {}
  BY DEF Beside, Fields
<1>2. Good(ds) = DOMAIN ds
  BY <1>1 DEF Good, Failed
<1>3. QED
  BY <1>1, <1>2 DEF Over

(* A step gives no field but those of keys of the texts, and none of a      *)
(* schema that only declares some but those it declares.                    *)
IsStep(step, raw, s, d, after, keys) ==
  /\ d.errs = {} /\ keys \subseteq DOMAIN raw /\ DOMAIN after.val = keys \cup DOMAIN d.val
  /\ step = "declared" => keys = DOMAIN s.properties \cap DOMAIN raw
  /\ step # "declared" /\ OnlyDeclares(s) => keys = {}
  /\ SameBut(after.val, d.val, keys)

LEMMA StepKeys ==
  ASSUME NEW step \in {"declared", "additional", "pattern"}, NEW raw, NEW s, NEW d,
         DecodeStep(step, raw, s, d).errs = {}
  PROVE  IsStep(step, raw, s, d, DecodeStep(step, raw, s, d), DOMAIN KeySchemas(step, raw, d.val, s))
<1> DEFINE schemas == KeySchemas(step, raw, d.val, s)
           ds == [k \in DOMAIN schemas |-> ParamDecode(schemas[k], raw[k], <<>>)]
<1>1. d.errs = {} /\ DecodeStep(step, raw, s, d) = Beside(d.val, ds)
  BY DEF DecodeStep, Failed, DecodeKeys
<1>2. DOMAIN schemas \subseteq DOMAIN raw /\ (step = "declared" => DOMAIN schemas = DOMAIN s.properties \cap DOMAIN raw)
  BY DEF KeySchemas, DeclaredSchemas, AdditionalSchemas, MatchingSchemas, Remaining
<1>3. ASSUME step # "declared", OnlyDeclares(s) PROVE DOMAIN schemas = {}
  <2>1. s.patternProperties = NoFields /\ s.additionalProperties = None
    BY <1>3, OnlyDeclaresIs
  <2>2. ~TakesAdditional(s)
    BY <2>1 DEF TakesAdditional
  <2>3. \A r : PatternSchemas(s, r) = {}
    BY <2>1 DEF PatternSchemas, NoFields
  <2>4. QED
    BY <1>3, <2>2, <2>3 DEF KeySchemas, AdditionalSchemas, MatchingSchemas
<1> HIDE DEF schemas
<1>4. DOMAIN ds = DOMAIN schemas
  OBVIOUS
<1>5. /\ DOMAIN Beside(d.val, ds).val = DOMAIN ds \cup DOMAIN d.val
      /\ \A k \in DOMAIN d.val \ DOMAIN ds : Beside(d.val, ds).val[k] = d.val[k]
  BY <1>1, BesideIs
<1>6. SameBut(Beside(d.val, ds).val, d.val, DOMAIN schemas)
  BY <1>4, <1>5 DEF SameBut, Same
<1>7. QED
  BY <1>1, <1>2, <1>3, <1>4, <1>5, <1>6 DEF schemas, IsStep

LEMMA PropertiesKeys ==
  ASSUME NEW raw, NEW fields, NEW s, NEW d, d = decodeProperties(raw, fields, s), d.errs = {}
  PROVE  /\ DOMAIN d.val \subseteq DOMAIN raw \cup DOMAIN fields
         /\ DOMAIN s.properties \cap DOMAIN raw \subseteq DOMAIN d.val
         /\ OnlyDeclares(s) => SameBut(d.val, fields, DOMAIN s.properties)
<1>1. PICK d0 : d0 = Fields(fields, {})
  OBVIOUS
<1> DEFINE d1 == DecodeStep("declared", raw, s, d0)
           d2 == DecodeStep("additional", raw, s, d1)
           keys1 == DOMAIN KeySchemas("declared", raw, d0.val, s)
           keys2 == DOMAIN KeySchemas("additional", raw, d1.val, s)
           keys3 == DOMAIN KeySchemas("pattern", raw, d2.val, s)
<1>0. d = DecodeStep("pattern", raw, s, d2) /\ d0.val = fields
  BY <1>1 DEF decodeProperties, Fields
<1> HIDE DEF d1, d2
<1>2. /\ d2.errs = {} /\ keys3 \subseteq DOMAIN raw /\ DOMAIN d.val = keys3 \cup DOMAIN d2.val
      /\ OnlyDeclares(s) => keys3 = {}
      /\ SameBut(d.val, d2.val, keys3)
  BY <1>0, StepKeys DEF IsStep
<1>3. /\ d1.errs = {} /\ keys2 \subseteq DOMAIN raw /\ DOMAIN d2.val = keys2 \cup DOMAIN d1.val
      /\ OnlyDeclares(s) => keys2 = {}
      /\ SameBut(d2.val, d1.val, keys2)
  BY <1>2, StepKeys DEF d2, IsStep
<1>4. /\ d0.errs = {} /\ keys1 \subseteq DOMAIN raw /\ DOMAIN d1.val = keys1 \cup DOMAIN d0.val
      /\ keys1 = DOMAIN s.properties \cap DOMAIN raw
      /\ SameBut(d1.val, d0.val, keys1)
  <2>1. DecodeStep("declared", raw, s, d0).errs = {} /\ "declared" \in {"declared", "additional", "pattern"}
    BY <1>3 DEF d1
  <2>2. IsStep("declared", raw, s, d0, d1, keys1)
    BY <2>1, StepKeys DEF d1
  <2> HIDE DEF keys1
  <2>3. QED
    BY <2>2 DEF IsStep
<1> HIDE DEF keys1, keys2, keys3
<1>5. ASSUME OnlyDeclares(s) PROVE SameBut(d.val, fields, DOMAIN s.properties)
  <2>1. ASSUME NEW k, k \notin DOMAIN s.properties PROVE Same(k, d.val, fields)
    <3>1. Same(k, d.val, d2.val) /\ Same(k, d2.val, d1.val) /\ Same(k, d1.val, fields)
      BY <1>0, <1>2, <1>3, <1>4, <1>5, <2>1 DEF SameBut
    <3>2. QED
      BY <3>1 DEF Same
  <2>2. QED
    BY <2>1 DEF SameBut
<1>6. QED
  BY <1>0, <1>2, <1>3, <1>4, <1>5

(* The steps after the properties, of an object that is decoded.            *)
LEMMA ObjectSteps ==
  ASSUME NEW raw, NEW fields, NEW s, ~IsSchemaObjectEmpty(s), NEW d, d = ObjectDecode(raw, fields, s), d.errs = {},
         NEW d1, d1 = decodeProperties(raw, fields, s), NEW d2, d2 = ObjectAllOf(raw, s, d1),
         NEW d3, d3 = ObjectAnyOf(raw, s, d2), NEW d4, d4 = ObjectOneOf(raw, s, d3)
  PROVE  /\ d1.errs = {}
         /\ d2.errs = {} /\ d2 = AllTried!AllOf(raw, s.allOf, d1.val)
         /\ d3.errs = {} /\ d3 = SomeTried!AnyOf(raw, s.anyOf, d2.val)
         /\ d4.errs = {} /\ d4 = SomeTried!OneOf(raw, s.oneOf, d3.val)
         /\ d.val = d4.val /\ ValidateObject(s, d.val) = {}
<1>1. d = FitsObject(s, d4)
  BY DEF ObjectDecode
<1>2. d4.errs = {} /\ d.val = d4.val /\ ValidateObject(s, d.val) = {}
  BY <1>1 DEF FitsObject, Failed, Fields
<1>3. d3.errs = {} /\ d4 = SomeTried!OneOf(raw, s.oneOf, d3.val)
  BY <1>2, SameBranches DEF ObjectOneOf, Failed
<1>4. d2.errs = {} /\ d3 = SomeTried!AnyOf(raw, s.anyOf, d2.val)
  BY <1>3, SameBranches DEF ObjectAnyOf, Failed
<1>5. d1.errs = {} /\ d2 = AllTried!AllOf(raw, s.allOf, d1.val)
  BY <1>4, SameBranches DEF ObjectAllOf, Failed
<1>6. QED
  BY <1>2, <1>3, <1>4, <1>5

LEMMA BranchDecodes ==
  ASSUME IsRecursive, NEW b \in DocumentSchemas, IsValidated(b), OnlyDeclares(b),
         NEW raw, NEW fields, NEW d, d = ObjectDecode(raw, fields, b), d.errs = {}
  PROVE  /\ DOMAIN d.val \subseteq DOMAIN raw \cup DOMAIN fields
         /\ DOMAIN b.properties \cap DOMAIN raw \subseteq DOMAIN d.val
         /\ Fitted(b, d.val) /\ SameBut(d.val, fields, DOMAIN b.properties)
<1> DEFINE d1 == decodeProperties(raw, fields, b)
           d2 == ObjectAllOf(raw, b, d1)
           d3 == ObjectAnyOf(raw, b, d2)
           d4 == ObjectOneOf(raw, b, d3)
<1>1. ~IsSchemaObjectEmpty(b) /\ b.allOf = <<>> /\ b.anyOf = <<>> /\ b.oneOf = <<>>
  BY OnlyDeclaresIs
<1>2. /\ d1.errs = {} /\ d2 = AllTried!AllOf(raw, <<>>, d1.val) /\ d3 = SomeTried!AnyOf(raw, <<>>, d2.val)
      /\ d4 = SomeTried!OneOf(raw, <<>>, d3.val) /\ d.val = d4.val /\ ValidateObject(b, d.val) = {}
  BY <1>1, ObjectSteps
<1> HIDE DEF d1, d2, d3, d4
<1>3. d2.val = d1.val /\ d3.val = d2.val /\ d4.val = d3.val
  BY <1>2, AllTried!NoBranches, SomeTried!NoBranches DEF AllTried!Fields, SomeTried!Fields
<1>4. FieldsMeet(b, d.val) /\ LowerAreSound(b)
  BY <1>2, IsItsPart, ValidatorSound, FieldsSound DEF IsValidated
<1>5. Fitted(b, d.val)
  BY <1>4, OnlyDeclaresIs DEF FieldsMeet, Fitted
<1>6. QED
  BY <1>2, <1>3, <1>5, PropertiesKeys DEF d1

LEMMA LocalBranch ==
  ASSUME NEW b, OnlyDeclares(b)
  PROVE  AllTried!IsLocal(b) /\ SomeTried!IsLocal(b) /\ AllTriedBelow!IsLocal(b) /\ SomeTriedBelow!IsLocal(b)
<1>1. b.required \subseteq DOMAIN b.properties
  BY OnlyDeclaresIs
<1>2. QED
  BY <1>1 DEF Fitted, AllTried!IsLocal, SomeTried!IsLocal, AllTriedBelow!IsLocal, SomeTriedBelow!IsLocal,
              AllTried!Agree, SomeTried!Agree, AllTriedBelow!Agree, SomeTriedBelow!Agree

LEMMA InstanceKeeps ==
  ASSUME NEW gs, NEW fs, NEW keys
  PROVE  /\ AllTried!Keeps(gs, fs, keys) <=> SameBut(gs, fs, keys)
         /\ SomeTried!Keeps(gs, fs, keys) <=> SameBut(gs, fs, keys)
         /\ AllTriedBelow!Keeps(gs, fs, keys) <=> SameBut(gs, fs, keys)
         /\ SomeTriedBelow!Keeps(gs, fs, keys) <=> SameBut(gs, fs, keys)
BY DEF AllTried!Keeps, SomeTried!Keeps, AllTriedBelow!Keeps, SomeTriedBelow!Keeps, SameBut, Same,
       AllTried!Agree, SomeTried!Agree, AllTriedBelow!Agree, SomeTriedBelow!Agree

LEMMA UnionIsDecoded ==
  ASSUME IsRecursive, NEW b \in DocumentSchemas, IsValidated(b), OnlyDeclares(b),
         NEW raw, NEW fields, DOMAIN fields \subseteq DOMAIN raw,
         NEW d, d = decodeOrUnionItem(raw, fields, b), d.errs = {}
  PROVE  DOMAIN d.val \subseteq DOMAIN raw /\ Fitted(b, d.val) /\ SameBut(d.val, fields, DOMAIN b.properties)
<1> DEFINE e == ObjectDecode(raw, NoFields, b)
<1>1. d = Join(fields, e)
  BY OnlyDeclaresIs DEF decodeOrUnionItem, IsRecursive
<1> HIDE DEF e
<1>2. e.errs = {} /\ d.val = Over(e.val, fields)
  BY <1>1 DEF Join, Fields
<1>3. DOMAIN NoFields = {}
  BY DEF NoFields
<1>4. /\ DOMAIN e.val \subseteq DOMAIN raw
      /\ DOMAIN b.properties \cap DOMAIN raw \subseteq DOMAIN e.val
      /\ Fitted(b, e.val) /\ SameBut(e.val, NoFields, DOMAIN b.properties)
  BY <1>2, <1>3, BranchDecodes DEF e
<1>5. DOMAIN e.val \subseteq DOMAIN b.properties
  BY <1>3, <1>4 DEF SameBut, Same
<1>6. DOMAIN d.val = DOMAIN e.val \cup DOMAIN fields
  BY <1>2 DEF Over
<1>7. \A k \in DOMAIN d.val : d.val[k] = IF k \in DOMAIN e.val THEN e.val[k] ELSE fields[k]
  BY <1>2 DEF Over
<1>8. Fitted(b, d.val)
  <2>1. b.required \subseteq DOMAIN d.val /\ TypeAllowed(b, "object")
    BY <1>4, <1>6 DEF Fitted
  <2>2. ASSUME NEW k \in DOMAIN d.val \cap DOMAIN b.properties PROVE Met(b.properties[k], d.val[k])
    <3>1. k \in DOMAIN e.val
      BY <1>4, <1>6
    <3>2. QED
      BY <1>4, <1>7, <3>1 DEF Fitted
  <2>3. QED
    BY <2>1, <2>2 DEF Fitted
<1>9. SameBut(d.val, fields, DOMAIN b.properties)
  BY <1>5, <1>6, <1>7 DEF SameBut, Same
<1>10. QED
  BY <1>4, <1>6, <1>8, <1>9

LEMMA BranchesAre ==
  ASSUME IsRecursive, NEW s \in DocumentSchemas, IsValidated(s), \A b \in BranchesOf(s) : OnlyDeclares(b), NEW raw
  PROVE  /\ AllTried!AreBranches(raw, DOMAIN raw, s.allOf)
         /\ SomeTried!AreBranches(raw, DOMAIN raw, s.anyOf) /\ SomeTried!AreBranches(raw, DOMAIN raw, s.oneOf)
<1>1. IsList(s.allOf) /\ IsList(s.anyOf) /\ IsList(s.oneOf)
  BY SchemasAssumption
<1>2. ASSUME NEW b, b \in BranchesOf(s) PROVE b \in DocumentSchemas /\ IsValidated(b) /\ OnlyDeclares(b)
  BY <1>2, PartsAre, LowerParts
<1>3. ASSUME NEW b, b \in BranchesOf(s) PROVE AllTried!Succeeds(raw, DOMAIN raw, b)
  <2>1. ASSUME NEW fs, DOMAIN fs \subseteq DOMAIN raw, BranchDecoded(raw, fs, b).errs = {}
        PROVE  AllTried!Turns(DOMAIN raw, b, BranchDecoded(raw, fs, b).val, fs)
    <3>1. BranchDecoded(raw, fs, b) = ObjectDecode(raw, fs, b)
      BY <1>2, <1>3 DEF IsRecursive
    <3>2. QED
      BY <1>2, <1>3, <2>1, <3>1, BranchDecodes, InstanceKeeps DEF AllTried!Turns
  <2>2. QED
    BY <2>1 DEF AllTried!Succeeds
<1>4. ASSUME NEW b, b \in BranchesOf(s) PROVE SomeTried!Succeeds(raw, DOMAIN raw, b)
  <2>1. ASSUME NEW fs, DOMAIN fs \subseteq DOMAIN raw, decodeOrUnionItem(raw, fs, b).errs = {}
        PROVE  SomeTried!Turns(DOMAIN raw, b, decodeOrUnionItem(raw, fs, b).val, fs)
    BY <1>2, <1>4, <2>1, UnionIsDecoded, InstanceKeeps DEF SomeTried!Turns
  <2>2. QED
    BY <2>1 DEF SomeTried!Succeeds
<1>5. ASSUME NEW branches, IsList(branches), Range(branches) \subseteq BranchesOf(s)
      PROVE  AllTried!AreBranches(raw, DOMAIN raw, branches) /\ SomeTried!AreBranches(raw, DOMAIN raw, branches)
  <2>1. branches \in Seq({branches[i] : i \in DOMAIN branches}) /\ DOMAIN branches = 1..Len(branches)
    BY <1>5 DEF IsList, Range
  <2>2. \A i \in 1..Len(branches) : branches[i] \in BranchesOf(s)
    BY <1>5, <2>1 DEF Range
  <2>3. QED
    BY <1>2, <1>3, <1>4, <2>1, <2>2, LocalBranch DEF AllTried!AreBranches, SomeTried!AreBranches
<1>6. QED
  BY <1>1, <1>5 DEF BranchesOf

(* From the branches by their numbers to the branches.                      *)
LEMMA ByNumber ==
  ASSUME NEW branches, IsList(branches), NEW fields
  PROVE  /\ (\A i \in 1..Len(branches) : Fitted(branches[i], fields)) => FitAll(branches, fields)
         /\ (branches # <<>> => \E i \in 1..Len(branches) : Fitted(branches[i], fields)) => FitOne(branches, fields)
         /\ AllTried!Declared(branches, Len(branches)) = DeclaredBy(branches)
         /\ SomeTried!Declared(branches, Len(branches)) = DeclaredBy(branches)
         /\ AllTriedBelow!Declared(branches, Len(branches)) = DeclaredBy(branches)
         /\ SomeTriedBelow!Declared(branches, Len(branches)) = DeclaredBy(branches)
<1>1. DOMAIN branches = 1..Len(branches)
  BY DEF IsList
<1>2. Range(branches) = {branches[i] : i \in 1..Len(branches)}
  BY <1>1 DEF Range
<1>3. Range(branches) # {} => branches # <<>>
  BY <1>1 DEF Range
<1>4. QED
  BY <1>2, <1>3 DEF FitAll, FitOne, DeclaredBy, AllTried!Declared, SomeTried!Declared, AllTriedBelow!Declared,
                    SomeTriedBelow!Declared

ObjectTypes(s) == "object" \in Range(ExtractSchemaTypes(s))

LEMMA ObjectMeets ==
  ASSUME IsRecursive, NEW s \in DocumentSchemas, IsEnforced(s), ObjectTypes(s),
         NEW raw, NEW d, d = ObjectDecode(raw, NoFields, s), d.errs = {}
  PROVE  Meets(s, Obj(d.val))
<1>1. IsValidated(s) /\ DecodesAll(s)
  BY IsItsPart DEF IsEnforced
<1>2. CASE IsSchemaObjectEmpty(s)
  BY <1>1, <1>2, AnythingMeets DEF DecodesAll, ObjectTypes, SaysNothing
<1>3. CASE ~IsSchemaObjectEmpty(s)
  <2> DEFINE d1 == decodeProperties(raw, NoFields, s)
             d2 == ObjectAllOf(raw, s, d1)
             d3 == ObjectAnyOf(raw, s, d2)
             d4 == ObjectOneOf(raw, s, d3)
  <2>1. /\ d1.errs = {}
        /\ d2.errs = {} /\ d2 = AllTried!AllOf(raw, s.allOf, d1.val)
        /\ d3.errs = {} /\ d3 = SomeTried!AnyOf(raw, s.anyOf, d2.val)
        /\ d4.errs = {} /\ d4 = SomeTried!OneOf(raw, s.oneOf, d3.val)
        /\ d.val = d4.val /\ ValidateObject(s, d.val) = {}
    BY <1>3, ObjectSteps
  <2>2. DOMAIN d1.val \subseteq DOMAIN raw
    BY <2>1, PropertiesKeys DEF NoFields
  <2> HIDE DEF d1, d2, d3, d4
  <2>3. DeclaresOnce(s) /\ \A b \in BranchesOf(s) : OnlyDeclares(b)
    BY <1>1 DEF DecodesAll, ObjectTypes
  <2>4. IsList(s.allOf) /\ IsList(s.anyOf) /\ IsList(s.oneOf)
    BY SchemasAssumption
  <2>5. /\ AllTried!AreBranches(raw, DOMAIN raw, s.allOf)
        /\ SomeTried!AreBranches(raw, DOMAIN raw, s.anyOf) /\ SomeTried!AreBranches(raw, DOMAIN raw, s.oneOf)
    BY <1>1, <2>3, BranchesAre
  <2>6. DOMAIN d2.val \subseteq DOMAIN raw /\ SameBut(d2.val, d1.val, DeclaredBy(s.allOf)) /\ FitAll(s.allOf, d2.val)
    <3>1. \A i, j \in 1..Len(s.allOf) : i # j => DOMAIN s.allOf[i].properties \cap DOMAIN s.allOf[j].properties = {}
      BY <2>3, <2>4 DEF DeclaresOnce, IsList
    <3>2. /\ DOMAIN d2.val \subseteq DOMAIN raw
          /\ AllTried!Keeps(d2.val, d1.val, AllTried!Declared(s.allOf, Len(s.allOf)))
          /\ \A i \in 1..Len(s.allOf) : Fitted(s.allOf[i], d2.val)
      BY <2>1, <2>2, <2>5, <3>1, AllTried!AllFit
    <3>3. QED
      BY <2>4, <3>2, ByNumber, InstanceKeeps
  <2>7. DOMAIN d3.val \subseteq DOMAIN raw /\ SameBut(d3.val, d2.val, DeclaredBy(s.anyOf)) /\ FitOne(s.anyOf, d3.val)
    <3>1. SomeTried!LeavesFitting(DOMAIN raw, s.anyOf, d2.val, d3)
      BY <2>1, <2>5, <2>6, SomeTried!OneFits
    <3>2. /\ DOMAIN d3.val \subseteq DOMAIN raw
          /\ SomeTried!Keeps(d3.val, d2.val, SomeTried!Declared(s.anyOf, Len(s.anyOf)))
          /\ s.anyOf # <<>> => \E i \in 1..Len(s.anyOf) : Fitted(s.anyOf[i], d3.val)
      BY <3>1 DEF SomeTried!LeavesFitting
    <3>3. QED
      BY <2>4, <3>2, ByNumber, InstanceKeeps
  <2>8. SameBut(d4.val, d3.val, DeclaredBy(s.oneOf)) /\ FitOne(s.oneOf, d4.val)
    <3>1. SomeTried!LeavesFitting(DOMAIN raw, s.oneOf, d3.val, d4)
      BY <2>1, <2>5, <2>7, SomeTried!OneFits
    <3>2. /\ SomeTried!Keeps(d4.val, d3.val, SomeTried!Declared(s.oneOf, Len(s.oneOf)))
          /\ s.oneOf # <<>> => \E i \in 1..Len(s.oneOf) : Fitted(s.oneOf[i], d4.val)
      BY <3>1 DEF SomeTried!LeavesFitting
    <3>3. QED
      BY <2>4, <3>2, ByNumber, InstanceKeeps
  <2>9. BranchesMeet(s, Obj(d.val))
    BY <2>1, <2>3, <2>6, <2>7, <2>8, GroupsMeet
  <2>10. TypeAllowed(s, "object") /\ FieldsMeet(s, d.val)
    BY <1>1, <2>1, IsItsPart, ValidatorSound, FieldsSound DEF IsValidated
  <2>11. Kind(Obj(d.val)) = "obj" /\ Content(Obj(d.val)) = d.val
    BY DEF Kind, Content, Obj
  <2>12. TypeName(Obj(d.val)) = "object"
    BY <2>11 DEF TypeName
  <2>13. QED
    BY <2>9, <2>10, <2>11, <2>12, TypeSound DEF Meets
<1>4. QED
  BY <1>2, <1>3

-----------------------------------------------------------------------------
(* Deep objects.  What holds of the nodes of a schema holds of its parts'.  *)
NodeIsSound(s) == IsEnforced(s) /\ HasType(s) => \A node : Yields(s, NodeDecode(node, s))
LowerNodes(s) == \A t \in DocumentSchemas : Height[t] < Height[s] => NodeIsSound(t)

LEMMA LowerStill ==
  ASSUME IsRecursive, NEW s \in DocumentSchemas, LowerNodes(s), NEW t \in Parts(s)
  PROVE  LowerNodes(t)
<1>1. t \in DocumentSchemas /\ Height[t] < Height[s]
  BY LowerParts
<1>2. \A u \in DocumentSchemas : Height[u] \in Nat
  BY SchemasAssumption
<1>3. ASSUME NEW u \in DocumentSchemas, Height[u] < Height[t] PROVE NodeIsSound(u)
  <2>1. Height[u] < Height[s]
    BY <1>1, <1>2, <1>3
  <2>2. QED
    BY <2>1 DEF LowerNodes
<1>4. QED
  BY <1>3 DEF LowerNodes

LEMMA DecodedNode ==
  ASSUME IsRecursive, NEW t \in DocumentSchemas, HasType(t), IsEnforced(t), NodeIsSound(t),
         NEW node, DecodeNode(node, {t}).errs = {}
  PROVE  Met(t, DecodeNode(node, {t}).val)
<1>1. CASE IsSchemaTypeEmpty(t)
  BY <1>1, EmptyTypes
<1>2. CASE ~IsSchemaTypeEmpty(t)
  <2>1. {u \in {t} : ~IsSchemaTypeEmpty(u)} = {t}
    BY <1>2
  <2>2. DecodeNode(node, {t}) = NodeDecodedBelow(node, Only({t}))
    BY <2>1 DEF DecodeNode
  <2>3. DecodeNode(node, {t}) = NodeDecode(node, t)
    BY <2>2, OnlyIs DEF IsRecursive
  <2>4. Meets(t, DecodeNode(node, {t}).val)
    BY <2>3 DEF NodeIsSound, Yields
  <2>5. QED
    BY <2>4 DEF IsRecursive
<1>3. QED
  BY <1>1, <1>2

(* One step: the names it decodes, and what the values of the others are.   *)
IsNodeStep(step, node, s, d, after, schemas) ==
  /\ d.errs = {} /\ DOMAIN schemas \subseteq DOMAIN node.items
  /\ DOMAIN after.val = DOMAIN schemas \cup DOMAIN d.val
  /\ \A k \in DOMAIN schemas : /\ DecodeNode(node.items[k], schemas[k]).errs = {}
                               /\ after.val[k] = DecodeNode(node.items[k], schemas[k]).val
  /\ SameBut(after.val, d.val, DOMAIN schemas)
  /\ step = "declared" => s.required \cap DOMAIN s.properties \subseteq DOMAIN node.items

LEMMA NodeSteps ==
  ASSUME NEW step \in {"declared", "additional", "pattern"}, NEW node, NEW s, NEW d,
         NodeStep(step, node, s, d).errs = {}
  PROVE  IsNodeStep(step, node, s, d, NodeStep(step, node, s, d), NodeSchemas(step, node, d.val, s))
<1> DEFINE schemas == NodeSchemas(step, node, d.val, s)
           ds == [name \in DOMAIN schemas |-> DecodeNode(node.items[name], schemas[name])]
<1>1. d.errs = {} /\ NodeStep(step, node, s, d) = Found(Beside(d.val, ds), Missing(step, node, s))
  BY DEF NodeStep, Failed, DecodeNodes
<1>2. DOMAIN schemas \subseteq DOMAIN node.items
  BY DEF NodeSchemas, DeclaredSchemas, AdditionalSchemas, MatchingSchemas
<1>3. PICK after : after = Beside(d.val, ds)
  OBVIOUS
<1> HIDE DEF schemas
<1>4. DOMAIN ds = DOMAIN schemas
  OBVIOUS
<1>5. after.errs = {} /\ Missing(step, node, s) = {} /\ NodeStep(step, node, s, d).val = after.val
  BY <1>1, <1>3 DEF Found, Fields, If
<1>6. /\ DOMAIN after.val = DOMAIN ds \cup DOMAIN d.val
      /\ \A k \in DOMAIN ds : after.val[k] = ds[k].val /\ ds[k].errs = {}
      /\ \A k \in DOMAIN d.val \ DOMAIN ds : after.val[k] = d.val[k]
  BY <1>3, <1>5, BesideIs
<1>7. SameBut(after.val, d.val, DOMAIN schemas)
  BY <1>4, <1>6 DEF SameBut, Same
<1>8. step = "declared" => s.required \cap DOMAIN s.properties \subseteq DOMAIN node.items
  BY <1>5 DEF Missing
<1>9. QED
  BY <1>1, <1>2, <1>4, <1>5, <1>6, <1>7, <1>8 DEF schemas, IsNodeStep

(* The schemas of one field.                                                *)
LEMMA PatternIs ==
  ASSUME NEW s, DecodesAll(s), NEW p \in Patterns(s), NEW k \in Matching[p]
  PROVE  PatternSchemas(s, k) = {s.patternProperties[p]}
BY DEF PatternSchemas, DecodesAll, Patterns

LEMMA ExtraIs ==
  ASSUME IsRecursive, NEW s \in DocumentSchemas, NEW t \in ExtraSchemas(s)
  PROVE  TakesAdditional(s) /\ ExtraSchemas(s) = {t}
<1>1. PICK x \in s.additionalProperties : Kind(x) = "schema" /\ t = Content(x)
  BY DEF ExtraSchemas
<1>2. \A y \in s.additionalProperties : y = x
  BY SchemasAssumption
<1>3. ExtraSchemas(s) = {t}
  BY <1>1, <1>2 DEF ExtraSchemas
<1>4. Kind(Bool(FALSE)) # "schema"
  BY DEF Kind, Bool
<1>5. TakesAdditional(s)
  BY <1>1, <1>4 DEF TakesAdditional, None
<1>6. QED
  BY <1>3, <1>5

-----------------------------------------------------------------------------
(* The properties of a node.                                                *)
FieldsHold(s, fields) ==
  /\ \A k \in DOMAIN fields \cap DOMAIN s.properties : Met(s.properties[k], fields[k])
  /\ \A p \in Patterns(s) : \A k \in DOMAIN fields \cap Matching[p] : Met(s.patternProperties[p], fields[k])
  /\ \A t \in ExtraSchemas(s) : \A k \in DOMAIN fields \ DOMAIN s.properties :
       (\E p \in Patterns(s) : k \in Matching[p]) \/ Met(t, fields[k])

LEMMA PartIsSound ==
  ASSUME IsRecursive, NEW s \in DocumentSchemas, IsEnforced(s), LowerNodes(s), NEW t,
         t \in Range(s.properties) \cup Range(s.patternProperties) \cup ExtraSchemas(s),
         NEW node, DecodeNode(node, {t}).errs = {}
  PROVE  Met(t, DecodeNode(node, {t}).val)
<1>1. t \in Parts(s) /\ HasType(t)
  BY PartsAre, IsItsPart DEF IsEnforced, DecodesAll
<1>2. t \in DocumentSchemas /\ Height[t] < Height[s] /\ IsEnforced(t)
  BY <1>1, LowerParts
<1>3. NodeIsSound(t)
  BY <1>2 DEF LowerNodes
<1>4. QED
  BY <1>1, <1>2, <1>3, DecodedNode

LEMMA NodeProperties ==
  ASSUME IsRecursive, NEW s \in DocumentSchemas, IsEnforced(s), LowerNodes(s),
         NEW node, NEW fields, DOMAIN fields \subseteq DOMAIN node.items,
         NEW d, d = decodeObjectProperties(node, fields, s), d.errs = {}
  PROVE  /\ DOMAIN d.val \subseteq DOMAIN node.items
         /\ DOMAIN s.properties \cap DOMAIN node.items \subseteq DOMAIN d.val
         /\ s.required \cap DOMAIN s.properties \subseteq DOMAIN node.items
         /\ \A k \in DOMAIN d.val \cap DOMAIN s.properties : Met(s.properties[k], d.val[k])
         /\ OnlyDeclares(s) => SameBut(d.val, fields, DOMAIN s.properties)
         /\ fields = NoFields => FieldsHold(s, d.val)
<1>1. PICK d0 : d0 = Fields(fields, {})
  OBVIOUS
<1> DEFINE d1 == NodeStep("declared", node, s, d0)
           d2 == NodeStep("additional", node, s, d1)
           schemas1 == NodeSchemas("declared", node, d0.val, s)
           schemas2 == NodeSchemas("additional", node, d1.val, s)
           schemas3 == NodeSchemas("pattern", node, d2.val, s)
<1>2. d = NodeStep("pattern", node, s, d2) /\ d0.val = fields
  BY <1>1 DEF decodeObjectProperties, Fields
<1> HIDE DEF d1, d2
<1>3. IsNodeStep("pattern", node, s, d2, d, schemas3)
  BY <1>2, NodeSteps
<1>4. IsNodeStep("additional", node, s, d1, d2, schemas2)
  <2>1. d2.errs = {}
    BY <1>3 DEF IsNodeStep
  <2>2. QED
    BY <2>1, NodeSteps DEF d2
<1>5. IsNodeStep("declared", node, s, d0, d1, schemas1)
  <2>1. d1.errs = {}
    BY <1>4 DEF IsNodeStep
  <2>2. QED
    BY <2>1, NodeSteps DEF d1
<1>6. schemas1 = [k \in DOMAIN s.properties \cap DOMAIN node.items |-> {s.properties[k]}]
  BY DEF NodeSchemas, DeclaredSchemas
<1>7. /\ DOMAIN schemas2 = {k \in DOMAIN node.items \ DOMAIN d1.val : TakesAdditional(s)}
      /\ \A k \in DOMAIN schemas2 : schemas2[k] = ExtraSchemas(s)
  BY DEF NodeSchemas, AdditionalSchemas
<1>8. /\ DOMAIN schemas3 = {k \in DOMAIN node.items \ DOMAIN d2.val : PatternSchemas(s, k) # {}}
      /\ \A k \in DOMAIN schemas3 : schemas3[k] = PatternSchemas(s, k)
  BY DEF NodeSchemas, MatchingSchemas
<1> HIDE DEF schemas1, schemas2, schemas3
<1>9. DOMAIN d1.val = DOMAIN schemas1 \cup DOMAIN fields /\ DOMAIN d2.val = DOMAIN schemas2 \cup DOMAIN d1.val
      /\ DOMAIN d.val = DOMAIN schemas3 \cup DOMAIN d2.val
  BY <1>2, <1>3, <1>4, <1>5 DEF IsNodeStep
<1>10. DOMAIN schemas1 = DOMAIN s.properties \cap DOMAIN node.items
  BY <1>6
<1>11. DOMAIN d.val \subseteq DOMAIN node.items
  BY <1>7, <1>8, <1>9, <1>10
<1>12. s.required \cap DOMAIN s.properties \subseteq DOMAIN node.items
  BY <1>5 DEF IsNodeStep
<1>13. ASSUME NEW k \in DOMAIN d.val, k \in DOMAIN s.properties PROVE Met(s.properties[k], d.val[k])
  <2>1. k \in DOMAIN schemas1 /\ k \notin DOMAIN schemas2 /\ k \notin DOMAIN schemas3
    BY <1>7, <1>8, <1>9, <1>10, <1>11, <1>13
  <2>2. Same(k, d.val, d2.val) /\ Same(k, d2.val, d1.val)
    BY <1>3, <1>4, <2>1 DEF IsNodeStep, SameBut
  <2>3. d.val[k] = d1.val[k]
    BY <1>9, <2>1, <2>2 DEF Same
  <2>4. schemas1[k] = {s.properties[k]}
    BY <1>6, <1>13, <2>1
  <2>5. /\ DecodeNode(node.items[k], {s.properties[k]}).errs = {}
        /\ d1.val[k] = DecodeNode(node.items[k], {s.properties[k]}).val
    BY <1>5, <2>1, <2>4 DEF IsNodeStep
  <2>6. s.properties[k] \in Range(s.properties)
    BY <1>13 DEF Range
  <2>7. QED
    BY <2>3, <2>5, <2>6, PartIsSound
<1>14. ASSUME OnlyDeclares(s) PROVE SameBut(d.val, fields, DOMAIN s.properties)
  <2>1. s.patternProperties = NoFields /\ s.additionalProperties = None
    BY <1>14, OnlyDeclaresIs
  <2>2. ~TakesAdditional(s) /\ \A k : PatternSchemas(s, k) = {}
    BY <2>1 DEF TakesAdditional, PatternSchemas, NoFields
  <2>3. DOMAIN schemas2 = {} /\ DOMAIN schemas3 = {}
    BY <1>7, <1>8, <2>2
  <2>4. ASSUME NEW k, k \notin DOMAIN s.properties PROVE Same(k, d.val, fields)
    <3>1. Same(k, d.val, d2.val) /\ Same(k, d2.val, d1.val) /\ Same(k, d1.val, fields)
      BY <1>2, <1>3, <1>4, <1>5, <1>10, <2>3, <2>4 DEF IsNodeStep, SameBut
    <3>2. QED
      BY <3>1 DEF Same
  <2>5. QED
    BY <2>4 DEF SameBut
<1>15. ASSUME fields = NoFields, NEW p \in Patterns(s), NEW k \in DOMAIN d.val \cap Matching[p]
       PROVE  Met(s.patternProperties[p], d.val[k])
  <2>1. DecodesAll(s) /\ LooksAt(s)
    BY IsItsPart DEF IsEnforced, IsValidated
  <2>2. k \notin DOMAIN schemas1 /\ DOMAIN schemas2 = {}
    BY <1>7, <1>10, <2>1 DEF DecodesAll, LooksAt
  <2>3. k \in DOMAIN schemas3
    BY <1>9, <1>15, <2>2 DEF NoFields
  <2>4. schemas3[k] = {s.patternProperties[p]}
    BY <1>8, <2>1, <2>3, PatternIs
  <2>5. /\ DecodeNode(node.items[k], {s.patternProperties[p]}).errs = {}
        /\ d.val[k] = DecodeNode(node.items[k], {s.patternProperties[p]}).val
    BY <1>3, <2>3, <2>4 DEF IsNodeStep
  <2>6. s.patternProperties[p] \in Range(s.patternProperties)
    BY DEF Range, Patterns
  <2>7. QED
    BY <2>5, <2>6, PartIsSound
<1>16. ASSUME fields = NoFields, NEW t \in ExtraSchemas(s), NEW k \in DOMAIN d.val \ DOMAIN s.properties,
              ~ \E p \in Patterns(s) : k \in Matching[p]
       PROVE  Met(t, d.val[k])
  <2>1. TakesAdditional(s) /\ ExtraSchemas(s) = {t}
    BY ExtraIs
  <2>2. PatternSchemas(s, k) = {}
    BY <1>16 DEF PatternSchemas, Patterns
  <2>3. k \in DOMAIN schemas2 /\ k \notin DOMAIN schemas3
    BY <1>8, <1>9, <1>10, <1>16, <2>2 DEF NoFields
  <2>4. Same(k, d.val, d2.val) /\ k \in DOMAIN d2.val
    BY <1>3, <1>9, <2>3 DEF IsNodeStep, SameBut
  <2>5. schemas2[k] = {t}
    BY <1>7, <2>1, <2>3
  <2>6. DecodeNode(node.items[k], {t}).errs = {} /\ d.val[k] = DecodeNode(node.items[k], {t}).val
    BY <1>4, <2>3, <2>4, <2>5 DEF IsNodeStep, Same
  <2>7. QED
    BY <2>6, PartIsSound
<1>17. QED
  BY <1>9, <1>10, <1>11, <1>12, <1>13, <1>14, <1>15, <1>16 DEF FieldsHold

LEMMA BelowBranch ==
  ASSUME IsRecursive, NEW b \in DocumentSchemas, IsEnforced(b), OnlyDeclares(b), LowerNodes(b),
         NEW node, NEW fields, DOMAIN fields \subseteq DOMAIN node.items,
         NEW d, d = decodeObjectProperties(node, fields, b), d.errs = {}
  PROVE  /\ DOMAIN d.val \subseteq DOMAIN node.items
         /\ DOMAIN b.properties \cap DOMAIN node.items \subseteq DOMAIN d.val
         /\ Fitted(b, d.val) /\ SameBut(d.val, fields, DOMAIN b.properties)
<1>1. b.required \subseteq DOMAIN b.properties /\ TypeAllowed(b, "object")
  BY OnlyDeclaresIs
<1>2. /\ DOMAIN d.val \subseteq DOMAIN node.items
      /\ DOMAIN b.properties \cap DOMAIN node.items \subseteq DOMAIN d.val
      /\ b.required \cap DOMAIN b.properties \subseteq DOMAIN node.items
      /\ \A k \in DOMAIN d.val \cap DOMAIN b.properties : Met(b.properties[k], d.val[k])
      /\ SameBut(d.val, fields, DOMAIN b.properties)
  BY NodeProperties
<1>3. b.required \subseteq DOMAIN d.val
  BY <1>1, <1>2
<1>4. QED
  BY <1>1, <1>2, <1>3 DEF Fitted

(* The steps of a node after the properties.                                *)
LEMMA NodeObjectSteps ==
  ASSUME NEW node, NEW s, NEW d, d = NodeObject(node, s), d.errs = {},
         NEW d1, d1 = decodeObjectProperties(node, NoFields, s), NEW d2, d2 = NodeAllOf(node, s, d1),
         NEW d3, d3 = NodeAnyOf(node, s, d2), NEW d4, d4 = NodeOneOf(node, s, d3)
  PROVE  /\ d1.errs = {}
         /\ d2.errs = {} /\ d2 = AllTriedBelow!AllOf(node, s.allOf, d1.val)
         /\ d3.errs = {} /\ d3 = SomeTriedBelow!AnyOf(node, s.anyOf, d2.val)
         /\ d4.errs = {} /\ d4 = SomeTriedBelow!OneOf(node, s.oneOf, d3.val)
         /\ d.val = d4.val /\ ValidateObjectWithoutProperties(s, d.val) = {}
<1>1. d = FitsWithoutProperties(s, d4)
  BY DEF NodeObject
<1>2. d4.errs = {} /\ d.val = d4.val /\ ValidateObjectWithoutProperties(s, d.val) = {}
  BY <1>1 DEF FitsWithoutProperties, Failed, Fields
<1>3. d3.errs = {} /\ d4 = SomeTriedBelow!OneOf(node, s.oneOf, d3.val)
  BY <1>2, SameBranches DEF NodeOneOf, Failed
<1>4. d2.errs = {} /\ d3 = SomeTriedBelow!AnyOf(node, s.anyOf, d2.val)
  BY <1>3, SameBranches DEF NodeAnyOf, Failed
<1>5. d1.errs = {} /\ d2 = AllTriedBelow!AllOf(node, s.allOf, d1.val)
  BY <1>4, SameBranches DEF NodeAllOf, Failed
<1>6. QED
  BY <1>2, <1>3, <1>4, <1>5

(* A branch decoded by itself is its properties.                            *)
LEMMA BranchObject ==
  ASSUME IsRecursive, NEW b \in DocumentSchemas, OnlyDeclares(b), NEW node,
         NEW d, d = NodeObject(node, b), d.errs = {}
  PROVE  /\ decodeObjectProperties(node, NoFields, b).errs = {}
         /\ d.val = decodeObjectProperties(node, NoFields, b).val
<1> DEFINE d1 == decodeObjectProperties(node, NoFields, b)
           d2 == NodeAllOf(node, b, d1)
           d3 == NodeAnyOf(node, b, d2)
           d4 == NodeOneOf(node, b, d3)
<1>1. b.allOf = <<>> /\ b.anyOf = <<>> /\ b.oneOf = <<>>
  BY OnlyDeclaresIs
<1>2. /\ d1.errs = {} /\ d2 = AllTriedBelow!AllOf(node, <<>>, d1.val) /\ d3 = SomeTriedBelow!AnyOf(node, <<>>, d2.val)
      /\ d4 = SomeTriedBelow!OneOf(node, <<>>, d3.val) /\ d.val = d4.val
  BY <1>1, NodeObjectSteps
<1> HIDE DEF d1, d2, d3, d4
<1>3. d2.val = d1.val /\ d3.val = d2.val /\ d4.val = d3.val
  BY <1>2, AllTriedBelow!NoBranches, SomeTriedBelow!NoBranches DEF AllTriedBelow!Fields, SomeTriedBelow!Fields
<1>4. QED
  BY <1>2, <1>3 DEF d1

LEMMA BelowUnion ==
  ASSUME IsRecursive, NEW b \in DocumentSchemas, IsEnforced(b), OnlyDeclares(b), LowerNodes(b),
         NEW node, NEW fields, DOMAIN fields \subseteq DOMAIN node.items,
         NEW d, d = decodeObjectOr(node, fields, b), d.errs = {}
  PROVE  /\ DOMAIN d.val \subseteq DOMAIN node.items /\ Fitted(b, d.val)
         /\ SameBut(d.val, fields, DOMAIN b.properties)
<1> DEFINE e == NodeObject(node, b)
           own == decodeObjectProperties(node, NoFields, b)
<1>1. d = Join(fields, e)
  BY OnlyDeclaresIs DEF decodeObjectOr, IsRecursive
<1> HIDE DEF e
<1>2. e.errs = {} /\ d.val = Over(e.val, fields)
  BY <1>1 DEF Join, Fields
<1>3. DOMAIN NoFields = {}
  BY DEF NoFields
<1>4. own.errs = {} /\ e.val = own.val
  BY <1>2, BranchObject DEF e
<1> HIDE DEF own
<1>5. /\ DOMAIN e.val \subseteq DOMAIN node.items
      /\ DOMAIN b.properties \cap DOMAIN node.items \subseteq DOMAIN e.val
      /\ Fitted(b, e.val) /\ SameBut(e.val, NoFields, DOMAIN b.properties)
  <2>1. own = decodeObjectProperties(node, NoFields, b)
    BY DEF own
  <2>2. QED
    BY <1>3, <1>4, <2>1, BelowBranch
<1>6. DOMAIN e.val \subseteq DOMAIN b.properties
  BY <1>3, <1>5 DEF SameBut, Same
<1>7. DOMAIN d.val = DOMAIN e.val \cup DOMAIN fields
  BY <1>2 DEF Over
<1>8. \A k \in DOMAIN d.val : d.val[k] = IF k \in DOMAIN e.val THEN e.val[k] ELSE fields[k]
  BY <1>2 DEF Over
<1>9. Fitted(b, d.val)
  <2>1. b.required \subseteq DOMAIN d.val /\ TypeAllowed(b, "object")
    BY <1>5, <1>7 DEF Fitted
  <2>2. ASSUME NEW k \in DOMAIN d.val \cap DOMAIN b.properties PROVE Met(b.properties[k], d.val[k])
    <3>1. k \in DOMAIN e.val
      BY <1>5, <1>7
    <3>2. QED
      BY <1>5, <1>8, <3>1 DEF Fitted
  <2>3. QED
    BY <2>1, <2>2 DEF Fitted
<1>10. SameBut(d.val, fields, DOMAIN b.properties)
  BY <1>6, <1>7, <1>8 DEF SameBut, Same
<1>11. QED
  BY <1>5, <1>7, <1>9, <1>10

LEMMA BranchesBelow ==
  ASSUME IsRecursive, NEW s \in DocumentSchemas, IsEnforced(s), LowerNodes(s),
         \A b \in BranchesOf(s) : OnlyDeclares(b), NEW node, NEW keys, keys = DOMAIN node.items
  PROVE  /\ AllTriedBelow!AreBranches(node, keys, s.allOf)
         /\ SomeTriedBelow!AreBranches(node, keys, s.anyOf) /\ SomeTriedBelow!AreBranches(node, keys, s.oneOf)
<1>1. IsList(s.allOf) /\ IsList(s.anyOf) /\ IsList(s.oneOf)
  BY SchemasAssumption
<1>2. ASSUME NEW b, b \in BranchesOf(s)
      PROVE  b \in DocumentSchemas /\ IsEnforced(b) /\ OnlyDeclares(b) /\ LowerNodes(b)
  BY <1>2, PartsAre, LowerParts, LowerStill
<1>3. ASSUME NEW b, b \in BranchesOf(s) PROVE AllTriedBelow!Succeeds(node, keys, b)
  <2>1. ASSUME NEW fs, DOMAIN fs \subseteq keys, decodeObjectProperties(node, fs, b).errs = {}
        PROVE  AllTriedBelow!Turns(keys, b, decodeObjectProperties(node, fs, b).val, fs)
    BY <1>2, <1>3, <2>1, BelowBranch, InstanceKeeps DEF AllTriedBelow!Turns
  <2>2. QED
    BY <2>1 DEF AllTriedBelow!Succeeds
<1>4. ASSUME NEW b, b \in BranchesOf(s) PROVE SomeTriedBelow!Succeeds(node, keys, b)
  <2>1. ASSUME NEW fs, DOMAIN fs \subseteq keys, decodeObjectOr(node, fs, b).errs = {}
        PROVE  SomeTriedBelow!Turns(keys, b, decodeObjectOr(node, fs, b).val, fs)
    BY <1>2, <1>4, <2>1, BelowUnion, InstanceKeeps DEF SomeTriedBelow!Turns
  <2>2. QED
    BY <2>1 DEF SomeTriedBelow!Succeeds
<1>5. ASSUME NEW branches, IsList(branches), Range(branches) \subseteq BranchesOf(s)
      PROVE  AllTriedBelow!AreBranches(node, keys, branches) /\ SomeTriedBelow!AreBranches(node, keys, branches)
  <2>1. branches \in Seq({branches[i] : i \in DOMAIN branches}) /\ DOMAIN branches = 1..Len(branches)
    BY <1>5 DEF IsList, Range
  <2>2. \A i \in 1..Len(branches) : branches[i] \in BranchesOf(s)
    BY <1>5, <2>1 DEF Range
  <2>3. QED
    BY <1>2, <1>3, <1>4, <2>1, <2>2, LocalBranch DEF AllTriedBelow!AreBranches, SomeTriedBelow!AreBranches
<1>6. QED
  BY <1>1, <1>5 DEF BranchesOf

LEMMA NodeObjectMeets ==
  ASSUME IsRecursive, NEW s \in DocumentSchemas, IsEnforced(s), ObjectTypes(s), LowerNodes(s),
         NEW node, NEW d, d = NodeObject(node, s), d.errs = {}
  PROVE  Meets(s, Obj(d.val))
<1>1. IsValidated(s) /\ DecodesAll(s)
  BY IsItsPart DEF IsEnforced
<1>2. CASE IsSchemaObjectEmpty(s)
  BY <1>1, <1>2, AnythingMeets DEF DecodesAll, ObjectTypes, SaysNothing
<1>3. CASE ~IsSchemaObjectEmpty(s)
  <2> DEFINE d1 == decodeObjectProperties(node, NoFields, s)
             d2 == NodeAllOf(node, s, d1)
             d3 == NodeAnyOf(node, s, d2)
             d4 == NodeOneOf(node, s, d3)
             keys == DOMAIN node.items
  <2>1. /\ d1.errs = {}
        /\ d2.errs = {} /\ d2 = AllTriedBelow!AllOf(node, s.allOf, d1.val)
        /\ d3.errs = {} /\ d3 = SomeTriedBelow!AnyOf(node, s.anyOf, d2.val)
        /\ d4.errs = {} /\ d4 = SomeTriedBelow!OneOf(node, s.oneOf, d3.val)
        /\ d.val = d4.val /\ ValidateObjectWithoutProperties(s, d.val) = {}
    BY NodeObjectSteps
  <2>2. DOMAIN d1.val \subseteq keys /\ FieldsHold(s, d1.val)
    <3>1. DOMAIN NoFields \subseteq DOMAIN node.items
      BY DEF NoFields
    <3>2. QED
      BY <2>1, <3>1, NodeProperties
  <2> HIDE DEF d1, d2, d3, d4
  <2>3. DeclaresOnce(s) /\ \A b \in BranchesOf(s) : OnlyDeclares(b)
    BY <1>1 DEF DecodesAll, ObjectTypes
  <2>4. IsList(s.allOf) /\ IsList(s.anyOf) /\ IsList(s.oneOf)
    BY SchemasAssumption
  <2>5. /\ AllTriedBelow!AreBranches(node, keys, s.allOf)
        /\ SomeTriedBelow!AreBranches(node, keys, s.anyOf) /\ SomeTriedBelow!AreBranches(node, keys, s.oneOf)
    BY <2>3, BranchesBelow
  <2> HIDE DEF keys
  <2>6. DOMAIN d2.val \subseteq keys /\ SameBut(d2.val, d1.val, DeclaredBy(s.allOf)) /\ FitAll(s.allOf, d2.val)
    <3>1. \A i, j \in 1..Len(s.allOf) : i # j => DOMAIN s.allOf[i].properties \cap DOMAIN s.allOf[j].properties = {}
      BY <2>3, <2>4 DEF DeclaresOnce, IsList
    <3>2. /\ DOMAIN d2.val \subseteq keys
          /\ AllTriedBelow!Keeps(d2.val, d1.val, AllTriedBelow!Declared(s.allOf, Len(s.allOf)))
          /\ \A i \in 1..Len(s.allOf) : Fitted(s.allOf[i], d2.val)
      BY <2>1, <2>2, <2>5, <3>1, AllTriedBelow!AllFit
    <3>3. QED
      BY <2>4, <3>2, ByNumber, InstanceKeeps
  <2>7. DOMAIN d3.val \subseteq keys /\ SameBut(d3.val, d2.val, DeclaredBy(s.anyOf)) /\ FitOne(s.anyOf, d3.val)
    <3>1. SomeTriedBelow!LeavesFitting(keys, s.anyOf, d2.val, d3)
      BY <2>1, <2>5, <2>6, SomeTriedBelow!OneFits
    <3>2. /\ DOMAIN d3.val \subseteq keys
          /\ SomeTriedBelow!Keeps(d3.val, d2.val, SomeTriedBelow!Declared(s.anyOf, Len(s.anyOf)))
          /\ s.anyOf # <<>> => \E i \in 1..Len(s.anyOf) : Fitted(s.anyOf[i], d3.val)
      BY <3>1 DEF SomeTriedBelow!LeavesFitting
    <3>3. QED
      BY <2>4, <3>2, ByNumber, InstanceKeeps
  <2>8. SameBut(d4.val, d3.val, DeclaredBy(s.oneOf)) /\ FitOne(s.oneOf, d4.val)
    <3>1. SomeTriedBelow!LeavesFitting(keys, s.oneOf, d3.val, d4)
      BY <2>1, <2>5, <2>7, SomeTriedBelow!OneFits
    <3>2. /\ SomeTriedBelow!Keeps(d4.val, d3.val, SomeTriedBelow!Declared(s.oneOf, Len(s.oneOf)))
          /\ s.oneOf # <<>> => \E i \in 1..Len(s.oneOf) : Fitted(s.oneOf[i], d4.val)
      BY <3>1 DEF SomeTriedBelow!LeavesFitting
    <3>3. QED
      BY <2>4, <3>2, ByNumber, InstanceKeeps
  <2>9. BranchesMeet(s, Obj(d.val)) /\ SameBut(d.val, d1.val, AllDeclared(s))
    BY <2>1, <2>3, <2>6, <2>7, <2>8, GroupsMeet
  <2>10. FieldsHold(s, d.val)
    <3>1. ASSUME NEW k \in DOMAIN d.val \cap DOMAIN s.properties PROVE Met(s.properties[k], d.val[k])
      <4>1. k \notin AllDeclared(s)
        BY <2>3 DEF DeclaresOnce, AllDeclared
      <4>2. k \in DOMAIN d1.val /\ d.val[k] = d1.val[k]
        BY <2>9, <4>1 DEF SameBut, Same
      <4>3. QED
        BY <2>2, <4>2 DEF FieldsHold
    <3>2. CASE BranchesOf(s) # {}
      <4>1. Patterns(s) = {} /\ ExtraSchemas(s) = {}
        BY <1>1, <3>2 DEF DecodesAll, ObjectTypes
      <4>2. QED
        BY <3>1, <4>1 DEF FieldsHold
    <3>3. CASE BranchesOf(s) = {}
      <4>1. AllDeclared(s) = {}
        BY <3>3 DEF AllDeclared, DeclaredBy, BranchesOf
      <4>2. DOMAIN d.val = DOMAIN d1.val /\ \A k \in DOMAIN d.val : d.val[k] = d1.val[k]
        BY <2>9, <4>1 DEF SameBut, Same
      <4>3. QED
        BY <2>2, <3>1, <4>2 DEF FieldsHold
    <3>4. QED
      BY <3>2, <3>3
  <2>11. TypeAllowed(s, "object") /\ FieldsMeet(s, d.val)
    <3>1. /\ TypeAllowed(s, "object")
          /\ Between(s.minProperties, Cardinality(DOMAIN d.val), s.maxProperties)
          /\ s.required \subseteq DOMAIN d.val
          /\ \A k \in DOMAIN s.dependentRequired : s.dependentRequired[k] \subseteq DOMAIN d.val
      BY <2>1, SizesSound
    <3>2. QED
      BY <2>10, <3>1 DEF FieldsMeet, FieldsHold, Patterns
  <2>12. Kind(Obj(d.val)) = "obj" /\ Content(Obj(d.val)) = d.val
    BY DEF Kind, Content, Obj
  <2>13. TypeName(Obj(d.val)) = "object"
    BY <2>12 DEF TypeName
  <2>14. QED
    BY <2>9, <2>11, <2>12, <2>13, TypeSound DEF Meets
<1>4. QED
  BY <1>2, <1>3

-----------------------------------------------------------------------------
LEMMA AsObjectYields ==
  ASSUME NEW s, NEW d, d.errs = {} => Meets(s, Obj(d.val))
  PROVE  Yields(s, AsObject(d))
BY DEF Yields, AsObject, Ok, Fail, Failed

LEMMA TriedType ==
  ASSUME NEW s, NEW types, NEW type, NEW attempt, NEW rest,
         type \in Range(types) => Yields(s, attempt), Yields(s, rest)
  PROVE  Yields(s, TryType(types, type, attempt, rest))
BY DEF TryType, Decides

LEMMA ScalarYields ==
  ASSUME IsRecursive, NEW s \in DocumentSchemas, IsValidated(s), NEW d
  PROVE  Yields(s, ValidScalar(s, d))
<1>1. \A v : ValidateValue(s, v) = {} => Meets(s, v)
  BY ValidatorSound DEF IsSound, IsRecursive
<1>2. QED
  BY <1>1, NullMeets DEF Yields, ValidScalar, OrNull, Ok, Fail, Failed

LEMMA NodeYields ==
  ASSUME IsRecursive, NEW s \in DocumentSchemas, IsEnforced(s), HasType(s), LowerNodes(s), NEW node
  PROVE  Yields(s, NodeDecode(node, s))
<1>1. IsValidated(s)
  BY DEF IsEnforced
<1>2. CASE IsSchemaTypeEmpty(s)
  BY <1>2, AnythingMeets DEF NodeDecode, HasType, Yields, Ok
<1>3. CASE ~IsSchemaTypeEmpty(s) /\ node.values = <<>> /\ IsLeaf(node)
  BY <1>3, NullMeets, Accepts DEF NodeDecode, Ok
<1>4. CASE ~IsSchemaTypeEmpty(s) /\ ~(node.values = <<>> /\ IsLeaf(node))
  <2> DEFINE types == ExtractSchemaTypes(s)
             object == decodeObject(node, s)
             array == decodeArray(node, s)
             scalar == NodeScalar(node, s, Scalars(types))
  <2>1. NodeDecode(node, s) = TryTypes(types, object, array, scalar)
    BY <1>4 DEF NodeDecode
  <2>2. "object" \in Range(types) => Yields(s, object)
    <3>1. ASSUME ObjectTypes(s), NodeObject(node, s).errs = {} PROVE Meets(s, Obj(NodeObject(node, s).val))
      BY <3>1, NodeObjectMeets
    <3>2. QED
      BY <3>1, AsObjectYields DEF ObjectTypes, decodeObject
  <2>3. Yields(s, array)
    BY <1>1, ValidYields DEF decodeArray
  <2>4. Yields(s, scalar)
    BY <1>1, ScalarYields DEF NodeScalar
  <2> HIDE DEF types, object, array, scalar
  <2>5. QED
    BY <2>1, <2>2, <2>3, <2>4, TriedType DEF TryTypes
<1>5. QED
  BY <1>2, <1>3, <1>4

(* By induction over the heights of schemas.                                *)
LEMMA NodesAreSound ==
  ASSUME IsRecursive
  PROVE  \A s \in DocumentSchemas : NodeIsSound(s)
<1> DEFINE T == {s \in DocumentSchemas : NodeIsSound(s)}
<1>1. ASSUME NEW s \in DocumentSchemas, \A t \in DocumentSchemas : Height[t] < Height[s] => t \in T
      PROVE  s \in T
  <2>1. LowerNodes(s)
    BY <1>1 DEF LowerNodes
  <2>2. QED
    BY <2>1, NodeYields DEF NodeIsSound
<1>2. DocumentSchemas \subseteq T
  <2> HIDE DEF T
  <2>1. QED
    BY <1>1, ByHeight
<1>3. QED
  BY <1>2

-----------------------------------------------------------------------------
(* The decoders of each place, of a parameter that is held to its schema.   *)
Held(def) == IsHeldTo(def) /\ SchemaOf(def) \in DocumentSchemas

LEMMA HeldIs ==
  ASSUME NEW def, Held(def)
  PROVE  /\ SchemaOf(def) \in DocumentSchemas /\ IsEnforced(SchemaOf(def)) /\ IsValidated(SchemaOf(def))
         /\ def.schema # None /\ ~HasContent(def)
BY DEF Held, IsHeldTo, IsEnforced

LEMMA ObjectYields ==
  ASSUME IsRecursive, NEW s \in DocumentSchemas, IsEnforced(s), ObjectTypes(s), NEW raws
  PROVE  Yields(s, DecodeObject(raws, s))
<1>1. ASSUME NEW raw, ObjectDecode(raw, NoFields, s).errs = {} PROVE Meets(s, Obj(ObjectDecode(raw, NoFields, s).val))
  BY <1>1, ObjectMeets
<1>2. Yields(s, AsObject(ObjectDecode(Only(raws), NoFields, s)))
  BY <1>1, AsObjectYields
<1>3. Yields(s, Fail({"syntax"}))
  BY DEF Yields, Fail
<1>4. QED
  BY <1>2, <1>3 DEF DecodeObject

LEMMA LessTypes ==
  ASSUME NEW types, NEW type
  PROVE  Range(Less(types, type)) \subseteq Range(types)
BY DEF Less, Restrict, Range

LEMMA HeldTexts ==
  ASSUME IsRecursive, NEW def, Held(def), NEW texts, NEW types
  PROVE  Yields(SchemaOf(def), ParamDecode(def.schema, texts, types))
BY HeldIs, ParamYields DEF SchemaOf

LEMMA SplitIs ==
  ASSUME NEW text, NEW separator
  PROVE  DOMAIN SplitText(text, separator) \subseteq Nat
<1> DEFINE cuts == {i \in DOMAIN text : text[i] = separator}
           n == Len(SetToSortSeq(cuts \cup {Len(text) + 1}, <))
<1>1. DOMAIN SplitText(text, separator) = 1..n
  BY DEF SplitText
<1> HIDE DEF n
<1>2. QED
  BY <1>1

LEMMA PathTextsAre ==
  ASSUME NEW def, NEW text, NEW texts \in parsePathArrayParam(def, text)
  PROVE  DOMAIN texts \subseteq Nat
<1>1. DOMAIN <<>> \subseteq Nat
  OBVIOUS
<1>2. CASE Style(def) = "label"
  BY <1>1, <1>2, SplitIs DEF parsePathArrayParam
<1>3. CASE Style(def) = "matrix" /\ Explode(def)
  BY <1>3, SplitIs DEF parsePathArrayParam
<1>4. CASE Style(def) = "matrix" /\ ~Explode(def)
  BY <1>4, SplitIs DEF parsePathArrayParam
<1>5. CASE Style(def) \notin {"label", "matrix"}
  BY <1>5, SplitIs DEF parsePathArrayParam
<1>6. QED
  BY <1>2, <1>3, <1>4, <1>5

(* Of an array in the path the items and their number.                      *)
LEMMA PathArrayYields ==
  ASSUME IsRecursive, NEW def, Held(def), def.in = "path", "array" \in Range(TypesOf(def)),
         NEW texts, DOMAIN texts \subseteq Nat
  PROVE  Yields(SchemaOf(def), decodePathArrayParam(def, texts))
<1>1. PICK s : s = SchemaOf(def)
  OBVIOUS
<1>2. PICK d : d = decodeArrayParam(texts, s)
  OBVIOUS
<1>3. s \in DocumentSchemas /\ IsValidated(s) /\ TypeAllowed(s, "array") /\ BranchesOf(s) = {}
  BY <1>1, HeldIs DEF Held, IsHeldTo
<1>4. ASSUME d.errs = {}, ValidateArray(s, d.val) = {} PROVE Meets(s, d.val)
  <2>1. /\ Kind(d.val) = "arr"
        /\ \A t \in s.items : \A x \in Range(Content(d.val)) : Met(t, AsValue(d.val, x))
    BY <1>2, <1>3, <1>4, ItemsYield
  <2>2. ValidateArrayLength(s, Len(Content(d.val))) = {}
    BY <1>4 DEF ValidateArray
  <2>3. ItemsMeet(s, d.val)
    BY <2>1, <2>2, LengthSound DEF ItemsMeet
  <2>4. BranchesMeet(s, d.val)
    BY <1>3 DEF BranchesMeet, BranchesOf
  <2>5. TypeName(d.val) = "array"
    BY <2>1 DEF TypeName
  <2>6. QED
    BY <1>3, <2>1, <2>3, <2>4, <2>5, TypeSound DEF Meets
<1>5. Yields(s, FitsArray(s, d))
  BY <1>4 DEF Yields, FitsArray, Accept, Fail, Failed
<1>6. QED
  BY <1>1, <1>2, <1>5 DEF decodePathArrayParam

LEMMA FailYields ==
  ASSUME NEW s, NEW errors, errors # {}
  PROVE  Yields(s, Fail(errors))
BY DEF Yields, Fail

LEMMA PathYields ==
  ASSUME IsRecursive, NEW def, Held(def), def.in = "path", NEW segment
  PROVE  Yields(SchemaOf(def), DecodePathValue(def, segment))
<1> DEFINE s == SchemaOf(def)
           text == Only(trimPathValueByStyle(def, segment))
           texts == Only(parsePathArrayParam(def, text))
           types == TypesOf(def)
           object == decodePathObjectParam(def, text)
           rest == PathTexts(def, texts, Less(types, "object"))
<1>1. /\ Yields(s, Fail({"required"})) /\ Yields(s, Fail({"syntax"}))
  BY FailYields
<1>2. Yields(s, Valid(s, Ok(Str(text))))
  BY HeldIs, ValidYields
<1>3. "object" \in Range(types) => Yields(s, object)
  BY HeldIs, ObjectYields DEF ObjectTypes, decodePathObjectParam, TypesOf
<1>4. Yields(s, FromPath(def, text, rest))
  <2>1. CASE parsePathArrayParam(def, text) = {}
    BY <1>1, <2>1 DEF FromPath
  <2>2. CASE parsePathArrayParam(def, text) # {}
    <3>1. DOMAIN texts \subseteq Nat
      BY <2>2, OnlyOne, PathTextsAre
    <3>2. "array" \in Range(Less(types, "object")) => Yields(s, decodePathArrayParam(def, texts))
      BY <3>1, LessTypes, PathArrayYields
    <3>3. \A ts : Yields(s, ParamDecode(def.schema, texts, ts))
      BY HeldTexts
    <3> HIDE DEF texts, types, s
    <3>4. Yields(s, rest)
      BY <3>2, <3>3, TriedType DEF PathTexts
    <3>5. QED
      BY <2>2, <3>4 DEF FromPath
  <2>3. QED
    BY <2>1, <2>2
<1>5. Yields(s, PathBySchema(def, text, texts))
  <2>1. PathBySchema(def, text, texts) =
          IF "string" \in Range(types) THEN Valid(s, Ok(Str(text)))
          ELSE TryType(types, "object", object, FromPath(def, text, rest))
    BY DEF PathBySchema
  <2> HIDE DEF text, texts, types, s, object, rest
  <2>2. QED
    BY <1>2, <1>3, <1>4, <2>1, TriedType
<1>6. DecodePathText(def, text, texts) = PathBySchema(def, text, texts)
  BY HeldIs DEF DecodePathText
<1> HIDE DEF s
<1>7. QED
  BY <1>1, <1>5, <1>6 DEF DecodePathValue, s

-----------------------------------------------------------------------------
LEMMA FromQueryYields ==
  ASSUME NEW s, NEW def, NEW query, NEW d, Yields(s, d)
  PROVE  Yields(s, FromQuery(def, query, d)) /\ Yields(s, Present(d))
BY NullMeets DEF Yields, FromQuery, Present, NotPresent, Fail

LEMMA QueryYields ==
  ASSUME IsRecursive, NEW def, Held(def), NEW query
  PROVE  Yields(SchemaOf(def), decodeQueryFromParameter(def, query))
<1> DEFINE s == SchemaOf(def)
           types == IF IsObjectParam(def) THEN Less(TypesOf(def), "object") ELSE TypesOf(def)
           object == DecodeObject(QueryObjects(def, query), s)
           rest == QueryTexts(def, query[def.name], types)
<1>1. decodeQueryFromParameter(def, query) = QueryBySchema(def, query, object, rest)
  BY HeldIs DEF decodeQueryFromParameter
<1>2. "object" \in Range(TypesOf(def)) => Yields(s, object)
  BY HeldIs, ObjectYields DEF ObjectTypes, TypesOf
<1>3. Yields(s, rest)
  <2>1. Yields(s, decodeQueryArrayParam(def, query[def.name]))
    BY HeldIs, ValidYields DEF decodeQueryArrayParam
  <2>2. \A ts : Yields(s, ParamDecode(def.schema, query[def.name], ts))
    BY HeldTexts
  <2> HIDE DEF s, types
  <2>3. QED
    BY <2>1, <2>2, TriedType DEF QueryTexts
<1> HIDE DEF s, object, rest
<1>4. Yields(s, QueryBySchema(def, query, object, rest))
  BY <1>2, <1>3, FromQueryYields DEF QueryBySchema, Decides
<1>5. QED
  BY <1>1, <1>4 DEF s

LEMMA DeepYields ==
  ASSUME IsRecursive, NEW def, Held(def), Style(def) = "deepObject", NEW query
  PROVE  Yields(SchemaOf(def), decodeQueryDeepObjectFromParameter(def, query))
<1> DEFINE s == SchemaOf(def)
           node == NodeAt(query, <<def.name>>)
           nothing == Accept(Ok(Null), If(def.required, "required"))
<1>1. decodeQueryDeepObjectFromParameter(def, query) =
        IF def.name \notin ChildrenOf(Parsed(query), <<>>) THEN nothing ELSE NodeDecode(node, s)
  BY HeldIs DEF decodeQueryDeepObjectFromParameter, SchemaOf
<1>2. Yields(s, nothing)
  BY NullMeets, Accepts DEF Ok
<1>3. Yields(s, NodeDecode(node, s))
  BY HeldIs, NodesAreSound DEF NodeIsSound, Held, IsHeldTo
<1>4. QED
  BY <1>1, <1>2, <1>3

LEMMA HeaderYields ==
  ASSUME IsRecursive, NEW def, Held(def), NEW headers
  PROVE  Yields(SchemaOf(def), decodeHeaderParameter(def, headers))
<1> DEFINE s == SchemaOf(def)
           texts == headers[def.name]
           nothing == Accept(Ok(Null), If(def.required, "required"))
           object == decodeHeaderObjectParam(def, texts)
           array == splitAndDecodeArrayParam(def, texts)
           scalar == ParamDecode(def.schema, texts, Scalars(TypesOf(def)))
<1>1. \/ decodeHeaderParameter(def, headers) = nothing
      \/ decodeHeaderParameter(def, headers) = TryTypes(TypesOf(def), object, array, scalar)
  BY HeldIs DEF decodeHeaderParameter
<1>2. Yields(s, nothing)
  BY NullMeets, Accepts DEF Ok
<1>3. "object" \in Range(TypesOf(def)) => Yields(s, object)
  BY HeldIs, ObjectYields DEF ObjectTypes, TypesOf, decodeHeaderObjectParam
<1>4. Yields(s, array)
  BY HeldIs, ValidYields DEF splitAndDecodeArrayParam
<1>5. Yields(s, scalar)
  BY HeldTexts
<1> HIDE DEF s, nothing, object, array, scalar
<1>6. Yields(s, TryTypes(TypesOf(def), object, array, scalar))
  BY <1>3, <1>4, <1>5, TriedType DEF TryTypes
<1>7. QED
  BY <1>1, <1>2, <1>6 DEF s

LEMMA CookieYields ==
  ASSUME IsRecursive, NEW def, Held(def), NEW cookies
  PROVE  Yields(SchemaOf(def), decodeCookieParameter(def, cookies))
<1> DEFINE s == SchemaOf(def)
           texts == CookieTexts(cookies, def.name)
           types == Less(TypesOf(def), "object")
           object == decodeCookieObjectParameter(def, cookies)
           rest == CookieBySchema(def, cookies, types)
           flat == TryType(types, "array", splitAndDecodeArrayParam(def, texts),
                           ParamDecode(def.schema, texts, Less(types, "array")))
<1>1. decodeCookieParameter(def, cookies) = TryType(TypesOf(def), "object", object, rest)
  BY HeldIs DEF decodeCookieParameter
<1>2. "object" \in Range(TypesOf(def)) => Yields(s, object)
  BY HeldIs, ObjectYields DEF ObjectTypes, TypesOf, decodeCookieObjectParameter
<1>3. Yields(s, splitAndDecodeArrayParam(def, texts))
  BY HeldIs, ValidYields DEF splitAndDecodeArrayParam
<1>4. \A ts : Yields(s, ParamDecode(def.schema, texts, ts))
  BY HeldTexts
<1>5. Yields(s, flat)
  <2> HIDE DEF s, texts, types
  <2>1. QED
    BY <1>3, <1>4, TriedType
<1>6. Yields(s, Ok(Null)) /\ Yields(s, Fail({"required"}))
  BY NullMeets, FailYields DEF Yields, Ok
<1>7. Yields(s, rest)
  <2>1. rest = findCookies(def, cookies, IsNullable(s), IF texts = <<>> THEN Ok(Null) ELSE flat)
    BY DEF CookieBySchema
  <2> HIDE DEF s, texts, flat, rest
  <2>2. QED
    BY <1>5, <1>6, <2>1 DEF findCookies
<1> HIDE DEF s, object, rest
<1>8. Yields(s, TryType(TypesOf(def), "object", object, rest))
  BY <1>2, <1>7, TriedType
<1>9. QED
  BY <1>1, <1>8 DEF s

-----------------------------------------------------------------------------
(* What an operation of the tree is held to, and the schemas of it.         *)
OnePerName == \A a, b \in Parameters : a.name = b.name /\ a.in = b.in => a = b

LEMMA MethodBodies ==
  ASSUME NEW item, IsItem(item), IsRequestItem(item), NEW i \in DOMAIN item.operations
  PROVE  \E op \in Range(item.operations) :
           createMethods(extractParametersFromOperationV3(item))[i].bodySchema = op.bodySchema
<1> DEFINE n == Len(item.operations)
           last == TakenOperations(item)[n]
           all == extractParametersFromOperationV3(item)
<1>1. PassedTo(item, last, n) /\ all.operations = last.operations
  BY Extracted
<1>2. n \in Nat /\ DOMAIN item.operations = 1..n
  BY ItemLists
<1> HIDE DEF n, last, all
<1>3. last.operations \in Seq(OperationsOf(item)) /\ Len(last.operations) = n
  BY <1>1 DEF PassedTo
<1>4. i \in DOMAIN all.operations /\ all.operations[i] \in OperationsOf(item)
  BY <1>1, <1>2, <1>3
<1>5. PICK o \in Range(item.operations), own \in Seq(EveryDefinition(item)) : all.operations[i] = WithParameters(o, own)
  BY <1>4 DEF OperationsOf
<1>6. "bodySchema" \in DOMAIN o
  BY DEF IsRequestItem
<1>7. createMethods(all)[i] = ValidateOperation(all.operations[i], all.common)
  BY <1>4 DEF createMethods
<1>8. createMethods(all)[i].bodySchema = o.bodySchema
  <2>1. WithParameters(o, own).bodySchema = o.bodySchema /\ "bodySchema" \in DOMAIN WithParameters(o, own)
    BY <1>6 DEF WithParameters
  <2>2. ValidateOperation(WithParameters(o, own), all.common).bodySchema = WithParameters(o, own).bodySchema
    BY <2>1 DEF ValidateOperation
  <2>3. QED
    BY <1>5, <1>7, <2>1, <2>2
<1>9. QED
  BY <1>8 DEF all

LEMMA UnknownIs ==
  ASSUME NEW name
  PROVE  /\ {"schema", "content"} \subseteq DOMAIN Unknown(name)
         /\ SchemasIn(Unknown(name)) = {Typed("string")}
BY DEF Unknown, SchemasIn, None

LEMMA DeclaredOrUnknown ==
  ASSUME NEW item, IsRequestItem(item), NEW d \in EveryDefinition(item)
  PROVE  /\ {"schema", "content"} \subseteq DOMAIN d
         /\ d \in DefinitionsOf(item) \/ SchemasIn(d) = {Typed("string")}
<1>1. CASE d \in DefinitionsOf(item)
  BY <1>1 DEF IsRequestItem
<1>2. CASE \E name : d = Unknown(name)
  BY <1>2, UnknownIs
<1>3. QED
  BY <1>1, <1>2 DEF EveryDefinition

LEMMA MethodDefinitions ==
  ASSUME NEW item, IsItem(item), IsRequestItem(item), NEW i \in DOMAIN item.operations,
         NEW def \in Range(createMethods(extractParametersFromOperationV3(item))[i].parameters)
  PROVE  \E d \in EveryDefinition(item) : SchemasIn(def) = SchemasIn(d)
<1> DEFINE all == extractParametersFromOperationV3(item)
           held == createMethods(all)[i].parameters
           defs == all.operations[i].parameters \o all.common
           D == EveryDefinition(item)
<1>1. held = ValidateParameterDefinitions(defs)
  BY MethodsAre
<1>2. defs \in Seq(D)
  BY Applies
<1>3. \A d \in D : {"name", "in"} \subseteq DOMAIN d
  BY ItemLists
<1> HIDE DEF defs, held, D
<1>4. \A a \in DOMAIN held : \E d : IsLast(defs, Key(d), d) /\ held[a] = Renamed(d)
  BY <1>1, <1>2, <1>3, DefinitionsMerged
<1>5. PICK a \in DOMAIN held : def = held[a]
  BY DEF Range, held
<1>6. PICK d : IsLast(defs, Key(d), d) /\ def = Renamed(d)
  BY <1>4, <1>5
<1>7. d \in D
  BY <1>2, <1>6 DEF IsLast
<1>8. {"schema", "content"} \subseteq DOMAIN d
  BY <1>7, DeclaredOrUnknown DEF D
<1>9. SchemasIn(def) = SchemasIn(d)
  BY <1>6, <1>8 DEF Renamed, SchemasIn
<1>10. QED
  BY <1>7, <1>9 DEF D

(* The definition of the client and the request are of one of the groups.   *)
PairInv == \E group \in Requests : \E pair \in group : definition = pair[1] /\ request = pair[2]

LEMMA HeldSchemas ==
  ASSUME ClientInv, PairInv, phase \in {"ready", "closed"}
  PROVE  /\ \A def \in Parameters : SchemasIn(def) \subseteq DocumentSchemas
         /\ Called.bodySchema \subseteq DocumentSchemas
         /\ OnePerName
<1> DEFINE item == Loaded.item
           i == request.operation
<1> PICK group \in Requests : \E pair \in group : definition = pair[1] /\ request = pair[2]
  BY DEF PairInv
<1>1. PICK pair \in group : definition = pair[1] /\ request = pair[2]
  OBVIOUS
<1>2. ~BuildPanics(definition) /\ Built(definition) # {}
  BY DEF ClientInv
<1>3. Loaded \in Built(definition)
  BY <1>2 DEF Loaded
<1>4. IsItem(item)
  BY DocumentIs
<1>5. IsRequestItem(item) /\ AllSchemas \subseteq DocumentSchemas
  BY <1>1, <1>2, <1>3, DocumentsAssumption
<1>6. i \in DOMAIN item.operations
  BY <1>1, <1>2, <1>3, RequestsAssumption DEF IsRequest
<1>7. Called = createMethods(extractParametersFromOperationV3(item))[i]
  BY DEF ClientInv, Called
<1>8. SchemasOf(item) \subseteq DocumentSchemas /\ Typed("string") \in DocumentSchemas
  <2>1. SchemasOf(item) \subseteq DefinitionSchemas(definition)
    BY <1>2, <1>3 DEF DefinitionSchemas
  <2>2. DefinitionSchemas(definition) \subseteq GroupSchemas(group)
    BY <1>1 DEF GroupSchemas
  <2>3. GroupSchemas(group) \subseteq AllSchemas /\ Typed("string") \in AllSchemas
    BY DEF AllSchemas
  <2>4. QED
    BY <1>5, <2>1, <2>2, <2>3
<1> HIDE DEF item, i
<1>9. ASSUME NEW def \in Parameters PROVE SchemasIn(def) \subseteq DocumentSchemas
  <2>1. PICK d \in EveryDefinition(item) : SchemasIn(def) = SchemasIn(d)
    BY <1>4, <1>5, <1>6, <1>7, MethodDefinitions DEF Parameters
  <2>2. CASE d \in DefinitionsOf(item)
    <3>1. SchemasIn(d) \subseteq SchemasOf(item)
      BY <2>2 DEF SchemasOf
    <3>2. QED
      BY <1>8, <2>1, <3>1
  <2>3. CASE d \notin DefinitionsOf(item)
    <3>1. SchemasIn(d) = {Typed("string")}
      BY <1>5, <2>3, DeclaredOrUnknown
    <3>2. QED
      BY <1>8, <2>1, <3>1
  <2>4. QED
    BY <2>2, <2>3
<1>10. Called.bodySchema \subseteq DocumentSchemas
  <2>1. PICK op \in Range(item.operations) : Called.bodySchema = op.bodySchema
    BY <1>4, <1>5, <1>6, <1>7, MethodBodies
  <2>2. op.bodySchema \subseteq SchemasOf(item)
    BY DEF SchemasOf
  <2>3. QED
    BY <1>8, <2>1, <2>2
<1>11. OnePerName
  <2>1. \A a, b \in DOMAIN Called.parameters :
          Called.parameters[a].name = Called.parameters[b].name /\ Called.parameters[a].in = Called.parameters[b].in => a = b
    BY <1>4, <1>6, <1>7, HeldTo
  <2>2. QED
    BY <2>1 DEF OnePerName, Parameters, Range
<1>12. QED
  BY <1>9, <1>10, <1>11

-----------------------------------------------------------------------------
(* The values of a place that are set meet the schemas they are held to.    *)
MeetsIn(values, def) == IsHeldTo(def) /\ def.name \in DOMAIN values => Meets(SchemaOf(def), values[def.name])
ValuesMeet(place) == \A def \in In(place) : MeetsIn(params[place], def)
BodyMeets == \A s \in Called.bodySchema : IsValidated(s) => Meets(s, request.body.val)

ValidInv ==
  /\ ClientInv /\ PresenceInv /\ PairInv
  /\ DOMAIN params = Places
  /\ stage = "encode" => \A place \in Places : params[place] = NoFields
  /\ stage # "encode" => \A place \in Places : ValuesMeet(place)
  /\ IsClean /\ stage \in {"cookie"} \cup Ends => BodyMeets

LEMMA NothingMeets ==
  ASSUME NEW def
  PROVE  MeetsIn(NoFields, def)
BY DEF MeetsIn, NoFields

LEMMA ParametersAreHeld ==
  ASSUME ValidInv, stage # "encode"
  PROVE  /\ \A def \in Parameters : IsHeldTo(def) => Held(def)
         /\ Called.bodySchema \subseteq DocumentSchemas
         /\ OnePerName
<1>1. phase \in {"ready", "closed"}
  BY DEF ValidInv, PresenceInv
<1>2. /\ \A def \in Parameters : def.schema \subseteq DocumentSchemas
      /\ Called.bodySchema \subseteq DocumentSchemas
      /\ OnePerName
  BY <1>1, HeldSchemas DEF ValidInv, SchemasIn
<1>3. ASSUME NEW def \in Parameters, IsHeldTo(def) PROVE Held(def)
  <2>1. SchemaOf(def) \in def.schema
    BY <1>3, OnlyOne DEF IsHeldTo, SchemaOf, None
  <2>2. QED
    BY <1>2, <1>3, <2>1 DEF Held
<1>4. QED
  BY <1>2, <1>3

LEMMA ValuesAre ==
  ASSUME OnePerName, NEW place, NEW valued \in SUBSET In(place), NEW ds, NEW def \in In(place)
  PROVE  /\ def.name \in DOMAIN Values(ds, valued) <=> def \in valued
         /\ def \in valued => Values(ds, valued)[def.name] = ds[def].val
<1> DEFINE Named(name) == CHOOSE d \in valued : d.name = name
<1>1. Values(ds, valued) = [name \in {d.name : d \in valued} |-> ds[Named(name)].val]
  BY DEF Values
<1>2. \A d \in valued : d.name = def.name => d = def
  BY DEF OnePerName, In
<1>3. def \in valued => Named(def.name) = def
  BY <1>2
<1> HIDE DEF Named
<1>4. QED
  BY <1>1, <1>2, <1>3

-----------------------------------------------------------------------------
(* A step of a request that keeps the values of all places but one.         *)
LEMMA ValuesStep ==
  ASSUME ValidInv, stage # "encode", stage' # "encode", PresenceInv', UNCHANGED <<clientVars, request>>,
         NEW place \in Places, NEW values, \A def \in In(place) : MeetsIn(values, def),
         params' = params \/ params' = [params EXCEPT ![place] = values],
         IsClean' /\ stage' \in {"cookie"} \cup Ends => BodyMeets
  PROVE  ValidInv'
<1>1. ClientInv'
  BY Stutters DEF ValidInv
<1>2. PairInv'
  BY DEF ValidInv, PairInv, clientVars
<1>3. Called' = Called
  BY DEF Called, clientVars
<1>4. \A p \in Places : In(p)' = In(p)
  BY <1>3 DEF In, Parameters
<1>5. DOMAIN params' = Places
  BY DEF ValidInv
<1>6. ASSUME NEW p \in Places, NEW def \in In(p) PROVE MeetsIn(params'[p], def)
  <2>1. CASE params'[p] = params[p]
    BY <2>1 DEF ValidInv, ValuesMeet
  <2>2. CASE p = place /\ params'[p] = values
    BY <2>2
  <2>3. QED
    BY <2>1, <2>2 DEF ValidInv
<1>7. \A p \in Places : ValuesMeet(p)'
  <2>1. \A p \in Places : ValuesMeet(p)' = (\A def \in In(p)' : MeetsIn(params'[p], def))
    BY DEF ValuesMeet
  <2>2. QED
    BY <1>4, <1>6, <2>1
<1>8. BodyMeets' = BodyMeets
  BY <1>3 DEF BodyMeets
<1>9. QED
  BY <1>1, <1>2, <1>5, <1>7, <1>8 DEF ValidInv

LEMMA SameValues ==
  ASSUME ValidInv, stage # "encode", stage' # "encode", PresenceInv', UNCHANGED <<clientVars, request, params>>,
         IsClean' /\ stage' \in {"cookie"} \cup Ends => BodyMeets
  PROVE  ValidInv'
<1>1. "path" \in Places /\ \A def \in In("path") : MeetsIn(params["path"], def)
  BY DEF ValidInv, ValuesMeet, Places
<1>2. QED
  BY <1>1, ValuesStep

(* A step that goes on with the values of a place, if there are no errors.  *)
LEMMA ContinuesValid ==
  ASSUME ValidInv, PresenceInv', UNCHANGED <<clientVars, request>>, stage # "encode",
         NEW place \in Places, NEW found, NEW values, NEW next, Continue(place, found, values, next),
         next # "encode", next \in {"cookie"} \cup Ends => stage \in {"cookie"} \cup Ends,
         found = {} => \A def \in In(place) : MeetsIn(values, def)
  PROVE  ValidInv'
<1>1. stage' # "encode" /\ (stage' = next \/ ~IsClean')
  BY DEF Continue, Crash, IsClean
<1>2. IsClean' => IsClean
  BY ContinuesClean
<1>3. IsClean' /\ stage' \in {"cookie"} \cup Ends => BodyMeets
  BY <1>1, <1>2 DEF ValidInv
<1>4. CASE found = {}
  <2>1. params' = params \/ params' = [params EXCEPT ![place] = values]
    BY <1>4 DEF Continue, Crash
  <2>2. QED
    BY <1>1, <1>3, <1>4, <2>1, ValuesStep
<1>5. CASE found # {}
  <2>1. params' = params
    BY <1>5 DEF Continue, Crash
  <2>2. QED
    BY <1>1, <1>3, <2>1, SameValues
<1>6. QED
  BY <1>4, <1>5

-----------------------------------------------------------------------------
(* The steps of construction and of the sender.                             *)
LEMMA DefinitionStays ==
  ASSUME ClientNext
  PROVE  definition' = definition
BY DEF ClientNext, BuildDocument, InitOptions, InitServers, InitDefaultHeaders, NewAuthenticators,
       BuildMetadataTree, BuildTree, Close, Abandon, Panicked, ContinueWith

LEMMA ValidStarts ==
  ASSUME Init
  PROVE  ValidInv
<1>1. ClientInv /\ PresenceInv
  BY Starts, PresenceStarts DEF Init
<1>2. PairInv
  BY DEF Init, PairInv
<1>3. /\ stage = "encode" /\ DOMAIN params = Places
      /\ \A place \in Places : params[place] = NoFields
  BY DEF Init
<1>4. QED
  BY <1>1, <1>2, <1>3 DEF ValidInv, Ends

LEMMA BuildsValid ==
  ASSUME ValidInv, PresenceInv', ClientNext, UNCHANGED requestVars, phase # "ready"
  PROVE  ValidInv'
<1>1. ClientInv'
  BY TakesStep DEF ValidInv
<1>2. PairInv'
  BY DefinitionStays DEF ValidInv, PairInv, requestVars
<1>3. phase # "closed"
  BY DEF ClientNext, BuildDocument, InitOptions, InitServers, InitDefaultHeaders, NewAuthenticators,
         BuildMetadataTree, Close
<1>4. stage = "encode" /\ stage' = "encode" /\ params' = params
  BY <1>3 DEF ValidInv, PresenceInv, requestVars
<1>5. QED
  BY <1>1, <1>2, <1>4 DEF ValidInv, Ends

LEMMA SameParameters ==
  ASSUME UNCHANGED <<tree, request, params>>
  PROVE  /\ \A place \in Places : ValuesMeet(place)' = ValuesMeet(place)
         /\ BodyMeets' = BodyMeets
<1>1. Called' = Called
  BY DEF Called
<1>2. \A place \in Places : In(place)' = In(place)
  BY <1>1 DEF In, Parameters
<1>3. \A place \in Places : ValuesMeet(place)' = ValuesMeet(place)
  BY <1>2 DEF ValuesMeet
<1>4. QED
  BY <1>1, <1>3 DEF BodyMeets

LEMMA ClosesValid ==
  ASSUME ValidInv, PresenceInv', Close, UNCHANGED requestVars
  PROVE  ValidInv'
<1>1. ClientInv'
  BY TakesStep DEF ValidInv, ClientNext
<1>2. UNCHANGED <<definition, tree, request, params, stage>>
  BY DEF Close, ContinueWith, requestVars
<1>3. PairInv'
  BY <1>2 DEF ValidInv, PairInv
<1>4. IsClean' = IsClean
  BY DEF IsClean, requestVars
<1>5. /\ \A place \in Places : ValuesMeet(place)' = ValuesMeet(place)
      /\ BodyMeets' = BodyMeets
  BY <1>2, SameParameters
<1>6. QED
  BY <1>1, <1>2, <1>3, <1>4, <1>5 DEF ValidInv

LEMMA SendsValid ==
  ASSUME ValidInv, PresenceInv', Encode \/ Send
  PROVE  ValidInv'
<1>1. /\ stage = "encode" /\ stage' \in {"encode", "path"}
      /\ UNCHANGED <<clientVars, request, params>>
  BY DEF Encode, Send
<1>2. ClientInv'
  BY <1>1, Stutters DEF ValidInv
<1>3. PairInv'
  BY <1>1 DEF ValidInv, PairInv, clientVars
<1>4. \A place \in Places : ValuesMeet(place)
  BY <1>1, NothingMeets DEF ValidInv, ValuesMeet
<1>5. \A place \in Places : ValuesMeet(place)'
  BY <1>1, <1>4, SameParameters DEF clientVars
<1>6. QED
  BY <1>1, <1>2, <1>3, <1>5 DEF ValidInv, Ends

-----------------------------------------------------------------------------
(* The steps that set the values of a place.                                *)
LEMMA OverIs ==
  ASSUME NEW f, NEW g, NEW name
  PROVE  /\ name \in DOMAIN f => name \in DOMAIN Over(f, g) /\ Over(f, g)[name] = f[name]
         /\ name \notin DOMAIN f => (name \in DOMAIN Over(f, g) <=> name \in DOMAIN g)
         /\ name \notin DOMAIN f /\ name \in DOMAIN g => Over(f, g)[name] = g[name]
BY DEF Over

LEMMA ValueMeets ==
  ASSUME OnePerName, NEW place, NEW valued \in SUBSET In(place), NEW ds, NEW def \in valued,
         IsHeldTo(def) => Yields(SchemaOf(def), ds[def]), ds[def].errs = {}
  PROVE  MeetsIn(Values(ds, valued), def) /\ def.name \in DOMAIN Values(ds, valued)
<1>1. def \in In(place)
  OBVIOUS
<1>2. def.name \in DOMAIN Values(ds, valued) /\ Values(ds, valued)[def.name] = ds[def].val
  BY <1>1, ValuesAre
<1>3. QED
  BY <1>2 DEF MeetsIn, Yields

LEMMA MeetsOver ==
  ASSUME NEW f, NEW g, NEW def, MeetsIn(f, def), def.name \in DOMAIN f \/ def.name \notin DOMAIN g
  PROVE  MeetsIn(Over(f, g), def)
BY OverIs DEF MeetsIn

LEMMA PathValid ==
  ASSUME ValidInv, PresenceInv', DecodePath, IsRecursive
  PROVE  ValidInv'
<1> DEFINE ds == [def \in In("path") |-> PathParameter(def)]
           sent == {def \in DOMAIN ds : HasPath(def)}
           raw == [name \in DOMAIN wire.path |-> Str(wire.path[name])]
           values == Over(Values(ds, sent), raw)
<1>1. stage = "path" /\ SetPath(ds) /\ UNCHANGED <<clientVars, request>>
  BY DEF DecodePath
<1>2. /\ \A def \in Parameters : IsHeldTo(def) => Held(def)
      /\ OnePerName
  BY <1>1, ParametersAreHeld
<1>3. ASSUME AllErrors(ds) = {}, NEW def \in In("path") PROVE MeetsIn(values, def)
  <2>1. ds[def].errs = {} /\ def \in Parameters /\ def.in = "path"
    BY <1>3, NoErrors DEF In
  <2>2. CASE HasPath(def)
    <3>1. def \in sent /\ sent \in SUBSET In("path")
      BY <2>2
    <3>2. ds[def] = DecodePathValue(def, wire.path[def.name])
      BY <2>2 DEF PathParameter, HasPath
    <3>3. IsHeldTo(def) => Yields(SchemaOf(def), ds[def])
      BY <1>2, <2>1, <3>2, PathYields
    <3> HIDE DEF ds, sent, raw
    <3>4. MeetsIn(Values(ds, sent), def) /\ def.name \in DOMAIN Values(ds, sent)
      BY <1>2, <2>1, <3>1, <3>3, ValueMeets
    <3>5. QED
      BY <3>4, MeetsOver
  <2>3. CASE ~HasPath(def)
    <3>1. def \notin sent /\ sent \in SUBSET In("path") /\ def.name \notin DOMAIN raw
      BY <2>3 DEF HasPath
    <3> HIDE DEF ds, sent, raw
    <3>2. def.name \notin DOMAIN Values(ds, sent)
      BY <1>2, <3>1, ValuesAre
    <3>3. QED
      BY <3>1, <3>2, OverIs DEF MeetsIn
  <2>4. QED
    BY <2>2, <2>3
<1>4. "path" \in Places
  BY DEF Places
<1> HIDE DEF values
<1>5. \/ Answer(AllErrors(ds))
      \/ Continue("path", AllErrors(ds), values, "read")
  BY <1>1 DEF SetPath, values
<1> HIDE DEF ds
<1>6. CASE Answer(AllErrors(ds))
  <2>1. params' = params /\ stage' = "done" /\ ~IsClean'
    BY <1>6 DEF Answer, IsClean
  <2>2. QED
    BY <1>1, <2>1, SameValues
<1>7. CASE Continue("path", AllErrors(ds), values, "read")
  <2>1. "read" # "encode" /\ "read" \notin {"cookie"} \cup Ends
    BY DEF Ends
  <2>2. QED
    BY <1>1, <1>3, <1>4, <1>7, <2>1, ContinuesValid
<1>8. QED
  BY <1>5, <1>6, <1>7

LEMMA HeadersValid ==
  ASSUME ValidInv, PresenceInv', DecodeHeaders, IsRecursive
  PROVE  ValidInv'
<1> DEFINE ds == [def \in In("header") |-> decodeHeaderParameter(def, wire.headers)]
           values == Over(Values(ds, DOMAIN ds), NormalizeHeaders(wire.headers))
<1>1. stage = "header" /\ SetHeaders(ds) /\ UNCHANGED <<clientVars, request>>
  BY DEF DecodeHeaders
<1>2. /\ \A def \in Parameters : IsHeldTo(def) => Held(def)
      /\ OnePerName
  BY <1>1, ParametersAreHeld
<1>3. ASSUME AllErrors(ds) = {}, NEW def \in In("header") PROVE MeetsIn(values, def)
  <2>1. ds[def].errs = {} /\ def \in Parameters
    BY <1>3, NoErrors DEF In
  <2>2. IsHeldTo(def) => Yields(SchemaOf(def), ds[def])
    BY <1>2, <2>1, HeaderYields
  <2>3. DOMAIN ds \in SUBSET In("header") /\ def \in DOMAIN ds
    OBVIOUS
  <2> HIDE DEF ds
  <2>4. MeetsIn(Values(ds, DOMAIN ds), def) /\ def.name \in DOMAIN Values(ds, DOMAIN ds)
    BY <1>2, <2>1, <2>2, <2>3, ValueMeets
  <2>5. QED
    BY <2>4, MeetsOver
<1>4. "header" \in Places /\ "body" # "encode" /\ "body" \notin {"cookie"} \cup Ends
  BY DEF Places, Ends
<1> HIDE DEF values
<1>5. Continue("header", AllErrors(ds), values, "body")
  BY <1>1 DEF SetHeaders, values
<1> HIDE DEF ds
<1>6. QED
  BY <1>1, <1>3, <1>4, <1>5, ContinuesValid

LEMMA CookiesValid ==
  ASSUME ValidInv, PresenceInv', DecodeCookies, IsRecursive
  PROVE  ValidInv'
<1> DEFINE ds == [def \in In("cookie") |-> decodeCookieParameter(def, wire.cookies)]
           values == Values(ds, DOMAIN ds)
<1>1. stage = "cookie" /\ UNCHANGED <<clientVars, request>>
  BY DEF DecodeCookies
<1>2. /\ \A def \in Parameters : IsHeldTo(def) => Held(def)
      /\ OnePerName
  BY <1>1, ParametersAreHeld
<1>3. ASSUME AllErrors(ds) = {}, NEW def \in In("cookie") PROVE MeetsIn(values, def)
  <2>1. ds[def].errs = {} /\ def \in Parameters
    BY <1>3, NoErrors DEF In
  <2>2. IsHeldTo(def) => Yields(SchemaOf(def), ds[def])
    BY <1>2, <2>1, CookieYields
  <2>3. DOMAIN ds \in SUBSET In("cookie") /\ def \in DOMAIN ds
    OBVIOUS
  <2> HIDE DEF ds
  <2>4. QED
    BY <1>2, <2>1, <2>2, <2>3, ValueMeets
<1>4. "cookie" \in Places /\ "settle" # "encode"
  BY DEF Places
<1>5. \/ SetCookies(ds)
      \/ stage' = "settle" /\ UNCHANGED <<params, errs, outcome>>
  BY DEF DecodeCookies
<1> HIDE DEF values
<1>6. CASE SetCookies(ds)
  <2>1. Continue("cookie", AllErrors(ds), values, "settle")
    BY <1>6 DEF SetCookies, values
  <2> HIDE DEF ds
  <2>2. QED
    BY <1>1, <1>3, <1>4, <2>1, ContinuesValid
<1>7. CASE stage' = "settle" /\ UNCHANGED <<params, errs, outcome>>
  <2>1. IsClean' = IsClean /\ (IsClean => BodyMeets)
    BY <1>1, <1>7 DEF IsClean, ValidInv
  <2>2. QED
    BY <1>1, <1>4, <1>7, <2>1, SameValues
<1>8. QED
  BY <1>5, <1>6, <1>7

(* What is in the query under the name of a parameter is set or in error.   *)
LEMMA QueryPresent ==
  ASSUME NEW def, NEW query, def.name \in DOMAIN query, decodeQueryFromParameter(def, query).errs = {}
  PROVE  decodeQueryFromParameter(def, query).present
<1> DEFINE P(r) == r.errs = {} => r.present
<1>1. ASSUME NEW d PROVE P(Present(d)) /\ P(FromQuery(def, query, d))
  BY DEF Present, FromQuery, Failed
<1>2. ASSUME NEW object, NEW rest PROVE P(QueryBySchema(def, query, object, rest))
  BY <1>1 DEF QueryBySchema
<1> HIDE DEF P
<1>3. P(decodeQueryFromParameter(def, query))
  BY <1>1, <1>2 DEF decodeQueryFromParameter
<1>4. QED
  BY <1>3 DEF P

LEMMA ReadsQuery ==
  ASSUME NEW ps, NEW ds, ReadQuery(ps, ds)
  PROVE  \E found, values :
           /\ Continue("query", found, values, "header")
           /\ found = {} => AllErrors(ps) = {} /\ AllErrors(ds) = {}
           /\ \/ values = QueryValues(ps, ds)
              \/ QueryValues(ps, ds) = NoFields /\ DOMAIN values = DOMAIN wire.query
<1> DEFINE unreadable == DOMAIN ds # {} /\ QueryIsMalformed(wire.query)
           found == AllErrors(ps) \cup (IF unreadable THEN {"syntax"} ELSE AllErrors(ds))
           raw == [key \in DOMAIN wire.query |-> Strs(wire.query[key])]
           read == QueryValues(ps, ds)
           values == IF read = NoFields THEN raw ELSE read
<1>1. Continue("query", found, values, "header")
  BY DEF ReadQuery, SetQuery
<1>2. found = {} => AllErrors(ps) = {} /\ AllErrors(ds) = {}
  OBVIOUS
<1>3. DOMAIN raw = DOMAIN wire.query
  OBVIOUS
<1> HIDE DEF found, raw, read
<1>4. values = read \/ (read = NoFields /\ DOMAIN values = DOMAIN wire.query)
  BY <1>3
<1> HIDE DEF values
<1>5. QED
  BY <1>1, <1>2, <1>4 DEF read

LEMMA QueryValid ==
  ASSUME ValidInv, PresenceInv', DecodeQuery, IsRecursive
  PROVE  ValidInv'
<1> DEFINE deep == {def \in In("query") : Style(def) = "deepObject"}
           flat == In("query") \ deep
           ps == [def \in flat |-> decodeQueryFromParameter(def, wire.query)]
           ds == [def \in deep |-> decodeQueryDeepObjectFromParameter(def, wire.query)]
           present == {def \in flat : ps[def].present}
           read == QueryValues(ps, ds)
<1>1. stage = "query" /\ ReadQuery(ps, ds) /\ UNCHANGED <<clientVars, request>>
  BY DEF DecodeQuery
<1>2. /\ \A def \in Parameters : IsHeldTo(def) => Held(def)
      /\ OnePerName
  BY <1>1, ParametersAreHeld
<1>3. ASSUME AllErrors(ps) = {}, AllErrors(ds) = {}, NEW def \in In("query")
      PROVE  /\ MeetsIn(read, def)
             /\ def.name \in DOMAIN read \/ def.name \notin DOMAIN wire.query
  <2>1. read = Over(Values(ds, deep), Values(ps, present))
    BY DEF QueryValues
  <2>2. def \in Parameters /\ deep \in SUBSET In("query") /\ present \in SUBSET In("query")
    BY DEF In
  <2>3. CASE def \in deep
    <3>1. ds[def].errs = {} /\ ds[def] = decodeQueryDeepObjectFromParameter(def, wire.query)
      BY <1>3, <2>3, NoErrors
    <3>2. IsHeldTo(def) => Yields(SchemaOf(def), ds[def])
      BY <1>2, <2>2, <2>3, <3>1, DeepYields
    <3> HIDE DEF deep, ds, present, ps, read
    <3>3. MeetsIn(Values(ds, deep), def) /\ def.name \in DOMAIN Values(ds, deep)
      BY <1>2, <2>2, <2>3, <3>1, <3>2, ValueMeets
    <3>4. QED
      BY <2>1, <3>3, MeetsOver, OverIs
  <2>4. CASE def \notin deep
    <3>1. def \in flat /\ ps[def].errs = {} /\ ps[def] = decodeQueryFromParameter(def, wire.query)
      BY <1>3, <2>4, NoErrors
    <3>2. IsHeldTo(def) => Yields(SchemaOf(def), ps[def])
      BY <1>2, <2>2, <3>1, QueryYields
    <3>3. def.name \in DOMAIN wire.query => ps[def].present
      BY <3>1, QueryPresent
    <3>4. def \in present <=> ps[def].present
      BY <3>1
    <3> HIDE DEF deep, ds, present, ps, read
    <3>5. def.name \notin DOMAIN Values(ds, deep)
      BY <1>2, <2>2, <2>4, ValuesAre
    <3>6. CASE def \in present
      <4>1. MeetsIn(Values(ps, present), def) /\ def.name \in DOMAIN Values(ps, present)
        BY <1>2, <2>2, <3>1, <3>2, <3>6, ValueMeets
      <4>2. /\ def.name \in DOMAIN Over(Values(ds, deep), Values(ps, present))
            /\ Over(Values(ds, deep), Values(ps, present))[def.name] = Values(ps, present)[def.name]
        BY <3>5, <4>1, OverIs
      <4>3. QED
        BY <2>1, <4>1, <4>2 DEF MeetsIn
    <3>7. CASE def \notin present
      <4>1. def.name \notin DOMAIN Values(ps, present) /\ def.name \notin DOMAIN wire.query
        BY <1>2, <2>2, <3>3, <3>4, <3>7, ValuesAre
      <4>2. def.name \notin DOMAIN read
        BY <2>1, <3>5, <4>1, OverIs
      <4>3. QED
        BY <4>1, <4>2 DEF MeetsIn
    <3>8. QED
      BY <3>6, <3>7
  <2>5. QED
    BY <2>3, <2>4
<1>4. "query" \in Places /\ "header" # "encode" /\ "header" \notin {"cookie"} \cup Ends
  BY DEF Places, Ends
<1>5. PICK found : \E values :
        /\ Continue("query", found, values, "header")
        /\ found = {} => AllErrors(ps) = {} /\ AllErrors(ds) = {}
        /\ values = read \/ (read = NoFields /\ DOMAIN values = DOMAIN wire.query)
  BY <1>1, ReadsQuery
<1>6. PICK values :
        /\ Continue("query", found, values, "header")
        /\ found = {} => AllErrors(ps) = {} /\ AllErrors(ds) = {}
        /\ values = read \/ (read = NoFields /\ DOMAIN values = DOMAIN wire.query)
  BY <1>5
<1> DEFINE passed == AllErrors(ps) = {} /\ AllErrors(ds) = {}
<1>7. passed => \A def \in In("query") : MeetsIn(read, def) /\ (def.name \in DOMAIN read \/ def.name \notin DOMAIN wire.query)
  BY <1>3
<1>8. found = {} => passed
  BY <1>6
<1> HIDE DEF passed, read
<1>9. found = {} => \A def \in In("query") : MeetsIn(values, def)
  <2>1. CASE values = read
    BY <1>7, <1>8, <2>1
  <2>2. CASE read = NoFields /\ DOMAIN values = DOMAIN wire.query
    <3>1. DOMAIN read = {}
      BY <2>2 DEF NoFields
    <3>2. QED
      BY <1>7, <1>8, <2>2, <3>1 DEF MeetsIn
  <2>3. QED
    BY <1>6, <2>1, <2>2
<1>10. QED
  <2>1. Continue("query", found, values, "header") /\ stage # "encode"
    BY <1>1, <1>6
  <2>2. QED
    BY <1>1, <1>4, <1>9, <2>1, ContinuesValid

-----------------------------------------------------------------------------
(* The steps that set no values.                                            *)
LEMMA BodyValid ==
  ASSUME ValidInv, PresenceInv', ValidateBody, IsRecursive
  PROVE  ValidInv'
<1> DEFINE found == UNION {ValidateValue(s, request.body.val) : s \in Called.bodySchema}
<1>1. /\ stage = "body" /\ UNCHANGED <<clientVars, request>>
      /\ IF found \cap Panic # {} THEN Crash
         ELSE stage' = "cookie" /\ errs' = errs \cup found /\ UNCHANGED <<params, outcome>>
  BY DEF ValidateBody
<1>2. Called.bodySchema \subseteq DocumentSchemas
  BY <1>1, ParametersAreHeld
<1>3. found = {} => BodyMeets
  <2>1. ASSUME found = {}, NEW s \in Called.bodySchema, IsValidated(s) PROVE Meets(s, request.body.val)
    <3>1. ValidateValue(s, request.body.val) = {}
      BY <2>1
    <3>2. s \in DocumentSchemas /\ IsSound(s)
      BY <1>2, <2>1, ValidatorSound
    <3>3. QED
      BY <3>1, <3>2 DEF IsSound, IsRecursive
  <2>2. QED
    BY <2>1 DEF BodyMeets
<1> HIDE DEF found
<1>4. stage' \in {"cookie", "done"} /\ params' = params /\ (IsClean' => found = {})
  BY <1>1 DEF Crash, IsClean
<1>5. QED
  BY <1>1, <1>3, <1>4, SameValues

LEMMA OthersValid ==
  ASSUME ValidInv, PresenceInv', ReadBody \/ Settle \/ NewRequest
  PROVE  ValidInv'
<1>1. /\ UNCHANGED <<clientVars, request, params>>
      /\ stage # "encode" /\ stage' # "encode"
  BY DEF ReadBody, Settle, NewRequest, Answer
<1>2. CASE ReadBody
  <2>1. stage' \notin {"cookie"} \cup Ends \/ ~IsClean'
    BY <1>2 DEF ReadBody, Answer, IsClean, Ends
  <2>2. QED
    BY <1>1, <2>1, SameValues
<1>3. CASE Settle \/ NewRequest
  <2>1. stage \in {"cookie"} \cup Ends /\ errs' = errs
    BY <1>3 DEF Settle, NewRequest, Ends
  <2>2. IsClean' => errs = {} /\ outcome = "none"
    BY <1>3, <2>1 DEF IsClean, ValidInv, PresenceInv, Settle, NewRequest
  <2>3. IsClean' => IsClean
    BY <2>2 DEF IsClean
  <2>4. IsClean' => BodyMeets
    BY <2>1, <2>3 DEF ValidInv
  <2>5. QED
    BY <1>1, <2>4, SameValues
<1>4. QED
  BY <1>2, <1>3

LEMMA ValidNext ==
  ASSUME ValidInv, Next, IsRecursive
  PROVE  ValidInv'
<1>1. PresenceInv'
  BY PresenceNext DEF ValidInv
<1>2. CASE /\ \/ BuildDocument \/ InitOptions \/ InitServers \/ InitDefaultHeaders
              \/ NewAuthenticators \/ BuildMetadataTree
           /\ UNCHANGED requestVars
  <2>1. ClientNext /\ phase # "ready"
    BY <1>2 DEF ClientNext, BuildDocument, InitOptions, InitServers, InitDefaultHeaders,
                NewAuthenticators, BuildMetadataTree
  <2>2. QED
    BY <1>1, <1>2, <2>1, BuildsValid
<1>3. CASE Close /\ UNCHANGED requestVars
  BY <1>1, <1>3, ClosesValid
<1>4. CASE Encode \/ Send
  BY <1>1, <1>4, SendsValid
<1>5. CASE DecodePath
  BY <1>1, <1>5, PathValid
<1>6. CASE DecodeQuery
  BY <1>1, <1>6, QueryValid
<1>7. CASE DecodeHeaders
  BY <1>1, <1>7, HeadersValid
<1>8. CASE ValidateBody
  BY <1>1, <1>8, BodyValid
<1>9. CASE DecodeCookies
  BY <1>1, <1>9, CookiesValid
<1>10. CASE ReadBody \/ Settle \/ NewRequest
  BY <1>1, <1>10, OthersValid
<1>11. QED
  BY <1>2, <1>3, <1>4, <1>5, <1>6, <1>7, <1>8, <1>9, <1>10 DEF Next

LEMMA ValidStutters ==
  ASSUME ValidInv, UNCHANGED vars
  PROVE  ValidInv'
<1>1. UNCHANGED <<clientVars, definition, tree, request, params, stage, errs, outcome, phase, wire>>
  BY DEF vars, requestVars, clientVars
<1>2. ClientInv'
  BY <1>1, Stutters DEF ValidInv
<1>3. PresenceInv'
  <2>1. \A place \in Places : PresentAt(place)' = PresentAt(place)
    BY <1>1, PresenceStays
  <2>2. BodyIsPresent' = BodyIsPresent
    BY <1>1 DEF BodyIsPresent, Called
  <2>3. QED
    BY <1>1, <2>1, <2>2 DEF ValidInv, PresenceInv, IsClean, Accepted
<1>4. PairInv'
  BY <1>1 DEF ValidInv, PairInv
<1>5. /\ \A place \in Places : ValuesMeet(place)' = ValuesMeet(place)
      /\ BodyMeets' = BodyMeets
  BY <1>1, SameParameters
<1>6. IsClean' = IsClean
  BY <1>1 DEF IsClean
<1>7. QED
  BY <1>1, <1>2, <1>3, <1>4, <1>5, <1>6 DEF ValidInv

-----------------------------------------------------------------------------
(* The handler of an operation sees only values its schemas allow: the      *)
(* values of an accepted request that parameters are held to, and its body, *)
(* meet their schemas, whatever was sent, of any document whose schemas are *)
(* trees.                                                                   *)
THEOREM AcceptedValid ==
  ASSUME IsRecursive
  PROVE  Spec => []AcceptedIsValid
<1>1. Init => ValidInv
  BY ValidStarts
<1>2. ValidInv /\ [Next]_vars => ValidInv'
  BY ValidNext, ValidStutters
<1>3. ValidInv => AcceptedIsValid
  <2>1. SUFFICES ASSUME ValidInv, Accepted PROVE AcceptedIsValid
    BY DEF AcceptedIsValid
  <2>2. stage = "done" /\ IsClean
    BY <2>1 DEF ValidInv, PresenceInv, Accepted, IsClean
  <2>3. (\A place \in Places : ValuesMeet(place)) /\ BodyMeets
    BY <2>1, <2>2 DEF ValidInv, Ends
  <2>4. ASSUME NEW place \in Places, NEW def \in In(place), IsHeldTo(def), IsSeen(def)
        PROVE  Meets(SchemaOf(def), Seen(def))
    <3>1. def.in = place
      BY DEF In
    <3>2. MeetsIn(params[place], def)
      BY <2>3 DEF ValuesMeet
    <3>3. QED
      BY <2>4, <3>1, <3>2 DEF MeetsIn, IsSeen, Seen
  <2>5. QED
    BY <2>3, <2>4 DEF AcceptedIsValid, BodyMeets
<1>4. QED
  BY <1>1, <1>2, <1>3, PTL DEF Spec

-----------------------------------------------------------------------------
(* What can go wrong.  A schema is calm if neither it nor a part of it has  *)
(* a limit the validator panics on.                                         *)
IsRisky(s) == s.exclusiveMaximum = None /\ \E x \in s.exclusiveMinimum : IsNumber(x)
IsCalm(s) == \A t \in SubSchemas(s) : ~IsRisky(t)

(* The errors there may be for a schema, and for a value of it.             *)
Blames(s) == IF IsCalm(s) THEN Codes ELSE Codes \cup Panic
Faults(s, v) == IF IsCalm(s) /\ IsData(v) THEN Codes ELSE Codes \cup Panic

LEMMA ScalarIsData ==
  ASSUME NEW v, Kind(v) \in ScalarKinds \cup {"strs"}
  PROVE  IsData(v)
<1>1. v \in {v} /\ AreClosed({v})
  BY DEF AreClosed
<1>2. QED
  BY <1>1 DEF IsData

LEMMA ScalarsAreData ==
  ASSUME NEW c
  PROVE  IsData(Null) /\ IsData(Str(c)) /\ IsData(Strs(c)) /\ IsData(Bool(c)) /\ IsData(Int_(c)) /\ IsData(Num(c))
<1>1. ASSUME NEW v \in {Null, Str(c), Strs(c), Bool(c), Int_(c), Num(c)} PROVE Kind(v) \in ScalarKinds \cup {"strs"}
  BY DEF Kind, Null, Str, Strs, Bool, Int_, Num, ScalarKinds
<1>2. QED
  BY <1>1, ScalarIsData

LEMMA ContentIsData ==
  ASSUME NEW v, IsData(v), Kind(v) \in {"arr", "obj"}
  PROVE  \A i \in DOMAIN Content(v) : IsData(Content(v)[i])
<1>1. PICK values : v \in values /\ AreClosed(values)
  BY DEF IsData
<1>2. Range(Content(v)) \subseteq values
  BY <1>1 DEF AreClosed, ScalarKinds
<1>3. QED
  BY <1>1, <1>2 DEF IsData, Range

LEMMA MadeOfData ==
  ASSUME NEW v, Kind(v) \in {"arr", "obj"}, \A i \in DOMAIN Content(v) : IsData(Content(v)[i])
  PROVE  IsData(v)
<1> DEFINE Of(x) == CHOOSE values : x \in values /\ AreClosed(values)
           all == {v} \cup (UNION {Of(Content(v)[i]) : i \in DOMAIN Content(v)})
<1>1. ASSUME NEW i \in DOMAIN Content(v)
      PROVE  Content(v)[i] \in Of(Content(v)[i]) /\ AreClosed(Of(Content(v)[i]))
  BY DEF IsData
<1>2. Range(Content(v)) \subseteq all
  BY <1>1 DEF Range
<1>3. ASSUME NEW x \in all, x # v
      PROVE  \/ Kind(x) \in ScalarKinds \cup {"strs"}
             \/ Kind(x) \in {"arr", "obj"} /\ Range(Content(x)) \subseteq all
  <2>1. PICK i \in DOMAIN Content(v) : x \in Of(Content(v)[i])
    BY <1>3
  <2>2. Of(Content(v)[i]) \subseteq all
    OBVIOUS
  <2> HIDE DEF Of, all
  <2>3. QED
    BY <1>1, <2>1, <2>2 DEF AreClosed
<1> HIDE DEF Of
<1>4. AreClosed(all)
  <2> HIDE DEF all
  <2>1. QED
    BY <1>2, <1>3 DEF AreClosed
<1>5. v \in all
  OBVIOUS
<1>6. QED
  BY <1>4, <1>5 DEF IsData

LEMMA ObjectIsData ==
  ASSUME NEW fields, HasData(fields)
  PROVE  IsData(Obj(fields))
<1>1. Kind(Obj(fields)) = "obj" /\ Content(Obj(fields)) = fields
  BY DEF Kind, Content, Obj
<1>2. QED
  BY <1>1, MadeOfData DEF HasData

LEMMA ArrayIsData ==
  ASSUME NEW items, \A i \in DOMAIN items : IsData(items[i])
  PROVE  IsData(Arr(items))
<1>1. Kind(Arr(items)) = "arr" /\ Content(Arr(items)) = items
  BY DEF Kind, Content, Arr
<1>2. QED
  BY <1>1, MadeOfData

LEMMA CalmParts ==
  ASSUME IsRecursive, NEW s \in DocumentSchemas, NEW t \in Parts(s)
  PROVE  Blames(t) \subseteq Blames(s) /\ Blames(s) \subseteq Codes \cup Panic /\ Codes \subseteq Blames(s)
<1>1. IsCalm(s) => IsCalm(t)
  BY LowerParts DEF IsCalm
<1>2. QED
  BY <1>1 DEF Blames

-----------------------------------------------------------------------------
(* The errors of the validator, by induction over the heights of schemas.   *)
IsSafe(s) == \A v : Validated(s, v) \subseteq Faults(s, v)
LowerAreSafe(s) == \A t \in Parts(s) : t \in DocumentSchemas /\ IsSafe(t)

FaultsOf(s, isData) == IF IsCalm(s) /\ isData THEN Codes ELSE Codes \cup Panic

LEMMA LimitFaults ==
  ASSUME NEW s, NEW n
  PROVE  validateNumberRules(s, n) \subseteq Blames(s)
<1>1. IsRisky(s) => ~IsCalm(s)
  BY IsItsPart DEF IsCalm
<1>2. AtExclusiveMinimum(s, n) /\ s.exclusiveMaximum = None => IsRisky(s)
  BY DEF AtExclusiveMinimum, IsRisky
<1>3. {"multipleOf", "maximum", "minimum"} \subseteq Codes
  BY DEF Codes
<1>4. MultipleErrors(s, n) \subseteq {"multipleOf"} /\ If(BelowMinimum(s, n), "minimum") \subseteq {"minimum"}
  BY DEF MultipleErrors, If
<1>5. CASE AboveMaximum(s, n)
  BY <1>3, <1>4, <1>5 DEF validateNumberRules, Blames
<1>6. CASE ~AboveMaximum(s, n) /\ AtExclusiveMinimum(s, n) /\ s.exclusiveMaximum = None
  BY <1>1, <1>2, <1>3, <1>4, <1>6 DEF validateNumberRules, Blames
<1>7. CASE ~AboveMaximum(s, n) /\ AtExclusiveMinimum(s, n) /\ s.exclusiveMaximum # None
  BY <1>3, <1>4, <1>7 DEF validateNumberRules, Blames
<1>8. CASE ~AboveMaximum(s, n) /\ ~AtExclusiveMinimum(s, n)
  BY <1>3, <1>4, <1>8 DEF validateNumberRules, Blames
<1>9. QED
  BY <1>5, <1>6, <1>7, <1>8

LEMMA LengthFaults ==
  ASSUME NEW s, NEW v
  PROVE  ValidateArray(s, v) \subseteq Codes
<1>1. ValidateArrayLength(s, Len(Content(v))) \subseteq Codes
  BY DEF ValidateArrayLength, If, Codes
<1>2. QED
  BY <1>1 DEF ValidateArray, If, Codes

LEMMA SizeFaults ==
  ASSUME NEW s, NEW fields
  PROVE  ValidateObjectWithoutProperties(s, fields) \subseteq Codes
BY DEF ValidateObjectWithoutProperties, validateObjectPropertiesLength, If, Codes

LEMMA TextFaults ==
  ASSUME NEW s, NEW text
  PROVE  ValidateString(s, text) \subseteq Codes
BY DEF ValidateString, LengthErrors, ValidateArrayLength, PatternErrors, If, Codes

(* The errors of a part are errors of the whole.                            *)
LEMMA PartFaults ==
  ASSUME IsRecursive, NEW s \in DocumentSchemas, LowerAreSafe(s), NEW t \in Parts(s), NEW v,
         NEW isData \in BOOLEAN, isData => IsData(v)
  PROVE  Validated(t, v) \subseteq FaultsOf(s, isData)
<1>1. Validated(t, v) \subseteq Faults(t, v)
  BY DEF LowerAreSafe, IsSafe
<1>2. IsCalm(s) => IsCalm(t)
  BY LowerParts DEF IsCalm
<1>3. QED
  BY <1>1, <1>2 DEF Faults, FaultsOf

LEMMA ItemFaults ==
  ASSUME IsRecursive, NEW s \in DocumentSchemas, LowerAreSafe(s), NEW v, Kind(v) \in {"strs", "arr"}
  PROVE  ValidateArrayAndItems(s, v) \subseteq Faults(s, v)
<1> DEFINE itemSchemas == {t \in s.items : ~IsSchemaTypeEmpty(t)}
           E == FaultsOf(s, IsData(v))
<1>1. E = Faults(s, v) /\ Codes \subseteq E /\ "type" \in Codes
  BY DEF FaultsOf, Faults, Codes
<1>2. ASSUME NEW t \in itemSchemas, NEW x \in Range(Content(v)) PROVE Validated(t, AsValue(v, x)) \subseteq E
  <2>1. t \in Parts(s)
    BY PartsAre
  <2>2. IsData(v) => IsData(AsValue(v, x))
    <3>1. CASE Kind(v) = "strs"
      BY <3>1, ScalarsAreData DEF AsValue
    <3>2. CASE Kind(v) = "arr"
      BY <3>2, ContentIsData DEF AsValue, Range
    <3>3. QED
      BY <3>1, <3>2
  <2>3. IsData(v) \in BOOLEAN
    BY DEF IsData
  <2>4. QED
    BY <2>1, <2>2, <2>3, PartFaults
<1> HIDE DEF E
<1>3. UNION {Validated(t, AsValue(v, x)) : t \in itemSchemas, x \in Range(Content(v))} \subseteq E
  BY <1>2
<1>4. ValidateArray(s, v) \subseteq E
  BY <1>1, LengthFaults
<1>5. ValidateArrayAndItems(s, v) =
        IF ~TypeAllowed(s, "array") THEN {"type"}
        ELSE ValidateArray(s, v) \cup (UNION {Validated(t, AsValue(v, x)) : t \in itemSchemas, x \in Range(Content(v))})
  BY DEF ValidateArrayAndItems
<1>6. QED
  BY <1>1, <1>3, <1>4, <1>5

LEMMA FieldFaults ==
  ASSUME IsRecursive, NEW s \in DocumentSchemas, LowerAreSafe(s), NEW fields
  PROVE  ValidateObject(s, fields) \subseteq FaultsOf(s, HasData(fields))
<1> DEFINE extra == DOMAIN fields \ DOMAIN s.properties
           E == FaultsOf(s, HasData(fields))
           declared == UNION {Validated(s.properties[k], Field(fields, k)) : k \in DOMAIN s.properties}
           additional == UNION {Validated(t, fields[k]) : t \in ExtraSchemas(s), k \in extra}
           matched == UNION {UNION {Validated(s.patternProperties[p], fields[k]) : k \in extra \cap Matching[p]}
                             : p \in DOMAIN s.patternProperties \cap DOMAIN Matching}
<1>1. HasData(fields) \in BOOLEAN /\ Codes \subseteq E
  BY DEF FaultsOf, HasData
<1>2. ASSUME NEW t \in Parts(s), NEW k PROVE Validated(t, Field(fields, k)) \subseteq E
  <2>1. HasData(fields) => IsData(Field(fields, k))
    BY ScalarsAreData DEF HasData, Field
  <2>2. QED
    BY <1>1, <2>1, PartFaults
<1>3. \A k \in DOMAIN fields : fields[k] = Field(fields, k)
  BY DEF Field
<1> HIDE DEF E
<1>4. declared \subseteq E
  <2>1. \A k \in DOMAIN s.properties : s.properties[k] \in Parts(s)
    BY PartsAre DEF Range
  <2>2. QED
    BY <1>2, <2>1
<1>5. additional \subseteq E
  <2>1. \A t \in ExtraSchemas(s) : t \in Parts(s)
    BY PartsAre
  <2>2. \A t \in ExtraSchemas(s), k \in extra : Validated(t, fields[k]) \subseteq E
    BY <1>2, <1>3, <2>1
  <2>3. QED
    BY <2>2
<1>6. matched \subseteq E
  <2>1. \A p \in DOMAIN s.patternProperties : s.patternProperties[p] \in Parts(s)
    BY PartsAre DEF Range
  <2>2. \A p \in DOMAIN s.patternProperties \cap DOMAIN Matching, k \in extra :
          Validated(s.patternProperties[p], fields[k]) \subseteq E
    BY <1>2, <1>3, <2>1
  <2>3. QED
    BY <2>2
<1>7. ValidateObject(s, fields) = ValidateObjectWithoutProperties(s, fields) \cup declared \cup additional \cup matched
  BY DEF ValidateObject
<1> HIDE DEF declared, additional, matched
<1>8. ValidateObjectWithoutProperties(s, fields) \subseteq E
  BY <1>1, SizeFaults
<1>9. QED
  BY <1>4, <1>5, <1>6, <1>7, <1>8 DEF E

LEMMA OwnFaults ==
  ASSUME IsRecursive, NEW s \in DocumentSchemas, LowerAreSafe(s), NEW v
  PROVE  validateValueOnly(s, v) \subseteq Faults(s, v)
<1>0. Codes \subseteq Faults(s, v) /\ {"type", "enum", "notNull"} \subseteq Codes
  BY DEF Faults, Codes
<1>1. CASE Kind(v) = "null"
  BY <1>1 DEF validateValueOnly
<1>2. CASE Kind(v) = "bool"
  <2>1. ValidateBoolean(s, v) \subseteq Codes
    BY <1>0 DEF ValidateBoolean, If
  <2>2. QED
    BY <1>0, <1>2, <2>1 DEF validateValueOnly
<1>3. CASE Kind(v) = "str"
  BY <1>0, <1>3, TextFaults DEF validateValueOnly
<1>4. CASE Kind(v) \in {"int", "num"}
  <2>1. IsData(v)
    BY <1>4, ScalarIsData DEF ScalarKinds
  <2>2. Blames(s) = Faults(s, v)
    BY <2>1 DEF Blames, Faults
  <2>3. ValidateNumber(s, v) \subseteq Faults(s, v) /\ ValidateInteger(s, v) \subseteq Faults(s, v)
    BY <1>0, <2>2, LimitFaults DEF ValidateNumber, ValidateInteger
  <2>4. QED
    BY <1>4, <2>3 DEF validateValueOnly
<1>5. CASE Kind(v) \in {"strs", "arr"}
  BY <1>5, ItemFaults DEF validateValueOnly
<1>6. CASE Kind(v) = "obj"
  <2>1. IsData(v) => HasData(Content(v))
    BY <1>6, ContentIsData DEF HasData
  <2>2. FaultsOf(s, HasData(Content(v))) \subseteq Faults(s, v)
    BY <2>1 DEF FaultsOf, Faults
  <2>3. QED
    BY <1>6, <2>2, FieldFaults DEF validateValueOnly
<1>7. CASE Kind(v) \notin {"null", "bool", "str", "int", "num", "strs", "arr", "obj"}
  <2>1. ~IsData(v)
    BY <1>7 DEF IsData, AreClosed, ScalarKinds
  <2>2. Faults(s, v) = Codes \cup Panic
    BY <2>1 DEF Faults
  <2>3. ValidateNullable(s) \subseteq Codes \cup Panic
    BY <1>0 DEF ValidateNullable
  <2>4. QED
    BY <1>7, <2>2, <2>3 DEF validateValueOnly
<1>8. QED
  BY <1>1, <1>2, <1>3, <1>4, <1>5, <1>6, <1>7

(* The errors of alternatives are errors of theirs.                         *)
LEMMA AlternativeErrors ==
  ASSUME NEW branches, NEW E, \A i \in DOMAIN branches : branches[i] \subseteq E
  PROVE  /\ UNION Range(branches) \subseteq E
         /\ AnyOfErrors(branches) \subseteq E /\ OneOfErrors(branches) \subseteq E
<1>1. ASSUME NEW tried, tried \subseteq Range(branches) PROVE AnyErrors(tried) \subseteq E
  BY <1>1 DEF AnyErrors, Range
<1>2. AnyOfErrors(branches) \subseteq E
  BY <1>1 DEF AnyOfErrors
<1>3. OneOfErrors(branches) \subseteq E
  <2> DEFINE passing == {i \in DOMAIN branches : branches[i] = {}}
             tried == {branches[i] : i \in {k \in DOMAIN branches : \A j \in passing : k <= j}}
  <2>1. tried \subseteq Range(branches)
    BY DEF Range
  <2>2. OneOfErrors(branches) = AnyErrors(tried)
    BY DEF OneOfErrors
  <2> HIDE DEF tried
  <2>3. QED
    BY <1>1, <2>1, <2>2
<1>4. UNION Range(branches) \subseteq E
  BY DEF Range
<1>5. QED
  BY <1>2, <1>3, <1>4

LEMMA ValueFaults ==
  ASSUME IsRecursive, NEW s \in DocumentSchemas, LowerAreSafe(s), NEW v
  PROVE  ValidateValue(s, v) \subseteq Faults(s, v)
<1> DEFINE Of(branches) == [i \in DOMAIN branches |-> Validated(branches[i], v)]
           E == Faults(s, v)
<1>1. ASSUME NEW branches, Range(branches) \subseteq BranchesOf(s), NEW i \in DOMAIN branches
      PROVE  Of(branches)[i] \subseteq E
  <2>1. branches[i] \in Parts(s)
    BY <1>1, PartsAre DEF Range
  <2>2. FaultsOf(s, IsData(v)) = E /\ IsData(v) \in BOOLEAN
    BY DEF FaultsOf, Faults, IsData
  <2>3. QED
    BY <2>1, <2>2, PartFaults
<1>2. Range(s.allOf) \subseteq BranchesOf(s) /\ Range(s.anyOf) \subseteq BranchesOf(s) /\ Range(s.oneOf) \subseteq BranchesOf(s)
  BY DEF BranchesOf
<1>3. validateValueOnly(s, v) \subseteq E
  BY OwnFaults
<1>4. ValidateValue(s, v) = validateValueOnly(s, v) \cup (UNION Range(Of(s.allOf)))
                            \cup AnyOfErrors(Of(s.anyOf)) \cup OneOfErrors(Of(s.oneOf))
  BY Zenon DEF ValidateValue
<1> HIDE DEF E
<1>5. ASSUME NEW branches, Range(branches) \subseteq BranchesOf(s)
      PROVE  /\ UNION Range(Of(branches)) \subseteq E
             /\ AnyOfErrors(Of(branches)) \subseteq E /\ OneOfErrors(Of(branches)) \subseteq E
  <2>1. \A i \in DOMAIN Of(branches) : Of(branches)[i] \subseteq E
    BY <1>1, <1>5
  <2> HIDE DEF Of
  <2>2. QED
    BY <2>1, AlternativeErrors
<1> HIDE DEF Of
<1>6. QED
  BY <1>2, <1>3, <1>4, <1>5 DEF E

LEMMA ValidatorSafe ==
  ASSUME IsRecursive
  PROVE  \A s \in DocumentSchemas : LowerAreSafe(s) /\ \A v : ValidateValue(s, v) \subseteq Faults(s, v)
<1> DEFINE T == {s \in DocumentSchemas : LowerAreSafe(s) /\ IsSafe(s)}
<1>1. ASSUME NEW s \in DocumentSchemas, \A t \in DocumentSchemas : Height[t] < Height[s] => t \in T
      PROVE  s \in T
  <2>1. LowerAreSafe(s)
    BY <1>1, LowerParts DEF LowerAreSafe
  <2>2. IsSafe(s)
    BY <2>1, ValueFaults DEF IsSafe, IsRecursive
  <2>3. QED
    BY <2>1, <2>2
<1>2. DocumentSchemas \subseteq T
  <2> HIDE DEF T
  <2>1. QED
    BY <1>1, ByHeight
<1>3. QED
  BY <1>2 DEF IsSafe, IsRecursive

-----------------------------------------------------------------------------
(* A decoder gives data, and the errors there may be for a schema.          *)
Decodes(s, d) == IsData(d.val) /\ d.errs \subseteq Blames(s)
DecodesFields(s, d) == HasData(d.val) /\ d.errs \subseteq Blames(s)

LEMMA BlamesAre ==
  ASSUME NEW s
  PROVE  /\ Codes \subseteq Blames(s) /\ {} \subseteq Blames(s)
         /\ \A code \in Codes : {code} \subseteq Blames(s)
         /\ \A v : IsData(v) => Faults(s, v) = Blames(s)
BY DEF Blames, Faults

LEMMA OkDecodes ==
  ASSUME NEW s, NEW v, IsData(v)
  PROVE  Decodes(s, Ok(v))
BY DEF Decodes, Ok

LEMMA FailDecodes ==
  ASSUME NEW s, NEW errors, errors \subseteq Blames(s)
  PROVE  Decodes(s, Fail(errors))
BY ScalarsAreData DEF Decodes, Fail

LEMMA AcceptDecodes ==
  ASSUME NEW s, NEW d, Decodes(s, d), NEW errors, errors \subseteq Blames(s)
  PROVE  Decodes(s, Accept(d, errors))
BY FailDecodes DEF Accept

LEMMA NullOr ==
  ASSUME NEW s, NEW condition, NEW code \in Codes
  PROVE  Decodes(s, Accept(Ok(Null), If(condition, code)))
<1>1. If(condition, code) \subseteq Blames(s)
  BY BlamesAre DEF If
<1>2. QED
  BY <1>1, ScalarsAreData, OkDecodes, AcceptDecodes

LEMMA PartDecodes ==
  ASSUME IsRecursive, NEW s \in DocumentSchemas, NEW t \in Parts(s), NEW d, Decodes(t, d)
  PROVE  Decodes(s, d)
BY CalmParts DEF Decodes

LEMMA RawIsData ==
  ASSUME NEW texts
  PROVE  IsData(normalizeRawParamValue(texts)) /\ IsData(ToAnySlice(texts))
<1>1. IsData(normalizeRawParamValue(texts))
  BY ScalarsAreData DEF normalizeRawParamValue
<1>2. IsData(ToAnySlice(texts))
  BY ScalarsAreData, ArrayIsData DEF ToAnySlice
<1>3. QED
  BY <1>1, <1>2

LEMMA ValueBlames ==
  ASSUME IsRecursive, NEW s \in DocumentSchemas, NEW v, IsData(v)
  PROVE  ValidateValue(s, v) \subseteq Blames(s)
BY ValidatorSafe, BlamesAre

LEMMA ValidDecodes ==
  ASSUME IsRecursive, NEW s \in DocumentSchemas, NEW d, Decodes(s, d)
  PROVE  Decodes(s, Valid(s, d))
<1>1. ValidateValue(s, d.val) \subseteq Blames(s)
  BY ValueBlames DEF Decodes
<1>2. QED
  BY <1>1, FailDecodes, AcceptDecodes DEF Valid, Decodes

LEMMA TriedDecodes ==
  ASSUME NEW s, NEW types, NEW type, NEW attempt, NEW rest, Decodes(s, attempt), Decodes(s, rest)
  PROVE  Decodes(s, TryType(types, type, attempt, rest))
BY DEF TryType

(* The texts of a primitive type, and the first type that reads the texts.  *)
LEMMA PrimitiveDecodes ==
  ASSUME NEW s, NEW type, NEW texts
  PROVE  Decodes(s, decodePrimitiveQueryValues(type, texts))
<1> DEFINE filled == SelectSeq(texts, LAMBDA text : text # <<>>)
           read == DecodePrimitiveValueFromType(filled[1], type)
<1>1. \A v, t : IsData(v) => Decodes(s, Decoded(v, t, {}))
  BY DEF Decoded, Decodes
<1>2. Decodes(s, Decoded(Null, "", {"syntax"}))
  BY ScalarsAreData, BlamesAre DEF Decoded, Decodes, Codes
<1>3. ASSUME type \in Primitives, read # {} PROVE IsData(Only(read))
  <2>1. \A v \in read : IsData(v)
    BY <1>3, ScalarsAreData DEF DecodePrimitiveValueFromType, Primitives
  <2> HIDE DEF read
  <2>2. QED
    BY <1>3, <2>1, OnlyOne
<1>4. decodePrimitiveQueryValues(type, texts) =
        IF texts = <<>> THEN Decoded(Null, type, {})
        ELSE IF type = "string" THEN Decoded(Str(IF filled = <<>> THEN <<>> ELSE filled[1]), type, {})
        ELSE IF filled = <<>> THEN Decoded(Strs(texts), "", {})
        ELSE IF type \notin Primitives THEN Decoded(Str(filled[1]), "", {})
        ELSE IF read = {} THEN Decoded(Null, "", {"syntax"})
        ELSE Decoded(Only(read), type, {})
  BY DEF decodePrimitiveQueryValues
<1> HIDE DEF filled, read
<1>5. QED
  BY <1>1, <1>2, <1>3, <1>4, ScalarsAreData

LEMMA FirstDecodes ==
  ASSUME NEW s, NEW ds, \A i \in DOMAIN ds : Decodes(s, ds[i])
  PROVE  Decodes(s, FirstType(ds))
<1> DEFINE ending == {i \in DOMAIN ds : ~Failed(ds[i]) \/ ds[i].errs \cap Panic # {}}
           errors == IF DOMAIN ds = {} THEN {"object"} ELSE UNION {ds[i].errs : i \in LastIn(DOMAIN ds)}
<1>1. FirstType(ds) = IF FirstIn(ending) # {} THEN ds[Only(FirstIn(ending))] ELSE Decoded(Null, "", errors)
  BY DEF FirstType
<1>2. errors \subseteq Blames(s)
  <2>1. {"object"} \subseteq Blames(s)
    BY BlamesAre DEF Codes
  <2>2. UNION {ds[i].errs : i \in LastIn(DOMAIN ds)} \subseteq Blames(s)
    BY DEF LastIn, Decodes
  <2>3. QED
    BY <2>1, <2>2
<1>3. ASSUME FirstIn(ending) # {} PROVE Only(FirstIn(ending)) \in DOMAIN ds
  BY <1>3, OnlyOne DEF FirstIn
<1> HIDE DEF ending, errors
<1>4. Decodes(s, Decoded(Null, "", errors))
  BY <1>2, ScalarsAreData DEF Decodes, Decoded
<1>5. QED
  BY <1>1, <1>3, <1>4

LEMMA CollectDecodes ==
  ASSUME NEW s, NEW ds, \A i \in DOMAIN ds : Decodes(s, ds[i])
  PROVE  Decodes(s, Collect(ds)) /\ Decodes(s, ItemsOf(ds))
<1> DEFINE failing == {i \in DOMAIN ds : Failed(ds[i])}
           items == [i \in DOMAIN ds |-> ds[i].val]
<1>1. Decodes(s, Ok(Arr(items)))
  BY ArrayIsData, OkDecodes DEF Decodes
<1>2. UNION {ds[i].errs : i \in FirstIn(failing)} \subseteq Blames(s) /\ UNION {ds[i].errs : i \in DOMAIN ds} \subseteq Blames(s)
  BY DEF FirstIn, Decodes
<1>3. Collect(ds) = IF failing = {} THEN Ok(Arr(items)) ELSE Fail(UNION {ds[i].errs : i \in FirstIn(failing)})
  BY Zenon DEF Collect
<1>4. ItemsOf(ds) = Accept(Ok(Arr(items)), UNION {ds[i].errs : i \in DOMAIN ds})
  BY DEF ItemsOf
<1> HIDE DEF failing, items
<1>5. QED
  BY <1>1, <1>2, <1>3, <1>4, FailDecodes, AcceptDecodes

-----------------------------------------------------------------------------
(* ParamDecode, by induction over the heights of schemas.                   *)
ParamIsSafe(s) == \A texts, types : Decodes(s, ParamDecode({s}, texts, types))
LowerParams(s) == \A t \in DocumentSchemas : Height[t] < Height[s] => ParamIsSafe(t)

LEMMA TextArrayDecodes ==
  ASSUME IsRecursive, NEW s \in DocumentSchemas, LowerParams(s), NEW texts
  PROVE  /\ Decodes(s, decodeArrayParam(texts, s))
         /\ TypedItems(s) # {} => Decodes(s, decodeArrayParamWithItemSchema(texts, Only(TypedItems(s))))
<1> DEFINE item == Only(TypedItems(s))
           ds == [i \in DOMAIN texts |-> ItemDecoded({item}, <<texts[i]>>, <<>>)]
<1>1. Decodes(s, Ok(ToAnySlice(texts)))
  BY RawIsData, OkDecodes
<1>2. ASSUME TypedItems(s) # {} PROVE Decodes(s, decodeArrayParamWithItemSchema(texts, item))
  <2>1. item \in Parts(s)
    BY <1>2, OnlyOne, PartsAre DEF TypedItems
  <2>2. item \in DocumentSchemas /\ Height[item] < Height[s]
    BY <2>1, LowerParts
  <2> HIDE DEF item
  <2>3. ASSUME NEW i \in DOMAIN ds PROVE Decodes(s, ds[i])
    <3>1. ds[i] = ParamDecode({item}, <<texts[i]>>, <<>>)
      BY <2>2 DEF IsRecursive
    <3>2. Decodes(item, ds[i])
      BY <2>2, <3>1 DEF LowerParams, ParamIsSafe
    <3>3. QED
      BY <2>1, <3>2, PartDecodes
  <2>4. decodeArrayParamWithItemSchema(texts, item) = Collect(ds)
    BY DEF decodeArrayParamWithItemSchema
  <2> HIDE DEF ds
  <2>5. QED
    BY <2>3, <2>4, CollectDecodes
<1>3. QED
  BY <1>1, <1>2 DEF decodeArrayParam

LEMMA TextsDecode ==
  ASSUME IsRecursive, NEW s \in DocumentSchemas, LowerParams(s), NEW texts, NEW types
  PROVE  Decodes(s, DecodeTexts(s, texts, types))
<1>1. Decodes(s, RawTexts(s, texts))
  <2>1. If(texts = <<>> /\ ~IsNullable(s), "required") \subseteq Blames(s)
    BY BlamesAre DEF If, Codes
  <2>2. QED
    BY <2>1, RawIsData DEF RawTexts, Decoded, Decodes
<1>2. ASSUME NEW type PROVE Decodes(s, decodeFromSchemaType(s, texts, type))
  <2>1. \A d : Decodes(s, d) => Decodes(s, AsArray(d))
    BY DEF AsArray, Decoded, Decodes
  <2>2. Decodes(s, AsArray(decodeArrayParam(texts, s)))
    BY <2>1, TextArrayDecodes
  <2>3. \A d : Decodes(s, d) => Decodes(s, IsTyped(d))
    BY ScalarsAreData, BlamesAre DEF IsTyped, Decoded, Decodes, Codes
  <2>4. Decodes(s, IsTyped(decodePrimitiveQueryValues(type, texts)))
    BY <2>3, PrimitiveDecodes
  <2>5. QED
    BY <2>2, <2>4 DEF decodeFromSchemaType
<1>3. ASSUME NEW ts PROVE Decodes(s, decodeFromSchemaTypes(s, texts, ts))
  <2> DEFINE ds == [i \in DOMAIN ts |-> decodeFromSchemaType(s, texts, ts[i])]
  <2>1. \A i \in DOMAIN ds : Decodes(s, ds[i])
    BY <1>2
  <2>2. decodeFromSchemaTypes(s, texts, ts) = FirstType(ds)
    BY DEF decodeFromSchemaTypes
  <2> HIDE DEF ds
  <2>3. QED
    BY <2>1, <2>2, FirstDecodes
<1>4. QED
  BY <1>1, <1>3 DEF DecodeTexts

LEMMA OneOfDecodes ==
  ASSUME IsRecursive, NEW s \in DocumentSchemas, NEW d, Decodes(s, d)
  PROVE  Decodes(s, DecodeOneOf(s, d))
<1>1. PICK tried : tried = OneOfTried(s, d.type)
  OBVIOUS
<1> DEFINE errors == [i \in DOMAIN tried |-> ValidateValue(tried[i], d.val)]
<1>2. ASSUME NEW i \in DOMAIN tried PROVE errors[i] \subseteq Blames(s)
  <2>1. tried[i] \in Range(s.oneOf)
    BY <1>1 DEF OneOfTried, Restrict, Range
  <2>2. tried[i] \in Parts(s)
    BY <2>1, PartsAre DEF BranchesOf
  <2>3. tried[i] \in DocumentSchemas
    BY <2>2, LowerParts
  <2>4. ValidateValue(tried[i], d.val) \subseteq Blames(tried[i])
    BY <2>3, ValueBlames DEF Decodes
  <2>5. QED
    BY <2>2, <2>4, CalmParts
<1>3. \A i \in DOMAIN errors : errors[i] \subseteq Blames(s)
  BY <1>2
<1>4. Decodes(s, Ok(Null)) /\ Decodes(s, Ok(d.val))
  BY ScalarsAreData, OkDecodes DEF Decodes
<1>5. TryOneOf(tried, d) = IF DOMAIN tried = {} THEN Ok(Null) ELSE Accept(Ok(d.val), OneOfErrors(errors))
  BY DEF TryOneOf
<1> HIDE DEF errors
<1>6. Decodes(s, TryOneOf(tried, d))
  BY <1>3, <1>4, <1>5, AlternativeErrors, AcceptDecodes
<1>7. QED
  BY <1>1, <1>6 DEF DecodeOneOf

LEMMA ParamSafe ==
  ASSUME IsRecursive
  PROVE  \A s \in DocumentSchemas : ParamIsSafe(s) /\ LowerParams(s)
<1> DEFINE T == {s \in DocumentSchemas : ParamIsSafe(s)}
<1>1. ASSUME NEW s \in DocumentSchemas, \A t \in DocumentSchemas : Height[t] < Height[s] => t \in T
      PROVE  s \in T
  <2>1. LowerParams(s)
    BY <1>1 DEF LowerParams
  <2>2. ASSUME NEW texts, NEW types PROVE Decodes(s, ParamDecode({s}, texts, types))
    <3>1. Decodes(s, DecodeOneOf(s, Valid(s, DecodeTexts(s, texts, types))))
      BY <2>1, TextsDecode, ValidDecodes, OneOfDecodes
    <3>2. ParamDecode({s}, texts, types) = DecodeOneOf(s, Valid(s, DecodeTexts(s, texts, types)))
      BY OnlyIs DEF ParamDecode, None
    <3>3. QED
      BY <3>1, <3>2
  <2>3. QED
    BY <2>2 DEF ParamIsSafe
<1>2. DocumentSchemas \subseteq T
  <2> HIDE DEF T
  <2>1. QED
    BY <1>1, ByHeight
<1>3. QED
  BY <1>2 DEF LowerParams

(* Of a schema there may be, and of the schema of a key of an object.       *)
LEMMA ParamDecodes ==
  ASSUME IsRecursive, NEW s, NEW schema, schema = None \/ Only(schema) \in DocumentSchemas,
         schema # None => Blames(Only(schema)) \subseteq Blames(s), NEW texts, NEW types
  PROVE  Decodes(s, ParamDecode(schema, texts, types))
<1>1. CASE schema = None
  BY <1>1, RawIsData, OkDecodes DEF ParamDecode
<1>2. CASE schema # None
  <2>1. ParamDecode(schema, texts, types) = ParamDecode({Only(schema)}, texts, types)
    BY <1>2, OnlyIs DEF ParamDecode, None
  <2>2. Decodes(Only(schema), ParamDecode({Only(schema)}, texts, types))
    BY <1>2, ParamSafe DEF ParamIsSafe
  <2>3. QED
    BY <1>2, <2>1, <2>2 DEF Decodes
<1>3. QED
  BY <1>1, <1>2

-----------------------------------------------------------------------------
(* Objects of texts by key.                                                 *)
LEMMA SchemasAreParts ==
  ASSUME NEW s, NEW keys
  PROVE  /\ \A k \in DOMAIN DeclaredSchemas(keys, s) : DeclaredSchemas(keys, s)[k] \subseteq Parts(s)
         /\ \A k \in DOMAIN AdditionalSchemas(keys, s) : AdditionalSchemas(keys, s)[k] \subseteq Parts(s)
         /\ \A k \in DOMAIN MatchingSchemas(keys, s) : MatchingSchemas(keys, s)[k] \subseteq Parts(s)
<1>1. ASSUME NEW k \in DOMAIN DeclaredSchemas(keys, s) PROVE DeclaredSchemas(keys, s)[k] \subseteq Parts(s)
  BY PartsAre DEF DeclaredSchemas, Range
<1>2. ASSUME NEW k \in DOMAIN AdditionalSchemas(keys, s) PROVE AdditionalSchemas(keys, s)[k] \subseteq Parts(s)
  BY PartsAre DEF AdditionalSchemas
<1>3. ASSUME NEW k \in DOMAIN MatchingSchemas(keys, s) PROVE MatchingSchemas(keys, s)[k] \subseteq Parts(s)
  <2>1. PatternSchemas(s, k) \subseteq Range(s.patternProperties)
    BY DEF PatternSchemas, Range
  <2>2. MatchingSchemas(keys, s)[k] = PatternSchemas(s, k)
    BY DEF MatchingSchemas
  <2>3. QED
    BY <2>1, <2>2, PartsAre
<1>4. QED
  BY <1>1, <1>2, <1>3

LEMMA KeysHaveSchemas ==
  ASSUME NEW step \in {"declared", "additional", "pattern"}, NEW raw, NEW fields, NEW s
  PROVE  \A k \in DOMAIN KeySchemas(step, raw, fields, s) : KeySchemas(step, raw, fields, s)[k] \subseteq Parts(s)
BY SchemasAreParts DEF KeySchemas

LEMMA OverHasData ==
  ASSUME NEW fields, NEW others, HasData(fields), HasData(others)
  PROVE  HasData(Over(fields, others)) /\ HasData(NoFields)
BY DEF HasData, Over, NoFields

LEMMA BesideDecodes ==
  ASSUME NEW s, NEW fields, HasData(fields), NEW ds, \A k \in DOMAIN ds : Decodes(s, ds[k])
  PROVE  DecodesFields(s, Beside(fields, ds))
<1> DEFINE good == [k \in Good(ds) |-> ds[k].val]
           errors == UNION {ds[k].errs : k \in DOMAIN ds}
<1>1. HasData(good)
  BY DEF HasData, Good, Decodes
<1>2. errors \subseteq Blames(s)
  BY DEF Decodes
<1>3. Beside(fields, ds) = Fields(Over(good, fields), errors)
  BY DEF Beside
<1> HIDE DEF good, errors
<1>4. QED
  BY <1>1, <1>2, <1>3, OverHasData DEF DecodesFields, Fields

LEMMA StepDecodes ==
  ASSUME IsRecursive, NEW s \in DocumentSchemas, NEW step \in {"declared", "additional", "pattern"},
         NEW raw, NEW d, DecodesFields(s, d)
  PROVE  DecodesFields(s, DecodeStep(step, raw, s, d))
<1>1. PICK schemas : schemas = KeySchemas(step, raw, d.val, s)
  OBVIOUS
<1> DEFINE ds == [k \in DOMAIN schemas |-> ParamDecode(schemas[k], raw[k], <<>>)]
<1>2. ASSUME NEW k \in DOMAIN ds PROVE Decodes(s, ds[k])
  <2>1. schemas[k] = None \/ Only(schemas[k]) \in Parts(s)
    BY <1>1, KeysHaveSchemas, OnlyOne DEF None
  <2>2. Only(schemas[k]) \in Parts(s) => Only(schemas[k]) \in DocumentSchemas /\ Blames(Only(schemas[k])) \subseteq Blames(s)
    BY LowerParts, CalmParts
  <2>3. Decodes(s, ParamDecode(schemas[k], raw[k], <<>>))
    BY <2>1, <2>2, ParamDecodes
  <2>4. QED
    BY <2>3
<1>3. DecodeStep(step, raw, s, d) = IF Failed(d) THEN d ELSE Beside(d.val, ds)
  BY <1>1 DEF DecodeStep, DecodeKeys
<1> HIDE DEF ds
<1>4. DecodesFields(s, Beside(d.val, ds))
  BY <1>2, BesideDecodes DEF DecodesFields
<1>5. QED
  BY <1>3, <1>4

LEMMA StartDecodes ==
  ASSUME NEW s, NEW fields, HasData(fields)
  PROVE  DecodesFields(s, Fields(fields, {}))
BY DEF DecodesFields, Fields

LEMMA PropertiesDecode ==
  ASSUME IsRecursive, NEW s \in DocumentSchemas, NEW raw, NEW fields, HasData(fields)
  PROVE  DecodesFields(s, decodeProperties(raw, fields, s))
BY StartDecodes, StepDecodes DEF decodeProperties

ObjectIsSafe(s) == \A raw, fields : HasData(fields) => DecodesFields(s, ObjectDecode(raw, fields, s))
LowerObjects(s) == \A t \in DocumentSchemas : Height[t] < Height[s] => ObjectIsSafe(t)

(* The branches of a schema leave data, and errors of theirs.               *)
LEMMA BranchParts ==
  ASSUME IsRecursive, NEW s \in DocumentSchemas,
         NEW branches \in {s.allOf, s.anyOf, s.oneOf}
  PROVE  /\ Len(branches) \in Nat
         /\ \A i \in 1..Len(branches) : /\ branches[i] \in DocumentSchemas /\ Height[branches[i]] < Height[s]
                                        /\ branches[i] \in Parts(s)
<1>1. IsList(branches)
  BY SchemasAssumption
<1>2. Len(branches) \in Nat /\ DOMAIN branches = 1..Len(branches)
  BY <1>1 DEF IsList
<1>3. Range(branches) \subseteq Parts(s)
  BY PartsAre DEF BranchesOf
<1>4. ASSUME NEW i \in 1..Len(branches) PROVE branches[i] \in Parts(s)
  BY <1>2, <1>3 DEF Range
<1>5. QED
  BY <1>2, <1>4, LowerParts

LEMMA PartDecodesFields ==
  ASSUME IsRecursive, NEW s \in DocumentSchemas, NEW t \in Parts(s), NEW d, DecodesFields(t, d)
  PROVE  DecodesFields(s, d)
BY CalmParts DEF DecodesFields

LEMMA ObjectBlames ==
  ASSUME IsRecursive, NEW s \in DocumentSchemas, NEW fields, HasData(fields)
  PROVE  ValidateObject(s, fields) \subseteq Blames(s) /\ ValidateObjectWithoutProperties(s, fields) \subseteq Blames(s)
<1>1. ValidateObject(s, fields) \subseteq FaultsOf(s, HasData(fields))
  BY ValidatorSafe, FieldFaults
<1>2. FaultsOf(s, HasData(fields)) = Blames(s)
  BY DEF FaultsOf, Blames
<1>3. QED
  BY <1>1, <1>2, SizeFaults, BlamesAre

LEMMA JoinDecodes ==
  ASSUME NEW s, NEW fields, HasData(fields), NEW d, DecodesFields(s, d)
  PROVE  DecodesFields(s, Join(fields, d))
BY OverHasData DEF Join, Fields, DecodesFields

LEMMA ObjectBranches ==
  ASSUME IsRecursive, NEW s \in DocumentSchemas, LowerObjects(s), NEW raw,
         NEW branches \in {s.allOf, s.anyOf, s.oneOf}
  PROVE  AllTried!Leaves(raw, branches, Blames(s)) /\ SomeTried!Leaves(raw, branches, Blames(s))
<1>1. ASSUME NEW i \in 1..Len(branches), NEW fs, HasData(fs)
      PROVE  /\ DecodesFields(s, BranchDecoded(raw, fs, branches[i]))
             /\ DecodesFields(s, decodeOrUnionItem(raw, fs, branches[i]))
  <2>1. PICK b : b = branches[i]
    OBVIOUS
  <2>2. b \in DocumentSchemas /\ Height[b] < Height[s] /\ b \in Parts(s)
    BY <2>1, BranchParts
  <2>3. ASSUME NEW gs, HasData(gs) PROVE DecodesFields(s, BranchDecoded(raw, gs, b))
    <3>1. DecodesFields(b, ObjectDecode(raw, gs, b))
      BY <2>2, <2>3 DEF LowerObjects, ObjectIsSafe
    <3>2. BranchDecoded(raw, gs, b) = ObjectDecode(raw, gs, b)
      BY <2>2 DEF IsRecursive
    <3>3. QED
      BY <2>2, <3>1, <3>2, PartDecodesFields
  <2>4. DecodesFields(s, Fields(fs, ValidateObject(b, fs)))
    <3>1. ValidateObject(b, fs) \subseteq Blames(s)
      BY <1>1, <2>2, ObjectBlames, CalmParts
    <3>2. QED
      BY <1>1, <3>1 DEF Fields, DecodesFields
  <2>5. DecodesFields(s, Join(fs, BranchDecoded(raw, NoFields, b)))
    BY <1>1, <2>3, OverHasData, JoinDecodes
  <2>6. QED
    BY <1>1, <2>1, <2>3, <2>4, <2>5 DEF decodeOrUnionItem
<1>2. QED
  BY <1>1 DEF AllTried!Leaves, SomeTried!Leaves, DecodesFields

LEMMA ObjectDecodes ==
  ASSUME IsRecursive, NEW s \in DocumentSchemas, LowerObjects(s), NEW raw, NEW fields, HasData(fields)
  PROVE  DecodesFields(s, ObjectDecode(raw, fields, s))
<1> DEFINE d1 == decodeProperties(raw, fields, s)
           d2 == ObjectAllOf(raw, s, d1)
           d3 == ObjectAnyOf(raw, s, d2)
           d4 == ObjectOneOf(raw, s, d3)
<1>0. Len(s.allOf) \in Nat /\ Len(s.anyOf) \in Nat /\ Len(s.oneOf) \in Nat
  BY BranchParts
<1>1. DecodesFields(s, d1)
  BY PropertiesDecode
<1> HIDE DEF d1
<1>2. DecodesFields(s, d2)
  <2>1. ASSUME ~Failed(d1) PROVE DecodesFields(s, AllTried!AllOf(raw, s.allOf, d1.val))
    BY <1>0, <1>1, ObjectBranches, AllTried!AllLeave DEF DecodesFields
  <2>2. QED
    BY <1>1, <2>1, SameBranches DEF ObjectAllOf
<1> HIDE DEF d2
<1>3. DecodesFields(s, d3)
  <2>1. ASSUME ~Failed(d2) PROVE DecodesFields(s, SomeTried!AnyOf(raw, s.anyOf, d2.val))
    BY <1>0, <1>2, ObjectBranches, SomeTried!AllLeave DEF DecodesFields
  <2>2. QED
    BY <1>2, <2>1, SameBranches DEF ObjectAnyOf
<1> HIDE DEF d3
<1>4. DecodesFields(s, d4)
  <2>1. ASSUME ~Failed(d3) PROVE DecodesFields(s, SomeTried!OneOf(raw, s.oneOf, d3.val))
    BY <1>0, <1>3, ObjectBranches, SomeTried!AllLeave DEF DecodesFields
  <2>2. QED
    BY <1>3, <2>1, SameBranches DEF ObjectOneOf
<1> HIDE DEF d4
<1>5. DecodesFields(s, FitsObject(s, d4))
  <2>1. ValidateObject(s, d4.val) \subseteq Blames(s)
    BY <1>4, ObjectBlames DEF DecodesFields
  <2>2. QED
    BY <1>4, <2>1 DEF FitsObject, Fields, DecodesFields
<1>6. DecodesFields(s, Fields(normalizeRawObjectValues(raw), {}))
  <2>1. HasData(normalizeRawObjectValues(raw))
    BY RawIsData DEF HasData, normalizeRawObjectValues
  <2>2. QED
    BY <2>1, StartDecodes
<1>7. ObjectDecode(raw, fields, s) =
        IF IsSchemaObjectEmpty(s) THEN Fields(normalizeRawObjectValues(raw), {}) ELSE FitsObject(s, d4)
  BY DEF ObjectDecode, d1, d2, d3, d4
<1>8. QED
  BY <1>5, <1>6, <1>7

LEMMA ObjectsSafe ==
  ASSUME IsRecursive
  PROVE  \A s \in DocumentSchemas : ObjectIsSafe(s)
<1> DEFINE T == {s \in DocumentSchemas : ObjectIsSafe(s)}
<1>1. ASSUME NEW s \in DocumentSchemas, \A t \in DocumentSchemas : Height[t] < Height[s] => t \in T
      PROVE  s \in T
  <2>1. LowerObjects(s)
    BY <1>1 DEF LowerObjects
  <2>2. QED
    BY <2>1, ObjectDecodes DEF ObjectIsSafe
<1>2. DocumentSchemas \subseteq T
  <2> HIDE DEF T
  <2>1. QED
    BY <1>1, ByHeight
<1>3. QED
  BY <1>2

LEMMA AsObjectDecodes ==
  ASSUME NEW s, NEW d, DecodesFields(s, d)
  PROVE  Decodes(s, AsObject(d))
<1>1. Decodes(s, Ok(Obj(d.val)))
  BY ObjectIsData, OkDecodes DEF DecodesFields
<1>2. Decodes(s, Fail(d.errs))
  BY FailDecodes DEF DecodesFields
<1>3. QED
  BY <1>1, <1>2 DEF AsObject

LEMMA TextsObject ==
  ASSUME IsRecursive, NEW s \in DocumentSchemas, NEW raws
  PROVE  Decodes(s, DecodeObject(raws, s))
<1>1. HasData(NoFields)
  BY DEF HasData, NoFields
<1>2. Decodes(s, AsObject(ObjectDecode(Only(raws), NoFields, s)))
  BY <1>1, ObjectsSafe, AsObjectDecodes DEF ObjectIsSafe
<1>3. Decodes(s, Fail({"syntax"}))
  BY BlamesAre, FailDecodes DEF Codes
<1>4. QED
  BY <1>2, <1>3 DEF DecodeObject

-----------------------------------------------------------------------------
(* Deep objects: the nodes of a query that has finitely many keys.          *)
AreNodes(nodes) ==
  \A x \in nodes : /\ IsFiniteSet(DOMAIN x.items) /\ Range(x.items) \subseteq nodes
                   /\ ArbitraryBelow(x) = decodeArbitrary(x)
IsNode(x) == \E nodes : x \in nodes /\ AreNodes(nodes)

LEMMA NodesBelow ==
  ASSUME NEW x, IsNode(x)
  PROVE  IsFiniteSet(DOMAIN x.items) /\ \A name \in DOMAIN x.items : IsNode(x.items[name])
<1>1. PICK nodes : x \in nodes /\ AreNodes(nodes)
  BY DEF IsNode
<1>2. QED
  BY <1>1 DEF AreNodes, IsNode, Range

LEMMA NamesAre ==
  ASSUME NEW S, IsFiniteSet(S)
  PROVE  \A i \in DOMAIN SetToSeq(S) : SetToSeq(S)[i] \in S
<1> DEFINE n == Cardinality(S)
<1>1. ExistsBijection(1..n, S)
  BY FS_CardinalityType
<1>2. \E f \in [1..n -> S] : IsInjective(f)
  BY <1>1 DEF ExistsBijection, Bijection, Injection, IsInjective
<1>3. SetToSeq(S) = CHOOSE f \in [1..n -> S] : IsInjective(f)
  BY DEF SetToSeq
<1> HIDE DEF n
<1>4. SetToSeq(S) \in [1..n -> S]
  BY <1>2, <1>3
<1>5. QED
  BY <1>4

LEMMA RawKind ==
  ASSUME NEW texts
  PROVE  Kind(normalizeRawParamValue(texts)) \in ScalarKinds \cup {"strs"}
BY DEF normalizeRawParamValue, Kind, Null, Str, Strs, ScalarKinds

LEMMA NodeIsData ==
  ASSUME NEW x, IsNode(x)
  PROVE  IsData(decodeArbitrary(x))
<1>1. PICK nodes : x \in nodes /\ AreNodes(nodes)
  BY DEF IsNode
<1> DEFINE values == {decodeArbitrary(y) : y \in nodes}
<1>2. ASSUME NEW y \in nodes
      PROVE  \/ Kind(decodeArbitrary(y)) \in ScalarKinds \cup {"strs"}
             \/ /\ Kind(decodeArbitrary(y)) \in {"arr", "obj"}
                /\ Range(Content(decodeArbitrary(y))) \subseteq values
  <2>1. CASE IsLeaf(y)
    BY <2>1, RawKind DEF decodeArbitrary
  <2>2. CASE ~IsLeaf(y)
    <3> DEFINE fields == [name \in DOMAIN y.items |-> ArbitraryBelow(y.items[name])]
    <3>1. decodeArbitrary(y) = Obj(fields)
      BY <2>2 DEF decodeArbitrary
    <3>2. ASSUME NEW name \in DOMAIN y.items PROVE fields[name] \in values
      <4>1. y.items[name] \in nodes
        BY <1>1 DEF AreNodes, Range
      <4>2. ArbitraryBelow(y.items[name]) = decodeArbitrary(y.items[name])
        BY <1>1, <4>1 DEF AreNodes
      <4>3. QED
        BY <4>1, <4>2
    <3>3. Range(fields) \subseteq values
      BY <3>2 DEF Range
    <3> HIDE DEF fields, values
    <3>4. QED
      BY <3>1, <3>3 DEF Obj, Kind, Content
  <2>3. QED
    BY <2>1, <2>2
<1>3. AreClosed(values)
  BY <1>2 DEF AreClosed
<1>4. QED
  BY <1>1, <1>3 DEF IsData

LEMMA NodeArrayIsData ==
  ASSUME NEW x, IsNode(x)
  PROVE  IsData(decodeArbitraryArray(x))
<1>1. PICK names : names = SetToSeq(DOMAIN x.items)
  OBVIOUS
<1> DEFINE items == [i \in DOMAIN names |-> decodeArbitrary(x.items[names[i]])]
<1>2. ASSUME NEW i \in DOMAIN items PROVE IsData(items[i])
  <2>1. names[i] \in DOMAIN x.items
    BY <1>1, NodesBelow, NamesAre
  <2>2. QED
    BY <2>1, NodesBelow, NodeIsData
<1>3. decodeArbitraryArray(x) = IF IsLeaf(x) THEN ToAnySlice(x.values) ELSE Arr(items)
  BY <1>1 DEF decodeArbitraryArray
<1> HIDE DEF items
<1>4. QED
  BY <1>2, <1>3, ArrayIsData, RawIsData

-----------------------------------------------------------------------------
(* What a node is decoded to, by induction over the heights of schemas.     *)
NodeIsSafe(s) ==
  \A node : IsNode(node) => Decodes(s, NodeDecode(node, s)) /\ DecodesFields(s, NodeObject(node, s))
LowerNodesAreSafe(s) == \A t \in DocumentSchemas : Height[t] < Height[s] => NodeIsSafe(t)

LEMMA LowerStillSafe ==
  ASSUME IsRecursive, NEW s \in DocumentSchemas, LowerNodesAreSafe(s), NEW t \in Parts(s)
  PROVE  t \in DocumentSchemas /\ NodeIsSafe(t) /\ LowerNodesAreSafe(t)
<1>1. t \in DocumentSchemas /\ Height[t] < Height[s]
  BY LowerParts
<1>2. \A u \in DocumentSchemas : Height[u] \in Nat
  BY SchemasAssumption
<1>3. ASSUME NEW u \in DocumentSchemas, Height[u] < Height[t] PROVE NodeIsSafe(u)
  <2>1. Height[u] < Height[s]
    BY <1>1, <1>2, <1>3
  <2>2. QED
    BY <2>1 DEF LowerNodesAreSafe
<1>4. QED
  BY <1>1, <1>3 DEF LowerNodesAreSafe

LEMMA BelowDecodes ==
  ASSUME IsRecursive, NEW s \in DocumentSchemas, LowerNodesAreSafe(s), NEW t \in Parts(s), NEW node, IsNode(node)
  PROVE  /\ Decodes(s, NodeDecodedBelow(node, t))
         /\ DecodesFields(s, NodeObjectOf(node, t))
<1>1. t \in DocumentSchemas /\ NodeIsSafe(t)
  BY LowerStillSafe
<1>2. NodeDecodedBelow(node, t) = NodeDecode(node, t) /\ NodeObjectOf(node, t) = NodeObject(node, t)
  BY <1>1 DEF IsRecursive
<1>3. QED
  BY <1>1, <1>2, PartDecodes, PartDecodesFields DEF NodeIsSafe

LEMMA NodeArrayDecodes ==
  ASSUME IsRecursive, NEW s \in DocumentSchemas, LowerNodesAreSafe(s), NEW node, IsNode(node)
  PROVE  Decodes(s, decodeArray(node, s))
<1>1. PICK names : names = SetToSeq(DOMAIN node.items)
  OBVIOUS
<1>2. PICK item : item = Only(TypedItems(s))
  OBVIOUS
<1> DEFINE ds == [i \in DOMAIN names |-> NodeDecodedBelow(node.items[names[i]], item)]
<1>3. Decodes(s, Ok(decodeArbitraryArray(node)))
  BY NodeArrayIsData, OkDecodes
<1>4. ASSUME TypedItems(s) # {} PROVE Decodes(s, decodeArrayParamWithItemSchema(node.values, item))
  BY <1>2, <1>4, ParamSafe, TextArrayDecodes
<1>5. ASSUME TypedItems(s) # {} PROVE Decodes(s, ItemsOf(ds))
  <2>1. item \in Parts(s)
    BY <1>2, <1>5, OnlyOne, PartsAre DEF TypedItems
  <2>2. ASSUME NEW i \in DOMAIN ds PROVE Decodes(s, ds[i])
    <3>1. names[i] \in DOMAIN node.items
      BY <1>1, NodesBelow, NamesAre
    <3>2. IsNode(node.items[names[i]])
      BY <3>1, NodesBelow
    <3>3. Decodes(s, NodeDecodedBelow(node.items[names[i]], item))
      BY <2>1, <3>2, BelowDecodes
    <3>4. QED
      BY <3>3
  <2> HIDE DEF ds
  <2>3. QED
    BY <2>2, CollectDecodes
<1>6. decodeArrayValues(node, s) =
        IF TypedItems(s) = {} THEN Ok(decodeArbitraryArray(node))
        ELSE IF IsLeaf(node) THEN decodeArrayParamWithItemSchema(node.values, item) ELSE ItemsOf(ds)
  BY <1>1, <1>2 DEF decodeArrayValues
<1> HIDE DEF ds
<1>7. Decodes(s, decodeArrayValues(node, s))
  BY <1>3, <1>4, <1>5, <1>6
<1>8. QED
  BY <1>7, ValidDecodes DEF decodeArray

LEMMA NodesHaveSchemas ==
  ASSUME NEW step \in {"declared", "additional", "pattern"}, NEW node, NEW fields, NEW s
  PROVE  \A k \in DOMAIN NodeSchemas(step, node, fields, s) :
           k \in DOMAIN node.items /\ NodeSchemas(step, node, fields, s)[k] \subseteq Parts(s)
<1>1. DOMAIN NodeSchemas(step, node, fields, s) \subseteq DOMAIN node.items
  BY DEF NodeSchemas, DeclaredSchemas, AdditionalSchemas, MatchingSchemas
<1>2. \A k \in DOMAIN NodeSchemas(step, node, fields, s) : NodeSchemas(step, node, fields, s)[k] \subseteq Parts(s)
  BY SchemasAreParts DEF NodeSchemas
<1>3. QED
  BY <1>1, <1>2

LEMMA NodeStepDecodes ==
  ASSUME IsRecursive, NEW s \in DocumentSchemas, LowerNodesAreSafe(s), NEW node, IsNode(node),
         NEW step \in {"declared", "additional", "pattern"}, NEW d, DecodesFields(s, d)
  PROVE  DecodesFields(s, NodeStep(step, node, s, d))
<1>1. PICK schemas : schemas = NodeSchemas(step, node, d.val, s)
  OBVIOUS
<1> DEFINE ds == [name \in DOMAIN schemas |-> DecodeNode(node.items[name], schemas[name])]
<1>2. ASSUME NEW k \in DOMAIN ds PROVE Decodes(s, ds[k])
  <2>1. k \in DOMAIN node.items /\ schemas[k] \subseteq Parts(s)
    BY <1>1, NodesHaveSchemas
  <2>2. PICK x : x = node.items[k]
    OBVIOUS
  <2>3. IsNode(x)
    BY <2>1, <2>2, NodesBelow
  <2>4. PICK typed : typed = {t \in schemas[k] : ~IsSchemaTypeEmpty(t)}
    OBVIOUS
  <2>5. Decodes(s, Ok(decodeArbitrary(x)))
    BY <2>3, NodeIsData, OkDecodes
  <2>6. ASSUME typed # {} PROVE Decodes(s, NodeDecodedBelow(x, Only(typed)))
    <3>1. Only(typed) \in Parts(s)
      BY <2>1, <2>4, <2>6, OnlyOne
    <3>2. QED
      BY <2>3, <3>1, BelowDecodes
  <2>7. ds[k] = IF typed = {} THEN Ok(decodeArbitrary(x)) ELSE NodeDecodedBelow(x, Only(typed))
    BY <2>2, <2>4 DEF DecodeNode
  <2>8. QED
    BY <2>5, <2>6, <2>7
<1>3. NodeStep(step, node, s, d) = IF Failed(d) THEN d ELSE Found(Beside(d.val, ds), Missing(step, node, s))
  BY <1>1 DEF NodeStep, DecodeNodes
<1> HIDE DEF ds
<1>4. DecodesFields(s, Beside(d.val, ds))
  BY <1>2, BesideDecodes DEF DecodesFields
<1>5. \A missing : If(missing # {}, "required") \subseteq Blames(s)
  BY BlamesAre DEF If, Codes
<1>6. DecodesFields(s, Found(Beside(d.val, ds), Missing(step, node, s)))
  BY <1>4, <1>5 DEF Found, Fields, DecodesFields
<1>7. QED
  BY <1>3, <1>6

LEMMA NodePropertiesDecode ==
  ASSUME IsRecursive, NEW s \in DocumentSchemas, LowerNodesAreSafe(s), NEW node, IsNode(node),
         NEW fields, HasData(fields)
  PROVE  DecodesFields(s, decodeObjectProperties(node, fields, s))
BY StartDecodes, NodeStepDecodes DEF decodeObjectProperties

LEMMA NodeBranches ==
  ASSUME IsRecursive, NEW s \in DocumentSchemas, LowerNodesAreSafe(s), NEW node, IsNode(node),
         NEW branches \in {s.allOf, s.anyOf, s.oneOf}
  PROVE  AllTriedBelow!Leaves(node, branches, Blames(s)) /\ SomeTriedBelow!Leaves(node, branches, Blames(s))
<1>1. ASSUME NEW i \in 1..Len(branches), NEW fs, HasData(fs)
      PROVE  /\ DecodesFields(s, decodeObjectProperties(node, fs, branches[i]))
             /\ DecodesFields(s, decodeObjectOr(node, fs, branches[i]))
  <2>1. PICK b : b = branches[i]
    OBVIOUS
  <2>2. b \in Parts(s)
    BY <2>1, BranchParts
  <2>3. b \in DocumentSchemas /\ LowerNodesAreSafe(b)
    BY <2>2, LowerStillSafe
  <2>4. DecodesFields(s, decodeObjectProperties(node, fs, b))
    BY <1>1, <2>2, <2>3, NodePropertiesDecode, PartDecodesFields
  <2>5. DecodesFields(s, Fields(fs, ValidateObjectWithoutProperties(b, fs)))
    <3>1. ValidateObjectWithoutProperties(b, fs) \subseteq Blames(s)
      BY <1>1, <2>2, <2>3, ObjectBlames, CalmParts
    <3>2. QED
      BY <1>1, <3>1 DEF Fields, DecodesFields
  <2>6. DecodesFields(s, Join(fs, NodeObjectOf(node, b)))
    BY <1>1, <2>2, BelowDecodes, JoinDecodes
  <2>7. QED
    BY <2>1, <2>4, <2>5, <2>6 DEF decodeObjectOr
<1>2. QED
  BY <1>1 DEF AllTriedBelow!Leaves, SomeTriedBelow!Leaves, DecodesFields

LEMMA NodeObjectDecodes ==
  ASSUME IsRecursive, NEW s \in DocumentSchemas, LowerNodesAreSafe(s), NEW node, IsNode(node)
  PROVE  DecodesFields(s, NodeObject(node, s))
<1> DEFINE d1 == decodeObjectProperties(node, NoFields, s)
           d2 == NodeAllOf(node, s, d1)
           d3 == NodeAnyOf(node, s, d2)
           d4 == NodeOneOf(node, s, d3)
<1>0. Len(s.allOf) \in Nat /\ Len(s.anyOf) \in Nat /\ Len(s.oneOf) \in Nat
  BY BranchParts
<1>1. DecodesFields(s, d1)
  <2>1. HasData(NoFields)
    BY DEF HasData, NoFields
  <2>2. QED
    BY <2>1, NodePropertiesDecode
<1> HIDE DEF d1
<1>2. DecodesFields(s, d2)
  <2>1. ASSUME ~Failed(d1) PROVE DecodesFields(s, AllTriedBelow!AllOf(node, s.allOf, d1.val))
    BY <1>0, <1>1, NodeBranches, AllTriedBelow!AllLeave DEF DecodesFields
  <2>2. QED
    BY <1>1, <2>1, SameBranches DEF NodeAllOf
<1> HIDE DEF d2
<1>3. DecodesFields(s, d3)
  <2>1. ASSUME ~Failed(d2) PROVE DecodesFields(s, SomeTriedBelow!AnyOf(node, s.anyOf, d2.val))
    BY <1>0, <1>2, NodeBranches, SomeTriedBelow!AllLeave DEF DecodesFields
  <2>2. QED
    BY <1>2, <2>1, SameBranches DEF NodeAnyOf
<1> HIDE DEF d3
<1>4. DecodesFields(s, d4)
  <2>1. ASSUME ~Failed(d3) PROVE DecodesFields(s, SomeTriedBelow!OneOf(node, s.oneOf, d3.val))
    BY <1>0, <1>3, NodeBranches, SomeTriedBelow!AllLeave DEF DecodesFields
  <2>2. QED
    BY <1>3, <2>1, SameBranches DEF NodeOneOf
<1> HIDE DEF d4
<1>5. DecodesFields(s, FitsWithoutProperties(s, d4))
  <2>1. ValidateObjectWithoutProperties(s, d4.val) \subseteq Blames(s)
    BY <1>4, ObjectBlames DEF DecodesFields
  <2>2. QED
    BY <1>4, <2>1 DEF FitsWithoutProperties, Fields, DecodesFields
<1>6. NodeObject(node, s) = FitsWithoutProperties(s, d4)
  BY DEF NodeObject, d1, d2, d3, d4
<1>7. QED
  BY <1>5, <1>6

LEMMA NodeScalarDecodes ==
  ASSUME IsRecursive, NEW s \in DocumentSchemas, NEW node, NEW types
  PROVE  Decodes(s, NodeScalar(node, s, types))
<1>1. Decodes(s, Ok(Null))
  BY ScalarsAreData, OkDecodes
<1>2. Decodes(s, NodeFirstType(node, types))
  <2> DEFINE ds == [i \in DOMAIN types |-> decodePrimitiveQueryValues(types[i], node.values)]
  <2>1. \A i \in DOMAIN ds : Decodes(s, ds[i])
    BY PrimitiveDecodes
  <2>2. NodeFirstType(node, types) = FirstType(ds)
    BY DEF NodeFirstType
  <2> HIDE DEF ds
  <2>3. QED
    BY <2>1, <2>2, FirstDecodes
<1>3. ASSUME NEW d, Decodes(s, d) PROVE Decodes(s, ValidScalar(s, d))
  <2>1. ValidateValue(s, d.val) \cap Panic \subseteq Blames(s)
    BY <1>3, ValueBlames DEF Decodes
  <2>2. Decodes(s, OrNull(d.val, ValidateValue(s, d.val)))
    BY <1>3, <2>1, OkDecodes, FailDecodes DEF OrNull, Decodes
  <2>3. Decodes(s, Fail(d.errs))
    BY <1>3, FailDecodes DEF Decodes
  <2>4. QED
    BY <2>2, <2>3 DEF ValidScalar
<1>4. QED
  BY <1>1, <1>2, <1>3 DEF NodeScalar

LEMMA TypesDecode ==
  ASSUME NEW s, NEW types, NEW object, NEW array, NEW rest,
         Decodes(s, object), Decodes(s, array), Decodes(s, rest)
  PROVE  Decodes(s, TryTypes(types, object, array, rest))
BY TriedDecodes DEF TryTypes

LEMMA NodeDecodes ==
  ASSUME IsRecursive, NEW s \in DocumentSchemas, LowerNodesAreSafe(s), NEW node, IsNode(node)
  PROVE  Decodes(s, NodeDecode(node, s))
<1> DEFINE types == ExtractSchemaTypes(s)
           object == decodeObject(node, s)
           array == decodeArray(node, s)
           scalar == NodeScalar(node, s, Scalars(types))
           nothing == Accept(Ok(Null), If(~IsNullable(s), "required"))
<1>1. Decodes(s, Ok(decodeArbitrary(node)))
  BY NodeIsData, OkDecodes
<1>2. Decodes(s, nothing)
  BY NullOr DEF Codes
<1>3. Decodes(s, object) /\ Decodes(s, array) /\ Decodes(s, scalar)
  BY NodeObjectDecodes, AsObjectDecodes, NodeArrayDecodes, NodeScalarDecodes DEF decodeObject
<1>4. NodeDecode(node, s) =
        IF IsSchemaTypeEmpty(s) THEN Ok(decodeArbitrary(node))
        ELSE IF node.values = <<>> /\ IsLeaf(node) THEN nothing ELSE TryTypes(types, object, array, scalar)
  BY DEF NodeDecode
<1> HIDE DEF types, object, array, scalar, nothing
<1>5. QED
  BY <1>1, <1>2, <1>3, <1>4, TypesDecode

LEMMA NodesSafe ==
  ASSUME IsRecursive
  PROVE  \A s \in DocumentSchemas : NodeIsSafe(s)
<1> DEFINE T == {s \in DocumentSchemas : NodeIsSafe(s)}
<1>1. ASSUME NEW s \in DocumentSchemas, \A t \in DocumentSchemas : Height[t] < Height[s] => t \in T
      PROVE  s \in T
  <2>1. LowerNodesAreSafe(s)
    BY <1>1 DEF LowerNodesAreSafe
  <2>2. QED
    BY <2>1, NodeDecodes, NodeObjectDecodes DEF NodeIsSafe
<1>2. DocumentSchemas \subseteq T
  <2> HIDE DEF T
  <2>1. QED
    BY <1>1, ByHeight
<1>3. QED
  BY <1>2

-----------------------------------------------------------------------------
(* The errors of a parameter, decoded at its place.                         *)
IsDefined(def) == SchemasIn(def) \subseteq DocumentSchemas
BlamesOf(def) == IF \A s \in SchemasIn(def) : IsCalm(s) THEN Codes ELSE Codes \cup Panic
Errs(def, d) == d.errs \subseteq BlamesOf(def)

LEMMA BlamesOfSchema ==
  ASSUME NEW def, NEW s \in SchemasIn(def)
  PROVE  Blames(s) \subseteq BlamesOf(def) /\ \A d : Decodes(s, d) => Errs(def, d)
BY DEF Blames, BlamesOf, Errs, Decodes

LEMMA CodeErrs ==
  ASSUME NEW def
  PROVE  /\ \A code \in Codes : Errs(def, Fail({code}))
         /\ \A v : Errs(def, Ok(v))
         /\ \A condition : \A code \in Codes : Errs(def, Accept(Ok(Null), If(condition, code)))
<1>1. Codes \subseteq BlamesOf(def)
  BY DEF BlamesOf
<1>2. QED
  BY <1>1 DEF Errs, Fail, Ok, Accept, If

LEMMA TriedErrs ==
  ASSUME NEW def, NEW types, NEW type, NEW attempt, NEW rest, Errs(def, attempt), Errs(def, rest)
  PROVE  Errs(def, TryType(types, type, attempt, rest))
BY DEF TryType

LEMMA SchemaErrs ==
  ASSUME IsRecursive, NEW def, IsDefined(def), def.schema # None
  PROVE  /\ SchemaOf(def) \in SchemasIn(def) /\ SchemaOf(def) \in DocumentSchemas
         /\ \A texts, types : Decodes(SchemaOf(def), ParamDecode(def.schema, texts, types))
         /\ \A raws : Decodes(SchemaOf(def), DecodeObject(raws, SchemaOf(def)))
         /\ \A texts : Decodes(SchemaOf(def), decodeArrayParam(texts, SchemaOf(def)))
<1>1. PICK s : s = SchemaOf(def)
  OBVIOUS
<1>2. s \in SchemasIn(def) /\ s \in DocumentSchemas /\ s = Only(def.schema)
  BY <1>1, OnlyOne DEF SchemaOf, SchemasIn, IsDefined, None
<1>3. \A texts, types : Decodes(s, ParamDecode(def.schema, texts, types))
  BY <1>2, ParamDecodes
<1>4. \A raws : Decodes(s, DecodeObject(raws, s))
  BY <1>2, TextsObject
<1>5. \A texts : Decodes(s, decodeArrayParam(texts, s))
  BY <1>2, ParamSafe, TextArrayDecodes
<1>6. QED
  BY <1>1, <1>2, <1>3, <1>4, <1>5

LEMMA DocumentsAreData ==
  ASSUME NEW text \in DOMAIN AsDocument
  PROVE  IsData(AsDocument[text])
BY ValuesAssumption DEF IsData

LEMMA DocumentErrs ==
  ASSUME IsRecursive, NEW def, IsDefined(def), HasContent(def), NEW texts
  PROVE  Errs(def, Document(def, texts))
<1>1. PICK schema : schema = Only(def.content)
  OBVIOUS
<1>2. schema \subseteq SchemasIn(def)
  <2>1. schema \in def.content
    BY <1>1, OnlyOne DEF HasContent, None
  <2>2. QED
    BY <2>1 DEF SchemasIn
<1>3. PICK filled : filled = SelectSeq(texts, LAMBDA text : text # <<>>)
  OBVIOUS
<1>4. PICK s : s = Only(schema)
  OBVIOUS
<1> DEFINE documents == [i \in DOMAIN filled |-> AsDocument[filled[i]]]
           v == IF "array" \in Range(ExtractSchemaTypes(s)) THEN Arr(documents) ELSE documents[1]
<1>5. ASSUME Range(filled) \subseteq DOMAIN AsDocument, schema # None, 1 \in DOMAIN filled
      PROVE  Errs(def, Accept(Ok(v), ValidateValue(s, v)))
  <2>1. s \in SchemasIn(def) /\ s \in DocumentSchemas
    BY <1>2, <1>4, <1>5, OnlyOne DEF IsDefined, None
  <2>2. \A i \in DOMAIN documents : IsData(documents[i])
    BY <1>5, DocumentsAreData DEF Range
  <2>3. 1 \in DOMAIN documents
    BY <1>5
  <2>4. IsData(v)
    <3> HIDE DEF documents
    <3>1. IsData(Arr(documents))
      BY <2>2, ArrayIsData
    <3>2. QED
      BY <2>2, <2>3, <3>1
  <2> HIDE DEF v
  <2>5. Decodes(s, Accept(Ok(v), ValidateValue(s, v)))
    BY <2>1, <2>4, OkDecodes, AcceptDecodes, ValueBlames
  <2>6. QED
    BY <2>1, <2>5, BlamesOfSchema
<1>6. Document(def, texts) =
        IF ~(Range(filled) \subseteq DOMAIN AsDocument) THEN Fail({"document"})
        ELSE IF schema = None THEN Ok(normalizeRawDocuments(documents))
        ELSE IF 1 \notin DOMAIN filled THEN Accept(Ok(Null), If(~IsNullable(s), "required"))
        ELSE IF Len(filled) > 1 /\ "array" \notin Range(ExtractSchemaTypes(s)) THEN Fail({"type"})
        ELSE Accept(Ok(v), ValidateValue(s, v))
  BY <1>1, <1>3, <1>4 DEF Document, decodeParameterFromContent
<1> HIDE DEF v, documents
<1>7. {"document", "required", "type"} \subseteq Codes
  BY DEF Codes
<1>8. QED
  BY <1>5, <1>6, <1>7, CodeErrs

LEMMA PathErrs ==
  ASSUME IsRecursive, NEW def, IsDefined(def), NEW segment
  PROVE  Errs(def, DecodePathValue(def, segment))
<1> DEFINE s == SchemaOf(def)
           types == TypesOf(def)
<1>1. Errs(def, Fail({"required"})) /\ Errs(def, Fail({"syntax"})) /\ \A v : Errs(def, Ok(v))
  BY CodeErrs DEF Codes
<1>2. ASSUME NEW text, NEW d, Errs(def, d) PROVE Errs(def, FromPath(def, text, d))
  BY <1>1, <1>2 DEF FromPath
<1>3. ASSUME def.schema # None, NEW text, NEW texts PROVE Errs(def, PathBySchema(def, text, texts))
  <2> DEFINE object == decodePathObjectParam(def, text)
             array == decodePathArrayParam(def, texts)
             rest == PathTexts(def, texts, Less(types, "object"))
             whole == Valid(s, Ok(Str(text)))
  <2>1. s \in SchemasIn(def) /\ s \in DocumentSchemas
    BY <1>3, SchemaErrs
  <2>2. Errs(def, whole)
    <3>1. Decodes(s, Ok(Str(text)))
      BY ScalarsAreData, OkDecodes
    <3>2. QED
      BY <2>1, <3>1, ValidDecodes, BlamesOfSchema
  <2>3. Errs(def, object)
    BY <1>3, <2>1, SchemaErrs, BlamesOfSchema DEF decodePathObjectParam
  <2>4. Errs(def, array)
    <3>1. Decodes(s, decodeArrayParam(texts, s))
      BY <1>3, SchemaErrs
    <3>2. ValidateArray(s, decodeArrayParam(texts, s).val) \subseteq Blames(s)
      BY LengthFaults, BlamesAre
    <3>3. Decodes(s, FitsArray(s, decodeArrayParam(texts, s)))
      BY <3>1, <3>2, AcceptDecodes DEF FitsArray
    <3>4. QED
      BY <2>1, <3>3, BlamesOfSchema DEF decodePathArrayParam
  <2>5. Errs(def, rest)
    <3>1. \A ts : Errs(def, ParamDecode(def.schema, texts, ts))
      BY <1>3, <2>1, SchemaErrs, BlamesOfSchema
    <3> HIDE DEF array, types
    <3>2. QED
      BY <2>4, <3>1, TriedErrs DEF PathTexts, array
  <2>6. PathBySchema(def, text, texts) =
          IF "string" \in Range(types) THEN whole ELSE TryType(types, "object", object, FromPath(def, text, rest))
    BY DEF PathBySchema
  <2> HIDE DEF s, types, object, array, rest, whole
  <2>7. Errs(def, FromPath(def, text, rest))
    BY <1>2, <2>5
  <2>8. QED
    BY <2>2, <2>3, <2>6, <2>7, TriedErrs
<1>4. ASSUME NEW text, NEW texts PROVE Errs(def, DecodePathText(def, text, texts))
  BY <1>1, <1>2, <1>3, DocumentErrs DEF DecodePathText
<1>5. QED
  BY <1>1, <1>4 DEF DecodePathValue

LEMMA QueryErrs ==
  ASSUME IsRecursive, NEW def, IsDefined(def), NEW query
  PROVE  Errs(def, decodeQueryFromParameter(def, query))
<1>1. Errs(def, Fail({"required"})) /\ \A v : Errs(def, Ok(v))
  BY CodeErrs DEF Codes
<1>2. ASSUME NEW d, Errs(def, d) PROVE Errs(def, Present(d)) /\ Errs(def, FromQuery(def, query, d))
  <2>1. \A e : Errs(def, e) => Errs(def, Present(e))
    BY DEF Present, Errs
  <2>2. Errs(def, NotPresent)
    BY DEF NotPresent, Errs
  <2>3. QED
    BY <1>1, <1>2, <2>1, <2>2 DEF FromQuery
<1>3. ASSUME def.schema # None, NEW texts, NEW types, NEW raws
      PROVE  Errs(def, QueryBySchema(def, query, DecodeObject(raws, SchemaOf(def)), QueryTexts(def, texts, types)))
  <2>1. PICK s : s = SchemaOf(def)
    OBVIOUS
  <2>2. s \in SchemasIn(def) /\ s \in DocumentSchemas
    BY <1>3, <2>1, SchemaErrs
  <2>3. Errs(def, DecodeObject(raws, s))
    BY <1>3, <2>1, <2>2, SchemaErrs, BlamesOfSchema
  <2>4. Errs(def, decodeQueryArrayParam(def, texts))
    <3>1. Decodes(s, decodeArrayParam(QueryParts(def, texts), s))
      BY <1>3, <2>1, SchemaErrs
    <3>2. Decodes(s, Valid(s, decodeArrayParam(QueryParts(def, texts), s)))
      BY <2>2, <3>1, ValidDecodes
    <3>3. QED
      BY <2>1, <2>2, <3>2, BlamesOfSchema DEF decodeQueryArrayParam
  <2>5. \A ts : Errs(def, ParamDecode(def.schema, texts, ts))
    BY <1>3, <2>1, <2>2, SchemaErrs, BlamesOfSchema
  <2>6. Errs(def, QueryTexts(def, texts, types))
    BY <2>4, <2>5, TriedErrs DEF QueryTexts
  <2>7. QED
    BY <1>2, <2>1, <2>3, <2>6 DEF QueryBySchema
<1>4. QED
  BY <1>1, <1>2, <1>3, DocumentErrs DEF decodeQueryFromParameter

LEMMA DeepErrs ==
  ASSUME IsRecursive, NEW def, IsDefined(def), NEW query, IsNode(NodeAt(query, <<def.name>>))
  PROVE  Errs(def, decodeQueryDeepObjectFromParameter(def, query))
<1>1. PICK node : node = NodeAt(query, <<def.name>>)
  OBVIOUS
<1>2. Errs(def, Accept(Ok(Null), If(def.required, "required"))) /\ Errs(def, Ok(decodeArbitrary(node)))
  BY CodeErrs DEF Codes
<1>3. ASSUME def.schema # None PROVE Errs(def, NodeDecode(node, Only(def.schema)))
  <2>1. Only(def.schema) \in SchemasIn(def) /\ Only(def.schema) \in DocumentSchemas
    BY <1>3, SchemaErrs DEF SchemaOf
  <2>2. QED
    BY <1>1, <2>1, NodesSafe, BlamesOfSchema DEF NodeIsSafe
<1>4. QED
  BY <1>1, <1>2, <1>3 DEF decodeQueryDeepObjectFromParameter

LEMMA ArrayErrs ==
  ASSUME IsRecursive, NEW def, IsDefined(def), def.schema # None, NEW texts
  PROVE  Errs(def, splitAndDecodeArrayParam(def, texts))
<1>1. PICK s : s = SchemaOf(def)
  OBVIOUS
<1>2. s \in SchemasIn(def) /\ s \in DocumentSchemas /\ Decodes(s, decodeArrayParam(splitArrayParams(texts), s))
  BY <1>1, SchemaErrs
<1>3. Decodes(s, Valid(s, decodeArrayParam(splitArrayParams(texts), s)))
  BY <1>2, ValidDecodes
<1>4. QED
  BY <1>1, <1>2, <1>3, BlamesOfSchema DEF splitAndDecodeArrayParam

LEMMA HeaderErrs ==
  ASSUME IsRecursive, NEW def, IsDefined(def), NEW headers
  PROVE  Errs(def, decodeHeaderParameter(def, headers))
<1> DEFINE texts == headers[def.name]
           nothing == Accept(Ok(Null), If(def.required, "required"))
           object == decodeHeaderObjectParam(def, texts)
           array == splitAndDecodeArrayParam(def, texts)
           scalar == ParamDecode(def.schema, texts, Scalars(TypesOf(def)))
           raw == Ok(normalizeRawParamValue(splitArrayParams(texts)))
<1>1. Errs(def, nothing) /\ Errs(def, raw)
  BY CodeErrs DEF Codes
<1>2. ASSUME def.schema # None PROVE Errs(def, TryTypes(TypesOf(def), object, array, scalar))
  <2>1. Errs(def, object)
    BY <1>2, SchemaErrs, BlamesOfSchema DEF decodeHeaderObjectParam
  <2>2. Errs(def, array)
    BY <1>2, ArrayErrs
  <2>3. Errs(def, scalar)
    BY <1>2, SchemaErrs, BlamesOfSchema
  <2> HIDE DEF object, array, scalar
  <2>4. QED
    BY <2>1, <2>2, <2>3, TriedErrs DEF TryTypes
<1>3. decodeHeaderParameter(def, headers) =
        IF def.name \notin DOMAIN headers \/ texts = <<>> THEN nothing
        ELSE IF HasContent(def) THEN Document(def, texts)
        ELSE IF def.schema = None THEN raw
        ELSE TryTypes(TypesOf(def), object, array, scalar)
  BY DEF decodeHeaderParameter
<1> HIDE DEF texts, nothing, object, array, scalar, raw
<1>4. HasContent(def) => Errs(def, Document(def, texts))
  BY DocumentErrs
<1>5. QED
  BY <1>1, <1>2, <1>3, <1>4

LEMMA CookieErrs ==
  ASSUME IsRecursive, NEW def, IsDefined(def), NEW cookies
  PROVE  Errs(def, decodeCookieParameter(def, cookies))
<1> DEFINE texts == CookieTexts(cookies, def.name)
           raw == Ok(normalizeRawParamValue(splitArrayParams(texts)))
           types == Less(TypesOf(def), "object")
           object == decodeCookieObjectParameter(def, cookies)
           rest == CookieBySchema(def, cookies, types)
           array == splitAndDecodeArrayParam(def, texts)
           flat == TryType(types, "array", array, ParamDecode(def.schema, texts, Less(types, "array")))
<1>1. Errs(def, Fail({"required"})) /\ \A v : Errs(def, Ok(v))
  BY CodeErrs DEF Codes
<1>2. ASSUME NEW nullable, NEW d, Errs(def, d) PROVE Errs(def, findCookies(def, cookies, nullable, d))
  BY <1>1, <1>2 DEF findCookies
<1>3. ASSUME def.schema # None PROVE Errs(def, TryType(TypesOf(def), "object", object, rest))
  <2>1. Errs(def, object)
    BY <1>3, SchemaErrs, BlamesOfSchema DEF decodeCookieObjectParameter
  <2>2. Errs(def, array)
    BY <1>3, ArrayErrs
  <2>3. \A ts : Errs(def, ParamDecode(def.schema, texts, ts))
    BY <1>3, SchemaErrs, BlamesOfSchema
  <2>4. rest = findCookies(def, cookies, IsNullable(SchemaOf(def)), IF texts = <<>> THEN Ok(Null) ELSE flat)
    BY DEF CookieBySchema
  <2> HIDE DEF texts, object, rest, array, types
  <2>5. Errs(def, flat)
    BY <2>2, <2>3, TriedErrs
  <2> HIDE DEF flat
  <2>6. Errs(def, rest)
    BY <1>1, <1>2, <2>4, <2>5
  <2>7. QED
    BY <2>1, <2>6, TriedErrs
<1>4. decodeCookieParameter(def, cookies) =
        IF HasContent(def) THEN findCookies(def, cookies, TRUE, Document(def, texts))
        ELSE IF def.schema = None THEN findCookies(def, cookies, TRUE, raw)
        ELSE TryType(TypesOf(def), "object", object, rest)
  BY DEF decodeCookieParameter
<1>5. HasContent(def) => Errs(def, Document(def, texts))
  BY DocumentErrs
<1>6. Errs(def, raw)
  BY <1>1
<1> HIDE DEF texts, raw, types, object, rest
<1>7. QED
  BY <1>2, <1>3, <1>4, <1>5, <1>6

-----------------------------------------------------------------------------
(* What is sent: the encoders keep a query a query.                         *)
LEMMA ListOf ==
  ASSUME NEW S, NEW list \in Seq(S)
  PROVE  IsList(list)
<1>1. Len(list) \in Nat /\ list \in [1..Len(list) -> S]
  OBVIOUS
<1>2. list \in [1..Len(list) -> Range(list)]
  BY <1>1 DEF Range
<1>3. QED
  BY <1>1, <1>2, SeqDef DEF IsList

(* The queries of some keys with texts of a set.                            *)
Queries(K, V) == UNION {[D -> Seq(V) \ {<<>>}] : D \in SUBSET K}

LEMMA QueriesAre ==
  ASSUME NEW K, IsFiniteSet(K), \A key \in K : IsList(key), NEW V, NEW query \in Queries(K, V)
  PROVE  IsQuery(query)
<1>1. PICK D \in SUBSET K : query \in [D -> Seq(V) \ {<<>>}]
  BY DEF Queries
<1>2. IsFiniteSet(DOMAIN query)
  BY <1>1, FS_Subset
<1>3. ASSUME NEW key \in DOMAIN query PROVE IsList(key) /\ IsList(query[key]) /\ query[key] # <<>>
  <2>1. query[key] \in Seq(V) /\ query[key] # <<>>
    BY <1>1
  <2>2. QED
    BY <1>1, <2>1, ListOf
<1>4. QED
  BY <1>2, <1>3 DEF IsQuery

LEMMA AddTo ==
  ASSUME NEW K, NEW V, NEW query, DOMAIN query \subseteq K, \A k \in DOMAIN query : query[k] \in Seq(V) \ {<<>>},
         NEW key \in K, NEW value \in V
  PROVE  Add(query, key, value) \in Queries(K, V)
<1> DEFINE old == IF key \in DOMAIN query THEN query[key] ELSE <<>>
           added == Add(query, key, value)
<1>1. /\ added = [k \in DOMAIN query \cup {key} |-> added[k]]
      /\ added[key] = Append(old, value)
      /\ \A k \in DOMAIN query : k # key => added[k] = query[k]
  BY DEF Add, Over
<1>2. old \in Seq(V)
  OBVIOUS
<1> HIDE DEF old, added
<1>3. Append(old, value) \in Seq(V) \ {<<>>}
  BY <1>2
<1>4. \A k \in DOMAIN query \cup {key} : added[k] \in Seq(V) \ {<<>>}
  BY <1>1, <1>3
<1>5. added \in [DOMAIN query \cup {key} -> Seq(V) \ {<<>>}]
  BY <1>1, <1>4
<1>6. DOMAIN query \cup {key} \in SUBSET K
  OBVIOUS
<1>7. QED
  BY <1>5, <1>6 DEF Queries, added

LEMMA AddItemsKeeps ==
  ASSUME NEW query, IsQuery(query), NEW items, IsList(items), NEW keys, \A i \in DOMAIN items : IsList(keys[i])
  PROVE  IsQuery(AddItems(query, keys, items))
<1> DEFINE n == Len(items)
           K == DOMAIN query \cup {keys[i] : i \in 1..n}
           W == {items[i].value : i \in 1..n}
           V == (UNION {Range(query[k]) : k \in DOMAIN query}) \cup W
           X == {query} \cup Queries(K, V)
           Next_(g) == [k \in 0..n |-> IF k = 0 THEN query ELSE Add(g[k - 1], keys[k], items[k].value)]
           step == [k \in 1..n |-> [q \in X |-> Add(q, keys[k], items[k].value)]]
           after == CHOOSE g : g = Next_(g)
<1>1. n \in Nat /\ DOMAIN items = 1..n
  BY DEF IsList
<1>2. AddItems(query, keys, items) = after[n]
  BY DEF AddItems
<1>3. query \in X /\ \A k \in 1..n : keys[k] \in K /\ items[k].value \in V
  <2>1. query \in X
    <3> HIDE DEF K, V
    <3>1. QED
      OBVIOUS
  <2>2. \A k \in 1..n : keys[k] \in K
    <3> HIDE DEF n
    <3>1. QED
      OBVIOUS
  <2>3. \A k \in 1..n : items[k].value \in V
    <3>1. \A k \in 1..n : items[k].value \in W
      OBVIOUS
    <3> HIDE DEF W, n
    <3>2. QED
      BY <3>1
  <2>4. QED
    BY <2>1, <2>2, <2>3
<1>4. \A k \in DOMAIN query : query[k] \in Seq(V) \ {<<>>}
  <2>1. ASSUME NEW k \in DOMAIN query PROVE query[k] \in Seq(V) \ {<<>>}
    <3>1. IsList(query[k]) /\ query[k] # <<>> /\ Range(query[k]) \subseteq V
      BY DEF IsQuery
    <3> HIDE DEF V
    <3>2. QED
      BY <3>1, ListIn
  <2>2. QED
    BY <2>1
<1>5. DOMAIN query \subseteq K
  OBVIOUS
<1>6. \A q \in X : DOMAIN q \subseteq K /\ \A k \in DOMAIN q : q[k] \in Seq(V) \ {<<>>}
  <2> HIDE DEF K, V
  <2>1. ASSUME NEW q \in Queries(K, V) PROVE DOMAIN q \subseteq K /\ \A k \in DOMAIN q : q[k] \in Seq(V) \ {<<>>}
    BY <2>1 DEF Queries
  <2>2. QED
    BY <1>4, <1>5, <2>1
<1>7. ASSUME NEW k \in 1..n, NEW q \in X PROVE Add(q, keys[k], items[k].value) \in X
  <2>1. keys[k] \in K /\ items[k].value \in V
    BY <1>3
  <2>2. DOMAIN q \subseteq K /\ \A j \in DOMAIN q : q[j] \in Seq(V) \ {<<>>}
    BY <1>6
  <2> HIDE DEF K, V
  <2>3. Add(q, keys[k], items[k].value) \in Queries(K, V)
    BY <2>1, <2>2, AddTo
  <2>4. QED
    BY <2>3
<1>8. \A q \in X : IsQuery(q)
  <2>1. IsFiniteSet({keys[i] : i \in 1..n})
    <3> DEFINE f == [i \in 1..n |-> keys[i]]
    <3>1. IsFiniteSet(1..n)
      BY <1>1, FS_Interval
    <3>2. f \in Surjection(1..n, {keys[i] : i \in 1..n})
      BY DEF Surjection
    <3>3. QED
      BY <3>1, <3>2, FS_Surjection
  <2>2. IsFiniteSet(K)
    BY <2>1, FS_Union DEF IsQuery
  <2>3. \A key \in K : IsList(key)
    BY <1>1 DEF IsQuery
  <2> HIDE DEF K, V
  <2>4. QED
    BY <2>2, <2>3, QueriesAre
<1> HIDE DEF X
<1>9. StepsIn(n, X, step)
  BY <1>1, <1>7 DEF StepsIn
<1>10. PICK f \in [0..n -> X] : f[0] = query /\ \A k \in 1..n : f[k] = step[k][f[k - 1]]
  <2> HIDE DEF n, step, Next_
  <2>1. QED
    BY <1>1, <1>3, <1>9, Recursion
<1>11. f = Next_(f)
  <2>1. ASSUME NEW k \in 1..n PROVE f[k] = Add(f[k - 1], keys[k], items[k].value)
    <3>1. f[k - 1] \in X
      BY <1>1, <1>10
    <3>2. QED
      BY <1>10, <3>1
  <2>2. \A k \in 0..n : k = 0 \/ k \in 1..n
    BY <1>1
  <2>3. QED
    BY <1>10, <2>1, <2>2
<1>12. after = Next_(after)
  <2> HIDE DEF Next_
  <2>1. QED
    BY <1>11
<1>13. ASSUME NEW k \in 1..n, after[k - 1] \in X PROVE after[k] \in X
  <2>1. k \in 0..n /\ k # 0
    BY <1>1
  <2> HIDE DEF after
  <2>2. after[k] = Add(after[k - 1], keys[k], items[k].value)
    BY <1>12, <2>1
  <2>3. QED
    BY <1>7, <1>13, <2>2
<1>14. after[0] = query /\ after = [k \in 0..n |-> after[k]]
  <2>1. 0 \in 0..n
    BY <1>1
  <2> HIDE DEF after
  <2>2. QED
    BY <1>12, <2>1
<1> HIDE DEF n, after
<1>15. after \in [0..n -> X]
  BY <1>1, <1>3, <1>13, <1>14, AllIn
<1>16. after[n] \in X
  BY <1>1, <1>15
<1>17. QED
  BY <1>2, <1>8, <1>16

LEMMA SetQueryKeeps ==
  ASSUME NEW query, IsQuery(query), NEW def, NEW v, NEW order, IsWritten(def, v, order)
  PROVE  IsQuery(SetQueryParam(query, def, v, order))
<1> DEFINE items == EvaluateParameterValue(v, <<>>, order)
           separator == Separator(Style(def))
           text == Delimited(items, separator, separator)
           replaced == Over([name \in {def.name} |-> <<text>>], query)
           FieldKey(i) == IF IsNested(items[i]) THEN Format(items[i].keys, <<>>, FALSE) ELSE def.name
           Deep(i) == IF items[i].keys = <<>> THEN def.name ELSE Format(items[i].keys, def.name, TRUE)
<1>1. IsList(items) /\ IsList(def.name)
  BY DEF IsWritten
<1>2. \A i \in DOMAIN items : IsList(FieldKey(i)) /\ IsList(Deep(i))
  <2>1. ASSUME NEW i \in DOMAIN items PROVE IsList(FieldKey(i)) /\ IsList(Deep(i))
    <3>1. items[i] \in Range(items)
      BY DEF Range
    <3>2. IsList(Format(items[i].keys, <<>>, FALSE)) /\ IsList(Format(items[i].keys, def.name, TRUE))
      BY <3>1 DEF IsWritten
    <3>3. QED
      BY <1>1, <3>2
  <2>2. QED
    BY <2>1
<1>3. IsQuery(replaced)
  <2>1. <<text>> \in Seq({text}) /\ <<text>> # <<>>
    OBVIOUS
  <2>2. IsList(<<text>>)
    BY <2>1, ListOf
  <2> HIDE DEF text
  <2>3. /\ DOMAIN replaced = DOMAIN query \cup {def.name} /\ replaced[def.name] = <<text>>
        /\ \A k \in DOMAIN query : k # def.name => replaced[k] = query[k]
    BY DEF Over
  <2>4. IsFiniteSet(DOMAIN replaced)
    BY <2>3, FS_AddElement DEF IsQuery
  <2> HIDE DEF replaced
  <2>5. QED
    BY <1>1, <2>1, <2>2, <2>3, <2>4 DEF IsQuery
<1>4. SetQueryParam(query, def, v, order) =
        IF items = <<>> THEN query
        ELSE IF Style(def) = "deepObject" THEN AddItems(query, [i \in DOMAIN items |-> Deep(i)], items)
        ELSE IF Explode(def) THEN AddItems(query, [i \in DOMAIN items |-> FieldKey(i)], items)
        ELSE replaced
  BY DEF SetQueryParam, setParamDeepObject, setParamFormExplode
<1> HIDE DEF items, FieldKey, Deep, replaced
<1>5. /\ IsQuery(AddItems(query, [i \in DOMAIN items |-> Deep(i)], items))
      /\ IsQuery(AddItems(query, [i \in DOMAIN items |-> FieldKey(i)], items))
  BY <1>1, <1>2, AddItemsKeeps
<1>6. QED
  BY <1>3, <1>4, <1>5

LEMMA EncodedKeeps ==
  ASSUME NEW w, IsWire(w), NEW def, NEW v, NEW order, IsWritten(def, v, order)
  PROVE  IsWire(Encoded(w, def, v, order))
<1>1. def.in \in {"path", "query", "header"}
  BY DEF IsWritten
<1>2. IsQuery(SetQueryParam(w.query, def, v, order))
  BY SetQueryKeeps DEF IsWire
<1>3. CASE def.in = "path"
  BY <1>3 DEF Encoded, IsWire
<1>4. CASE def.in = "query"
  BY <1>2, <1>4 DEF Encoded, IsWire
<1>5. CASE def.in = "header"
  BY <1>5 DEF Encoded, IsWire
<1>6. QED
  BY <1>1, <1>3, <1>4, <1>5

-----------------------------------------------------------------------------
(* The recursive operators on the nodes of a query: its finitely many keys  *)
(* are paths of finitely many names, of which no path has a path below it   *)
(* for ever.                                                                *)
NodesAreRecursive ==
  \A query, names :
    IsQuery(query) =>
      \A path \in Seq(names) :
        /\ NodeBelow(query, path) = NodeAt(query, path)
        /\ ArbitraryBelow(NodeAt(query, path)) = decodeArbitrary(NodeAt(query, path))

LEMMA ImageIsFinite ==
  ASSUME NEW S, IsFiniteSet(S), NEW f, DOMAIN f = S
  PROVE  IsFiniteSet(Range(f))
<1> DEFINE g == [x \in S |-> f[x]]
<1>1. g \in Surjection(S, Range(f))
  BY DEF Surjection, Range
<1>2. QED
  BY <1>1, FS_Surjection

LEMMA ParsedIsFinite ==
  ASSUME NEW query, IsQuery(query)
  PROVE  IsFiniteSet(Parsed(query))
<1> DEFINE keys == DOMAIN query \ {<<>>}
           f == [key \in keys |-> parseDeepObjectKey(key)]
<1>1. \A key : parseDeepObjectKey(key) = {} \/ \E x : parseDeepObjectKey(key) = {x}
  BY DEF parseDeepObjectKey
<1>2. \A S \in Range(f) : IsFiniteSet(S)
  <2>1. \A key : IsFiniteSet(parseDeepObjectKey(key))
    <3>1. ASSUME NEW key PROVE IsFiniteSet(parseDeepObjectKey(key))
      <4>1. CASE parseDeepObjectKey(key) = {}
        BY <4>1, FS_EmptySet
      <4>2. ASSUME NEW x, parseDeepObjectKey(key) = {x} PROVE IsFiniteSet(parseDeepObjectKey(key))
        BY <4>2, FS_Singleton
      <4>3. QED
        BY <1>1, <4>1, <4>2
    <3>2. QED
      BY <3>1
  <2>2. QED
    BY <2>1 DEF Range
<1>3. IsFiniteSet(keys)
  BY FS_Subset DEF IsQuery
<1>4. IsFiniteSet(Range(f))
  <2> HIDE DEF keys
  <2>1. QED
    BY <1>3, ImageIsFinite
<1>5. Parsed(query) = UNION Range(f)
  BY DEF Parsed, Range
<1>6. QED
  BY <1>2, <1>4, <1>5, FS_UNION

LEMMA ChildrenAreFinite ==
  ASSUME NEW paths, IsFiniteSet(paths), NEW path
  PROVE  IsFiniteSet(ChildrenOf(paths, path))
<1> DEFINE below == {q \in paths : Len(q) > Len(path) /\ SubSeq(q, 1, Len(path)) = path}
           f == [p \in below |-> p[Len(path) + 1]]
<1>1. IsFiniteSet(below)
  BY FS_Subset
<1>2. ChildrenOf(paths, path) = Range(f)
  BY DEF ChildrenOf, Range
<1> HIDE DEF below
<1>3. IsFiniteSet(Range(f))
  BY <1>1, ImageIsFinite
<1>4. QED
  BY <1>2, <1>3

LEMMA NodesAre ==
  ASSUME NodesAreRecursive, NEW query, IsQuery(query), NEW name
  PROVE  IsNode(NodeAt(query, <<name>>))
<1> DEFINE Names == {p[i] : p \in Parsed(query), i \in Nat} \cup {name}
           nodes == {NodeAt(query, path) : path \in Seq(Names)}
<1>1. ASSUME NEW path \in Seq(Names)
      PROVE  LET x == NodeAt(query, path)
             IN /\ IsFiniteSet(DOMAIN x.items) /\ Range(x.items) \subseteq nodes
                /\ ArbitraryBelow(x) = decodeArbitrary(x)
  <2> DEFINE x == NodeAt(query, path)
             children == ChildrenOf(Parsed(query), path) \ {Bracket}
  <2>1. x.items = [child \in children |-> NodeBelow(query, Append(path, child))]
    BY DEF NodeAt
  <2>2. IsFiniteSet(children)
    <3>1. IsFiniteSet(ChildrenOf(Parsed(query), path))
      BY ParsedIsFinite, ChildrenAreFinite
    <3>2. QED
      BY <3>1, FS_Subset
  <2>3. ASSUME NEW child \in children PROVE NodeBelow(query, Append(path, child)) \in nodes
    <3>1. Len(path) + 1 \in Nat
      OBVIOUS
    <3>2. child \in Names
      BY <3>1 DEF ChildrenOf
    <3> HIDE DEF Names
    <3>3. Append(path, child) \in Seq(Names)
      BY <3>2
    <3>4. NodeBelow(query, Append(path, child)) = NodeAt(query, Append(path, child))
      BY <3>3 DEF NodesAreRecursive
    <3>5. QED
      BY <3>3, <3>4
  <2>4. ArbitraryBelow(x) = decodeArbitrary(x)
    BY DEF NodesAreRecursive
  <2> HIDE DEF children, nodes, x
  <2>5. QED
    BY <2>1, <2>2, <2>3, <2>4 DEF Range, x
<1>2. AreNodes(nodes)
  <2>1. ASSUME NEW x \in nodes
        PROVE  /\ IsFiniteSet(DOMAIN x.items) /\ Range(x.items) \subseteq nodes
               /\ ArbitraryBelow(x) = decodeArbitrary(x)
    <3> HIDE DEF Names
    <3>1. PICK path \in Seq(Names) : x = NodeAt(query, path)
      OBVIOUS
    <3> HIDE DEF nodes
    <3>2. QED
      BY <1>1, <3>1
  <2> HIDE DEF nodes
  <2>2. QED
    BY <2>1 DEF AreNodes
<1>3. <<name>> \in Seq(Names)
  <2>1. name \in Names
    OBVIOUS
  <2> HIDE DEF Names
  <2>2. QED
    BY <2>1
<1>4. NodeAt(query, <<name>>) \in nodes
  <2> HIDE DEF Names
  <2>1. QED
    BY <1>3
<1> HIDE DEF nodes
<1>5. QED
  BY <1>2, <1>4 DEF IsNode

-----------------------------------------------------------------------------
(* The states a request goes through: what is sent stays a query, what is   *)
(* found are errors of the known codes, and if the validator panics there   *)
(* is a reason for it.                                                      *)
Reason ==
  \/ \E s \in OperationSchemas : IsRisky(s)
  \/ ~request.served /\ Kind(request.body.val) = "ptr"

SafeInv == ValidInv /\ TypeOK /\ (outcome = "crashed" => Reason)

LEMMA ReasonIs == CrashesOnlyOnExclusiveMinimum <=> (outcome = "crashed" => Reason)
BY DEF CrashesOnlyOnExclusiveMinimum, Reason, IsRisky

LEMMA RequestIs ==
  ASSUME PairInv
  PROVE  /\ Len(request.parameters) \in Nat /\ DOMAIN request.parameters = 1..Len(request.parameters)
         /\ IsWire(request.wire)
         /\ \A i \in DOMAIN request.parameters : \A v \in request.values[i], order \in Orders :
              IsWritten(request.parameters[i], v, order)
         /\ request.body.kind \in {"none", "otherType", "malformed", "json"}
         /\ IsData(request.body.val) \/ (~request.served /\ Kind(request.body.val) = "ptr")
<1>1. PICK group \in Requests : \E pair \in group : request = pair[2]
  BY DEF PairInv
<1>2. PICK pair \in group : request = pair[2]
  BY <1>1
<1>3. IsRequest(pair[1], request)
  BY <1>1, <1>2, RequestsAssumption
<1>4. IsData(request.body.val) \/ (~request.served /\ Kind(request.body.val) = "ptr")
  BY <1>1, <1>2, ValuesAssumption DEF IsData
<1>5. Len(request.parameters) \in Nat /\ DOMAIN request.parameters = 1..Len(request.parameters)
  BY <1>3 DEF IsRequest, IsList
<1>6. QED
  BY <1>3, <1>4, <1>5 DEF IsRequest

(* What may be found: errors, and a panic if there is a reason for it.      *)
MayFind(found) == found \subseteq Codes \cup Panic /\ (found \cap Panic # {} => Reason)

LEMMA NoCodePanics == Codes \cap Panic = {}
BY DEF Codes, Panic

LEMMA BlamesFound ==
  ASSUME NEW s, SubSchemas(s) \subseteq OperationSchemas, NEW found, found \subseteq Blames(s)
  PROVE  MayFind(found)
BY NoCodePanics DEF MayFind, Blames, Reason, IsCalm

LEMMA ErrsFound ==
  ASSUME NEW def \in Parameters, NEW d, Errs(def, d)
  PROVE  MayFind(d.errs)
<1>1. \A s \in SchemasIn(def) : SubSchemas(s) \subseteq OperationSchemas
  BY DEF OperationSchemas
<1>2. (\A s \in SchemasIn(def) : IsCalm(s)) \/ Reason
  BY <1>1 DEF IsCalm, Reason
<1>3. QED
  BY <1>2, NoCodePanics DEF MayFind, Errs, BlamesOf

LEMMA AllFound ==
  ASSUME NEW ds, DOMAIN ds \subseteq Parameters, \A def \in DOMAIN ds : Errs(def, ds[def])
  PROVE  MayFind(AllErrors(ds))
<1>1. \A def \in DOMAIN ds : MayFind(ds[def].errs)
  BY ErrsFound
<1>2. QED
  BY <1>1 DEF MayFind, AllErrors

LEMMA DefinedParameters ==
  ASSUME ValidInv, stage # "encode"
  PROVE  /\ phase \in {"ready", "closed"}
         /\ \A def \in Parameters : IsDefined(def)
         /\ Called.bodySchema \subseteq DocumentSchemas
<1>1. phase \in {"ready", "closed"}
  BY DEF ValidInv, PresenceInv
<1>2. QED
  BY <1>1, HeldSchemas DEF ValidInv, IsDefined

-----------------------------------------------------------------------------
(* A step of a request that is on its way.                                  *)
LEMMA SafeStep ==
  ASSUME SafeInv, ValidInv', UNCHANGED <<clientVars, request>>,
         encoded' \in 0..Len(request.parameters), IsWire(wire'),
         stage' \in Stages, errs' \subseteq Codes, outcome' \in {"none", "accepted", "rejected", "crashed"},
         outcome' = "rejected" => errs' # {}, outcome' = "crashed" => Reason,
         authenticator' \subseteq schemes, outcome' # "accepted" => authenticator' = None
  PROVE  SafeInv'
<1>1. Reason' = Reason
  BY DEF Reason, OperationSchemas, Called, Parameters, clientVars
<1>2. schemes' = schemes
  BY DEF clientVars
<1>3. TypeOK'
  BY <1>2 DEF TypeOK, ValidInv, ClientInv, PresenceInv
<1>4. QED
  BY <1>1, <1>3 DEF SafeInv

(* Before it is accepted, a step that does not accept it.                   *)
LEMMA KeepsNone ==
  ASSUME SafeInv, stage # "done", authenticator' = authenticator
  PROVE  authenticator' = None /\ authenticator' \subseteq schemes /\ outcome = "none"
BY DEF SafeInv, TypeOK, None

LEMMA OnTheWay ==
  ASSUME SafeInv, ValidInv', UNCHANGED <<clientVars, request, encoded, wire, authenticator>>,
         stage # "done", stage' \in Stages, errs' \subseteq Codes, outcome' \in {"none", "rejected", "crashed"},
         outcome' = "rejected" => errs' # {}, outcome' = "crashed" => Reason
  PROVE  SafeInv'
<1>1. authenticator' = None /\ authenticator' \subseteq schemes
  BY KeepsNone
<1>2. encoded' \in 0..Len(request.parameters) /\ IsWire(wire')
  BY DEF SafeInv, TypeOK
<1>3. QED
  BY <1>1, <1>2, SafeStep

LEMMA ContinuesSafe ==
  ASSUME SafeInv, ValidInv', UNCHANGED <<clientVars, request, encoded, wire, authenticator>>, stage # "done",
         NEW place, NEW found, NEW values, NEW next \in Stages,
         Continue(place, found, values, next), MayFind(found)
  PROVE  SafeInv'
<1>1. errs \subseteq Codes /\ outcome = "none" /\ "done" \in Stages
  BY DEF SafeInv, TypeOK, Stages
<1>2. CASE found \cap Panic # {}
  <2>1. stage' = "done" /\ outcome' = "crashed" /\ errs' = errs /\ Reason
    BY <1>2 DEF Continue, Crash, MayFind
  <2>2. QED
    BY <1>1, <2>1, OnTheWay
<1>3. CASE found \cap Panic = {}
  <2>1. stage' = next /\ outcome' = outcome /\ errs' = errs \cup found /\ found \subseteq Codes
    BY <1>3 DEF Continue, MayFind
  <2>2. QED
    BY <1>1, <2>1, OnTheWay
<1>4. QED
  BY <1>2, <1>3

LEMMA PathSafe ==
  ASSUME IsRecursive, SafeInv, ValidInv', DecodePath
  PROVE  SafeInv'
<1> DEFINE ds == [def \in In("path") |-> PathParameter(def)]
           values == Over(Values(ds, {def \in DOMAIN ds : HasPath(def)}),
                          [name \in DOMAIN wire.path |-> Str(wire.path[name])])
           found == AllErrors(ds)
<1>1. stage = "path" /\ SetPath(ds) /\ UNCHANGED <<clientVars, request, encoded, wire, authenticator>>
  BY DEF DecodePath
<1>2. \A def \in Parameters : IsDefined(def)
  BY <1>1, DefinedParameters DEF SafeInv
<1>3. ASSUME NEW def \in In("path") PROVE Errs(def, PathParameter(def))
  <2>1. def \in Parameters
    BY DEF In
  <2>2. Errs(def, Accept(Ok(Null), If(def.required, "required")))
    BY CodeErrs DEF Codes
  <2>3. QED
    BY <1>2, <2>1, <2>2, PathErrs DEF PathParameter
<1>4. MayFind(found)
  <2>1. DOMAIN ds \subseteq Parameters /\ \A def \in DOMAIN ds : Errs(def, ds[def])
    BY <1>3 DEF In
  <2> HIDE DEF ds
  <2>2. QED
    BY <2>1, AllFound
<1> HIDE DEF values
<1>5. \/ found # {} /\ found \cap Panic = {} /\ Answer(found)
      \/ Continue("path", found, values, "read")
  BY <1>1 DEF SetPath, values
<1> HIDE DEF ds, found
<1>6. CASE found # {} /\ found \cap Panic = {} /\ Answer(found)
  <2>1. stage' = "done" /\ outcome' = "rejected" /\ errs' = found
    BY <1>6 DEF Answer
  <2>2. found \subseteq Codes /\ "done" \in Stages
    BY <1>4, <1>6 DEF MayFind, Stages
  <2>3. QED
    BY <1>1, <1>6, <2>1, <2>2, OnTheWay
<1>7. CASE Continue("path", found, values, "read")
  BY <1>1, <1>4, <1>7, ContinuesSafe DEF Stages
<1>8. QED
  BY <1>5, <1>6, <1>7

LEMMA QuerySafe ==
  ASSUME IsRecursive, NodesAreRecursive, SafeInv, ValidInv', DecodeQuery
  PROVE  SafeInv'
<1> DEFINE deep == {def \in In("query") : Style(def) = "deepObject"}
           ps == [def \in In("query") \ deep |-> decodeQueryFromParameter(def, wire.query)]
           ds == [def \in deep |-> decodeQueryDeepObjectFromParameter(def, wire.query)]
           unreadable == DOMAIN ds # {} /\ QueryIsMalformed(wire.query)
           found == AllErrors(ps) \cup (IF unreadable THEN {"syntax"} ELSE AllErrors(ds))
           read == QueryValues(ps, ds)
           values == IF read = NoFields THEN [key \in DOMAIN wire.query |-> Strs(wire.query[key])] ELSE read
<1>1. stage = "query" /\ ReadQuery(ps, ds) /\ UNCHANGED <<clientVars, request, encoded, wire, authenticator>>
  BY DEF DecodeQuery
<1>2. \A def \in Parameters : IsDefined(def)
  BY <1>1, DefinedParameters DEF SafeInv
<1>3. IsQuery(wire.query)
  BY DEF SafeInv, TypeOK, IsWire
<1>4. MayFind(AllErrors(ps))
  <2>1. ASSUME NEW def \in In("query") PROVE def \in Parameters /\ Errs(def, decodeQueryFromParameter(def, wire.query))
    <3>1. def \in Parameters
      BY DEF In
    <3>2. QED
      BY <1>2, <3>1, QueryErrs
  <2>2. DOMAIN ps \subseteq Parameters /\ \A def \in DOMAIN ps : Errs(def, ps[def])
    BY <2>1
  <2> HIDE DEF ps
  <2>3. QED
    BY <2>2, AllFound
<1>5. MayFind(AllErrors(ds))
  <2>1. ASSUME NEW def \in In("query")
        PROVE  def \in Parameters /\ Errs(def, decodeQueryDeepObjectFromParameter(def, wire.query))
    <3>1. def \in Parameters
      BY DEF In
    <3>2. IsNode(NodeAt(wire.query, <<def.name>>))
      BY <1>3, NodesAre
    <3>3. QED
      BY <1>2, <3>1, <3>2, DeepErrs
  <2>2. DOMAIN ds \subseteq Parameters /\ \A def \in DOMAIN ds : Errs(def, ds[def])
    BY <2>1
  <2> HIDE DEF ds
  <2>3. QED
    BY <2>2, AllFound
<1> HIDE DEF values
<1>6. Continue("query", found, values, "header")
  BY <1>1 DEF ReadQuery, SetQuery, values
<1> HIDE DEF ds, ps
<1>7. MayFind(found)
  <2>1. MayFind({"syntax"})
    BY NoCodePanics DEF MayFind, Codes
  <2>2. QED
    BY <1>4, <1>5, <2>1 DEF MayFind
<1> HIDE DEF found
<1>8. QED
  BY <1>1, <1>6, <1>7, ContinuesSafe DEF Stages

LEMMA HeadersSafe ==
  ASSUME IsRecursive, SafeInv, ValidInv', DecodeHeaders
  PROVE  SafeInv'
<1> DEFINE ds == [def \in In("header") |-> decodeHeaderParameter(def, wire.headers)]
           values == Over(Values(ds, DOMAIN ds), NormalizeHeaders(wire.headers))
<1>1. stage = "header" /\ SetHeaders(ds) /\ UNCHANGED <<clientVars, request, encoded, wire, authenticator>>
  BY DEF DecodeHeaders
<1>2. \A def \in Parameters : IsDefined(def)
  BY <1>1, DefinedParameters DEF SafeInv
<1>3. DOMAIN ds \subseteq Parameters /\ \A def \in DOMAIN ds : Errs(def, ds[def])
  BY <1>2, HeaderErrs DEF In
<1> HIDE DEF values
<1>4. Continue("header", AllErrors(ds), values, "body")
  BY <1>1 DEF SetHeaders, values
<1> HIDE DEF ds
<1>5. MayFind(AllErrors(ds))
  BY <1>3, AllFound
<1>6. QED
  BY <1>1, <1>4, <1>5, ContinuesSafe DEF Stages

LEMMA CookiesSafe ==
  ASSUME IsRecursive, SafeInv, ValidInv', DecodeCookies
  PROVE  SafeInv'
<1> DEFINE ds == [def \in In("cookie") |-> decodeCookieParameter(def, wire.cookies)]
           values == Values(ds, DOMAIN ds)
<1>1. stage = "cookie" /\ UNCHANGED <<clientVars, request, encoded, wire, authenticator>>
  BY DEF DecodeCookies
<1>2. \A def \in Parameters : IsDefined(def)
  BY <1>1, DefinedParameters DEF SafeInv
<1>3. DOMAIN ds \subseteq Parameters /\ \A def \in DOMAIN ds : Errs(def, ds[def])
  BY <1>2, CookieErrs DEF In
<1>4. SetCookies(ds) \/ (stage' = "settle" /\ UNCHANGED <<params, errs, outcome>>)
  BY DEF DecodeCookies
<1> HIDE DEF values
<1>5. SetCookies(ds) => Continue("cookie", AllErrors(ds), values, "settle")
  BY DEF SetCookies, values
<1> HIDE DEF ds
<1>6. MayFind(AllErrors(ds))
  BY <1>3, AllFound
<1>7. CASE SetCookies(ds)
  BY <1>1, <1>5, <1>6, <1>7, ContinuesSafe DEF Stages
<1>8. CASE stage' = "settle" /\ UNCHANGED <<params, errs, outcome>>
  <2>1. errs' \subseteq Codes /\ outcome' = "none" /\ stage' \in Stages
    BY <1>1, <1>8 DEF SafeInv, TypeOK, Stages
  <2>2. QED
    BY <1>1, <2>1, OnTheWay
<1>9. QED
  BY <1>4, <1>7, <1>8

LEMMA BodySafe ==
  ASSUME IsRecursive, SafeInv, ValidInv', ValidateBody
  PROVE  SafeInv'
<1> DEFINE found == UNION {ValidateValue(s, request.body.val) : s \in Called.bodySchema}
<1>1. /\ stage = "body" /\ UNCHANGED <<clientVars, request, encoded, wire, authenticator>>
      /\ IF found \cap Panic # {} THEN Crash
         ELSE stage' = "cookie" /\ errs' = errs \cup found /\ UNCHANGED <<params, outcome>>
  BY DEF ValidateBody
<1>2. Called.bodySchema \subseteq DocumentSchemas
  BY <1>1, DefinedParameters DEF SafeInv
<1>3. ASSUME NEW s \in Called.bodySchema PROVE MayFind(ValidateValue(s, request.body.val))
  <2>1. s \in DocumentSchemas /\ SubSchemas(s) \subseteq OperationSchemas
    BY <1>2 DEF OperationSchemas
  <2>2. CASE IsData(request.body.val)
    BY <2>1, <2>2, ValueBlames, BlamesFound
  <2>3. CASE ~request.served /\ Kind(request.body.val) = "ptr"
    <3>1. ValidateValue(s, request.body.val) \subseteq Codes \cup Panic
      BY <2>1, ValidatorSafe DEF IsSafe, Faults, IsRecursive
    <3>2. QED
      BY <2>3, <3>1 DEF MayFind, Reason
  <2>4. QED
    BY <2>2, <2>3, RequestIs DEF SafeInv, ValidInv
<1>4. MayFind(found)
  BY <1>3 DEF MayFind
<1> HIDE DEF found
<1>5. errs \subseteq Codes /\ outcome = "none" /\ {"cookie", "done"} \subseteq Stages
  BY <1>1 DEF SafeInv, TypeOK, Stages
<1>6. CASE found \cap Panic # {}
  <2>1. stage' = "done" /\ outcome' = "crashed" /\ errs' = errs /\ Reason
    BY <1>1, <1>4, <1>6 DEF Crash, MayFind
  <2>2. QED
    BY <1>1, <1>5, <2>1, OnTheWay
<1>7. CASE found \cap Panic = {}
  <2>1. stage' = "cookie" /\ outcome' = outcome /\ errs' = errs \cup found /\ found \subseteq Codes
    BY <1>1, <1>4, <1>7 DEF MayFind
  <2>2. QED
    BY <1>1, <1>5, <2>1, OnTheWay
<1>8. QED
  BY <1>6, <1>7

LEMMA ReadSafe ==
  ASSUME SafeInv, ValidInv', ReadBody
  PROVE  SafeInv'
<1>1. stage = "read" /\ UNCHANGED <<clientVars, request, encoded, wire, authenticator>>
  BY DEF ReadBody
<1>2. request.body.kind \in {"none", "otherType", "malformed", "json"}
  BY RequestIs DEF SafeInv, ValidInv
<1>3. BodyError \subseteq Codes
  BY <1>2 DEF BodyError, If, Codes
<1>4. errs \subseteq Codes /\ outcome = "none" /\ {"query", "done"} \subseteq Stages
  BY <1>1 DEF SafeInv, TypeOK, Stages
<1>5. CASE BodyError # {}
  <2>1. stage' = "done" /\ outcome' = "rejected" /\ errs' = BodyError
    BY <1>5 DEF ReadBody, Answer
  <2>2. QED
    BY <1>1, <1>3, <1>4, <1>5, <2>1, OnTheWay
<1>6. CASE BodyError = {}
  <2>1. stage' = "query" /\ outcome' = outcome /\ errs' = errs
    BY <1>6 DEF ReadBody
  <2>2. QED
    BY <1>1, <1>4, <2>1, OnTheWay
<1>7. QED
  BY <1>5, <1>6

LEMMA SettlesSafe ==
  ASSUME SafeInv, ValidInv', Settle
  PROVE  SafeInv'
<1>1. stage = "settle" /\ UNCHANGED <<clientVars, request, encoded, wire, authenticator>> /\ errs' = errs
  BY DEF Settle
<1>2. errs \subseteq Codes /\ outcome = "none" /\ {"forward", "done"} \subseteq Stages
  BY <1>1 DEF SafeInv, TypeOK, Stages
<1>3. \/ errs = {} /\ stage' = "forward" /\ outcome' = outcome
      \/ errs # {} /\ stage' = "done" /\ outcome' = "rejected"
  BY DEF Settle
<1>4. QED
  BY <1>1, <1>2, <1>3, OnTheWay

LEMMA AcceptsSafe ==
  ASSUME SafeInv, ValidInv', NewRequest
  PROVE  SafeInv'
<1>1. stage = "forward" /\ UNCHANGED <<clientVars, request, encoded, wire>> /\ errs' = errs
      /\ stage' = "done" /\ outcome' = "accepted" /\ authenticator' \in GetAuthenticator(Called.security)
  BY DEF NewRequest
<1>2. phase = "ready"
  BY <1>1 DEF SafeInv, ValidInv, PresenceInv
<1>3. request.operation \in DOMAIN tree
  <2>1. PICK group \in Requests : \E pair \in group : definition = pair[1] /\ request = pair[2]
    BY DEF SafeInv, ValidInv, PairInv
  <2>2. PICK pair \in group : definition = pair[1] /\ request = pair[2]
    BY <2>1
  <2>3. ~BuildPanics(definition) /\ Built(definition) # {}
    BY <1>2 DEF SafeInv, ValidInv, ClientInv
  <2>4. Loaded \in Built(definition)
    BY <2>3 DEF Loaded
  <2>5. request.operation \in DOMAIN Loaded.item.operations
    BY <2>1, <2>2, <2>3, <2>4, RequestsAssumption DEF IsRequest
  <2>6. IsItem(Loaded.item) /\ tree = createMethods(extractParametersFromOperationV3(Loaded.item))
    BY <1>2, DocumentIs DEF SafeInv, ValidInv, ClientInv
  <2>7. QED
    BY <2>5, <2>6, MethodsAre
<1>4. authenticator' \subseteq schemes
  <2>1. CredentialsAreAskedFor
    BY CredentialsAt DEF SafeInv, ValidInv
  <2>2. QED
    BY <1>1, <1>2, <1>3, <2>1 DEF CredentialsAreAskedFor, Called
<1>5. errs' \subseteq Codes /\ encoded' \in 0..Len(request.parameters) /\ IsWire(wire') /\ stage' \in Stages
  BY <1>1 DEF SafeInv, TypeOK, Stages
<1>6. QED
  BY <1>1, <1>4, <1>5, SafeStep

LEMMA SendsSafe ==
  ASSUME SafeInv, ValidInv', Encode \/ Send
  PROVE  SafeInv'
<1>1. stage = "encode" /\ stage' \in Stages /\ UNCHANGED <<clientVars, request, errs, outcome, authenticator>>
  BY DEF Encode, Send, Stages
<1>2. authenticator' = None /\ authenticator' \subseteq schemes /\ outcome = "none"
  BY <1>1, KeepsNone
<1>3. /\ Len(request.parameters) \in Nat /\ DOMAIN request.parameters = 1..Len(request.parameters)
      /\ \A i \in DOMAIN request.parameters : \A v \in request.values[i], order \in Orders :
           IsWritten(request.parameters[i], v, order)
  BY RequestIs DEF SafeInv, ValidInv
<1>4. IsWire(wire) /\ encoded \in 0..Len(request.parameters) /\ errs \subseteq Codes
  BY DEF SafeInv, TypeOK
<1>5. encoded' \in 0..Len(request.parameters) /\ IsWire(wire')
  <2>1. CASE Send
    BY <1>4, <2>1 DEF Send
  <2>2. CASE Encode
    <3> DEFINE i == encoded + 1
    <3>1. encoded' = i /\ encoded < Len(request.parameters)
      BY <2>2 DEF Encode
    <3>2. i \in DOMAIN request.parameters /\ i \in 0..Len(request.parameters)
      BY <1>3, <1>4, <3>1
    <3>3. \/ wire' = wire
          \/ \E v \in request.values[i], order \in Orders : wire' = Encoded(wire, request.parameters[i], v, order)
      BY <2>2 DEF Encode
    <3> HIDE DEF i
    <3>4. IsWire(wire')
      BY <1>3, <1>4, <3>2, <3>3, EncodedKeeps
    <3>5. QED
      BY <3>1, <3>2, <3>4
  <2>3. QED
    BY <2>1, <2>2
<1>6. QED
  BY <1>1, <1>2, <1>4, <1>5, SafeStep

(* The steps of the client: while it is built no request is answered, and   *)
(* when it is closed it keeps its operations and schemes.                   *)
LEMMA BuildsSafe ==
  ASSUME SafeInv, ValidInv', ClientNext, UNCHANGED requestVars
  PROVE  SafeInv'
<1>1. UNCHANGED <<request, stage, encoded, wire, errs, outcome, authenticator>>
  BY DEF requestVars
<1>2. ClientTypeOK' /\ DOMAIN params' = Places
  BY DEF ValidInv, ClientInv
<1>3. CASE outcome = "none"
  <2>1. authenticator = {}
    BY <1>3 DEF SafeInv, TypeOK, None
  <2>2. TypeOK'
    BY <1>1, <1>2, <1>3, <2>1 DEF SafeInv, TypeOK, None
  <2>3. QED
    BY <1>1, <1>3, <2>2 DEF SafeInv
<1>4. CASE outcome # "none"
  <2>1. phase \in {"ready", "closed"}
    BY <1>4 DEF SafeInv, ValidInv, PresenceInv
  <2>2. Close
    BY <2>1 DEF ClientNext, BuildDocument, InitOptions, InitServers, InitDefaultHeaders, NewAuthenticators,
                BuildMetadataTree
  <2>3. schemes' = schemes /\ tree' = tree
    BY <2>2 DEF Close
  <2>4. Reason' = Reason
    BY <1>1, <2>3 DEF Reason, OperationSchemas, Called, Parameters
  <2>5. TypeOK'
    BY <1>1, <1>2, <2>3 DEF SafeInv, TypeOK
  <2>6. QED
    BY <1>1, <2>4, <2>5 DEF SafeInv
<1>5. QED
  BY <1>3, <1>4

LEMMA SafeStarts ==
  ASSUME Init
  PROVE  SafeInv
<1>1. ValidInv
  BY ValidStarts
<1>2. IsWire(request.wire) /\ Len(request.parameters) \in Nat
  BY <1>1, RequestIs DEF ValidInv
<1>3. TypeOK
  BY <1>1, <1>2 DEF Init, TypeOK, Stages, Codes, ValidInv, ClientInv, None
<1>4. QED
  BY <1>1, <1>3 DEF SafeInv, Init

LEMMA SafeNext ==
  ASSUME IsRecursive, NodesAreRecursive, SafeInv, [Next]_vars
  PROVE  SafeInv'
<1>1. ValidInv'
  BY ValidNext, ValidStutters DEF SafeInv
<1>2. CASE UNCHANGED vars
  <2>1. UNCHANGED <<clientVars, request, encoded, wire, authenticator, stage, errs, outcome>>
    BY <1>2 DEF vars, requestVars
  <2>2. QED
    BY <1>1, <2>1, SafeStep DEF SafeInv, TypeOK
<1>3. CASE /\ \/ BuildDocument \/ InitOptions \/ InitServers \/ InitDefaultHeaders
              \/ NewAuthenticators \/ BuildMetadataTree \/ Close
           /\ UNCHANGED requestVars
  BY <1>1, <1>3, BuildsSafe DEF ClientNext
<1>4. CASE Encode \/ Send
  BY <1>1, <1>4, SendsSafe
<1>5. CASE DecodePath
  BY <1>1, <1>5, PathSafe
<1>6. CASE ReadBody
  BY <1>1, <1>6, ReadSafe
<1>7. CASE DecodeQuery
  BY <1>1, <1>7, QuerySafe
<1>8. CASE DecodeHeaders
  BY <1>1, <1>8, HeadersSafe
<1>9. CASE ValidateBody
  BY <1>1, <1>9, BodySafe
<1>10. CASE DecodeCookies
  BY <1>1, <1>10, CookiesSafe
<1>11. CASE Settle
  BY <1>1, <1>11, SettlesSafe
<1>12. CASE NewRequest
  BY <1>1, <1>12, AcceptsSafe
<1>13. QED
  BY <1>2, <1>3, <1>4, <1>5, <1>6, <1>7, <1>8, <1>9, <1>10, <1>11, <1>12 DEF Next

LEMMA SafeAlways ==
  ASSUME IsRecursive, NodesAreRecursive
  PROVE  Spec => []SafeInv
<1>1. Init => SafeInv
  BY SafeStarts
<1>2. SafeInv /\ [Next]_vars => SafeInv'
  BY SafeNext
<1>3. QED
  BY <1>1, <1>2, PTL DEF Spec

(* The state of a request has its type: whatever is sent to whatever        *)
(* operation, what is encoded stays a query that can be read, only known    *)
(* errors are found, a request is rejected only with one, and credentials   *)
(* are chosen only of the client's, for a request that is accepted.         *)
THEOREM RequestTypeCorrect ==
  ASSUME IsRecursive, NodesAreRecursive
  PROVE  Spec => []TypeOK
<1>1. SafeInv => TypeOK
  BY DEF SafeInv
<1>2. QED
  BY <1>1, SafeAlways, PTL

(* The validator and the decoders panic for no other reason than the two:   *)
(* there is an exclusive minimum in a schema of the operation, or a nil     *)
(* pointer in the body of a program.  No text that is sent, in any place    *)
(* and any style, makes them panic with any other schema.                   *)
THEOREM CrashesAreKnown ==
  ASSUME IsRecursive, NodesAreRecursive
  PROVE  Spec => []CrashesOnlyOnExclusiveMinimum
<1>1. SafeInv => CrashesOnlyOnExclusiveMinimum
  BY ReasonIs DEF SafeInv
<1>2. QED
  BY <1>1, SafeAlways, PTL

-----------------------------------------------------------------------------
(* Requests are made of clients that are built as ClientSpec says: whatever *)
(* is sent, the operations, their parameters and the authenticators stay    *)
(* what the client was built with, so what was proved of clients holds      *)
(* while requests are validated.                                            *)
THEOREM RequestsUseClients == Spec => ClientSpec
<1>1. Init => ClientInit
  BY DEF Init
<1>2. [Next]_vars => [ClientNext]_clientVars
  <2>1. CASE UNCHANGED vars
    BY <2>1 DEF vars
  <2>2. ASSUME Encode \/ Send \/ DecodePath \/ ReadBody \/ DecodeQuery \/ DecodeHeaders
                 \/ ValidateBody \/ DecodeCookies \/ Settle \/ NewRequest
        PROVE  UNCHANGED clientVars
    BY <2>2 DEF Encode, Send, DecodePath, ReadBody, DecodeQuery, DecodeHeaders, ValidateBody,
                DecodeCookies, Settle, NewRequest
  <2>3. QED
    BY <2>1, <2>2 DEF Next, ClientNext
<1>3. QED
  BY <1>1, <1>2, PTL DEF Spec, ClientSpec
=================================================================================
