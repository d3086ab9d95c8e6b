-------------------------- MODULE RegexpStoreProofs --------------------------
(***************************************************************************)
(* Theorems about RegexpStore for any number of goroutines and patterns.   *)
(*                                                                         *)
(* The argument has three layers, each inductive on top of the one before: *)
(*   LockInv   who holds the RWMutex is what the program counters say, and *)
(*             a writer inside has no reader beside it;                    *)
(*   DataInv   every regexp in hand, cached or returned is of its pattern; *)
(*   OnceInv   a pattern a goroutine has compiled is cached, unless that   *)
(*             goroutine is still on its way to storing it.                *)
(***************************************************************************)
EXTENDS RegexpStore, TLAPS

(* The goroutines between RLock and RUnlock, and the one past LockAnnounce. *)
Reading(g) == pc[g] \in {"lookup", "runlock"}
Writing(g) == pc[g] \in {"wait", "store", "unlock"}

LockInv ==
  /\ \A g \in Goroutines : g \in readers <=> Reading(g)
  /\ \A g \in Goroutines : Writing(g) <=> writer = g
  /\ \A g \in Goroutines : pc[g] = "store" => readers = {}

DataInv ==
  /\ RightRegexp
  /\ \A g \in Goroutines :
       /\ result[g] # NoRegexp =>
            arg[g] \in Compilable /\ result[g].pattern = arg[g]
       /\ pc[g] \in {"lock", "wait", "store", "unlock", "return"} =>
            result[g] # NoRegexp
       /\ pc[g] \in {"runlock", "unlock", "return"} /\ result[g] # NoRegexp =>
            cache[arg[g]] # NoRegexp

OnceInv ==
  \A g \in Goroutines :
    /\ pc[g] = "runlock" /\ result[g] = NoRegexp => compiles[g][arg[g]] = 0
    /\ pc[g] = "compile" => compiles[g][arg[g]] = 0
    /\ \A p \in Patterns :
         /\ compiles[g][p] <= 1
         /\ compiles[g][p] = 1 =>
              \/ cache[p] # NoRegexp
              \/ arg[g] = p /\ pc[g] \in {"lock", "wait", "store"}

IInv == TypeOK /\ LockInv /\ DataInv /\ OnceInv

-----------------------------------------------------------------------------
(* The variables of RegexpStore keep their types. *)
LEMMA TypeStep == TypeOK /\ [Next]_vars => TypeOK'
<1> SUFFICES ASSUME TypeOK, [Next]_vars PROVE TypeOK'
  OBVIOUS
<1> USE DEF TypeOK, Steps, Regexps, Goto, Finish
<1>1. CASE UNCHANGED vars
  BY <1>1 DEF vars
<1>2. ASSUME NEW g \in Goroutines, NEW p \in Patterns, Call(g, p) PROVE TypeOK'
  BY <1>2 DEF Call
<1>3. ASSUME NEW g \in Goroutines, Step(g) PROVE TypeOK'
  <2>1. CASE RLock(g)  BY <2>1 DEF RLock
  <2>2. CASE Lookup(g)  BY <2>2 DEF Lookup
  <2>3. CASE RUnlock(g)  BY <2>3 DEF RUnlock
  <2>4. CASE Compile(g)  BY <2>4 DEF Compile
  <2>5. CASE CompileFails(g)  BY <2>5 DEF CompileFails
  <2>6. CASE LockAnnounce(g)  BY <2>6 DEF LockAnnounce
  <2>7. CASE LockEnter(g)  BY <2>7 DEF LockEnter
  <2>8. CASE Store(g)  BY <2>8 DEF Store
  <2>9. CASE Unlock(g)  BY <2>9 DEF Unlock
  <2>10. CASE Return(g)  BY <2>10 DEF Return
  <2> QED
    BY <1>3, <2>1, <2>2, <2>3, <2>4, <2>5, <2>6, <2>7, <2>8, <2>9, <2>10 DEF Step
<1> QED
  BY <1>1, <1>2, <1>3 DEF Next

(* Type correctness of the store. *)
THEOREM TypeCorrect == Spec => []TypeOK
<1>1. Init => TypeOK
  BY DEF Init, TypeOK, Steps, Regexps
<1> QED
  BY <1>1, TypeStep, PTL DEF Spec

-----------------------------------------------------------------------------
(* The lock is held by exactly the goroutines whose pc says so. *)
LEMMA LockStep == TypeOK /\ LockInv /\ [Next]_vars => LockInv'
<1> SUFFICES ASSUME TypeOK, LockInv, [Next]_vars PROVE LockInv'
  OBVIOUS
<1> USE NoOneAssumption DEF TypeOK, LockInv, Goto, Reading, Writing
<1>1. CASE UNCHANGED vars
  BY <1>1 DEF vars
<1>2. ASSUME NEW g \in Goroutines, NEW p \in Patterns, Call(g, p) PROVE LockInv'
  BY <1>2 DEF Call
<1>3. ASSUME NEW g \in Goroutines, Step(g) PROVE LockInv'
  <2>1. CASE RLock(g)  BY <2>1 DEF RLock
  <2>2. CASE Lookup(g)  BY <2>2 DEF Lookup
  <2>3. CASE RUnlock(g)  BY <2>3 DEF RUnlock
  <2>4. CASE Compile(g)  BY <2>4 DEF Compile
  <2>5. CASE CompileFails(g)  BY <2>5 DEF CompileFails
  <2>6. CASE LockAnnounce(g)  BY <2>6 DEF LockAnnounce
  <2>7. CASE LockEnter(g)  BY <2>7 DEF LockEnter
  <2>8. CASE Store(g)  BY <2>8 DEF Store
  <2>9. CASE Unlock(g)  BY <2>9 DEF Unlock
  <2>10. CASE Return(g)  BY <2>10 DEF Return
  <2> QED
    BY <1>3, <2>1, <2>2, <2>3, <2>4, <2>5, <2>6, <2>7, <2>8, <2>9, <2>10 DEF Step
<1> QED
  BY <1>1, <1>2, <1>3 DEF Next

(* Under that lock no read of the map overlaps a write. *)
LEMMA LockExcludes == TypeOK /\ LockInv => NoDataRace
BY DEF LockInv, NoDataRace, Reading, Writing

-----------------------------------------------------------------------------
(* Regexps stay attached to their patterns. *)
LEMMA DataStep == TypeOK /\ DataInv /\ [Next]_vars => DataInv'
<1> SUFFICES ASSUME TypeOK, DataInv, [Next]_vars PROVE DataInv'
  OBVIOUS
<1> USE NoRegexpAssumption, CompilableAssumption
    DEF TypeOK, DataInv, RightRegexp, Goto, Finish, Regexps
<1>1. CASE UNCHANGED vars
  BY <1>1 DEF vars
<1>2. ASSUME NEW g \in Goroutines, NEW p \in Patterns, Call(g, p) PROVE DataInv'
  BY <1>2 DEF Call
<1>3. ASSUME NEW g \in Goroutines, Step(g) PROVE DataInv'
  <2>1. CASE RLock(g)  BY <2>1 DEF RLock
  <2>2. CASE Lookup(g)  BY <2>2 DEF Lookup
  <2>3. CASE RUnlock(g)  BY <2>3 DEF RUnlock
  <2>4. CASE Compile(g)  BY <2>4 DEF Compile
  <2>5. CASE CompileFails(g)  BY <2>5 DEF CompileFails
  <2>6. CASE LockAnnounce(g)  BY <2>6 DEF LockAnnounce
  <2>7. CASE LockEnter(g)  BY <2>7 DEF LockEnter
  <2>8. CASE Store(g)  BY <2>8 DEF Store
  <2>9. CASE Unlock(g)  BY <2>9 DEF Unlock
  <2>10. CASE Return(g)  BY <2>10 DEF Return
  <2> QED
    BY <1>3, <2>1, <2>2, <2>3, <2>4, <2>5, <2>6, <2>7, <2>8, <2>9, <2>10 DEF Step
<1> QED
  BY <1>1, <1>2, <1>3 DEF Next

-----------------------------------------------------------------------------
(* What a goroutine compiled is cached or about to be stored by itself. *)
LEMMA OnceStep == TypeOK /\ DataInv /\ OnceInv /\ [Next]_vars => OnceInv'
<1> SUFFICES ASSUME TypeOK, DataInv, OnceInv, [Next]_vars PROVE OnceInv'
  OBVIOUS
<1> USE NoRegexpAssumption DEF TypeOK, DataInv, OnceInv, Goto, Regexps
<1>1. CASE UNCHANGED vars
  BY <1>1 DEF vars
<1>2. ASSUME NEW g \in Goroutines, NEW p \in Patterns, Call(g, p) PROVE OnceInv'
  BY <1>2 DEF Call
<1>3. ASSUME NEW g \in Goroutines, Step(g) PROVE OnceInv'
  <2>1. CASE RLock(g)  BY <2>1 DEF RLock
  <2>2. CASE Lookup(g)
    <3>1. cache[arg[g]] = NoRegexp => compiles[g][arg[g]] = 0
      <4>1. arg[g] \in Patterns /\ compiles[g][arg[g]] \in Nat /\ pc[g] = "lookup"
        BY <2>2 DEF Lookup
      <4>2. compiles[g][arg[g]] <= 1
        BY <4>1
      <4>3. compiles[g][arg[g]] = 1 => cache[arg[g]] # NoRegexp
        BY <4>1
      <4> HIDE DEF TypeOK, DataInv, OnceInv
      <4> QED
        BY <4>1, <4>2, <4>3
    <3>2. /\ pc' = [pc EXCEPT ![g] = "runlock"]
          /\ result' = [result EXCEPT ![g] = cache[arg[g]]]
          /\ pc[g] = "lookup"
          /\ UNCHANGED <<arg, cache, compiles>>
      BY <2>2 DEF Lookup
    <3>3. \A h \in Goroutines \ {g} : pc'[h] = pc[h] /\ result'[h] = result[h]
      BY <3>2
    <3>4. pc'[g] = "runlock" /\ result'[g] = cache[arg[g]]
      BY <3>2
    <3> QED
      BY <3>1, <3>2, <3>3, <3>4
  <2>3. CASE RUnlock(g)  BY <2>3 DEF RUnlock
  <2>4. CASE Compile(g)  BY <2>4 DEF Compile
  <2>5. CASE CompileFails(g)  BY <2>5 DEF CompileFails
  <2>6. CASE LockAnnounce(g)  BY <2>6 DEF LockAnnounce
  <2>7. CASE LockEnter(g)  BY <2>7 DEF LockEnter
  <2>8. CASE Store(g)  BY <2>8 DEF Store
  <2>9. CASE Unlock(g)  BY <2>9 DEF Unlock
  <2>10. CASE Return(g)  BY <2>10 DEF Return
  <2> QED
    BY <1>3, <2>1, <2>2, <2>3, <2>4, <2>5, <2>6, <2>7, <2>8, <2>9, <2>10 DEF Step
<1> QED
  BY <1>1, <1>2, <1>3 DEF Next

-----------------------------------------------------------------------------
(* The conjunction of the three layers is an invariant of the store. *)
THEOREM Invariance == Spec => []IInv
<1>1. Init => IInv
  <2> SUFFICES ASSUME Init PROVE IInv
    OBVIOUS
  <2>1. TypeOK
    BY DEF Init, TypeOK, Steps, Regexps
  <2>2. LockInv
    BY NoOneAssumption DEF Init, LockInv, Reading, Writing
  <2>3. DataInv
    BY DEF Init, DataInv, RightRegexp
  <2>4. OnceInv
    BY DEF Init, OnceInv
  <2> QED
    BY <2>1, <2>2, <2>3, <2>4 DEF IInv
<1>2. IInv /\ [Next]_vars => IInv'
  BY TypeStep, LockStep, DataStep, OnceStep DEF IInv
<1> QED
  BY <1>1, <1>2, PTL DEF Spec

(* The map is never read and written at once (regexp.go:42-61). *)
THEOREM DataRaceFreedom == Spec => []NoDataRace
<1>1. IInv => NoDataRace
  BY LockExcludes DEF IInv
<1> QED
  BY <1>1, Invariance, PTL

(* Get answers with a regexp of the pattern asked for, or an error exactly *)
(* when that pattern does not compile.                                     *)
THEOREM GetIsRight == Spec => []RightRegexp
<1>1. IInv => RightRegexp
  BY DEF IInv, DataInv
<1> QED
  BY <1>1, Invariance, PTL

(* No goroutine compiles the same pattern twice. *)
THEOREM NoSecondCompilation == Spec => []CompiledAtMostOnceEach
<1>1. IInv => CompiledAtMostOnceEach
  BY DEF IInv, OnceInv, CompiledAtMostOnceEach
<1> QED
  BY <1>1, Invariance, PTL

(* A cached pattern stays cached. *)
THEOREM CacheMonotonic == Spec => CacheOnlyGrows
<1>1. ASSUME IInv, [Next]_vars, NEW p \in Patterns, cache[p] # NoRegexp
      PROVE  cache'[p] # NoRegexp
  <2>1. ASSUME NEW g \in Goroutines, Store(g) PROVE cache'[p] # NoRegexp
    BY <1>1, <2>1 DEF Store, Goto, IInv, DataInv, TypeOK
  <2>2. (\E g \in Goroutines : Store(g)) \/ UNCHANGED cache
    BY <1>1 DEF Next, Step, vars, Call, RLock, Lookup, RUnlock, Compile,
                CompileFails, LockAnnounce, LockEnter, Unlock, Return
  <2> QED
    BY <1>1, <2>1, <2>2
<1>2. IInv /\ [Next]_vars =>
        [\A p \in Patterns : cache[p] # NoRegexp => cache'[p] # NoRegexp]_vars
  BY <1>1
<1> QED
  BY <1>2, Invariance, PTL DEF Spec, CacheOnlyGrows

-----------------------------------------------------------------------------
(* A step that neither enters nor leaves Get, returns nothing and stores    *)
(* nothing is invisible.                                                    *)
LEMMA Stutter ==
  ASSUME TypeOK, NEW g \in Goroutines, NEW to \in Steps \ {"idle"},
         pc[g] # "idle", pc' = [pc EXCEPT ![g] = to],
         UNCHANGED <<arg, reply, cache>>
  PROVE  UNCHANGED <<InProgress, Outcome, Cached>>
<1>1. \A h \in Goroutines : pc'[h] = "idle" <=> pc[h] = "idle"
  BY DEF TypeOK
<1>2. InProgress' = InProgress
  BY <1>1 DEF InProgress
<1>3. Outcome' = Outcome
  BY DEF Outcome
<1>4. Cached' = Cached
  BY DEF Cached
<1> QED
  BY <1>2, <1>3, <1>4

(* A call that ends puts exactly its outcome in place of the last one. *)
LEMMA Ending ==
  ASSUME TypeOK, NEW g \in Goroutines, NEW x \in Regexps \cup {NoRegexp},
         pc[g] # "idle", pc' = [pc EXCEPT ![g] = "idle"],
         reply' = [reply EXCEPT ![g] = {[pattern |-> arg[g], regexp |-> x]}],
         UNCHANGED <<arg, cache>>
  PROVE  /\ arg[g] \in InProgress[g]
         /\ InProgress' = [InProgress EXCEPT ![g] = {}]
         /\ Outcome' = [Outcome EXCEPT ![g] = {[pattern |-> arg[g], ok |-> x # NoRegexp]}]
         /\ Cached' = Cached
<1>1. arg[g] \in InProgress[g]
  BY DEF InProgress
<1>2. InProgress' = [InProgress EXCEPT ![g] = {}]
  BY DEF InProgress, TypeOK
<1>3. Outcome' = [Outcome EXCEPT ![g] = {[pattern |-> arg[g], ok |-> x # NoRegexp]}]
  <2>1. \A h \in Goroutines :
          reply'[h] = IF h = g THEN {[pattern |-> arg[g], regexp |-> x]} ELSE reply[h]
    BY DEF TypeOK
  <2>2. {[pattern |-> r.pattern, ok |-> r.regexp # NoRegexp] :
            r \in {[pattern |-> arg[g], regexp |-> x]}}
          = {[pattern |-> arg[g], ok |-> x # NoRegexp]}
    OBVIOUS
  <2>3. \A h \in Goroutines : Outcome'[h] =
          IF h = g THEN {[pattern |-> arg[g], ok |-> x # NoRegexp]} ELSE Outcome[h]
    BY <2>1, <2>2 DEF Outcome
  <2> QED
    BY <2>3 DEF Outcome
<1>4. Cached' = Cached
  BY DEF Cached
<1> QED
  BY <1>1, <1>2, <1>3, <1>4

(* Every step of the store is a step of CompileOnce or invisible to it. *)
LEMMA StepSimulation ==
  ASSUME IInv, [Next]_vars
  PROVE  [Abstract!Next]_(Abstract!vars)
<1> USE DEF IInv, Goto
<1> DEFINE Invisible == UNCHANGED <<InProgress, Outcome, Cached>>
<1>1. CASE UNCHANGED vars
  BY <1>1 DEF vars, Abstract!vars, InProgress, Outcome, Cached
<1>2. ASSUME NEW g \in Goroutines, NEW p \in Patterns, Call(g, p)
      PROVE  Abstract!Invoke(g, p)
  <2>1. InProgress[g] = {} /\ InProgress' = [InProgress EXCEPT ![g] = {p}]
    BY <1>2 DEF Call, InProgress, TypeOK
  <2>2. Outcome' = Outcome /\ Cached' = Cached
    BY <1>2 DEF Call, Outcome, Cached
  <2> QED
    BY <2>1, <2>2 DEF Abstract!Invoke
<1>3. ASSUME NEW g \in Goroutines, Step(g)
      PROVE  Abstract!Learn(g) \/ Abstract!Respond(g) \/ Invisible
  <2>1. CASE RLock(g)  BY <2>1, Stutter DEF RLock, Steps
  <2>2. CASE Lookup(g)  BY <2>2, Stutter DEF Lookup, Steps
  <2>3. CASE RUnlock(g)  BY <2>3, Stutter DEF RUnlock, Steps
  <2>4. CASE Compile(g)  BY <2>4, Stutter DEF Compile, Steps
  <2>5. CASE CompileFails(g)
    <3>1. /\ arg[g] \in InProgress[g]
          /\ InProgress' = [InProgress EXCEPT ![g] = {}]
          /\ Outcome' = [Outcome EXCEPT ![g] = {[pattern |-> arg[g], ok |-> FALSE]}]
          /\ Cached' = Cached
      BY <2>5, Ending DEF CompileFails, Finish
    <3>2. arg[g] \notin Compilable
      BY <2>5 DEF CompileFails
    <3>3. (arg[g] \in Compilable) = FALSE
      BY <3>2
    <3>4. Outcome' = [Outcome EXCEPT
                       ![g] = {[pattern |-> arg[g], ok |-> arg[g] \in Compilable]}]
      BY <3>1, <3>3, Zenon
    <3> QED
      BY <3>1, <3>2, <3>4, Zenon DEF Abstract!Respond
  <2>6. CASE LockAnnounce(g)  BY <2>6, Stutter DEF LockAnnounce, Steps
  <2>7. CASE LockEnter(g)  BY <2>7, Stutter DEF LockEnter, Steps
  <2>8. CASE Store(g)
    <3>1. result[g] # NoRegexp /\ arg[g] \in Compilable
      BY <2>8 DEF Store, DataInv
    <3>2. InProgress[g] = {arg[g]} /\ InProgress' = InProgress
      BY <2>8 DEF Store, InProgress, TypeOK
    <3>3. Outcome' = Outcome
      BY <2>8 DEF Store, Outcome
    <3>4. Cached' = Cached \cup {arg[g]}
      BY <2>8, <3>1, CompilableAssumption DEF Store, Cached, TypeOK
    <3>5. InProgress[g] \subseteq Compilable /\ Cached' = Cached \cup InProgress[g]
      BY <3>1, <3>2, <3>4
    <3> QED
      BY <3>2, <3>3, <3>5 DEF Abstract!Learn
  <2>9. CASE Unlock(g)  BY <2>9, Stutter DEF Unlock, Steps
  <2>10. CASE Return(g)
    <3>1. result[g] # NoRegexp /\ result[g] \in Regexps /\ arg[g] \in Compilable
      BY <2>10 DEF Return, DataInv, TypeOK
    <3>2. /\ arg[g] \in InProgress[g]
          /\ InProgress' = [InProgress EXCEPT ![g] = {}]
          /\ Outcome' = [Outcome EXCEPT ![g] = {[pattern |-> arg[g], ok |-> TRUE]}]
          /\ Cached' = Cached
      BY <2>10, <3>1, Ending DEF Return, Finish
    <3>3. arg[g] \in Cached
      BY <2>10, <3>1 DEF Return, Cached, TypeOK, DataInv
    <3> QED
      BY <3>1, <3>2, <3>3 DEF Abstract!Respond
  <2> QED
    BY <1>3, <2>1, <2>2, <2>3, <2>4, <2>5, <2>6, <2>7, <2>8, <2>9, <2>10 DEF Step
<1> QED
  BY <1>1, <1>2, <1>3 DEF Next, Abstract!Next, Abstract!vars

(* The store implements its abstract specification: all that callers can    *)
(* see of the lock, the map and the race is a memo of compiled patterns.    *)
THEOREM StoreImplementsCompileOnce == Spec => ImplementsCompileOnce
<1>1. Init => Abstract!Init
  BY DEF Init, Abstract!Init, InProgress, Outcome, Cached
<1>2. IInv /\ [Next]_vars => [Abstract!Next]_(Abstract!vars)
  BY StepSimulation
<1> QED
  BY <1>1, <1>2, Invariance, PTL DEF Spec, ImplementsCompileOnce, Abstract!Spec
=============================================================================
