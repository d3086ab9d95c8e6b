----------------------------- MODULE RegexpStore -----------------------------
(***************************************************************************)
(* The process-wide cache of compiled regular expressions                  *)
(* (oasvalidator/regexps/regexp.go).  Every goroutine that validates a     *)
(* "pattern" keyword or a "regex" format calls Get, which reads the map    *)
(* under the read lock, compiles OUTSIDE of any lock on a miss, and stores *)
(* the regexp under the write lock without looking again.                  *)
(*                                                                         *)
(* The lock is a sync.RWMutex: Lock first keeps new readers out, then      *)
(* waits for those inside to leave.  Go makes unlocked concurrent access   *)
(* to a map a fatal error, so lookup and store are states a goroutine      *)
(* stays in and not instants.                                              *)
(***************************************************************************)
EXTENDS Naturals, FiniteSets

CONSTANTS
  Goroutines,   \* the goroutines that call Get
  Patterns,     \* the pattern texts they ask for
  Compilable,   \* the patterns regexp2.Compile accepts
  NoRegexp,     \* the nil *regexp2.Regexp
  NoOne         \* no goroutine

ASSUME CompilableAssumption == Compilable \subseteq Patterns
ASSUME NoOneAssumption == NoOne \notin Goroutines
ASSUME NoRegexpAssumption ==
  NoRegexp \notin [pattern : Patterns, by : Goroutines, nth : Nat]

VARIABLES
  pc,        \* the step of Get each goroutine takes next
  arg,       \* pattern, the argument of its call
  result,    \* result and regex, what the call has in hand
  reply,     \* what its last finished call returned: {} or {[pattern, regexp]}
  cache,     \* ps.regexps
  readers,   \* the goroutines holding the read lock
  writer,    \* the goroutine that is in Lock or holds the write lock
  compiles   \* how many regexps each goroutine has compiled from each pattern

vars == <<pc, arg, result, reply, cache, readers, writer, compiles>>

-----------------------------------------------------------------------------
(* A *Regexp is a fresh object, not the text it was compiled from: two     *)
(* goroutines that miss together hold two regexps of one pattern.          *)
Regexps == [pattern : Patterns, by : Goroutines, nth : Nat]

Steps == {"idle", "rlock", "lookup", "runlock", "compile", "lock", "wait",
          "store", "unlock", "return"}

TypeOK ==
  /\ pc \in [Goroutines -> Steps]
  /\ arg \in [Goroutines -> Patterns]
  /\ result \in [Goroutines -> Regexps \cup {NoRegexp}]
  /\ reply \in [Goroutines ->
                 SUBSET [pattern : Patterns, regexp : Regexps \cup {NoRegexp}]]
  /\ cache \in [Patterns -> Regexps \cup {NoRegexp}]
  /\ readers \subseteq Goroutines
  /\ writer \in Goroutines \cup {NoOne}
  /\ compiles \in [Goroutines -> [Patterns -> Nat]]

Init_NilMap ==
  /\ pc = [g \in Goroutines |-> "idle"]
  /\ arg \in [Goroutines -> Patterns]
  /\ result = [g \in Goroutines |-> NoRegexp]
  /\ reply = [g \in Goroutines |-> {}]
  /\ cache = <<>>
  /\ readers = {}
  /\ writer = NoOne
  /\ compiles = [g \in Goroutines |-> [p \in Patterns |-> 0]]

Init ==
  /\ pc = [g \in Goroutines |-> "idle"]
  /\ arg \in [Goroutines -> Patterns]
  /\ result = [g \in Goroutines |-> NoRegexp]
  /\ reply = [g \in Goroutines |-> {}]
  /\ cache = [p \in Patterns |-> NoRegexp]
  /\ readers = {}
  /\ writer = NoOne
  /\ compiles = [g \in Goroutines |-> [p \in Patterns |-> 0]]

Goto(g, from, to) ==
  /\ pc[g] = from
  /\ pc' = [pc EXCEPT ![g] = to]

Finish(g, r) ==
  reply' = [reply EXCEPT ![g] = {[pattern |-> arg[g], regexp |-> r]}]

-----------------------------------------------------------------------------
(* A goroutine enters Get(p). *)
Call(g, p) ==
  /\ Goto(g, "idle", "rlock")
  /\ arg' = [arg EXCEPT ![g] = p]
  /\ result' = [result EXCEPT ![g] = NoRegexp]
  /\ UNCHANGED <<reply, cache, readers, writer, compiles>>

(* ps.mutex.RLock(): waits while a writer is in or announced. *)
RLock(g) ==
  /\ writer = NoOne
  /\ Goto(g, "rlock", "lookup")
  /\ readers' = readers \cup {g}
  /\ UNCHANGED <<arg, result, reply, cache, writer, compiles>>

Lookup_AlwaysMisses(g) ==
  /\ Goto(g, "lookup", "runlock")
  /\ UNCHANGED <<arg, result, reply, cache, readers, writer, compiles>>

(* result, ok := ps.regexps[pattern] *)
Lookup(g) ==
  /\ Goto(g, "lookup", "runlock")
  /\ result' = [result EXCEPT ![g] = cache[arg[g]]]
  /\ UNCHANGED <<arg, reply, cache, readers, writer, compiles>>

RUnlock_KeepsLock(g) ==
  /\ Goto(g, "runlock", IF result[g] # NoRegexp THEN "return" ELSE "compile")
  /\ UNCHANGED <<arg, result, reply, cache, readers, writer, compiles>>

(* ps.mutex.RUnlock() and the test of ok. *)
RUnlock(g) ==
  /\ Goto(g, "runlock", IF result[g] # NoRegexp THEN "return" ELSE "compile")
  /\ readers' = readers \ {g}
  /\ UNCHANGED <<arg, result, reply, cache, writer, compiles>>

Compile_IgnoresError(g) ==
  /\ Goto(g, "compile", "lock")
  /\ result' = [result EXCEPT ![g] =
                  [pattern |-> arg[g], by |-> g, nth |-> compiles[g][arg[g]] + 1]]
  /\ compiles' = [compiles EXCEPT ![g][arg[g]] = @ + 1]
  /\ UNCHANGED <<arg, reply, cache, readers, writer>>

(* regexp2.Compile(pattern) succeeds, with no lock held. *)
Compile(g) ==
  /\ arg[g] \in Compilable
  /\ Goto(g, "compile", "lock")
  /\ result' = [result EXCEPT ![g] =
                  [pattern |-> arg[g], by |-> g, nth |-> compiles[g][arg[g]] + 1]]
  /\ compiles' = [compiles EXCEPT ![g][arg[g]] = @ + 1]
  /\ UNCHANGED <<arg, reply, cache, readers, writer>>

(* regexp2.Compile(pattern) fails: return nil, err.  Nothing is cached. *)
CompileFails(g) ==
  /\ arg[g] \notin Compilable
  /\ Goto(g, "compile", "idle")
  /\ Finish(g, NoRegexp)
  /\ UNCHANGED <<arg, result, cache, readers, writer, compiles>>

(* ps.mutex.Lock(), first half: only one writer, and new readers stay out. *)
LockAnnounce(g) ==
  /\ writer = NoOne
  /\ Goto(g, "lock", "wait")
  /\ writer' = g
  /\ UNCHANGED <<arg, result, reply, cache, readers, compiles>>

LockEnter_IgnoresReaders(g) ==
  /\ Goto(g, "wait", "store")
  /\ UNCHANGED <<arg, result, reply, cache, readers, writer, compiles>>

(* ps.mutex.Lock(), second half: the readers inside have left. *)
LockEnter(g) ==
  /\ readers = {}
  /\ Goto(g, "wait", "store")
  /\ UNCHANGED <<arg, result, reply, cache, readers, writer, compiles>>

Store_ReplacesMap(g) ==
  /\ Goto(g, "store", "unlock")
  /\ cache' = [p \in Patterns |-> IF p = arg[g] THEN result[g] ELSE NoRegexp]
  /\ UNCHANGED <<arg, result, reply, readers, writer, compiles>>

Store_Skipped(g) ==
  /\ Goto(g, "store", "unlock")
  /\ UNCHANGED <<arg, result, reply, cache, readers, writer, compiles>>

(* ps.regexps[pattern] = regex, also over a regexp stored meanwhile. *)
Store(g) ==
  /\ Goto(g, "store", "unlock")
  /\ cache' = [cache EXCEPT ![arg[g]] = result[g]]
  /\ UNCHANGED <<arg, result, reply, readers, writer, compiles>>

(* ps.mutex.Unlock() *)
Unlock(g) ==
  /\ Goto(g, "unlock", "return")
  /\ writer' = NoOne
  /\ UNCHANGED <<arg, result, reply, cache, readers, compiles>>

(* return result, nil (a hit) or return regex, nil (after the store). *)
Return(g) ==
  /\ Goto(g, "return", "idle")
  /\ Finish(g, result[g])
  /\ UNCHANGED <<arg, result, cache, readers, writer, compiles>>

-----------------------------------------------------------------------------
(* Every step of a call in progress. *)
Step(g) ==
  \/ RLock(g) \/ Lookup(g) \/ RUnlock(g)
  \/ Compile(g) \/ CompileFails(g)
  \/ LockAnnounce(g) \/ LockEnter(g) \/ Store(g) \/ Unlock(g)
  \/ Return(g)

Next ==
  \E g \in Goroutines :
    \/ \E p \in Patterns : Call(g, p)
    \/ Step(g)

Spec == Init /\ [][Next]_vars

(* A goroutine that can run is eventually run; nobody has to call Get. *)
Fairness == \A g \in Goroutines : WF_vars(Step(g))

FairSpec == Spec /\ Fairness

-----------------------------------------------------------------------------
(* No goroutine reads the map while another writes it, and no two write it *)
(* at once: the RWMutex covers both accesses of Get (regexp.go:42-61).      *)
NoDataRace ==
  \A g, h \in Goroutines :
    pc[g] = "store" /\ pc[h] \in {"lookup", "store"} => g = h

(* Get never hands out, and the map never holds, a regexp of another       *)
(* pattern or of a pattern that does not compile; an error (no regexp) is  *)
(* the answer to a pattern that does not compile and to no other.          *)
RightRegexp ==
  /\ \A p \in Patterns :
       cache[p] # NoRegexp => p \in Compilable /\ cache[p].pattern = p
  /\ \A g \in Goroutines : \A r \in reply[g] :
       IF r.pattern \in Compilable
         THEN r.regexp # NoRegexp /\ r.regexp.pattern = r.pattern
         ELSE r.regexp = NoRegexp

(* Although the lookup and the store are two critical sections with the    *)
(* compilation between them, a goroutine compiles a pattern at most once   *)
(* in its life: what it stored is still there at its next call.  So the    *)
(* work lost to the race is bounded by the number of goroutines.           *)
CompiledAtMostOnceEach ==
  \A g \in Goroutines, p \in Patterns : compiles[g][p] <= 1

(* A pattern that is cached stays cached (its regexp may be replaced by    *)
(* another one of the same pattern): "compiling and caching it on the      *)
(* first call" is never undone.                                            *)
CacheOnlyGrows ==
  [][\A p \in Patterns : cache[p] # NoRegexp => cache'[p] # NoRegexp]_vars

(* Every call of Get returns, readers and writers alike: the lock is       *)
(* released on every path and nobody starves behind it.                    *)
EveryCallReturns ==
  \A g \in Goroutines : pc[g] # "idle" ~> pc[g] = "idle"

(* Get implements CompileOnce: a call is in progress while its goroutine is *)
(* inside Get, and a pattern is known once it is cached.                    *)
InProgress == [g \in Goroutines |-> IF pc[g] = "idle" THEN {} ELSE {arg[g]}]
Outcome == [g \in Goroutines |->
             {[pattern |-> r.pattern, ok |-> r.regexp # NoRegexp] : r \in reply[g]}]
Cached == {p \in Patterns : cache[p] # NoRegexp}

Abstract == INSTANCE CompileOnce WITH
              request <- InProgress, reply <- Outcome, known <- Cached

ImplementsCompileOnce == Abstract!Spec
=============================================================================
