----------------------------- MODULE CompileOnce -----------------------------
(***************************************************************************)
(* What the regexp cache of package regexps promises its callers: a call   *)
(* with a pattern ends with a compiled regexp when the pattern compiles,   *)
(* and with an error when it does not, and a regexp is only handed out     *)
(* after its pattern has become known for good.  There is no lock, no map  *)
(* and no race here: RegexpStore is shown to implement this specification. *)
(***************************************************************************)
CONSTANTS
  Goroutines,   \* the callers
  Patterns,     \* the texts they ask to compile
  Compilable    \* the patterns the regular expression compiler accepts

VARIABLES
  request,      \* the call each caller has in progress, {} when it has none
  reply,        \* the outcome of each caller's last finished call
  known         \* the patterns that are known to compile

vars == <<request, reply, known>>

Outcomes == [pattern : Patterns, ok : BOOLEAN]

Init ==
  /\ request = [g \in Goroutines |-> {}]
  /\ reply = [g \in Goroutines |-> {}]
  /\ known = {}

(* g calls Get(p). *)
Invoke(g, p) ==
  /\ request[g] = {}
  /\ request' = [request EXCEPT ![g] = {p}]
  /\ UNCHANGED <<reply, known>>

(* The pattern of a call in progress becomes known; it never ceases to be. *)
Learn(g) ==
  /\ request[g] \subseteq Compilable
  /\ known' = known \cup request[g]
  /\ UNCHANGED <<request, reply>>

(* g's call ends, with an error exactly when its pattern does not compile. *)
Respond(g) ==
  \E p \in request[g] :
    /\ p \in known \/ p \notin Compilable
    /\ reply' = [reply EXCEPT ![g] = {[pattern |-> p, ok |-> p \in Compilable]}]
    /\ request' = [request EXCEPT ![g] = {}]
    /\ UNCHANGED known

Next ==
  \E g \in Goroutines :
    \/ \E p \in Patterns : Invoke(g, p)
    \/ Learn(g)
    \/ Respond(g)

Spec == Init /\ [][Next]_vars
=============================================================================
