------------------------ MODULE GraphQLResponseProofs ------------------------
(***************************************************************************)
(* Theorems about GraphQLResponse for any configurations, rules, error     *)
(* lists and verdicts.  PathInv says, for each step of a path, what it has *)
(* found out: while rules are tried, none of those behind it applies; when *)
(* it has judged, its status is the one the reference definition chooses.  *)
(***************************************************************************)
EXTENDS GraphQLResponse, TLAPS

BuiltInv ==
  /\ built = "ok" => ~Rejected
  /\ built = "not" => \A p \in Paths : pc[p] = "idle"
  /\ \A p \in Paths : pc[p] # "idle" => built = "ok"

Trying(p) ==
  /\ Custom
  /\ p = "handle" => Evaluates
  /\ reply.form \notin {"unreadable", "malformedErrors"}
  /\ reply.errors \in Lists
  /\ status[p] = Default
  /\ \A k \in DOMAIN config.rules \ left[p] : k \notin Matching

Judged(p) ==
  /\ Custom
  /\ p = "handle" => Evaluates
  /\ reply.form # "unreadable"
  /\ reply.errors \in NoErrors \cup Lists
  /\ status[p] = IF reply.errors \in Lists THEN Chosen ELSE 200

Transforming(p) ==
  /\ Decodes
  /\ reply.errors = "other" => ~Evaluates
  /\ reply.errors \in Lists => ~(Chosen >= 400)

Finished(p) ==
  /\ reply.form = "valid" /\ (reply.errors = "other" => Evaluates) => answer[p] = Expected
  /\ ~Decodes /\ (p = "handle" \/ config.body) => answer[p] >= 400

PathInv ==
  \A p \in Paths :
    /\ pc[p] = "rules" => Trying(p)
    /\ pc[p] = "judged" => Judged(p)
    /\ pc[p] = "transform" => Transforming(p)
    /\ pc[p] = "done" => Finished(p)

IInv == TypeOK /\ BuiltInv /\ PathInv

-----------------------------------------------------------------------------
(* An accepted configuration has a number for every key, and a verdict for  *)
(* every expression.                                                        *)
LEMMA Usable ==
  ASSUME TypeOK, ~Rejected, Custom, NEW k \in DOMAIN config.rules
  PROVE  StatusOf[k] \in Int
<1>1. config \in AllConfigs
  BY ConfigsAssumption DEF TypeOK
<1>2. k \in Keys
  BY <1>1 DEF AllConfigs
<1>3. StatusOf[k] # NotANumber
  BY DEF Rejected, Unusable
<1> QED
  BY <1>2, <1>3, StatusAssumption

(* The rule that is first in order, when no earlier one matches, is the one *)
(* the reference definition chooses.                                        *)
LEMMA FirstIsChosen ==
  ASSUME TypeOK, NEW p \in Paths, NEW k, IsNext(p, k), Applies(k),
         \A l \in DOMAIN config.rules \ left[p] : l \notin Matching
  PROVE  Chosen = StatusOf[k]
<1>1. config \in AllConfigs
  BY ConfigsAssumption DEF TypeOK
<1>2. DOMAIN config.rules \subseteq Nat
  BY <1>1, KeysAssumption DEF AllConfigs
<1>3. left[p] \subseteq DOMAIN config.rules
  BY DEF TypeOK
<1>4. k \in Matching /\ Matching \subseteq Nat
  BY <1>2, <1>3 DEF IsNext, Applies, Matching
<1>5. \A l \in Matching : k <= l
  BY <1>3 DEF IsNext, Matching
<1>6. \A c \in Matching : (\A l \in Matching : c <= l) => c = k
  BY <1>4, <1>5
<1>7. (CHOOSE c \in Matching : \A l \in Matching : c <= l) = k
  BY <1>4, <1>5, <1>6
<1> QED
  BY <1>4, <1>7 DEF Chosen

LEMMA NoneIsDefault ==
  ASSUME Matching = {}
  PROVE  Chosen = Default
  BY DEF Chosen

LEMMA DefaultType ==
  ASSUME TypeOK
  PROVE  Default \in Int
<1>1. config.code \in Int \cup {NoCode}
  BY ConfigsAssumption DEF TypeOK, AllConfigs
<1> QED
  BY <1>1, StatusAssumption DEF Default, CodeSet


-----------------------------------------------------------------------------
(* Types.                                                                  *)

LEMMA InitOK == Init => IInv
<1> SUFFICES ASSUME Init PROVE IInv
  OBVIOUS
<1>1. TypeOK
  BY DEF Init, TypeOK
<1>2. BuiltInv /\ PathInv
  BY DEF Init, BuiltInv, PathInv
<1> QED
  BY <1>1, <1>2 DEF IInv

LEMMA ReplyStatusType ==
  ASSUME TypeOK
  PROVE  reply.status \in 200..399
<1>1. reply.status \in Statuses
  BY DEF TypeOK, Replies
<1> QED
  BY <1>1, StatusAssumption

LEMMA TypeStep == TypeOK /\ BuiltInv /\ PathInv /\ [Next]_vars => TypeOK'
<1> SUFFICES ASSUME TypeOK, BuiltInv, PathInv, [Next]_vars PROVE TypeOK'
  OBVIOUS
<1> USE DEF TypeOK
<1>0. reply.status \in Int
  BY ReplyStatusType
<1>1. ASSUME Configure \/ ConfigureFails PROVE TypeOK'
  BY <1>1 DEF Configure, ConfigureFails
<1>2. ASSUME HandleDecode PROVE TypeOK'
  BY <1>0, <1>2 DEF HandleDecode, Keep, Goto, Answer, Paths
<1>3. ASSUME StreamCopy \/ StreamValid PROVE TypeOK'
  BY <1>0, <1>3 DEF StreamCopy, StreamValid, Keep, Answer, Paths
<1>4. ASSUME NEW p \in Paths, ReadErrors(p) PROVE TypeOK'
  <2>1. Default \in Int
    BY DefaultType
  <2> QED
    BY <1>4, <2>1 DEF ReadErrors, Keep, Goto, Answer, Judge
<1>5. ASSUME NEW p \in Paths, TryRule(p) PROVE TypeOK'
  <2>1. Custom /\ ~Rejected
    BY <1>5 DEF TryRule, PathInv, Trying, BuiltInv
  <2>2. PICK k \in left[p] :
          \/ Applies(k) /\ Judge(p, StatusOf[k])
          \/ /\ left' = [left EXCEPT ![p] = @ \ {k}]
             /\ UNCHANGED status
             /\ Goto(p, "rules")
    BY <1>5 DEF TryRule
  <2>3. StatusOf[k] \in Int
    BY <2>1, Usable
  <2> QED
    BY <2>2, <2>3 DEF Judge, Goto
<1>6. ASSUME NEW p \in Paths, NoRuleApplies(p) PROVE TypeOK'
  BY <1>6 DEF NoRuleApplies, Judge, Goto
<1>7. ASSUME NEW p \in Paths, Transform(p) PROVE TypeOK'
  BY <1>0, <1>7 DEF Transform, Keep, Answer
<1>8. ASSUME HandleJudged PROVE TypeOK'
  BY <1>8 DEF HandleJudged, Keep, Goto, Answer, Paths
<1>9. ASSUME StreamJudged PROVE TypeOK'
  BY <1>0, <1>9 DEF StreamJudged, Keep, Goto, Answer, Paths
<1>10. ASSUME UNCHANGED vars PROVE TypeOK'
  BY <1>10 DEF vars
<1> QED
  BY <1>1, <1>2, <1>3, <1>4, <1>5, <1>6, <1>7, <1>8, <1>9, <1>10 DEF Next

LEMMA BuiltStep == TypeOK /\ BuiltInv /\ [Next]_vars => BuiltInv'
<1> SUFFICES ASSUME TypeOK, BuiltInv, [Next]_vars PROVE BuiltInv'
  OBVIOUS
<1>1. UNCHANGED config
  BY DEF Next, vars, Configure, ConfigureFails, HandleDecode, StreamCopy, StreamValid,
         ReadErrors, TryRule, NoRuleApplies, Transform, HandleJudged, StreamJudged,
         Goto, Answer, Judge
<1>2. Rejected' <=> Rejected
  BY <1>1 DEF Rejected, Custom, Unusable
<1>3. ASSUME Configure \/ ConfigureFails PROVE BuiltInv'
  BY <1>2, <1>3 DEF Configure, ConfigureFails, BuiltInv, TypeOK
<1>4. ASSUME NEW p \in Paths, pc[p] # "idle", UNCHANGED built, NEW s,
             pc' = [pc EXCEPT ![p] = s]
      PROVE  BuiltInv'
  BY <1>2, <1>4 DEF BuiltInv, TypeOK
<1>5. ASSUME UNCHANGED vars PROVE BuiltInv'
  BY <1>2, <1>5 DEF vars, BuiltInv
<1>6. ASSUME HandleDecode PROVE BuiltInv'
  BY <1>4, <1>6 DEF HandleDecode, Goto, Answer, Paths
<1>7. ASSUME StreamCopy \/ StreamValid \/ StreamJudged PROVE BuiltInv'
  BY <1>4, <1>7 DEF StreamCopy, StreamValid, StreamJudged, Goto, Answer, Paths
<1>8. ASSUME HandleJudged PROVE BuiltInv'
  BY <1>4, <1>8 DEF HandleJudged, Goto, Answer, Paths
<1>9. ASSUME NEW p \in Paths, ReadErrors(p) \/ TryRule(p) PROVE BuiltInv'
  BY <1>4, <1>9 DEF ReadErrors, TryRule, Judge, Goto, Answer
<1>10. ASSUME NEW p \in Paths, NoRuleApplies(p) \/ Transform(p) PROVE BuiltInv'
  BY <1>4, <1>10 DEF NoRuleApplies, Transform, Judge, Goto, Answer
<1> QED
  BY <1>3, <1>5, <1>6, <1>7, <1>8, <1>9, <1>10 DEF Next

-----------------------------------------------------------------------------
(* The paths.                                                              *)

Constant == UNCHANGED <<config, strict, reply>>

(* What depends on the configuration and the response alone stays. *)
LEMMA Fixed ==
  ASSUME Constant
  PROVE  /\ Custom' <=> Custom
         /\ Evaluates' <=> Evaluates
         /\ Decodes' <=> Decodes
         /\ Default' = Default /\ Matching' = Matching
         /\ Chosen' = Chosen /\ Expected' = Expected
<1> USE DEF Constant
<1>1. /\ Custom' <=> Custom
      /\ Evaluates' <=> Evaluates
      /\ Decodes' <=> Decodes
      /\ Default' = Default /\ Matching' = Matching
  BY DEF Custom, Evaluates, CodeSet, Default, Matching, Decodes
<1>2. Chosen' = Chosen
  BY <1>1 DEF Chosen
<1>3. Expected' = Expected
  BY <1>1, <1>2 DEF Expected
<1> QED
  BY <1>1, <1>2, <1>3

At(p) ==
  /\ pc[p] = "rules" => Trying(p)
  /\ pc[p] = "judged" => Judged(p)
  /\ pc[p] = "transform" => Transforming(p)
  /\ pc[p] = "done" => Finished(p)

(* A step of path p leaves the other path where it was. *)
LEMMA OneMoves ==
  ASSUME PathInv, Constant, NEW p \in Paths, At(p)',
         \A q \in Paths \ {p} :
           /\ pc'[q] = pc[q] /\ status'[q] = status[q]
           /\ left'[q] = left[q] /\ answer'[q] = answer[q]
  PROVE  PathInv'
<1>1. ASSUME NEW q \in Paths, q # p PROVE At(q)'
  BY <1>1, Fixed DEF Constant, PathInv, At, Trying, Judged, Transforming, Finished
<1> QED
  BY <1>1 DEF PathInv, At

LEMMA AnswerMoves ==
  ASSUME TypeOK, PathInv, NEW p \in Paths, NEW code, Answer(p, code), Keep,
         reply.form = "valid" /\ (reply.errors = "other" => Evaluates) => code = Expected,
         ~Decodes /\ (p = "handle" \/ config.body) => code >= 400
  PROVE  PathInv'
<1>1. Constant
  BY DEF Constant, Answer
<1>2. pc'[p] = "done" /\ answer'[p] = code
  BY DEF Answer, TypeOK
<1>3. At(p)'
  BY <1>1, <1>2, Fixed DEF At, Finished, Constant
<1> QED
  BY <1>1, <1>3, OneMoves DEF Answer, Keep, TypeOK

LEMMA GotoMoves ==
  ASSUME TypeOK, PathInv, NEW p \in Paths, Goto(p, "transform"), Keep, Transforming(p)
  PROVE  PathInv'
<1>1. Constant
  BY DEF Constant, Goto
<1>2. pc'[p] = "transform"
  BY DEF Goto, TypeOK
<1>3. At(p)'
  BY <1>1, <1>2, Fixed DEF At, Transforming, Constant
<1> QED
  BY <1>1, <1>3, OneMoves DEF Goto, Keep, TypeOK

LEMMA JudgeMoves ==
  ASSUME TypeOK, PathInv, NEW p \in Paths, NEW code, Judge(p, code),
         Custom, p = "handle" => Evaluates, reply.form # "unreadable",
         reply.errors \in NoErrors \cup Lists,
         code = IF reply.errors \in Lists THEN Chosen ELSE 200
  PROVE  PathInv'
<1>1. Constant
  BY DEF Constant, Judge, Goto
<1>2. pc'[p] = "judged" /\ status'[p] = code
  BY DEF Judge, Goto, TypeOK
<1>3. At(p)'
  BY <1>1, <1>2, Fixed DEF At, Judged, Constant
<1> QED
  BY <1>1, <1>3, OneMoves DEF Judge, Goto, TypeOK

(* What a response without rules or without errors is expected to get. *)
LEMMA NoRules ==
  ASSUME DOMAIN config.rules = {}
  PROVE  Chosen = Default /\ Matching = {}
  BY DEF Chosen, Matching

LEMMA NotListed ==
  /\ NoErrors \cap Lists = {}
  /\ "other" \notin Lists /\ "other" \notin NoErrors
  /\ "broken" \notin Lists /\ "broken" \notin NoErrors
  BY ListsAssumption DEF Lists, NoErrors

LEMMA ReplyType ==
  ASSUME TypeOK
  PROVE  /\ reply.form \in Forms
         /\ reply.errors \in NoErrors \cup Lists \cup {"other", "broken"}
         /\ reply.errors = "broken" => reply.form # "valid"
<1>1. reply \in Replies
  BY DEF TypeOK
<1>2. reply.form \in Forms /\ reply.errors \in NoErrors \cup Lists \cup {"other", "broken"}
  BY <1>1 DEF Replies
<1>3. reply.errors = "broken" => reply.form \in {"malformed", "malformedErrors"}
  BY <1>1 DEF Replies
<1> QED
  BY <1>2, <1>3

LEMMA ReadErrorsStep ==
  ASSUME TypeOK, BuiltInv, PathInv, NEW p \in Paths, ReadErrors(p)
  PROVE  PathInv'
<1> USE DEF ReadErrors
<1>1. CASE /\ reply.form = "unreadable" \/ reply.errors \in {"broken", "other"}
           /\ Answer(p, 500) /\ Keep
  <2>1. reply.form = "valid" => reply.errors = "other"
    BY <1>1, ReplyType
  <2>2. reply.form = "valid" => Expected = 500
    BY <2>1 DEF Expected
  <2> QED
    BY <1>1, <2>2, AnswerMoves
<1>2. CASE /\ reply.form # "unreadable" /\ reply.errors \in NoErrors
           /\ Judge(p, 200)
  BY <1>2, JudgeMoves, NotListed
<1>3. CASE /\ reply.form # "unreadable" /\ reply.errors \in Lists
           /\ DOMAIN config.rules = {}
           /\ Judge(p, Default)
  BY <1>3, JudgeMoves, NoRules
<1>4. CASE /\ reply.form = "malformedErrors" /\ DOMAIN config.rules # {}
           /\ Answer(p, 500) /\ Keep
  BY <1>4, AnswerMoves
<1>5. CASE /\ reply.form \notin {"unreadable", "malformedErrors"} /\ reply.errors \in Lists
           /\ DOMAIN config.rules # {}
           /\ status' = [status EXCEPT ![p] = Default]
           /\ left' = [left EXCEPT ![p] = DOMAIN config.rules]
           /\ Goto(p, "rules")
  <2>1. Constant
    BY <1>5 DEF Constant, Goto
  <2>2. pc'[p] = "rules" /\ status'[p] = Default /\ left'[p] = DOMAIN config.rules
    BY <1>5 DEF Goto, TypeOK
  <2>3. At(p)'
    BY <1>5, <2>1, <2>2, Fixed DEF At, Trying, Constant
  <2> QED
    BY <1>5, <2>1, <2>3, OneMoves DEF Goto, TypeOK
<1> QED
  BY <1>1, <1>2, <1>3, <1>4, <1>5

LEMMA TryRuleStep ==
  ASSUME TypeOK, BuiltInv, PathInv, NEW p \in Paths, TryRule(p)
  PROVE  PathInv'
<1>1. Trying(p)
  BY DEF TryRule, PathInv
<1>2. PICK k \in left[p] :
        /\ IsNext(p, k)
        /\ \/ Applies(k) /\ Judge(p, StatusOf[k])
           \/ /\ ~Applies(k)
              /\ left' = [left EXCEPT ![p] = @ \ {k}]
              /\ UNCHANGED status
              /\ Goto(p, "rules")
  BY DEF TryRule
<1>3. CASE Applies(k) /\ Judge(p, StatusOf[k])
  <2>1. Chosen = StatusOf[k]
    BY <1>1, <1>2, <1>3, FirstIsChosen DEF Trying
  <2> QED
    BY <1>1, <1>3, <2>1, JudgeMoves DEF Trying
<1>4. CASE /\ ~Applies(k)
           /\ left' = [left EXCEPT ![p] = @ \ {k}]
           /\ UNCHANGED status
           /\ Goto(p, "rules")
  <2>1. Constant
    BY <1>4 DEF Constant, Goto
  <2>2. pc'[p] = "rules" /\ status'[p] = status[p] /\ left'[p] = left[p] \ {k}
    BY <1>4 DEF Goto, TypeOK
  <2>3. k \notin Matching
    BY <1>4 DEF Applies, Matching
  <2>4. \A l \in DOMAIN config.rules \ (left[p] \ {k}) : l \notin Matching
    BY <1>1, <2>3 DEF Trying
  <2>5. Trying(p)'
    BY <1>1, <2>1, <2>2, <2>4, Fixed DEF Trying, Constant
  <2>6. At(p)'
    BY <2>2, <2>5 DEF At
  <2> QED
    BY <1>4, <2>1, <2>6, OneMoves DEF Goto, TypeOK
<1> QED
  BY <1>2, <1>3, <1>4

LEMMA NoRuleAppliesStep ==
  ASSUME TypeOK, BuiltInv, PathInv, NEW p \in Paths, NoRuleApplies(p)
  PROVE  PathInv'
<1>1. Trying(p) /\ left[p] = {} /\ Judge(p, status[p])
  BY DEF NoRuleApplies, PathInv
<1>2. Matching = {}
  BY <1>1 DEF Trying, Matching
<1> QED
  BY <1>1, <1>2, JudgeMoves, NoneIsDefault DEF Trying

LEMMA HandleDecodeStep ==
  ASSUME TypeOK, BuiltInv, PathInv, HandleDecode
  PROVE  PathInv'
<1>1. "handle" \in Paths /\ ~Evaluates /\ Keep
  BY DEF Paths, HandleDecode
<1>2. Chosen = 200
  BY <1>1, NoRules DEF Evaluates, Default
<1>3. CASE ~Decodes /\ Answer("handle", 500)
  BY <1>1, <1>3, AnswerMoves DEF Decodes
<1>4. CASE Decodes /\ ~Custom /\ Answer("handle", reply.status)
  <2>1. reply.errors # "other" => Expected = reply.status
    BY <1>2, <1>4 DEF Expected, Custom
  <2> QED
    BY <1>1, <1>4, <2>1, AnswerMoves
<1>5. CASE Decodes /\ Custom /\ Goto("handle", "transform")
  BY <1>1, <1>2, <1>5, GotoMoves DEF Transforming
<1> QED
  BY <1>3, <1>4, <1>5 DEF HandleDecode

LEMMA StreamRawStep ==
  ASSUME TypeOK, BuiltInv, PathInv, StreamCopy \/ StreamValid
  PROVE  PathInv'
<1>1. "stream" \in Paths /\ ~Custom /\ Keep /\ ~config.body
  BY DEF Paths, StreamCopy, StreamValid, Custom
<1>2. ~Evaluates /\ Chosen = 200
  BY <1>1, NoRules DEF Custom, Evaluates, CodeSet, Default
<1>3. reply.errors # "other" => Expected = reply.status
  BY <1>1, <1>2 DEF Expected
<1>4. CASE StreamCopy
  BY <1>1, <1>2, <1>3, <1>4, AnswerMoves DEF StreamCopy
<1>5. CASE StreamValid
  BY <1>1, <1>2, <1>3, <1>5, AnswerMoves DEF StreamValid, Unmarshals
<1> QED
  BY <1>4, <1>5

LEMMA TransformStep ==
  ASSUME TypeOK, BuiltInv, PathInv, NEW p \in Paths, Transform(p)
  PROVE  PathInv'
<1>1. Transforming(p) /\ Keep
  BY DEF Transform, PathInv
<1>2. reply.errors # "other" =>
        Expected = IF config.body /\ ~reply.transforms THEN 500 ELSE reply.status
  BY <1>1 DEF Transforming, Expected
<1> QED
  BY <1>1, <1>2, AnswerMoves DEF Transform, Transforming

(* What a path that has judged a valid document is expected to answer. *)
LEMMA JudgedExpects ==
  ASSUME TypeOK, NEW p \in Paths, Judged(p)
  PROVE  /\ status[p] >= 400 => Expected = status[p]
         /\ status[p] < 400 =>
              /\ Transforming(p) \/ ~Decodes
              /\ ~config.body => Expected = reply.status
<1>1. status[p] \in Int /\ reply.errors # "other"
  BY NotListed DEF TypeOK, Judged
<1>2. CASE reply.errors \in Lists
  BY <1>1, <1>2 DEF Judged, Expected, Transforming
<1>3. CASE reply.errors \notin Lists
  BY <1>1, <1>3 DEF Judged, Expected, Transforming
<1> QED
  BY <1>2, <1>3

LEMMA HandleJudgedStep ==
  ASSUME TypeOK, BuiltInv, PathInv, HandleJudged
  PROVE  PathInv'
<1>1. "handle" \in Paths /\ Judged("handle") /\ Keep
  BY DEF Paths, HandleJudged, PathInv
<1>2. CASE ~Unmarshals /\ Answer("handle", 500)
  BY <1>1, <1>2, AnswerMoves DEF Unmarshals
<1>3. CASE Unmarshals /\ status["handle"] >= 400 /\ Answer("handle", status["handle"])
  BY <1>1, <1>3, JudgedExpects, AnswerMoves
<1>4. CASE Unmarshals /\ status["handle"] < 400 /\ Goto("handle", "transform")
  BY <1>1, <1>4, JudgedExpects, GotoMoves DEF Unmarshals, Decodes
<1> QED
  BY <1>2, <1>3, <1>4 DEF HandleJudged

LEMMA StreamJudgedStep ==
  ASSUME TypeOK, BuiltInv, PathInv, StreamJudged
  PROVE  PathInv'
<1>1. "stream" \in Paths /\ Judged("stream") /\ Keep
  BY DEF Paths, StreamJudged, PathInv
<1>2. CASE status["stream"] >= 400 /\ Answer("stream", status["stream"])
  BY <1>1, <1>2, JudgedExpects, AnswerMoves
<1>3. CASE status["stream"] < 400 /\ ~config.body /\ Answer("stream", reply.status)
  BY <1>1, <1>3, JudgedExpects, AnswerMoves
<1>4. CASE status["stream"] < 400 /\ config.body /\ ~Unmarshals /\ Answer("stream", 500)
  BY <1>1, <1>4, AnswerMoves DEF Unmarshals
<1>5. CASE status["stream"] < 400 /\ config.body /\ Unmarshals /\ Goto("stream", "transform")
  BY <1>1, <1>5, JudgedExpects, GotoMoves DEF Unmarshals, Decodes
<1> QED
  BY <1>2, <1>3, <1>4, <1>5 DEF StreamJudged

LEMMA PathStep == TypeOK /\ BuiltInv /\ PathInv /\ [Next]_vars => PathInv'
<1> SUFFICES ASSUME TypeOK, BuiltInv, PathInv, [Next]_vars PROVE PathInv'
  OBVIOUS
<1>1. ASSUME Configure \/ ConfigureFails PROVE PathInv'
  <2>1. \A p \in Paths : pc'[p] \in {"idle", "start"}
    BY <1>1 DEF Configure, ConfigureFails, BuiltInv
  <2> QED
    BY <2>1 DEF PathInv
<1>2. ASSUME UNCHANGED vars PROVE PathInv'
  <2>1. Constant /\ UNCHANGED <<pc, status, left, answer>>
    BY <1>2 DEF Constant, vars
  <2> QED
    BY <2>1, Fixed DEF Constant, PathInv, Trying, Judged, Transforming, Finished
<1> QED
  BY <1>1, <1>2, ReadErrorsStep, TryRuleStep, NoRuleAppliesStep, HandleDecodeStep,
     StreamRawStep, TransformStep, HandleJudgedStep, StreamJudgedStep DEF Next

-----------------------------------------------------------------------------
THEOREM Invariance == Spec => []IInv
<1>1. IInv /\ [Next]_vars => IInv'
  BY TypeStep, BuiltStep, PathStep DEF IInv
<1> QED
  BY <1>1, InitOK, PTL DEF Spec

(* The variables keep their types; an unusable key never becomes a status.  *)
THEOREM TypeCorrect == Spec => []TypeOK
  BY Invariance, PTL DEF IInv

(* Handle and Stream answer a valid document with the status of the         *)
(* reference definition (response.go:38-339).                               *)
THEOREM StatusIsDecidedByErrors == Spec => []ErrorsDecideTheStatus
<1>1. PathInv => ErrorsDecideTheStatus
  BY DEF PathInv, Finished, ErrorsDecideTheStatus
<1> QED
  BY <1>1, Invariance, PTL DEF IInv

(* A body that is no JSON is not rewritten, nor returned by Handle.         *)
THEOREM MalformedFails == Spec => []MalformedIsNotASuccess
<1>1. PathInv => MalformedIsNotASuccess
  BY DEF PathInv, Finished, MalformedIsNotASuccess
<1> QED
  BY <1>1, Invariance, PTL DEF IInv
=============================================================================
