--------------------------- MODULE GraphQLResponse ---------------------------
(***************************************************************************)
(* The response of a GraphQL route (openapiclient/handler/graphqlhandler). *)
(* A GraphQL server reports errors in the body of a successful response;   *)
(* the route's configuration maps them to HTTP statuses: a default code,   *)
(* and rules from a status to JMESPath expressions over the error list.    *)
(*                                                                         *)
(* There are two implementations, Handle (which returns a value) and Stream*)
(* (which writes to the client).  The module runs both on one response     *)
(* under one configuration, and follows the status each of them answers.   *)
(***************************************************************************)
EXTENDS Integers, FiniteSets

CONSTANTS
  Keys,          \* the keys of httpErrors, numbered in the order of the strings
  StatusOf,      \* the number each key stands for
  NotANumber,    \* strconv.Atoi fails
  Expressions,   \* JMESPath texts
  Compilable,    \* the texts jmespath.Compile accepts
  ErrorLists,    \* the error lists that are not empty
  Verdicts,      \* Verdicts[<<expression, errors>>]: "true", "false" or "fails"
  Configs,       \* the response configurations of routes
  Statuses,      \* the upstream statuses that reach the response handlers
  NoCode         \* httpErrorCode is not set

(* "[ ]", an empty list with a blank in it, is not recognized as empty.     *)
Lists == ErrorLists \cup {"blank"}
NoErrors == {"absent", "null", "empty"}

AllConfigs ==
  [ code : Int \cup {NoCode},
    rules : UNION {[K -> SUBSET Expressions] : K \in SUBSET Keys},
    contentType : {"json", "text", "other"},
    body : BOOLEAN ]                     \* a template that rewrites the body

ASSUME KeysAssumption == Keys \subseteq Nat /\ IsFiniteSet(Keys)
ASSUME StatusAssumption ==
  /\ StatusOf \in [Keys -> Int \cup {NotANumber}]
  /\ NotANumber \notin Int /\ NoCode \notin Int
  /\ Statuses \subseteq 200..399
ASSUME ExpressionsAssumption ==
  /\ Compilable \subseteq Expressions
  /\ Verdicts \in [Compilable \X Lists -> {"true", "false", "fails"}]
ASSUME ListsAssumption == ErrorLists \cap (NoErrors \cup {"other", "broken"}) = {}
ASSUME ConfigsAssumption == Configs \subseteq AllConfigs

VARIABLES
  config,   \* the configuration of the route
  strict,   \* settings.strict
  reply,    \* the upstream response: [status, form, errors, transforms]
  built,    \* NewGraphQLHandler has "not" been called, is "ok" or "failed"
  pc,       \* the next step of each path
  status,   \* the status evaluateGraphQLError has come to
  left,     \* the rules that are not tried yet
  answer    \* the status of the answer, 0 before there is one

vars == <<config, strict, reply, built, pc, status, left, answer>>

-----------------------------------------------------------------------------
Paths == {"handle", "stream"}

(* A JSON document, one followed by more text, no JSON (with an error list  *)
(* that is JSON or not), or a body that breaks off while it is read.        *)
Forms == {"valid", "trailing", "malformed", "malformedErrors", "unreadable"}

(* What jsonparser.Get finds under "errors"; a valid document is never      *)
(* "broken".  Whether the template applies depends on the document.         *)
Replies ==
  {r \in [ status : Statuses, form : Forms,
           errors : NoErrors \cup Lists \cup {"other", "broken"},
           transforms : BOOLEAN ] :
     /\ r.errors = "broken" => r.form \in {"malformed", "malformedErrors"}
     /\ r.form = "malformedErrors" => r.errors \in Lists}

TypeOK ==
  /\ config \in Configs
  /\ strict \in BOOLEAN
  /\ reply \in Replies
  /\ built \in {"not", "ok", "failed"}
  /\ pc \in [Paths -> {"idle", "start", "rules", "judged", "transform", "done"}]
  /\ status \in [Paths -> Int]
  /\ left \in [Paths -> SUBSET DOMAIN config.rules]
  /\ answer \in [Paths -> Int]

Init ==
  /\ config \in Configs
  /\ strict \in BOOLEAN
  /\ reply \in Replies
  /\ built = "not"
  /\ pc = [p \in Paths |-> "idle"]
  /\ status = [p \in Paths |-> 0]
  /\ left = [p \in Paths |-> {}]
  /\ answer = [p \in Paths |-> 0]

-----------------------------------------------------------------------------
(* customResponse is nil when nothing is configured. *)
Custom == config.code # NoCode \/ DOMAIN config.rules # {} \/ config.body

CodeSet == config.code # NoCode /\ config.code >= 200

Unusable_AnyKey(k) ==
  config.rules[k] = {} \/ ~ config.rules[k] \subseteq Compilable

Unusable(k) ==
  \/ StatusOf[k] = NotANumber
  \/ config.rules[k] = {}
  \/ ~ config.rules[k] \subseteq Compilable

Rejected ==
  Custom /\ (config.contentType = "other" \/ \E k \in DOMAIN config.rules : Unusable(k))

(* newProxyCustomGraphQLResponse, when the client is built ... *)
Configure ==
  /\ built = "not"
  /\ ~Rejected
  /\ built' = "ok"
  /\ pc' = [p \in Paths |-> "start"]
  /\ UNCHANGED <<config, strict, reply, status, left, answer>>

(* ... which fails for the first rule or content type that is unusable. *)
ConfigureFails ==
  /\ built = "not"
  /\ Rejected
  /\ built' = "failed"
  /\ UNCHANGED <<config, strict, reply, pc, status, left, answer>>

-----------------------------------------------------------------------------
Goto(p, step) ==
  /\ pc' = [pc EXCEPT ![p] = step]
  /\ UNCHANGED <<config, strict, reply, built, answer>>

Answer(p, code) ==
  /\ pc' = [pc EXCEPT ![p] = "done"]
  /\ answer' = [answer EXCEPT ![p] = code]
  /\ UNCHANGED <<config, strict, reply, built>>

Judge(p, code) ==
  /\ status' = [status EXCEPT ![p] = code]
  /\ left' = [left EXCEPT ![p] = {}]
  /\ Goto(p, "judged")

Keep == UNCHANGED <<status, left>>

(* json.Decoder stops behind the first value, json.Unmarshal does not.      *)
Decodes == reply.form \in {"valid", "trailing"}
Unmarshals == reply.form = "valid"

(* Handle looks at the errors only if some status is configured for them.   *)
Evaluates == CodeSet \/ DOMAIN config.rules # {}

HandleDecode ==
  /\ pc["handle"] = "start"
  /\ ~Evaluates
  /\ Keep
  /\ \/ ~Decodes /\ Answer("handle", 500)
     \/ Decodes /\ ~Custom /\ Answer("handle", reply.status)
     \/ Decodes /\ Custom /\ Goto("handle", "transform")

(* Stream without a configuration copies the body, *)
StreamCopy ==
  /\ pc["stream"] = "start"
  /\ ~Custom /\ ~strict
  /\ Answer("stream", reply.status)
  /\ Keep

(* ... but in strict mode only after json.Valid. *)
StreamValid ==
  /\ pc["stream"] = "start"
  /\ ~Custom /\ strict
  /\ Answer("stream", IF Unmarshals THEN reply.status ELSE 500)
  /\ Keep

-----------------------------------------------------------------------------
(* evaluateGraphQLError, called by Stream whatever is configured.          *)

Default == IF CodeSet THEN config.code ELSE 200

(* An expression that fails is passed over. *)
Applies(k) == \E e \in config.rules[k] : Verdicts[<<e, reply.errors>>] = "true"

ReadErrors(p) ==
  /\ pc[p] = "start"
  /\ Custom
  /\ p = "handle" => Evaluates
  /\ \/ /\ reply.form = "unreadable" \/ reply.errors \in {"broken", "other"}
        /\ Answer(p, 500) /\ Keep
     \/ /\ reply.form # "unreadable" /\ reply.errors \in NoErrors
        /\ Judge(p, 200)
     \/ /\ reply.form # "unreadable" /\ reply.errors \in Lists
        /\ DOMAIN config.rules = {}
        /\ Judge(p, Default)
     \/ /\ reply.form = "malformedErrors" /\ DOMAIN config.rules # {}
        /\ Answer(p, 500) /\ Keep
     \/ /\ reply.form \notin {"unreadable", "malformedErrors"} /\ reply.errors \in Lists
        /\ DOMAIN config.rules # {}
        /\ status' = [status EXCEPT ![p] = Default]
        /\ left' = [left EXCEPT ![p] = DOMAIN config.rules]
        /\ Goto(p, "rules")

IsNext(p, k) == k \in left[p] /\ \A l \in left[p] : k <= l

TryRule_AnyOrder(p) ==
  /\ pc[p] = "rules"
  /\ \E k \in left[p] :
       \/ Applies(k) /\ Judge(p, StatusOf[k])
       \/ /\ ~Applies(k)
          /\ left' = [left EXCEPT ![p] = @ \ {k}]
          /\ UNCHANGED status
          /\ Goto(p, "rules")

(* One rule, in the order of the keys: the first that applies wins.         *)
TryRule(p) ==
  /\ pc[p] = "rules"
  /\ \E k \in left[p] :
       /\ IsNext(p, k)
       /\ \/ Applies(k) /\ Judge(p, StatusOf[k])
          \/ /\ ~Applies(k)
             /\ left' = [left EXCEPT ![p] = @ \ {k}]
             /\ UNCHANGED status
             /\ Goto(p, "rules")

NoRuleApplies(p) ==
  /\ pc[p] = "rules"
  /\ left[p] = {}
  /\ Judge(p, status[p])

-----------------------------------------------------------------------------
(* handleTransformResponse answers an error status with the decoded body,   *)
(* and goes on with the decoded body otherwise.                             *)
HandleJudged ==
  /\ pc["handle"] = "judged"
  /\ Keep
  /\ \/ ~Unmarshals /\ Answer("handle", 500)
     \/ Unmarshals /\ status["handle"] >= 400 /\ Answer("handle", status["handle"])
     \/ Unmarshals /\ status["handle"] < 400 /\ Goto("handle", "transform")

StreamJudged_Unchecked ==
  /\ pc["stream"] = "judged"
  /\ Keep
  /\ \/ status["stream"] >= 400 /\ Answer("stream", status["stream"])
     \/ status["stream"] < 400 /\ ~config.body /\ Answer("stream", reply.status)
     \/ status["stream"] < 400 /\ config.body /\ Goto("stream", "transform")

(* writeTransformResponse writes the raw body unless there is a template.   *)
StreamJudged ==
  /\ pc["stream"] = "judged"
  /\ Keep
  /\ \/ status["stream"] >= 400 /\ Answer("stream", status["stream"])
     \/ status["stream"] < 400 /\ ~config.body /\ Answer("stream", reply.status)
     \/ status["stream"] < 400 /\ config.body /\ ~Unmarshals /\ Answer("stream", 500)
     \/ status["stream"] < 400 /\ config.body /\ Unmarshals /\ Goto("stream", "transform")

(* customResponse.Body.Transform; the status line of Stream is sent after   *)
(* it, so that a failure still decides the status.                          *)
Transform(p) ==
  /\ pc[p] = "transform"
  /\ Answer(p, IF config.body /\ ~reply.transforms THEN 500 ELSE reply.status)
  /\ Keep

Next ==
  \/ Configure \/ ConfigureFails
  \/ HandleDecode \/ StreamCopy \/ StreamValid
  \/ \E p \in Paths : ReadErrors(p) \/ TryRule(p) \/ NoRuleApplies(p) \/ Transform(p)
  \/ HandleJudged \/ StreamJudged

Spec == Init /\ [][Next]_vars

-----------------------------------------------------------------------------
(* The status of a valid document, stated without the steps that find it.   *)

Matching ==
  {k \in DOMAIN config.rules :
     \E e \in config.rules[k] : Verdicts[<<e, reply.errors>>] = "true"}

Chosen ==
  IF Matching = {} THEN Default
  ELSE StatusOf[CHOOSE k \in Matching : \A l \in Matching : k <= l]

Expected ==
  IF reply.errors = "other" THEN 500
  ELSE IF reply.errors \in Lists /\ Chosen >= 400 THEN Chosen
  ELSE IF config.body /\ ~reply.transforms THEN 500
  ELSE reply.status

(* Whichever path serves a valid document, the answer has the status of the *)
(* first rule that applies to its errors, else the default code, else that  *)
(* of the upstream: an expression that fails does not stop the search, a    *)
(* status below 400 is no error, and a document without errors is never     *)
(* mapped (response.go:38-339).  Only where "errors" is no list and no      *)
(* status is configured do the paths differ.                                *)
ErrorsDecideTheStatus ==
  \A p \in Paths :
    pc[p] = "done" /\ reply.form = "valid" /\ (reply.errors = "other" => Evaluates) =>
      answer[p] = Expected

(* A body that is no JSON is never the source of a rewritten response, and  *)
(* Handle never returns it as a success; what Stream forwards as it is, it  *)
(* may forward unseen.                                                      *)
MalformedIsNotASuccess ==
  \A p \in Paths :
    pc[p] = "done" /\ ~Decodes /\ (p = "handle" \/ config.body) => answer[p] >= 400

(* response.go:137 "writeTransformResponse is the streaming counterpart of  *)
(* handleTransformResponse": a valid document gets the same status on both  *)
(* paths.                                                                   *)
CounterpartsAgree ==
  (\A p \in Paths : pc[p] = "done") /\ reply.form = "valid" =>
    answer["handle"] = answer["stream"]
=============================================================================
