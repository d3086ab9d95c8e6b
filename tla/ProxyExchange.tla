---------------------------- MODULE ProxyExchange ----------------------------
(***************************************************************************)
(* One request through the proxy client, from the route lookup to the last *)
(* byte of the answer, by each of its three entry points: Execute returns  *)
(* the decoded response, Stream and ServeHTTP write it to a ResponseWriter *)
(* (openapiclient/execute.go, stream.go, request.go, utils.go), through    *)
(* the REST or the GraphQL handler (handler/resthandler, graphqlhandler).  *)
(*                                                                         *)
(* The model follows what cannot be taken back: WriteHeader calls, bytes   *)
(* written, the upstream body that has to be closed.  Every check, decoder *)
(* and transformation may pass or fail; every write may fail having        *)
(* written all, some or none of its bytes.                                 *)
(***************************************************************************)
EXTENDS Naturals, Sequences

CONSTANTS
  UpstreamStatuses,   \* the status codes the remote server answers with
  MappedStatuses      \* the codes >= 400 a GraphQL error rule can choose

ASSUME StatusAssumption ==
  /\ UpstreamStatuses \subseteq 100..599
  /\ MappedStatuses \subseteq 400..599

VARIABLES
  call,       \* entry point, route and request: fixed for the exchange
  pc,         \* the next step
  sent,       \* the body the upstream request was sent with
  upstream,   \* the upstream response: [status, body, content]
  headers,    \* the arguments of the WriteHeader calls, in order
  parts,      \* where the bytes written to the ResponseWriter came from
  fault,      \* the kind of step that failed, "none" so far
  status      \* the status of the error being returned

vars == <<call, pc, sent, upstream, headers, parts, fault, status>>

-----------------------------------------------------------------------------
Calls ==
  [ api : {"Execute", "Stream", "ServeHTTP"},
    traced : BOOLEAN,                  \* the writer implements BytesWritten
    body : {"none", "json", "reader", "malformed", "form"},
    bodyRequired : BOOLEAN,            \* requestBody.required of the operation
    handler : {"rest", "graphql"},
    customRequest : BOOLEAN,           \* the route rewrites the request
    customResponse : BOOLEAN,          \* the route rewrites the response
    strict : BOOLEAN ]                 \* settings.strict

(* Callers of Execute and Stream pass a Go value or a reader, ServeHTTP     *)
(* receives bytes; a GraphQL request is always built by the handler.        *)
PossibleCalls ==
  {c \in Calls :
     /\ c.body \in (IF c.api = "ServeHTTP" THEN {"none", "json", "malformed", "form"}
                                         ELSE {"none", "json", "reader"})
     /\ c.api = "Execute" => ~c.traced
     /\ c.handler = "graphql" => c.customRequest}

NoResponse == [status |-> 0, body |-> "none", content |-> "none"]

Responses ==
  [status : UpstreamStatuses, body : {"none", "open", "closed"},
   content : {"json", "xml", "other"}]

Steps == {"route", "parse", "validate", "prepare", "send", "respond",
          "copy", "commit", "write", "answer", "encode", "fallback", "done"}

Sources == {"upstream", "error", "fallback"}

TypeOK ==
  /\ call \in Calls
  /\ pc \in Steps
  /\ sent \in {"unsent", "nothing", "built", "body"}
  /\ \/ upstream = NoResponse
     \/ /\ upstream.body \in {"none", "open", "closed"}
        /\ upstream.content \in {"json", "xml", "other"}
        /\ upstream.status \in UpstreamStatuses \cup MappedStatuses
  /\ headers \in Seq(100..599)
  /\ parts \in Seq(Sources)
  /\ fault \in {"none", "rejected", "network", "decode", "io"}
  /\ status \in 0..599

Streaming == call.api # "Execute"
Success(code) == code \in 200..299

Init ==
  /\ call \in PossibleCalls
  /\ pc = "route"
  /\ sent = "unsent"
  /\ upstream = NoResponse
  /\ headers = <<>>
  /\ parts = <<>>
  /\ fault = "none"
  /\ status = 0

-----------------------------------------------------------------------------
Fail_NoStatus(kind, code) ==
  /\ fault' = kind
  /\ UNCHANGED status
  /\ pc' = IF Streaming THEN "answer" ELSE "done"

(* A failed step: Execute returns the error of handleError, the streaming   *)
(* entry points pass it to writeErrorResponse.                              *)
Fail(kind, code) ==
  /\ fault' = kind
  /\ status' = code
  /\ pc' = IF Streaming THEN "answer" ELSE "done"

Proceed(to) ==
  /\ pc' = to
  /\ UNCHANGED <<fault, status>>

WriteHeader(code) == headers' = Append(headers, code)

Close(response) == [response EXCEPT !.body = IF @ = "open" THEN "closed" ELSE @]

(* writer.Write, io.Copy or an encoder on the writer: all, some or no bytes *)
(* of source are out, and only in the first case without an error.          *)
Written(source, complete) ==
  \/ /\ complete
     /\ parts' = Append(parts, source)
  \/ /\ ~complete
     /\ parts' \in {parts, Append(parts, source)}

-----------------------------------------------------------------------------
(* findRoute: not found, a path parameter that does not decode, or a route. *)
FindRoute ==
  /\ pc = "route"
  /\ \/ Proceed(IF call.api = "ServeHTTP" THEN "parse" ELSE "validate")
     \/ Fail("rejected", 404)
     \/ Fail("rejected", 400)
  /\ UNCHANGED <<call, sent, upstream, headers, parts>>

(* parseHTTPRequestBody, of ServeHTTP only. *)
ParseBody ==
  /\ pc = "parse"
  /\ CASE call.body = "none" /\ call.bodyRequired -> Fail("rejected", 400)
       [] call.body = "none" /\ ~call.bodyRequired -> Proceed("validate")
       [] call.body = "form" -> Fail("rejected", 415)
       [] call.body = "malformed" -> Fail("rejected", 400)
       [] call.body = "json" -> Proceed("validate")
  /\ UNCHANGED <<call, sent, upstream, headers, parts>>

(* validateRequest: parameters, body schema and cookies. *)
Validate ==
  /\ pc = "validate"
  /\ Proceed("prepare") \/ Fail("rejected", 400)
  /\ UNCHANGED <<call, sent, upstream, headers, parts>>

PreparedBody ==
  IF call.handler = "graphql" \/ call.customRequest THEN "built"
  ELSE IF call.body = "reader" THEN "body"
  ELSE "nothing"

(* prepareRequest: a plain REST route takes over a reader and no other body *)
(* and cannot fail; a rewritten request is evaluated and encoded.           *)
Prepare ==
  /\ pc = "prepare"
  /\ \/ sent' = PreparedBody /\ Proceed("send")
     \/ call.customRequest /\ Fail("rejected", 400) /\ UNCHANGED sent
  /\ UNCHANGED <<call, upstream, headers, parts>>

(* req.Execute: a response with or without a body, or no response.          *)
Send ==
  /\ pc = "send"
  /\ \/ /\ upstream' \in {r \in Responses : r.body # "closed"}
        /\ Proceed("respond")
     \/ Fail("network", 500) /\ UNCHANGED upstream
  /\ UNCHANGED <<call, sent, headers, parts>>

-----------------------------------------------------------------------------
(* The response handlers.                                                  *)

(* GraphQLHandler.handleRequest turns an upstream error and an empty body   *)
(* into errors for Handle and Stream alike.                                 *)
GraphQLRejected ==
  call.handler = "graphql" /\ (upstream.status >= 400 \/ upstream.body = "none")

RejectGraphQLResponse_LeavesOpen ==
  /\ pc = "respond"
  /\ GraphQLRejected
  /\ Fail("rejected", IF upstream.status >= 400 THEN upstream.status ELSE 500)
  /\ UNCHANGED <<call, sent, upstream, headers, parts>>

RejectGraphQLResponse ==
  /\ pc = "respond"
  /\ GraphQLRejected
  /\ upstream' = Close(upstream)
  /\ Fail("rejected", IF upstream.status >= 400 THEN upstream.status ELSE 500)
  /\ UNCHANGED <<call, sent, headers, parts>>

(* Execute: decodeRawResponse, transformResponse or GraphQL's Handle.  All  *)
(* close the body whether they decode it or not.                            *)
DecodeResponse ==
  /\ pc = "respond"
  /\ ~GraphQLRejected
  /\ ~Streaming
  /\ upstream' = Close(upstream)
  /\ \/ Proceed("done")
     \/ Fail("decode", 500)
     \/ /\ call.handler = "graphql" /\ call.customResponse
        /\ \E code \in MappedStatuses : Fail("decode", code)
  /\ UNCHANGED <<call, sent, headers, parts>>

(* The response is written as it is: no rewrite is configured, or the REST  *)
(* upstream did not succeed.                                                *)
Raw == IF call.handler = "rest"
         THEN ~call.customResponse \/ ~Success(upstream.status)
         ELSE ~call.customResponse

(* ... and copied without being read first: nothing to validate or convert. *)
Direct ==
  /\ Raw
  /\ IF call.handler = "rest"
       THEN upstream.content = "other" \/ (upstream.content = "json" /\ ~call.strict)
       ELSE ~call.strict

(* writeRawResponse without a body. *)
WriteEmptyResponse ==
  /\ pc = "respond"
  /\ ~GraphQLRejected
  /\ Streaming /\ Raw /\ upstream.body = "none"
  /\ WriteHeader(upstream.status)
  /\ Proceed("done")
  /\ UNCHANGED <<call, sent, upstream, parts>>

(* streamResponseDirectly, and GraphQL's Stream: the header goes out first. *)
StartCopy ==
  /\ pc = "respond"
  /\ ~GraphQLRejected
  /\ Streaming /\ Direct /\ upstream.body = "open"
  /\ WriteHeader(upstream.status)
  /\ Proceed("copy")
  /\ UNCHANGED <<call, sent, upstream, parts>>

(* io.Copy, which fails when either end does, and the body is closed.       *)
Copy ==
  /\ pc = "copy"
  /\ upstream' = Close(upstream)
  /\ \/ Written("upstream", TRUE) /\ Proceed("done")
     \/ Written("upstream", FALSE) /\ Fail("io", 500)
  /\ UNCHANGED <<call, sent, headers>>

BufferResponse_CommitsFirst ==
  /\ pc = "respond"
  /\ ~GraphQLRejected
  /\ Streaming /\ ~Direct /\ (Raw => upstream.body = "open")
  /\ WriteHeader(upstream.status)
  /\ upstream' = Close(upstream)
  /\ Proceed("write") \/ Fail("decode", 500)
  /\ UNCHANGED <<call, sent, parts>>

(* The body is read to its end, closed, decoded, validated and rewritten    *)
(* before anything is written: streamValidatedJSONResponse,                 *)
(* decodeAndStreamJSON, transformResponse, GraphQL's strict Stream and      *)
(* writeTransformResponse, where errors in the body can change the status.  *)
BufferResponse ==
  /\ pc = "respond"
  /\ ~GraphQLRejected
  /\ Streaming /\ ~Direct /\ (Raw => upstream.body = "open")
  /\ \/ Proceed("commit") /\ upstream' = Close(upstream)
     \/ Fail("decode", 500) /\ upstream' = Close(upstream)
     \/ /\ call.handler = "graphql" /\ call.customResponse
        /\ \E code \in MappedStatuses :
             upstream' = [Close(upstream) EXCEPT !.status = code]
        /\ Proceed("commit")
  /\ UNCHANGED <<call, sent, headers, parts>>

(* writer.WriteHeader(resp.StatusCode) once the body is known to be good.   *)
Commit ==
  /\ pc = "commit"
  /\ WriteHeader(upstream.status)
  /\ Proceed("write")
  /\ UNCHANGED <<call, sent, upstream, parts>>

WriteBody_IgnoresError ==
  /\ pc = "write"
  /\ \E complete \in BOOLEAN : Written("upstream", complete)
  /\ Proceed("done")
  /\ UNCHANGED <<call, sent, upstream, headers>>

(* The buffered body is encoded to the writer. *)
WriteBody ==
  /\ pc = "write"
  /\ \/ Written("upstream", TRUE) /\ Proceed("done")
     \/ Written("upstream", FALSE) /\ Fail("io", 500)
  /\ UNCHANGED <<call, sent, upstream, headers>>

-----------------------------------------------------------------------------
(* writeErrorResponse                                                      *)

AlreadyWritten == call.traced /\ parts # <<>>

AnswerError_NeverStops ==
  /\ pc = "answer"
  /\ WriteHeader(status)
  /\ Proceed("encode")
  /\ UNCHANGED <<call, sent, upstream, parts>>

AnswerError_Forgotten ==
  /\ pc = "answer"
  /\ Proceed("done")
  /\ UNCHANGED <<call, sent, upstream, headers, parts>>

(* A writer that tells that it has written bytes is left alone.             *)
AnswerError ==
  /\ pc = "answer"
  /\ IF AlreadyWritten
       THEN Proceed("done") /\ UNCHANGED headers
       ELSE WriteHeader(status) /\ Proceed("encode")
  /\ UNCHANGED <<call, sent, upstream, parts>>

(* json.NewEncoder(writer).Encode(err) *)
EncodeError ==
  /\ pc = "encode"
  /\ \/ Written("error", TRUE) /\ Proceed("done")
     \/ Written("error", FALSE) /\ Proceed("fallback")
  /\ UNCHANGED <<call, sent, upstream, headers>>

(* The hand-written error body, when the encoded one failed. *)
WriteFallback ==
  /\ pc = "fallback"
  /\ \/ AlreadyWritten /\ UNCHANGED parts
     \/ ~AlreadyWritten /\ \E complete \in BOOLEAN : Written("fallback", complete)
  /\ Proceed("done")
  /\ UNCHANGED <<call, sent, upstream, headers>>

-----------------------------------------------------------------------------
Next ==
  \/ FindRoute \/ ParseBody \/ Validate \/ Prepare \/ Send
  \/ RejectGraphQLResponse \/ DecodeResponse
  \/ WriteEmptyResponse \/ StartCopy \/ Copy
  \/ BufferResponse \/ Commit \/ WriteBody
  \/ AnswerError \/ EncodeError \/ WriteFallback

Spec == Init /\ [][Next]_vars

-----------------------------------------------------------------------------
(* When an exchange is over nobody holds the upstream body: it is closed on *)
(* every path of both handlers, failed decodes and broken copies included,  *)
(* or the connection to the remote server would never be reused.            *)
UpstreamBodyClosed == pc = "done" => upstream.body # "open"

(* A streaming call never ends silently: whatever fails, somebody has sent  *)
(* a status line (an empty 200 of net/http would tell the client it worked). *)
NeverSilent == pc = "done" /\ Streaming => headers # <<>>

(* What fails before the response is started, including every validation,   *)
(* decoding and rewriting of the upstream response, is answered under its   *)
(* own error status, alone and without a byte of the upstream body.         *)
ChecksPrecedeTheResponse ==
  pc = "done" /\ Streaming /\ fault \in {"rejected", "network", "decode"} =>
    /\ headers = <<status>>
    /\ status >= 400
    /\ \A i \in DOMAIN parts : parts[i] # "upstream"

(* A streaming call without an error has sent one status line, that of the  *)
(* (possibly mapped) upstream response, and the whole body if there is one. *)
SuccessIsTheUpstreamResponse ==
  pc = "done" /\ Streaming /\ fault = "none" =>
    /\ headers = <<upstream.status>>
    /\ parts = <<"upstream">> \/ (parts = <<>> /\ upstream.body = "none")

(* With a writer that counts its bytes the body comes from one source: an   *)
(* error is not appended to a response that is partly out.                  *)
TracedBodyIsNotMixed ==
  call.traced => \A i, j \in DOMAIN parts : parts[i] = parts[j]

(* resthandler/handler.go:124 "Stream resolves the HTTP request and proxies *)
(* that request to the remote server": a request body that was accepted     *)
(* reaches the upstream, as it is or rewritten.                             *)
AcceptedBodyIsProxied ==
  sent # "unsent" /\ call.api = "ServeHTTP" /\ call.body = "json" => sent # "nothing"
=============================================================================
