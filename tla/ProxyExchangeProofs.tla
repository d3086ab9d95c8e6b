-------------------------- MODULE ProxyExchangeProofs --------------------------
(***************************************************************************)
(* What a client sees of an exchange and what the exchange holds at its    *)
(* end, for any statuses of the remote server and of the GraphQL rules.    *)
(***************************************************************************)
EXTENDS ProxyExchange, TLAPS

Early == {"route", "parse", "validate", "prepare", "send"}
Answering == {"answer", "encode", "fallback"}
EarlyFaults == {"rejected", "network", "decode"}

(* The types of what decides the next step, and of what has been written.   *)
ControlInv ==
  /\ call \in PossibleCalls
  /\ pc \in Steps
  /\ pc = "parse" => call.api = "ServeHTTP"
  /\ sent \in {"unsent", "nothing", "built", "body"}
  /\ fault \in {"none", "rejected", "network", "decode", "io"}
  /\ status \in 0..599

OutputInv == headers \in Seq(100..599) /\ parts \in Seq(Sources)

(* The upstream body is open between the answer of the remote server and    *)
(* the end of its decoding or copying only.                                 *)
Answers ==
  [status : UpstreamStatuses \cup MappedStatuses, body : {"none", "open", "closed"},
   content : {"json", "xml", "other"}]

BodyInv ==
  /\ upstream = NoResponse \/ upstream \in Answers
  /\ pc \in {"respond", "copy", "commit", "write"} => upstream \in Answers
  /\ upstream.body = "open" => pc \in {"respond", "copy"}

(* Nothing is out while a step may fail that is answered under an error     *)
(* status; a header and no byte, while the body is about to be written.     *)
StartInv ==
  /\ pc \in Early \cup {"respond", "commit", "copy", "write"} => fault = "none"
  /\ pc \in Early \cup {"respond", "commit"} => headers = <<>> /\ parts = <<>>
  /\ pc \in {"copy", "write"} => headers = <<upstream.status>> /\ parts = <<>>
  /\ pc \in Answering \cup {"copy", "commit", "write"} => Streaming

(* An error under way has a status, which is sent unless a header is out.   *)
FaultInv ==
  /\ pc \in Answering => fault # "none" /\ status >= 400
  /\ fault = "io" => headers # <<>>
  /\ Streaming /\ fault \in EarlyFaults =>
       /\ status >= 400
       /\ headers = IF pc = "answer" THEN <<>> ELSE <<status>>
       /\ pc = "answer" => parts = <<>>
       /\ \A i \in DOMAIN parts : parts[i] # "upstream"

(* A writer that counts is at most one step into an answer of an error.     *)
TracedInv ==
  call.traced =>
    /\ pc = "encode" => parts = <<>>
    /\ pc = "fallback" => parts \in {<<>>, <<"error">>}
    /\ TracedBodyIsNotMixed

IInv ==
  /\ ControlInv /\ OutputInv /\ BodyInv /\ StartInv /\ FaultInv /\ TracedInv
  /\ SuccessIsTheUpstreamResponse

-----------------------------------------------------------------------------
(* A body is parsed for ServeHTTP only, which takes no readers: one of the  *)
(* cases applies.                                                           *)
LEMMA ParseBodyStep ==
  ASSUME ControlInv, ParseBody
  PROVE  /\ pc = "parse"
         /\ Proceed("validate") \/ \E code \in {400, 415} : Fail("rejected", code)
         /\ UNCHANGED <<call, sent, upstream, headers, parts>>
<1>1. call.body \in {"none", "json", "malformed", "form"}
  BY DEF ControlInv, ParseBody, PossibleCalls
<1>2. CASE call.body = "none"
  <2>1. CASE call.bodyRequired
    BY <1>2, <2>1 DEF ParseBody
  <2>2. CASE ~call.bodyRequired
    BY <1>2, <2>2 DEF ParseBody
  <2>3. QED
    BY <2>1, <2>2
<1>3. CASE call.body # "none"
  BY <1>1, <1>3 DEF ParseBody
<1>4. QED
  BY <1>2, <1>3

(* The statuses of the server and of the rules are status codes.           *)
LEMMA StatusesInRange ==
  ASSUME NEW s \in UpstreamStatuses \cup MappedStatuses
  PROVE  s \in 100..599
<1>1. UpstreamStatuses \subseteq 100..599 /\ MappedStatuses \subseteq 400..599
  BY StatusAssumption
<1>2. CASE s \in UpstreamStatuses
  BY <1>1, <1>2
<1>3. CASE s \in MappedStatuses
  <2>1. s \in 400..599
    BY <1>1, <1>3
  <2>2. QED
    BY <2>1
<1>4. QED
  BY <1>2, <1>3

(* So is the status of any response under way.                             *)
LEMMA AnswerStatus ==
  ASSUME upstream \in Answers
  PROVE  upstream.status \in 100..599
<1>1. upstream.status \in UpstreamStatuses \cup MappedStatuses
  BY DEF Answers
<1>2. QED
  BY <1>1, StatusesInRange

(* A write appends one part of a known source, whole or not, or none.      *)
LEMMA WrittenParts ==
  ASSUME NEW source \in Sources, NEW complete \in BOOLEAN, OutputInv, Written(source, complete)
  PROVE  parts' \in Seq(Sources)
<1>1. parts' = parts \/ parts' = Append(parts, source)
  BY DEF Written
<1>2. QED
  BY <1>1 DEF OutputInv

(* A header sent leaves a sequence of status codes.                        *)
LEMMA SentHeader ==
  ASSUME NEW code \in 100..599, OutputInv, WriteHeader(code)
  PROVE  headers' \in Seq(100..599)
BY DEF OutputInv, WriteHeader

(* Every step sets the next step, the kind of fault and a status in range.  *)
LEMMA ControlStep ==
  ASSUME ControlInv, BodyInv, Next
  PROVE  ControlInv'
<1>1. CASE FindRoute
  BY <1>1 DEF FindRoute, Fail, Proceed, ControlInv, Steps
<1>2. CASE ParseBody
  BY <1>2, ParseBodyStep DEF Fail, Proceed, ControlInv, Steps
<1>3. CASE Validate
  BY <1>3 DEF Validate, Fail, Proceed, ControlInv, Steps
<1>4. CASE Prepare
  BY <1>4 DEF Prepare, Fail, Proceed, PreparedBody, ControlInv, Steps
<1>5. CASE Send
  BY <1>5 DEF Send, Fail, Proceed, ControlInv, Steps
<1>6. CASE RejectGraphQLResponse
  <2>1. upstream \in Answers
    BY <1>6 DEF BodyInv, RejectGraphQLResponse
  <2>2. upstream.status \in 100..599
    BY <2>1, AnswerStatus
  <2>3. \E code \in 0..599 : Fail("rejected", code)
    BY <1>6, <2>2 DEF RejectGraphQLResponse
  <2>4. QED
    BY <1>6, <2>3 DEF RejectGraphQLResponse, Fail, ControlInv, Steps
<1>7. CASE DecodeResponse
  BY <1>7, StatusAssumption DEF DecodeResponse, Fail, Proceed, ControlInv, Steps
<1>8. CASE WriteEmptyResponse
  BY <1>8 DEF WriteEmptyResponse, Proceed, ControlInv, Steps
<1>9. CASE StartCopy
  BY <1>9 DEF StartCopy, Proceed, ControlInv, Steps
<1>10. CASE Copy
  <2>1. (Proceed("done") \/ Fail("io", 500)) /\ UNCHANGED <<call, sent>>
    BY <1>10 DEF Copy
  <2>2. QED
    BY <2>1 DEF Fail, Proceed, ControlInv, Steps
<1>11. CASE BufferResponse
  BY <1>11 DEF BufferResponse, Fail, Proceed, ControlInv, Steps
<1>12. CASE Commit
  BY <1>12 DEF Commit, Proceed, ControlInv, Steps
<1>13. CASE WriteBody
  <2>1. (Proceed("done") \/ Fail("io", 500)) /\ UNCHANGED <<call, sent>>
    BY <1>13 DEF WriteBody
  <2>2. QED
    BY <2>1 DEF Fail, Proceed, ControlInv, Steps
<1>14. CASE AnswerError
  BY <1>14 DEF AnswerError, Proceed, ControlInv, Steps
<1>15. CASE EncodeError
  <2>1. (Proceed("done") \/ Proceed("fallback")) /\ UNCHANGED <<call, sent>>
    BY <1>15 DEF EncodeError
  <2>2. QED
    BY <2>1 DEF Proceed, ControlInv, Steps
<1>16. CASE WriteFallback
  BY <1>16 DEF WriteFallback, Proceed, ControlInv, Steps
<1> QED
  BY <1>1, <1>2, <1>3, <1>4, <1>5, <1>6, <1>7, <1>8, <1>9, <1>10, <1>11, <1>12, <1>13, <1>14, <1>15,
     <1>16 DEF Next

(* What is sent are statuses, and what is written is from a known source.   *)
LEMMA OutputStep ==
  ASSUME ControlInv, OutputInv, BodyInv, FaultInv, Next
  PROVE  OutputInv'
<1>1. CASE FindRoute
  BY <1>1 DEF FindRoute, OutputInv
<1>2. CASE ParseBody
  BY <1>2, ParseBodyStep DEF OutputInv
<1>3. CASE Validate
  BY <1>3 DEF Validate, OutputInv
<1>4. CASE Prepare
  BY <1>4 DEF Prepare, OutputInv
<1>5. CASE Send
  BY <1>5 DEF Send, OutputInv
<1>6. CASE RejectGraphQLResponse
  BY <1>6 DEF RejectGraphQLResponse, OutputInv
<1>7. CASE DecodeResponse
  BY <1>7 DEF DecodeResponse, OutputInv
<1>8. CASE WriteEmptyResponse
  <2>1. upstream.status \in 100..599
    BY <1>8, AnswerStatus DEF BodyInv, WriteEmptyResponse
  <2>2. QED
    BY <1>8, <2>1, SentHeader DEF OutputInv, WriteEmptyResponse
<1>9. CASE StartCopy
  <2>1. upstream.status \in 100..599
    BY <1>9, AnswerStatus DEF BodyInv, StartCopy
  <2>2. QED
    BY <1>9, <2>1, SentHeader DEF OutputInv, StartCopy
<1>10. CASE Copy
  <2>1. parts' \in Seq(Sources)
    BY <1>10, WrittenParts DEF Copy, Sources
  <2>2. QED
    BY <1>10, <2>1 DEF OutputInv, Copy
<1>11. CASE BufferResponse
  BY <1>11 DEF BufferResponse, OutputInv
<1>12. CASE Commit
  <2>1. upstream.status \in 100..599
    BY <1>12, AnswerStatus DEF BodyInv, Commit
  <2>2. QED
    BY <1>12, <2>1, SentHeader DEF OutputInv, Commit
<1>13. CASE WriteBody
  <2>1. parts' \in Seq(Sources)
    BY <1>13, WrittenParts DEF WriteBody, Sources
  <2>2. QED
    BY <1>13, <2>1 DEF OutputInv, WriteBody
<1>14. CASE AnswerError
  <2>1. status \in 100..599
    BY <1>14 DEF AnswerError, FaultInv, ControlInv, Answering
  <2>2. headers' = headers \/ WriteHeader(status)
    BY <1>14 DEF AnswerError
  <2>3. headers' \in Seq(100..599)
    BY <2>1, <2>2, SentHeader DEF OutputInv
  <2>4. QED
    BY <1>14, <2>3 DEF OutputInv, AnswerError
<1>15. CASE EncodeError
  <2>1. parts' \in Seq(Sources)
    BY <1>15, WrittenParts DEF EncodeError, Sources
  <2>2. QED
    BY <1>15, <2>1 DEF OutputInv, EncodeError
<1>16. CASE WriteFallback
  <2>1. parts' = parts \/ \E complete \in BOOLEAN : Written("fallback", complete)
    BY <1>16 DEF WriteFallback
  <2>2. parts' \in Seq(Sources)
    BY <2>1, WrittenParts DEF OutputInv, Sources
  <2>3. QED
    BY <1>16, <2>2 DEF OutputInv, WriteFallback
<1> QED
  BY <1>1, <1>2, <1>3, <1>4, <1>5, <1>6, <1>7, <1>8, <1>9, <1>10, <1>11, <1>12, <1>13, <1>14, <1>15,
     <1>16 DEF Next

(* The body is opened by Send, and closed by whatever leaves respond or copy. *)
LEMMA BodyStep ==
  ASSUME ControlInv, BodyInv, Next
  PROVE  BodyInv'
<1>1. CASE FindRoute
  BY <1>1 DEF FindRoute, Fail, Proceed, BodyInv
<1>2. CASE ParseBody
  BY <1>2, ParseBodyStep DEF Fail, Proceed, BodyInv
<1>3. CASE Validate
  BY <1>3 DEF Validate, Fail, Proceed, BodyInv
<1>4. CASE Prepare
  BY <1>4 DEF Prepare, Fail, Proceed, BodyInv
<1>5. CASE Send
  BY <1>5 DEF Send, Fail, Proceed, Responses, BodyInv, Answers
<1>6. CASE RejectGraphQLResponse
  BY <1>6 DEF RejectGraphQLResponse, Close, BodyInv, Answers
<1>7. CASE DecodeResponse
  BY <1>7 DEF DecodeResponse, Close, BodyInv, Answers
<1>8. CASE WriteEmptyResponse
  BY <1>8 DEF WriteEmptyResponse, BodyInv
<1>9. CASE StartCopy
  BY <1>9 DEF StartCopy, Proceed, BodyInv
<1>10. CASE Copy
  BY <1>10 DEF Copy, Close, BodyInv, Answers
<1>11. CASE BufferResponse
  BY <1>11 DEF BufferResponse, Close, BodyInv, Answers
<1>12. CASE Commit
  BY <1>12 DEF Commit, BodyInv
<1>13. CASE WriteBody
  BY <1>13 DEF WriteBody, BodyInv
<1>14. CASE AnswerError
  BY <1>14 DEF AnswerError, Proceed, BodyInv
<1>15. CASE EncodeError
  BY <1>15 DEF EncodeError, Proceed, BodyInv
<1>16. CASE WriteFallback
  BY <1>16 DEF WriteFallback, Proceed, BodyInv
<1> QED
  BY <1>1, <1>2, <1>3, <1>4, <1>5, <1>6, <1>7, <1>8, <1>9, <1>10, <1>11, <1>12, <1>13, <1>14, <1>15,
     <1>16 DEF Next

(* A header goes out by the steps that start a response, and only by them.  *)
LEMMA StartStep ==
  ASSUME ControlInv, BodyInv, StartInv, Next
  PROVE  StartInv'
<1>1. CASE FindRoute
  BY <1>1 DEF FindRoute, Fail, Proceed, StartInv, Early, Answering, Streaming
<1>2. CASE ParseBody
  BY <1>2, ParseBodyStep DEF Fail, Proceed, StartInv, Early, Answering, Streaming
<1>3. CASE Validate
  BY <1>3 DEF Validate, Fail, Proceed, StartInv, Early, Answering, Streaming
<1>4. CASE Prepare
  BY <1>4 DEF Prepare, Fail, Proceed, StartInv, Early, Answering, Streaming
<1>5. CASE Send
  BY <1>5 DEF Send, Fail, Proceed, StartInv, Early, Answering, Streaming
<1>6. CASE RejectGraphQLResponse
  BY <1>6 DEF RejectGraphQLResponse, Fail, StartInv, Early, Answering, Streaming
<1>7. CASE DecodeResponse
  BY <1>7 DEF DecodeResponse, Fail, Proceed, StartInv, Early, Answering
<1>8. CASE WriteEmptyResponse
  BY <1>8 DEF WriteEmptyResponse, Proceed, StartInv, Early, Streaming
<1>9. CASE StartCopy
  BY <1>9 DEF StartCopy, WriteHeader, Proceed, StartInv, Early, Streaming
<1>10. CASE Copy
  BY <1>10 DEF Copy, Fail, Proceed, StartInv, Early, Streaming
<1>11. CASE BufferResponse
  BY <1>11 DEF BufferResponse, Fail, Proceed, StartInv, Early, Streaming
<1>12. CASE Commit
  BY <1>12 DEF Commit, WriteHeader, Proceed, StartInv, Early, Streaming
<1>13. CASE WriteBody
  BY <1>13 DEF WriteBody, Fail, Proceed, StartInv, Early, Streaming
<1>14. CASE AnswerError
  BY <1>14 DEF AnswerError, Proceed, StartInv, Early, Answering, Streaming
<1>15. CASE EncodeError
  BY <1>15 DEF EncodeError, Proceed, StartInv, Early, Answering, Streaming
<1>16. CASE WriteFallback
  BY <1>16 DEF WriteFallback, Proceed, StartInv, Early, Answering
<1> QED
  BY <1>1, <1>2, <1>3, <1>4, <1>5, <1>6, <1>7, <1>8, <1>9, <1>10, <1>11, <1>12, <1>13, <1>14, <1>15,
     <1>16 DEF Next

(* A fault before the response leaves it to the error answer alone.         *)
LEMMA FaultStep ==
  ASSUME ControlInv, OutputInv, BodyInv, StartInv, FaultInv, Next
  PROVE  FaultInv'
<1>1. CASE FindRoute
  BY <1>1 DEF FindRoute, Fail, Proceed, StartInv, FaultInv, Early, Answering, Streaming
<1>2. CASE ParseBody
  BY <1>2, ParseBodyStep DEF Fail, Proceed, StartInv, FaultInv, Early, Answering, Streaming
<1>3. CASE Validate
  BY <1>3 DEF Validate, Fail, Proceed, StartInv, FaultInv, Early, Answering, Streaming
<1>4. CASE Prepare
  BY <1>4 DEF Prepare, Fail, Proceed, StartInv, FaultInv, Early, Answering, Streaming
<1>5. CASE Send
  BY <1>5 DEF Send, Fail, Proceed, StartInv, FaultInv, Early, Answering, Streaming
<1>6. CASE RejectGraphQLResponse
  BY <1>6 DEF RejectGraphQLResponse, Fail, StartInv, FaultInv, Streaming
<1>7. CASE DecodeResponse
  BY <1>7 DEF DecodeResponse, Fail, Proceed, FaultInv, Answering, Streaming
<1>8. CASE WriteEmptyResponse
  BY <1>8 DEF WriteEmptyResponse, Proceed, StartInv, FaultInv, Answering
<1>9. CASE StartCopy
  BY <1>9 DEF StartCopy, Proceed, StartInv, FaultInv, Answering
<1>10. CASE Copy
  <2>1. headers = <<upstream.status>> /\ fault = "none" /\ headers' = headers
    BY <1>10 DEF Copy, StartInv
  <2>2. headers' # <<>>
    BY <2>1
  <2>3. Proceed("done") \/ Fail("io", 500)
    BY <1>10 DEF Copy
  <2>4. fault' \in {"none", "io"} /\ (pc' \in Answering => fault' # "none" /\ status' >= 400)
    BY <2>1, <2>3 DEF Proceed, Fail, Answering
  <2>5. QED
    BY <2>2, <2>4 DEF FaultInv, EarlyFaults
<1>11. CASE BufferResponse
  <2>1. headers = <<>> /\ parts = <<>> /\ UNCHANGED <<headers, parts>> /\ fault = "none"
    BY <1>11 DEF BufferResponse, StartInv
  <2>2. Proceed("commit") \/ Fail("decode", 500)
    BY <1>11 DEF BufferResponse
  <2>3. CASE Proceed("commit")
    BY <2>1, <2>3 DEF Proceed, FaultInv, Answering, EarlyFaults
  <2>4. CASE Fail("decode", 500)
    <3>1. Streaming' /\ pc' = "answer" /\ fault' = "decode" /\ status' = 500
      BY <1>11, <2>4 DEF BufferResponse, Fail, Streaming
    <3>2. QED
      BY <2>1, <3>1 DEF FaultInv
  <2>5. QED
    BY <2>2, <2>3, <2>4
<1>12. CASE Commit
  BY <1>12 DEF Commit, Proceed, StartInv, FaultInv, Answering
<1>13. CASE WriteBody
  BY <1>13 DEF WriteBody, Written, Fail, Proceed, StartInv, FaultInv, Answering, EarlyFaults
<1>14. CASE AnswerError
  <2>1. /\ fault # "none" /\ status >= 400 /\ Streaming
        /\ Streaming' = Streaming /\ UNCHANGED <<fault, status, parts>>
    BY <1>14 DEF AnswerError, FaultInv, StartInv, Answering, Streaming, Proceed
  <2>2. CASE AlreadyWritten
    <3>1. pc' = "done" /\ headers' = headers
      BY <1>14, <2>2 DEF AnswerError, Proceed
    <3>2. fault \notin EarlyFaults
      BY <1>14, <2>1, <2>2 DEF AnswerError, FaultInv, AlreadyWritten
    <3>3. QED
      BY <2>1, <3>1, <3>2 DEF FaultInv
  <2>3. CASE ~AlreadyWritten
    <3>1. pc' = "encode" /\ headers' = Append(headers, status)
      BY <1>14, <2>3 DEF AnswerError, Proceed, WriteHeader
    <3>2. fault \in EarlyFaults => headers' = <<status>> /\ parts = <<>>
      BY <1>14, <2>1, <3>1 DEF AnswerError, FaultInv
    <3>3. headers' # <<>>
      BY <3>1
    <3>4. QED
      BY <2>1, <3>1, <3>2, <3>3 DEF FaultInv
  <2>4. QED
    BY <2>2, <2>3
<1>15. CASE EncodeError
  BY <1>15 DEF EncodeError, Written, Proceed, FaultInv, Answering, Streaming
<1>16. CASE WriteFallback
  BY <1>16 DEF WriteFallback, Written, Proceed, FaultInv, Answering, Streaming
<1> QED
  BY <1>1, <1>2, <1>3, <1>4, <1>5, <1>6, <1>7, <1>8, <1>9, <1>10, <1>11, <1>12, <1>13, <1>14, <1>15,
     <1>16 DEF Next

(* An error is written by a counting writer only where nothing else is.     *)
LEMMA TracedStep ==
  ASSUME ControlInv, StartInv, FaultInv, TracedInv, Next
  PROVE  TracedInv'
<1>1. CASE FindRoute
  BY <1>1 DEF FindRoute, StartInv, TracedInv, TracedBodyIsNotMixed, Early
<1>2. CASE ParseBody
  BY <1>2, ParseBodyStep DEF StartInv, TracedInv, TracedBodyIsNotMixed, Early
<1>3. CASE Validate
  BY <1>3 DEF Validate, StartInv, TracedInv, TracedBodyIsNotMixed, Early
<1>4. CASE Prepare
  BY <1>4 DEF Prepare, StartInv, TracedInv, TracedBodyIsNotMixed, Early
<1>5. CASE Send
  BY <1>5 DEF Send, StartInv, TracedInv, TracedBodyIsNotMixed, Early
<1>6. CASE RejectGraphQLResponse
  BY <1>6 DEF RejectGraphQLResponse, StartInv, TracedInv, TracedBodyIsNotMixed
<1>7. CASE DecodeResponse
  BY <1>7 DEF DecodeResponse, StartInv, TracedInv, TracedBodyIsNotMixed
<1>8. CASE WriteEmptyResponse
  BY <1>8 DEF WriteEmptyResponse, StartInv, TracedInv, TracedBodyIsNotMixed
<1>9. CASE StartCopy
  BY <1>9 DEF StartCopy, StartInv, TracedInv, TracedBodyIsNotMixed
<1>10. CASE Copy
  BY <1>10 DEF Copy, Written, Fail, Proceed, StartInv, TracedInv, TracedBodyIsNotMixed
<1>11. CASE BufferResponse
  BY <1>11 DEF BufferResponse, StartInv, TracedInv, TracedBodyIsNotMixed
<1>12. CASE Commit
  BY <1>12 DEF Commit, StartInv, TracedInv, TracedBodyIsNotMixed
<1>13. CASE WriteBody
  BY <1>13 DEF WriteBody, Written, Fail, Proceed, StartInv, TracedInv, TracedBodyIsNotMixed
<1>14. CASE AnswerError
  BY <1>14 DEF AnswerError, Proceed, TracedInv, TracedBodyIsNotMixed, AlreadyWritten
<1>15. CASE EncodeError
  BY <1>15 DEF EncodeError, Written, Proceed, TracedInv, TracedBodyIsNotMixed
<1>16. CASE WriteFallback
  BY <1>16 DEF WriteFallback, Written, Proceed, TracedInv, TracedBodyIsNotMixed, AlreadyWritten
<1> QED
  BY <1>1, <1>2, <1>3, <1>4, <1>5, <1>6, <1>7, <1>8, <1>9, <1>10, <1>11, <1>12, <1>13, <1>14, <1>15,
     <1>16 DEF Next

(* The end without a fault is reached by a whole write or an empty body.    *)
LEMMA SuccessStep ==
  ASSUME ControlInv, BodyInv, StartInv, FaultInv, SuccessIsTheUpstreamResponse, Next
  PROVE  SuccessIsTheUpstreamResponse'
<1>1. CASE FindRoute
  BY <1>1 DEF FindRoute, Fail, Proceed, SuccessIsTheUpstreamResponse
<1>2. CASE ParseBody
  BY <1>2, ParseBodyStep DEF Fail, Proceed, SuccessIsTheUpstreamResponse
<1>3. CASE Validate
  BY <1>3 DEF Validate, Fail, Proceed, SuccessIsTheUpstreamResponse
<1>4. CASE Prepare
  BY <1>4 DEF Prepare, Fail, Proceed, SuccessIsTheUpstreamResponse
<1>5. CASE Send
  BY <1>5 DEF Send, Fail, Proceed, SuccessIsTheUpstreamResponse
<1>6. CASE RejectGraphQLResponse
  BY <1>6 DEF RejectGraphQLResponse, Fail, SuccessIsTheUpstreamResponse
<1>7. CASE DecodeResponse
  BY <1>7 DEF DecodeResponse, SuccessIsTheUpstreamResponse, Streaming
<1>8. CASE WriteEmptyResponse
  BY <1>8 DEF WriteEmptyResponse, WriteHeader, StartInv, SuccessIsTheUpstreamResponse
<1>9. CASE StartCopy
  BY <1>9 DEF StartCopy, Proceed, SuccessIsTheUpstreamResponse
<1>10. CASE Copy
  BY <1>10 DEF Copy, Close, Written, Fail, StartInv, SuccessIsTheUpstreamResponse
<1>11. CASE BufferResponse
  BY <1>11 DEF BufferResponse, Fail, Proceed, SuccessIsTheUpstreamResponse
<1>12. CASE Commit
  BY <1>12 DEF Commit, Proceed, SuccessIsTheUpstreamResponse
<1>13. CASE WriteBody
  BY <1>13 DEF WriteBody, Written, Fail, StartInv, SuccessIsTheUpstreamResponse
<1>14. CASE AnswerError
  BY <1>14 DEF AnswerError, Proceed, FaultInv, SuccessIsTheUpstreamResponse, Answering
<1>15. CASE EncodeError
  BY <1>15 DEF EncodeError, Proceed, FaultInv, SuccessIsTheUpstreamResponse, Answering
<1>16. CASE WriteFallback
  BY <1>16 DEF WriteFallback, Proceed, FaultInv, SuccessIsTheUpstreamResponse, Answering
<1> QED
  BY <1>1, <1>2, <1>3, <1>4, <1>5, <1>6, <1>7, <1>8, <1>9, <1>10, <1>11, <1>12, <1>13, <1>14, <1>15,
     <1>16 DEF Next

-----------------------------------------------------------------------------
(* The conjuncts together are inductive. *)
THEOREM Invariance == Spec => []IInv
<1>1. Init => IInv
  BY DEF Init, IInv, ControlInv, OutputInv, BodyInv, StartInv, FaultInv, TracedInv, NoResponse, Steps,
     SuccessIsTheUpstreamResponse, TracedBodyIsNotMixed, Answering, EarlyFaults
<1>2. IInv /\ [Next]_vars => IInv'
  <2>1. CASE Next
    BY <2>1, ControlStep, OutputStep, BodyStep, StartStep, FaultStep, TracedStep, SuccessStep DEF IInv
  <2>2. CASE UNCHANGED vars
    BY <2>2 DEF vars, IInv, ControlInv, OutputInv, BodyInv, StartInv, FaultInv, TracedInv, Streaming,
       SuccessIsTheUpstreamResponse, TracedBodyIsNotMixed
  <2>3. QED
    BY <2>1, <2>2
<1>3. QED
  BY <1>1, <1>2, PTL DEF Spec

(* The variables keep their types, whatever the statuses. *)
THEOREM TypeCorrect == Spec => []TypeOK
<1>1. IInv => TypeOK
  BY DEF IInv, ControlInv, OutputInv, BodyInv, Answers, TypeOK, PossibleCalls
<1>2. QED
  BY Invariance, <1>1, PTL

(* Both handlers close the upstream body on every path. *)
THEOREM BodiesAreClosed == Spec => []UpstreamBodyClosed
<1>1. IInv => UpstreamBodyClosed
  BY DEF IInv, BodyInv, UpstreamBodyClosed
<1>2. QED
  BY Invariance, <1>1, PTL

(* A streaming call sends a status line, whatever fails. *)
THEOREM AlwaysAnswered == Spec => []NeverSilent
<1>1. ASSUME IInv PROVE NeverSilent
  <2>1. SUFFICES ASSUME pc = "done", Streaming PROVE headers # <<>>
    BY DEF NeverSilent
  <2>2. CASE fault = "none"
    BY <1>1, <2>1, <2>2 DEF IInv, SuccessIsTheUpstreamResponse
  <2>3. CASE fault = "io"
    BY <1>1, <2>3 DEF IInv, FaultInv
  <2>4. CASE fault \in EarlyFaults
    BY <1>1, <2>1, <2>4 DEF IInv, FaultInv
  <2>5. QED
    BY <1>1, <2>2, <2>3, <2>4 DEF IInv, ControlInv, EarlyFaults
<1>2. QED
  BY Invariance, <1>1, PTL

(* A failed check is answered alone, under its own error status. *)
THEOREM ChecksComeFirst == Spec => []ChecksPrecedeTheResponse
<1>1. IInv => ChecksPrecedeTheResponse
  BY DEF IInv, FaultInv, EarlyFaults, ChecksPrecedeTheResponse
<1>2. QED
  BY Invariance, <1>1, PTL

(* Without a fault the client sees the response of the remote server. *)
THEOREM SuccessIsUpstream == Spec => []SuccessIsTheUpstreamResponse
<1>1. IInv => SuccessIsTheUpstreamResponse
  BY DEF IInv
<1>2. QED
  BY Invariance, <1>1, PTL

(* A body written to a counting writer has one source. *)
THEOREM BodiesAreNotMixed == Spec => []TracedBodyIsNotMixed
<1>1. IInv => TracedBodyIsNotMixed
  BY DEF IInv, TracedInv, TracedBodyIsNotMixed
<1>2. QED
  BY Invariance, <1>1, PTL
=============================================================================
