# A verification of openapitools

openapitools is a Go library that loads OpenAPI documents and proxies requests
to the servers they describe: a client routes a request by its path, validates
it against the operation, sends it to a remote server (rewritten, as a GraphQL
query or as it is) and validates and rewrites the response. This directory
holds TLA+ models of the library's logic, TLC configurations that check them on
small instances, and TLAPS proofs of what matters most for every instance.

`PROJECT.json` lists components, runs, theorems and hazards, and maps every
definition to the lines it models. `tlc -config X.cfg M` runs a configuration,
`tlapm M.tla` checks the proofs of a module.

## 1. The system

| component | source | state | operations | what is hard |
|---|---|---|---|---|
| regexp cache | `oasvalidator/regexps` | a map from pattern to compiled regexp, a `sync.RWMutex` | `Get`, from any goroutine | unlocked compilation between two critical sections; a concurrent map access is fatal |
| route tree | `openapiclient/metadata.go`, `internal/` | a tree of static, regexp, parameter and catch-all nodes | `InsertRoute` per path when the client is built, `FindRoute` per request | backtracking, priority of nodes, duplicates, order of the document |
| proxy client | `openapiclient/{stream,execute,request,utils}.go` | the request, the upstream response, the `ResponseWriter` | `Execute`, `Stream`, `ServeHTTP` | failures half-way; headers and bytes cannot be taken back; the body must be closed |
| REST handler | `handler/resthandler` | the request and response templates of a route | `Handle`, `Stream` | the same checks on different paths: raw, strict, rewritten |
| GraphQL handler | `handler/graphqlhandler` | the query, its variables, rules from errors to statuses | `Handle`, `Stream` | errors inside a successful response decide its status |
| client construction | `openapiclient/client.go` | HTTP client, load balancer, route tree | `NewProxyClient`, `Close` | a step that fails after another acquired a resource |
| security selection | `handler/proxyhandler/security.go` | authenticators by scheme | `GetAuthenticator` | alternatives, optional requirements, defaults |
| schema flattening | `oasvalidator/schema.go`, `oaschema/{schema,utils}.go` | the schema, modified in place | `ValidateSchema` for every operation when a document is loaded | bounds of three dialects meet; branches are merged into the schema being read |
| value validation | `oasvalidator/validation.go` | none (recursive) | `ValidateValue` and one function per keyword | recursion, keywords across dialects |
| operation validation | `oasvalidator/{operation,parameter,decode,url_query}.go` | none | validation of a document's operations, decoding of a request | parameters of a path item and of its operations are merged one operation after the other |
| parameters | `oasvalidator/parameter` | the tree of a deep-object query | encoding and decoding of the styles | encoder and decoders are written apart for every place and style; types are tried one after another |
| content codecs | `oasvalidator/content{en,de}coder` | none | encoding and decoding of bodies by media type | conversions of bytes |
| API resources | `oaschema/{resource,resource_v2,overlay,parser,config}.go` | the parsed document | `Build`: reference, specification, patches | precedence of the sources; version 2 documents become version 3 |
| model helpers | `oaschema`, rest | none | enumerations and accessors | |
| schema generator | `jsonschema/generator` | none | a development command | |

How they interact: `NewProxyClient` builds the resource, flattens every schema
(schema flattening), validates the operations and inserts their handlers into
the route tree. A request is routed (route tree), its parameters and body are
decoded and validated (parameters, value validation, regexp cache), an
authenticator is selected, and the operation's handler (REST or GraphQL) runs
the exchange. After construction everything but the regexp cache is read only:
goroutines of a server share state in the cache alone, so that is where
interleavings are modelled; elsewhere what matters is the order of effects and
the failure of each step.

### What makes each component correct

- *regexp cache*: no concurrent map access; an answer is a regexp of the pattern
  asked for; no regexp is lost; calls return.
- *route tree*: the tree is an index and nothing more. The route of a request is
  the one a definition on the list of paths yields; inserting a path never takes
  a route away from another.
- *exchange*: upstream bodies are closed on every path, a client sees one status
  line and the body of one source, a failed check is seen before the response.
- *schema flattening*: the merged schema means the conjunction of its parts.
- *GraphQL responses*: the buffered and the streaming path derive the same
  status from the same body.
- *client construction*: what was acquired is released, by `Close` or by the
  failure that prevents `Close` from being called.
- *security selection*: a request gets credentials the operation asks for.
- *value validation*: a value is accepted only if every keyword that applies
  accepts it, and whatever is sent gets an answer.
- *parameters*: what the encoder writes the decoders read; what is accepted meets
  its schema; a required parameter is there; no sent value becomes a null.
- *operation validation*: an operation is held to each parameter that applies to it,
  and to no other.
- *API resources*: a converted document says of a request what the original said.

## 2. Plan

In the order of importance. These exist:

1. `CompileOnce`, `RegexpStore`, `RegexpStoreProofs`: the only shared state.
2. `RouteTree`, `RouteTreeProofs`: every request depends on it.
3. `ProxyExchange`, `ProxyExchangeProofs`: composes client, REST and GraphQL handler.
4. `SchemaMerge`, `SchemaMergeProofs`: every validation depends on it.
5. `GraphQLResponse`, `GraphQLResponseProofs`: statuses from GraphQL errors, the two
   paths side by side.
6. `DeepObject`, `DeepObjectProofs`: the tree of a deep-object query, built in random
   order.
7. `Schema`, `Client`: values and schemas without their validation, and what every
   operation of a document is held to.
8. The way of a request to its handler, one module on top of the other:
   `SchemaValidation` (values), `ParameterEncode`, `ParameterDecode`, `ParameterNode`
   (deep objects), `ParameterLocation` (path, query, header, cookie), with `Branches`
   (branches of an object, in order) for the two that decode objects; and
   `RequestValidation`, which extends `Client` and `ParameterLocation`. `Swagger` has
   version 2 documents, and `RequestProperties`, on top of both, what a request means
   to those who write it; the run is of this module. `BranchProofs` and
   `RequestProofs` are the proofs, of the client and of its requests.

These are left:

9. An abstract exchange (request, then answer or error) that `ProxyExchange`
   implements.

Abstract specifications: `CompileOnce` for the cache; the list of paths for the route
tree, the conjunction of schemas for flattening (`Parts`), the meaning of a schema
(`Meets`) for validator and decoders, and the version 2 document itself for the
conversion, all of them operators that mention no function of the code.

## 3. Modules

**CompileOnce** is what a caller may rely on: a call with a pattern in progress, a
set of patterns that were compiled once, and answers. **RegexpStore** is `Get` with
a step per lock operation and map access; a lookup or a store is a state a
goroutine stays in, so that two accesses can overlap. `RWMutex.Lock` is two steps
(announce, then wait for readers). A regexp is an object (pattern, goroutine,
count), so two compilations of a pattern differ. The refinement maps a call in
progress to a goroutine outside `idle` and the known patterns to the cached ones.

**RouteTree** takes a document as a sequence of path items and inserts them as
`BuildMetadataTree` does; a node is identified by the edges from the root, and
`nodes` keeps the order of insertion, which orders nodes of equal type and key.
`FindBelow` is `findRouteRecursive` with its loops and early returns: what a node
answers (`Try`) refers to the answers of the places below it, and `answer`, a
recursive function over the places of the tree, ties the two together. Parameters
are bound on the way back from a node that was found, which is what is left of them
in the code after a failed branch has removed its own. The reference (`MatchesPath`,
`MoreSpecific`, `Bindings`) mentions no tree. A path has at least one segment and no
doubled slash (`DocumentsAssumption`): the code reads `a//b` as `a/b`, and the model
leaves that reading out. `served` keeps a request with its answer.

**ProxyExchange** has the state that cannot be taken back: headers sent, sources of
bytes written, the upstream body, the request body sent. The content of bodies and
the verdicts of validators and templates are choices. Entry point, handler,
configuration and the kind of body are fixed at the start and select the branches
the code selects.

**SchemaMerge** keeps a schema as a record of keywords. Lower limits are kept
negated, so that a minimum function of the code and the maximum function it mirrors
are one operator; the two differ in the source by the direction of each comparison
only. A schema that names no type has the one its keywords are about (`TypesOf`), in
the schema itself, in each branch and in the list of all of them (`AllTypes`). `Revalidate` repeats inference and evaluation for every operation that refers to the
schema.

**GraphQLResponse** runs `Handle` and `Stream` on one upstream response under one
configuration and follows the status each of them answers. Its input is the shape
of the body (a document, a document followed by text, no JSON with or without a
readable error list, broken off) and what stands under `errors`; JMESPath
expressions are names with verdicts. `left` holds the rules that are not tried
yet, so that trying a rule is a step. `Configure` is the constructor of the
configuration, which runs before any response. ProxyExchange keeps what both
paths do to the connection; this module keeps how they come to a status.

**DeepObject** takes a query as a set of parsed keys and inserts them in any order,
as the range over a Go map does. A step is one level of `InsertNode`: coerce a
selector or the first child, find the child or append it. Nodes are numbered in
the order of their creation and `items` keeps the order of siblings. `Normalize`
is a step per node, a node before its children. The values of a key are the key
itself, so that the tree tells where each value went. The name of the parameter, the
first element of a key, is compared as it is written, below it numerals that read
the same are one index.

**Schema** has the values and the record of a schema. A text is a sequence of tokens,
so that it can be split and joined. **SchemaValidation** is the validator: one operator
per function of validation.go, each with the set of errors it returns; which texts are numbers, documents, dates or match a pattern is a
table of the instance. Beside it stands `Meets`, what a schema says of a value,
written from the meaning of the keywords. A panic is an error of its own.

**ParameterEncode** flattens a value into items with paths (`EvaluateParameterValue`) and
writes them as a style asks. The order of a Go map is a parameter of the operators.
**ParameterDecode** reads texts with the types of a schema, tried in the order of the
code, and objects through declared, additional and pattern properties and their
branches. **ParameterNode** decodes the nodes of a deep object; it starts from a tree
that is the same in every order, which is what DeepObject shows of plain queries.
**ParameterLocation** has the separators, presence and nulls of each place. **Branches**
goes through the branches of a schema, from the first to the last, into one set of
fields; how a branch is decoded is its parameter, and both decoders of objects are
instances of it.

**Swagger** converts a version 2 document: parameters with their collection formats and
limits, bodies, security schemes.

**Client** builds a client in the steps of `NewProxyClient`: document, options, servers,
headers, schemes, paths. Each may fail, and two may panic; `balancer` is the resource
that outlives a step, closed by `Close`. `definition` holds the sources and what is
wrong with the settings. The last step merges the parameters of path item and
operations, in four loops that are recursive functions (`TakenParameters`,
`TakenOperations`, `TakenPlaceholders`, `MergedDefinitions`). The reference (`Applying`)
says without a loop which definition is meant: the last one of the path item, else the
first of any operation for a parameter of the path, else the last of the operation.
`GetAuthenticator` is the set of schemes whose credentials may be sent. The conversion
of version 2 documents is a constant here (`ConvertedToV3`), which the configuration
binds to the one of Swagger.

**RequestValidation** builds a client and follows one request: `Encode` per parameter and
`Send` by a caller who uses the encoder (or texts written by hand, in
`request.wire`), then the stages of the code in its order: path, reading the body,
query, headers, body, cookies, and then rejection with all errors or the choice of
an authenticator. `params` is what the handler sees. `Called` is the operation the
route tree returns; the path is found in RouteTree. The client is closed only after
the request: the balancer of a client that is closed earlier belongs to `gohttpc`.
Where the exchange of ProxyExchange leaves the verdict of the validation open, this
module computes it. **RequestProperties** adds the properties that are about values a
caller encodes and about version 2 documents.

*Recursion.* The validator, the decoders and the encoder follow a value and its schema
down. Where such an operator is applied to a part (`Validated`, `Met`, `ItemDecoded`,
`BranchDecoded`, `NodeDecodedBelow`, `Flattened`, ...) the modules have a constant
operator in its place, and MCRequestValidation binds each constant to the operator
itself, so that TLC evaluates the recursion; a proof takes as a hypothesis that they
are bound so (`IsRecursive`, and `NodesAreRecursive` for the two that follow the nodes of
a query). `DocumentSchemas` and `Height` name the schemas of the
documents and give each a number above those of its parts: references that go in
circles are left out. TLC evaluates that assumption, and that every schema of a request
is one of them (`SchemasAssumption`, `DocumentsAssumption`). `PlainValues` names the values
of JSON documents: what is in one of them is one too, and a parsed text or body is one
(`ValuesAssumption`). What is sent has the form of a request: a query is a finite table
of lists of nonempty texts, a value to encode is one that can be (`IsRequest`).

## 4. Runs

| run | instance | shows |
|---|---|---|
| `RegexpStore` | 2 goroutines; patterns `good`, `other`, `bad` | no race, right answers, at most one compilation per goroutine and pattern, refinement, calls return |
| `RouteTree` | documents of 3 paths out of 13, in every order, or one path and a rejected one; 15 requests, 2 methods | lookup agrees with the reference; insertion takes no route away |
| `RouteTree_leaf` | a path, the same with a trailing slash, a third | (violation) the pattern of a replaced leaf |
| `ProxyExchange` | statuses 200, 304, 404, and 422 of a rule | all exchanges |
| `ProxyExchange_body` | the same | (violation) a JSON body is not forwarded |
| `SchemaMerge` | a schema and up to 2 branches, a keyword at a time; a flag meeting a number | the merged schema is the conjunction |
| `SchemaMerge_props` | the same for properties | (violation) properties of branches are lost |
| `GraphQLResponse` | 324 configurations; two error lists; statuses 200 and 302; every kind of body | both paths answer the status of the reference |
| `GraphQLResponse_counterpart` | the same | (violation) the paths differ on errors that are no list |
| `DeepObject` | queries of up to 4 keys out of 18, in every order | values are neither lost nor misplaced, only conflicts are rejected, plain queries end in one tree |
| `DeepObject_order` | the same | (violation) elements of an array in the order of the map |
| `RequestValidation` | 15637 pairs of a client's definition and a request | what is accepted meets its schemas and is not lost, encoder and decoders agree, only one keyword panics, the parameters that apply, the credentials that are asked for, version 2 documents keep their meaning |

Why the bounds are enough. *RegexpStore*: a race needs two goroutines; a wrong
pattern needs two that compile and one that does not; the proofs cover any number.
*RouteTree*: priority is decided between siblings, so two paths decide and a third
makes the search backtrack over another branch; the paths contain every node type
below a static and below a parameter node, with and without a trailing slash, two
regexps that accept a common text and two parameter names at one position.
*ProxyExchange*: the code tells statuses apart by class only, and an exchange has
no loop. *SchemaMerge*: the functions compare two bounds at a time; three numbers
give every order of two bounds and the tested numbers go beyond them on both
sides; two branches make a merge of a merge. Keywords are merged by separate code,
so they vary one at a time; types vary together with the properties, pattern
properties and items they are inferred from. *GraphQLResponse*: a choice between rules needs two
rules with usable keys and, to be wrong, two lists they judge differently; one key
is no number, one expression does not compile and one fails on a list.
*DeepObject*: a conflict needs a bracket and a name, hiding it needs a number
inserted before, and an element that is split needs a second key of the same
number; that is four keys. There are two numbers, one of them with two spellings,
and levels below a name, a number and a bracket. *RequestValidation*: decoders read
one parameter at a time, so that most requests have one; the groups of requests are
(a) values of every shape in every place, style and explode, encoded, (b) texts by
hand, among them empty, null, separators alone and the wrong type, against about
thirty schemas with one or two keywords or branches, (c) objects whose fields are
spread over the query, (d) bodies of every kind, served or given by a program, (e)
several parameters, so that names and places meet, (f) values of depth five, since
the encoder's slices grow at the fourth key, (g) path items and operations that
declare the same parameters, (h) security schemes of every type with requirements,
(i) sources of a document and every step that can fail, (j) version 2 documents
with each collection format and limit. Two orders of a map are enough, since an
order matters only between two keys.

Some properties of RequestValidation have exceptions, each of them a divergence of
section 6, named where it is stated: `IsValidated` are the schemas the validator holds
a value to, `IsEnforced` and `IsHeldTo` those the decoders hold it to; `MayBeMissing` the parameters that are required in name
only; `IsPlain` the values that can be written and read back (no separators in texts,
one type); `IsNotLoosened` the parameters of which the conversion of version 2 accepts no
more than the document, and `IsKept` those of which it accepts no less;
`PathsAreKept` leaves out the fourth key of an item that has four. Each is as narrow as
the run allows: without it TLC shows the divergence.

Deadlock is checked for `RegexpStore`. In the other modules the system really ends:
an exchange is over, a document is inserted, a schema is loaded, a response is
answered, a query is parsed, a client has failed or is closed.

Fairness: `WF_vars(Step(g))` for each goroutine of RegexpStore, and no more: the Go
scheduler runs every runnable goroutine, and nobody is obliged to call `Get`.
Weak fairness is enough although locks can be contended, since every goroutine
stores a pattern at most once and a stored pattern stays: after finitely many
writes only readers are left, who do not exclude one another.

## 5. Proofs

`RegexpStoreProofs`, for any sets of goroutines and patterns. The invariant `IInv` is
the conjunction of

- `LockInv`: the readers are exactly the goroutines between `RLock` and `RUnlock`; a
  goroutine between announcing and `Unlock` is the writer, and past the wait there
  are no readers. Excludes the race.
- `DataInv`: what a goroutine has in hand is a regexp of the pattern it asked for,
  or nothing at the steps before one exists; so is what is cached and answered.
- `OnceInv`: a goroutine that compiled a pattern has it cached, or is on its way to
  store it; it is needed because the count of compilations alone is not inductive.

Each has its own step lemma, and the theorems `DataRaceFreedom`, `GetIsRight`,
`NoSecondCompilation` and `CacheMonotonic` follow from it. `StoreImplementsCompileOnce`
is the refinement: calling, caching and finishing map to steps of CompileOnce, all
else stutters.

`SchemaMergeProofs`, for any numbers, types, names and documents with any number of
branches. Assumptions are those of SchemaMerge: documents are well-formed, and a
keyword is in one dialect (a flag never beside a number). The base lemmas are about
one bound: evaluating a limit keeps what it accepts (`EvaluateKeeps`), the tighter of
two is both (`TighterIsBoth`), and merging two limits accepts what both accept, or,
with flags, no more (`MergeLimitKeeps`). The invariants relate the schema to the
first `merged` branches and are inductive over `MergeBranch`; `FreshInv` says what
holds before loading. For the types, `TypesInv` says that what is
left are the types of any part that every merged branch accepts (`Surviving`), none only
if there was none; that no type is inferred anew when the merged schema is validated
again needs that a merge of schemas without properties and items adds none
(`MergeAddsNoKeys`), and that otherwise there was a type (`PartTypes`).
`TypesAssumption` says that object and array
are types. Results: `TypeCorrect`, `ExactNumbers`, `NeverLooser`, `ExactLengths`,
`ExactTypes`.

`GraphQLResponseProofs`, for any keys, rules, expressions, verdicts and bodies. The
invariant says of a path that tries rules that no rule tried before applies, and of
a path past the rules that its status is the reference's (`PathInv`); it says of a
configuration that was accepted that its keys are numbers and its expressions
compile (`BuiltInv`), without which a rule's status would not be a status. Results:
`TypeCorrect`, `StatusIsDecidedByErrors`, `MalformedFails`.

`ProxyExchangeProofs`, for any statuses of the server and of the rules. The properties
are not inductive: that a body is closed at the end depends on which steps hold it
open. The invariant `IInv` adds to them

- `ControlInv`: step, call and fault are of their kinds, and a body is parsed for
  `ServeHTTP` only, where the cases of `ParseBody` are total;
- `OutputInv`: what is sent are status codes and sources;
- `BodyInv`: from the answer of the server on there is a response, and its body is
  open only while it is decoded or copied;
- `StartInv`: no fault and nothing out before the steps that write, and then one
  header, the response's, and no bytes;
- `FaultInv`: an error under way has a status, which is sent unless a header is out;
- `TracedInv`: a writer that counts its bytes is at most one part into the answer of
  an error when the second attempt to write it is made.

Each has a step lemma over the actions. Results: `TypeCorrect`, `BodiesAreClosed`,
`AlwaysAnswered`, `ChecksComeFirst`, `SuccessIsUpstream`, `BodiesAreNotMixed`.

`RouteTreeProofs`, for any documents, requests, methods and regexps. The invariant has
two parts. `TreeInv` is about the tree under construction: a node is a prefix of an
inserted path, there is one of each, after its parent; a leaf has the operations of
the path that owns it, the first with its segments (`HeldInv`, `OwnerInv`); and regexp
nodes are as old as their paths (`AgeInv`), because regexps are tried in the order of
their insertion. `ServedInv` is about the answers given. That the search has an
answer at all is a lemma: the texts left to match are fewer below (`rank`), and an
induction over numbers gives the function. `SearchAnswers` then says what it is, the
first in the order of trying among the nodes below that fit; `HitOwners` and
`MatchesIfFits` say that the nodes that fit are the leaves of the paths that match,
and `SpecificIfSooner` that the order of trying is `MoreSpecific`. Results: `TypeCorrect`,
`LeavesAreNotShared`, and, for documents where no path has a static leaf twice with
operations (`NoTwins`), `RoutesAreKept`, `RoutesAreMostSpecific` and
`PatternsAreOfTheLeaf`. The hypothesis is what the code needs: without it the second
of two such paths replaces the first, which the run `RouteTree_leaf` shows; the
documents of the run `RouteTree` satisfy it.

`DeepObjectProofs`, for any queries, names and spellings of numbers. The difficulty is
that keys of nodes are changed in place, so that the names on the way to a node are
not stable. The invariant `PlacesAlways` gives every node a place, the path on which it
was created with the names below the top read as numbers where they are some, which
no later change of a key touches. Its parts are the shape of the tree (one node per
place, a node after its parent), the sources (a node is there for a key of the query
that goes through its place), conflicts (siblings are of one kind, and a key that was
inserted found its kind), and content (where the values of a key are). Results:
`TypeCorrect`, `TreeHoldsQuery`, `OnlyMixedIsRejected`, `MixedRejected`.

Its second part adds what becomes of a query that mixes `[]` with nothing (`Plain`),
where a place is too coarse: a name and its number have one place, and the claim is
which of the two the tree shows. There no insertion meets children of another kind
(`NoClash`), so that no key is changed before the tree is normalized, and a node can
be given its origin, the selectors that lead to it as they are written. The invariant
`TrieInv` has as its parts that origins are unique and come from the query, that a
child is one selector further (`LabelInv`), that every inserted key has its nodes and
its values (`GrowthInv`), that afterwards there is a child for every selector that
follows (`Onward`) unless the values of an only `[]` were hoisted (`Hoists`,
`SpreadInv`), and that Normalize goes from the top down (`FrontInv`), which keeps what
it has not reached as the insertion left it. The invariant determines the tree of the
end from the query alone: the path to a node is `Final` of its origin (`PathIsFinal`),
which is the place `Settled` names (`SettledPlace`). Results: `PlainIsTrie`,
`PlainSettle`.

`RequestProofs`, first part: clients, for any definition of a client, any conversion and
any header names. What is assumed (`IsDefinition`, a conjunct of `ClientInit`) is the
form of a document: lists are lists, and parameters have a name and a place. TLC
evaluates it on every definition of the run (`RequestsAssumption`). `ClientInv` says that
a client past its first step has a document, and that a client that is ready has the
tree built from it; the rest is about that tree. Each loop has a lemma that the
recursive function is what its definition says (`TakenIs`, `OperationsAre`,
`PlaceholdersAre`, `MergedIs`), an invariant of its steps (`TakenTo`, `PassedTo`,
`MergedTo`), which speaks of the first and the last definition of a parameter in a list,
and a lemma of its end. The invariant of the loop over operations has to name all
operations gone through, because a parameter of the path is handed on to the later ones
(`Former`). `Applies` composes them: the joined lists of an operation end with the
definition of the reference for every parameter, and `HeldTo` adds that one definition of
each is left. Results: `ClientTypeCorrect`, `DeclaredApply`, `CredentialsAsked`, theorems
of `ClientSpec`, the client on its own. `RequestsUseClients` (`Spec => ClientSpec`) carries
them over to RequestValidation.

Second part: what is required is there (`RequiredPresent`), for any schemas, tables and
requests. A request passes its places one after another, so the invariant
`PresenceInv` says for every stage which places are past (`After`, `AfterBody`) and that
these have what is required of them unless an error was found. The exceptions of
`MayBeMissing` are those the proof needs: a header that is sent with an empty list,
cookies with a content and what is declared to be in a form or a body were found
in failed attempts, not by the run.

Third part: what is accepted meets its schema (`AcceptedValid`), for every document whose
schemas are trees, every table of texts and every request. Its steps:

- the validator is sound (`ValidatorSound`): a value without errors meets a schema that
  is validated. By induction over the heights of schemas, with one lemma per
  kind of value;
- `BranchProofs`: what every branch keeps, all of them keep, when they are gone through
  one after another; which branch made a field; what `anyOf` and `oneOf` promise. It
  is proved once and used for both decoders of objects;
- decoders: of texts and lists (`ParamYields`), of objects (`ObjectMeets`), of the nodes of
  a deep object (`NodesAreSound`), again over heights. An object is checked in pieces,
  declared fields, pattern fields and branches each by its own decoder, so the lemmas
  say what every piece leaves of the fields of the others; `DeclaresOnce` and
  `OnlyDeclares` are what makes that enough;
- places (`PathYields`, `QueryYields`, `DeepYields`, `HeaderYields`, `CookieYields`): what a place does
  before and after the decoder (nulls, raw texts, presence) keeps it so;
- the invariant `ValidInv` of the specification: the client's invariant, `PresenceInv`, the
  definition and request belong together (`PairInv`), and unless an error was found the
  values of every place passed, and the body after it, meet their schemas. That a value
  belongs to the definition it was decoded with needs that no two definitions of a
  place have one name (`OnePerName`), which is `DeclaredApply` again.

Fourth part: the state has its type (`RequestTypeCorrect`), and the validator panics for
no reason but the two the code gives it (`CrashesAreKnown`): an exclusive minimum in a
schema of the operation, or a nil pointer in the body of a program. `SafeInv` adds both to
`ValidInv`, since each needs what the other says of the requests and the parameters. Its
steps:

- errors are blamed on schemas. A schema is calm if neither it nor a part of it at any
  depth has an exclusive minimum (`IsCalm`); what is found with a calm schema are the known
  codes, with another one also the panic (`Blames`). `ValidatorSafe` shows it of the
  validator by induction over heights: a panic deep inside a branch is blamed on every
  schema above it;
- data. A pointer is in no document and in no text, so every decoder gives data, with
  errors that are its schema's (`Decodes`): texts and lists (`ParamSafe`), objects
  (`ObjectsSafe`), nodes of deep objects (`NodesSafe`). `BranchProofs` has for this a second
  pair of lemmas, on what every branch leaves alone;
- queries. What the encoder does to a query in any style leaves a query that can be read,
  with no key that has no value and no empty value in it (`EncodedKeeps`);
- the nodes of a query are those of finitely many keys, so a path can be extended only
  finitely often and nodes are trees as schemas are (`NodesAre`), which gives the least
  counterexample for them;
- places and stages: the errors of each place are those of the parameters declared for it
  (`PathErrs`, `QueryErrs`, ...), and these are schemas of the operation.

The hypothesis `IsRecursive` says that the constant operators are the operators they stand
for. The equations can be met for schemas that are trees, since each applies the
constant to parts, which are lower; the run meets them, as its constants are bound to the
operators themselves. `NodesAreRecursive`, which only the fourth part needs, says the same
of the operators that go down the nodes of a query, for queries with finitely many keys:
there each node has its parts one selector further, and no path goes on for ever.

Induction. A theorem of the library that takes a predicate cannot be instantiated, but
a proof by the least counterexample can be written out: the set of numbers for
which the claim fails has a smallest element (`Smallest`). The proofs of the two trees
use it for paths, searches and orders, and `RequestProofs` for the existence of a
recursive function (`Recursion`), for its steps (`UpTo`) and for heights.

Model-checked only:

- liveness of the cache: fairness is out of the prover's reach;
- `NothingIsLost`, `RoundTrip`, `PathsAreKept`: that the decoder undoes the encoder speaks
  of the texts themselves, what joining and splitting them at separators give, which are
  folds and recursions over sequences. Both need induction over data and facts about
  folds the provers have not;
- `SwaggerIsKept`: it compares the errors of two validations of one value, which needs the
  validator to be complete, not only sound.

## 6. Divergences

Shown by a run: the leaf replaced by a path with a trailing slash (tree.go:263), the
JSON body that a plain REST route does not forward (resthandler/request.go:42), the
properties of branches that are lost (schema.go:251), the two paths of a GraphQL
response that differ where a body template is configured alone (response.go:51), the
array elements of a query in random order (param_node.go:153).

Met while modelling, and modelled as the code does it:

- tree.go:374 tests the rest of the path where tree.go:373 means the segment, so
  `/posts//new` binds the empty text to the parameter of `/posts/{id}/new`.
  `RoutedToMostSpecific` therefore leaves out requests with empty segments.
- utils.go:34 does not append an error to a response that is partly out only if the
  writer has a `BytesWritten` method. `TracedBodyIsNotMixed` is about those writers.
- schema.go:399 copies a boolean `exclusiveMaximum` of a branch onto whichever
  maximum remains: maximum 1 merged with an exclusive maximum 3 rejects 1. So
  `NumbersNeverLooser` claims one direction only.
- schema.go:44 unites the types of a schema with those of its branches before it
  intersects them: the merged schema may accept a type that the schema itself rejects
  and its branches accept. So `TypesAreExact` claims one direction only for the
  schema's own types, and both for those of the branches.
- oaschema/schema.go:85 falls through to the items of a schema with properties if an
  object was met before, so that it counts as an array too (`TakenForArray`).
- response.go:287 recognizes an empty error list by its two bytes; `[ ]` counts as
  errors. The reference counts it as the code does.
- response.go:103 decodes the first value of a body and ignores what follows, where
  the other paths parse the whole body; and `Stream` forwards a body that it need
  not rewrite unseen, JSON or not, which `Handle` answers with 500.
  `MalformedIsNotASuccess` leaves both out.
- param_node.go:176 looks at the first child alone. With a number beside them, a
  bracket and a name at one level are rejected in one order and accepted in
  another, and `a[1][x]=..&a[1][y]=..` with an `a[]` between them becomes two
  elements. `MixedIsRejected` and `PlainQueriesSettle` leave such queries out.
- param_node.go:275 returns the empty list of errors of the step before instead of
  the errors of the validation: an invalid value is decoded as nil.
- schema.go:203 appends the enums of two branches where a conjunction intersects.

Values (validation.go): the type "null" makes no schema nullable, although a null
passes everywhere; `additionalProperties: false` rejects nothing; keywords of a schema
without a type are not checked on items; `uniqueItems` is checked for slices of strings
only; `dependentRequired` holds without its trigger; `contains` is reached by no caller;
`patternProperties` are not applied to declared properties; a number of a JSON body is
a float, which `type: integer` rejects; the length of a string is compared with
`minItems` and `maxItems` too (193). A numeric `exclusiveMinimum` without an
`exclusiveMaximum` panics (622), and so does a nil pointer that may be null.

Decoders (oasvalidator/parameter):

- param_decode.go tries types in the order they are declared, where the comment at
  137 gives strings priority; the test for branches of `oneOf` (113) is inverted; the
  documents of a content parameter with an array schema are wrapped in a list each.
- object_decode.go:45 takes the texts of an object without properties as they are;
  additional properties go before pattern properties, where the comment says
  otherwise; of branches that decode one field the last wins.
- param_node.go decodes of the branches of `allOf` only the properties, accepts
  named children for an array, and does not validate a node without a type.
- path_decode.go:79 returns `id=3` for a string in matrix style; arrays in a path
  are validated by their own keywords only; a label path "." of any other type is a
  null.
- An optional exploded object in the query is rejected if a required field is
  missing, and takes every key as an additional property; a required one without
  required fields may be missing. Cookies are checked only if there are some, and
  only by `ServeHTTP` (the comment at request.go:76 says so).
- utils.go:142 and 153 append to a path that siblings share: at the fourth key the
  last sibling overwrites the others. utils.go:130 drops the path of the parent of a
  slice of strings. types.go says an item carries its full path.
- `Execute` and `Stream` do not ask for a required body, `ServeHTTP` does.

Documents (client.go, resource.go, security.go):

- A parameter of the path item wins over the operation's of the same name, where
  OpenAPI says that the operation overrides; a path parameter of one operation
  is used for all (internal/utils.go:34).
- resource.go:35 says a spec is merged into a ref; a ref beside a spec is not read.
- `security: []` of an operation falls back to the document's requirements; of an
  alternative with several schemes only the first is looked at, the last alternative
  that matches wins, and if none does, and the operation is not optional, the
  credentials of any scheme are sent.
- security.go:357 passes a default location where the one of the scheme was built.
- The balancer stays open if a later step fails (client.go:203), so its health
  checks go on without a client. A document without paths panics (metadata.go:33).

Version 2 (resource_v2.go): items get the limits 0 if they have none, so that an array
of numbers accepts zeros only (the expected document of the tests has them too);
`minLength` is stored as `maxLength`; `minItems` without `maxItems` panics; the media
types a body may have are chosen by the number of those that are produced, so
that a body is not validated if an operation produces but does not consume;
`tsv` becomes `pipeDelimited`; `multi` in a path explodes; scopes of `oauth2` that are
missing panic, and its credentials do not reach the flow.

## 7. Not modelled

- The codecs of bodies (multipart, forms, XML, data URIs) and the generator: conversions of
  bytes without state, better tested.
- Texts of patterns in paths (`{id:}` indexes an empty regexp, tree.go:475), texts of
  URLs, escapes, which the decoders undo before a text is a token of a model.
- Responses in a version 2 document, and the reading of definitions, settings and
  documents from JSON and YAML: pure parsing.
- Values of Go types other than those of JSON, texts and integers (reflection).
- The resolution of GraphQL variables, and the interfaces and accessors around handlers.
- HTTP transport, retries, health checks and authentication belong to `gohttpc` and are
  external.
