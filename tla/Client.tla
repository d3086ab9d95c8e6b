-------------------------------- MODULE Client --------------------------------
(***************************************************************************)
(* The construction of a client (openapiclient/client.go): the document is *)
(* built from its sources, the servers are handed to a balancer, the       *)
(* credentials to authenticators, and the operations to the route tree,    *)
(* each with the parameters that apply to it.                              *)
(***************************************************************************)
EXTENDS Schema, Integers, Sequences, FiniteSets, SequencesExt

CONSTANTS
  Canonical,          \* the canonical form of the header names that are not in it
  ConvertedToV3(_),   \* the conversion of a document of version 2
  PanicsConverting(_) \* whether that panics

(* What a client is made from: at most one document as spec, one as ref and *)
(* one list of patches, each replacing parts of a document, and settings.   *)
(* A document has the number of its version, servers ("host", "empty" or    *)
(* "invalid", by what their URL and their extensions yield), named security *)
(* schemes, the requirements of every operation, and one path item.         *)
VARIABLES
  definition,
  phase,     \* the next step of the construction, or how it ended
  balancer,  \* "none", "open" or "closed"
  schemes,   \* the names of the security schemes with an authenticator
  tree       \* the operations, with what requests are held to

clientVars == <<definition, phase, balancer, schemes, tree>>

Phases ==
  {"build", "options", "servers", "headers", "schemes", "paths",
   "ready", "failed", "panicked", "closed"}

ClientTypeOK ==
  /\ phase \in Phases
  /\ balancer \in {"none", "open", "closed"}
  /\ balancer = "closed" <=> phase = "closed"
  /\ phase \in {"build", "options"} => balancer = "none"
  /\ phase \in {"headers", "schemes", "paths", "ready"} => balancer = "open"
  /\ tree # <<>> => phase \in {"ready", "closed"}

ContinueWith(next) == phase' = next /\ UNCHANGED definition
Abandon == phase' = "failed" /\ UNCHANGED <<definition, balancer, schemes, tree>>
Panicked == phase' = "panicked" /\ UNCHANGED <<definition, balancer, schemes, tree>>

-----------------------------------------------------------------------------
(* Build: without patches a spec must be of version 3, and a file of        *)
(* version 2 is converted; patches are for version 3, before or after them. *)
IsV3(doc) == doc.version = "3"

buildSpecFromRef(doc) ==
  CASE doc.version = "2" -> {ConvertedToV3(doc)} [] doc.version = "3" -> {doc} [] OTHER -> {}

Overlaid(doc, patches) ==
  {patched \in {patch.replaces @@ doc : patch \in {p \in patches : p.valid}} : IsV3(patched)}

FromRef(ref, patches) ==
  IF patches = None THEN buildSpecFromRef(ref.doc)
  ELSE IF ref.yaml \/ IsV3(ref.doc) THEN Overlaid(ref.doc, patches) ELSE {}

FromSpec(doc, patches) ==
  IF patches = None THEN {d \in {doc} : IsV3(d)} ELSE Overlaid(doc, patches)

(* The document, or none.  A ref beside a spec is not read.                 *)
Built(def) ==
  IF def.spec # None THEN UNION {FromSpec(doc, def.patches) : doc \in def.spec}
  ELSE UNION {FromRef(ref, def.patches) : ref \in def.ref}

BuildPanics(def) ==
  /\ def.spec = None /\ def.patches = None
  /\ \E ref \in def.ref : ref.doc.version = "2" /\ PanicsConverting(ref.doc)

Loaded == CHOOSE doc \in Built(definition) : TRUE

BuildDocument ==
  /\ phase = "build"
  /\ IF BuildPanics(definition) THEN Panicked
     ELSE IF Built(definition) = {} THEN Abandon
     ELSE ContinueWith("options") /\ UNCHANGED <<balancer, schemes, tree>>

-----------------------------------------------------------------------------
(* initOptions, initServers and initDefaultHeaders                          *)
InitOptions ==
  /\ phase = "options"
  /\ IF "http" \in definition.invalid THEN Abandon
     ELSE ContinueWith("servers") /\ UNCHANGED <<balancer, schemes, tree>>

(* A server whose URL is empty is left out; one at least must remain.  The  *)
(* balancer checks the health of its hosts from now on.                     *)
InitServers ==
  /\ phase = "servers"
  /\ IF "health" \in definition.invalid \/ "invalid" \in Range(Loaded.servers)
        \/ "host" \notin Range(Loaded.servers)
       THEN Abandon
       ELSE balancer' = "open" /\ ContinueWith("headers") /\ UNCHANGED <<schemes, tree>>

InitDefaultHeaders ==
  /\ phase = "headers"
  /\ IF "headers" \in definition.invalid THEN Abandon
     ELSE ContinueWith("schemes") /\ UNCHANGED <<balancer, schemes, tree>>

-----------------------------------------------------------------------------
(* createAuthenticatorFromSecurityScheme: a scheme has an authenticator if  *)
(* it has credentials, none if nothing is configured, or is an error.       *)
newStaticAuthenticator(s, place) ==
  CASE s.name = "" /\ place # "header" -> "error"
    [] s.credentials \in {"malformed", "partial", "full"} /\ (s.name # "" \/ place = "header") ->
         IF s.credentials = "malformed" THEN "error" ELSE "authenticator"
    [] OTHER -> "none"

createOAuthAuthenticator(s) ==
  CASE s.credentials \in {"malformed", "partial"} -> "error"
    [] s.credentials = "full" -> IF s.in = "invalid" \/ ~s.tokenUrl THEN "error" ELSE "authenticator"
    [] OTHER -> "none"

Authenticator(s) ==
  CASE s.type \in {"openIdConnect", "mutualTLS"} -> "none"
    [] s.type = "apiKey" /\ s.credentials # "absent" ->
         IF s.in = "invalid" THEN "error" ELSE newStaticAuthenticator(s, s.in)
    [] s.type = "http" /\ s.credentials # "absent" /\ s.scheme # "basic" ->
         newStaticAuthenticator(s, "header")
    [] s.type = "http" /\ s.credentials # "absent" /\ s.scheme = "basic" ->
         IF s.credentials = "malformed" THEN "error"
         ELSE IF s.credentials = "empty" THEN "none" ELSE "authenticator"
    [] s.type = "oauth2" -> createOAuthAuthenticator(s)
    [] s.type \in {"apiKey", "http"} /\ s.credentials = "absent" -> "none"
    [] OTHER -> "error"

NewAuthenticators ==
  /\ phase = "schemes"
  /\ LET Of(answer) == {i \in DOMAIN Loaded.schemes : Authenticator(Loaded.schemes[i][2]) = answer}
     IN IF Of("error") # {} THEN Abandon
        ELSE /\ schemes' = {Loaded.schemes[i][1] : i \in Of("authenticator")}
             /\ ContinueWith("paths") /\ UNCHANGED <<balancer, tree>>

-----------------------------------------------------------------------------
(* The parameters of a path item and of its operations.                     *)
Declares(defs, name, place) == \E i \in DOMAIN defs : defs[i].name = name /\ defs[i].in = place

(* ExtractCommonParametersOfOperation: a parameter the path item has is     *)
(* taken away, and one of the path is handed to the path item.              *)
TakeParameter(lists, def) ==
  IF Declares(lists.common, def.name, def.in) THEN lists
  ELSE IF def.in = "path" THEN [lists EXCEPT !.common = Append(@, def)]
  ELSE [lists EXCEPT !.own = Append(@, def)]

TakenParameters(common, params) ==
  LET lists[k \in 0..Len(params)] ==
        IF k = 0 THEN [common |-> common, own |-> <<>>] ELSE TakeParameter(lists[k - 1], params[k])
  IN lists

KeepOperation(item, op, lists) ==
  [item EXCEPT !.common = lists.common,
               !.operations = Append(@, [op EXCEPT !.parameters = lists.own])]

TakeOperation(item, op) ==
  KeepOperation(item, op, TakenParameters(item.common, op.parameters)[Len(op.parameters)])

TakenOperations(item) ==
  LET items[k \in 0..Len(item.operations)] ==
        IF k = 0 THEN [item EXCEPT !.operations = <<>>]
        ELSE TakeOperation(items[k - 1], item.operations[k])
  IN items

(* A placeholder nobody declares is a required text.                        *)
Unknown(key) ==
  [ name |-> key, in |-> "path", style |-> "", explode |-> {}, required |-> TRUE,
    schema |-> {Typed("string")}, content |-> None ]

TakePlaceholder(common, key) ==
  IF Declares(common, key, "path") THEN common ELSE Append(common, Unknown(key))

TakenPlaceholders(common, keys) ==
  LET commons[k \in 0..Len(keys)] ==
        IF k = 0 THEN common ELSE TakePlaceholder(commons[k - 1], keys[k])
  IN commons

extractParametersFromOperationV3(item) ==
  [TakenOperations(item)[Len(item.operations)]
     EXCEPT !.common = TakenPlaceholders(@, item.placeholders)[Len(item.placeholders)]]

(* ValidateParameterDefinitions: of parameters of one name the last remains. *)
CanonicalName(def) ==
  IF def.in = "header" /\ def.name \in DOMAIN Canonical THEN Canonical[def.name] ELSE def.name

Replaced(defs, def) ==
  IF Declares(defs, def.name, def.in)
    THEN [i \in DOMAIN defs |-> IF defs[i].name = def.name /\ defs[i].in = def.in THEN def ELSE defs[i]]
    ELSE Append(defs, def)

IsValidDefinition(def) ==
  /\ def.in \in {"path", "query", "header", "cookie", "body", "formData"}
  /\ def.style \in {"", "simple", "label", "matrix", "form", "spaceDelimited", "pipeDelimited", "deepObject"}

Renamed(def) == [def EXCEPT !.name = CanonicalName(def)]

MergedDefinitions(defs) ==
  LET lists[k \in 0..Len(defs)] == IF k = 0 THEN <<>> ELSE Replaced(lists[k - 1], Renamed(defs[k]))
  IN lists

ValidateParameterDefinitions(defs) == MergedDefinitions(defs)[Len(defs)]

(* A mutant: the parameters of the path item come first. *)
ValidateOperation_PathItemFirst(op, common) ==
  [op EXCEPT !.parameters = ValidateParameterDefinitions(common \o @)]

ValidateOperation(op, common) ==
  [op EXCEPT !.parameters = ValidateParameterDefinitions(@ \o common)]

createMethods(item) == [i \in DOMAIN item.operations |-> ValidateOperation(item.operations[i], item.common)]

IsValidItem(item) ==
  \A i \in DOMAIN item.operations :
    \A def \in Range(item.operations[i].parameters \o item.common) : IsValidDefinition(def)

(* BuildMetadataTree: the paths of a document may be missing.               *)
BuildTree(item) ==
  IF ~IsValidItem(item) THEN Abandon
  ELSE tree' = createMethods(item) /\ ContinueWith("ready") /\ UNCHANGED <<balancer, schemes>>

BuildMetadataTree ==
  /\ phase = "paths"
  /\ IF ~Loaded.paths THEN Panicked ELSE BuildTree(extractParametersFromOperationV3(Loaded.item))

Close ==
  /\ phase = "ready"
  /\ balancer' = "closed" /\ ContinueWith("closed")
  /\ UNCHANGED <<schemes, tree>>

-----------------------------------------------------------------------------
(* GetAuthenticator: the schemes a request for an operation may be sent     *)
(* with.  Of an alternative only its first scheme is looked at, of the      *)
(* alternatives the last one counts; the default is any scheme of a map.    *)
InForce(security) == IF security = <<>> THEN Loaded.security ELSE security

LastKnown(requirements) == SelectLastInSeq(requirements, LAMBDA r : r # <<>> /\ Head(r) \in schemes)

(* A mutant: an optional requirement is taken before all others. *)
Chosen_OptionalFirst(requirements) ==
  IF <<>> \in Range(requirements) THEN {None}
  ELSE IF LastKnown(requirements) # 0 THEN {{Head(requirements[LastKnown(requirements)])}}
  ELSE {{name} : name \in schemes}

Chosen(requirements) ==
  IF LastKnown(requirements) # 0 THEN {{Head(requirements[LastKnown(requirements)])}}
  ELSE IF <<>> \in Range(requirements) THEN {None} ELSE {{name} : name \in schemes}

GetAuthenticator(security) == IF schemes = {} THEN {None} ELSE Chosen(InForce(security))

-----------------------------------------------------------------------------
(* What every document says, however it was built: its lists are lists, and *)
(* its definitions have a name and a place.                                 *)
IsList(list) == list \in Seq(Range(list))

IsOperation(op) == {"parameters", "security"} \subseteq DOMAIN op /\ IsList(op.parameters) /\ IsList(op.security)

DefinitionsOf(item) == Range(item.common) \cup UNION {Range(op.parameters) : op \in Range(item.operations)}

IsItem(item) ==
  /\ {"common", "operations", "placeholders"} \subseteq DOMAIN item
  /\ IsList(item.common) /\ IsList(item.operations) /\ IsList(item.placeholders)
  /\ \A op \in Range(item.operations) : IsOperation(op)
  /\ \A def \in DefinitionsOf(item) : {"name", "in"} \subseteq DOMAIN def

IsDefinition(def) ==
  ~BuildPanics(def) => \A doc \in Built(def) : IsItem(doc.item) /\ IsList(doc.security)

ClientInit ==
  /\ IsDefinition(definition)
  /\ phase = "build"
  /\ balancer = "none"
  /\ schemes = {}
  /\ tree = <<>>

ClientNext ==
  \/ BuildDocument \/ InitOptions \/ InitServers \/ InitDefaultHeaders
  \/ NewAuthenticators \/ BuildMetadataTree \/ Close

ClientSpec == ClientInit /\ [][ClientNext]_clientVars

-----------------------------------------------------------------------------
(* Which definition of a parameter an operation is held to, of a document   *)
(* whose path item and operations may all declare it.                       *)
Key(def) == <<CanonicalName(def), def.in>>
Keys(defs) == {Key(def) : def \in Range(defs)}
FirstOf(defs, key) == defs[SelectInSeq(defs, LAMBDA def : Key(def) = key)]
LastOf(defs, key) == defs[SelectLastInSeq(defs, LAMBDA def : Key(def) = key)]

KeysFor(item, own) ==
  Keys(item.common) \cup Keys(own)
    \cup {key \in UNION {Keys(op.parameters) : op \in Range(item.operations)} : key[2] = "path"}
    \cup {<<name, "path">> : name \in Range(item.placeholders)}

(* The first definition in any operation of a parameter of the path.        *)
FromOperations(item, key) ==
  LET first == SelectInSeq(item.operations, LAMBDA op : key \in Keys(op.parameters))
  IN IF first = 0 THEN Unknown(key[1]) ELSE FirstOf(item.operations[first].parameters, key)

Applying(item, own, key) ==
  CASE key \in Keys(item.common) -> LastOf(item.common, key)
    [] key \notin Keys(item.common) /\ key[2] = "path" -> FromOperations(item, key)
    [] OTHER -> LastOf(own, key)

(* Every operation is held to one definition of each parameter, and to no   *)
(* other: the last one of the path item before any of its own, and for a    *)
(* placeholder of the path the first one of any operation, a text if there  *)
(* is none.  No placeholder goes unchecked, and no operation loses or gains *)
(* a parameter of the query by what the others declare.                     *)
DeclaredParametersApply ==
  phase = "ready" =>
    /\ DOMAIN tree = DOMAIN Loaded.item.operations
    /\ \A i \in DOMAIN tree :
         LET own == Loaded.item.operations[i].parameters
             held == tree[i].parameters
         IN /\ Range(held) = {[Applying(Loaded.item, own, key) EXCEPT !.name = key[1]]
                                : key \in KeysFor(Loaded.item, own)}
            /\ \A a, b \in DOMAIN held :
                 held[a].name = held[b].name /\ held[a].in = held[b].in => a = b

(* A request for an operation may be sent on with the credentials of any    *)
(* scheme that an alternative the document asks for names first, whenever   *)
(* there is one, and without any if there is none but it need not have any. *)
(* What is left open is an operation that nothing is asked of, or nothing   *)
(* that is known.                                                           *)
CredentialsAreAskedFor ==
  phase = "ready" =>
    \A i \in DOMAIN tree : \A authenticated \in GetAuthenticator(tree[i].security) :
      LET asked == Loaded.item.operations[i].security
          requirements == Range(IF asked = <<>> THEN Loaded.security ELSE asked)
          offered == {Head(r) : r \in requirements \ {<<>>}} \cap schemes
      IN /\ authenticated \subseteq schemes
         /\ offered # {} => authenticated # None /\ authenticated \subseteq offered
         /\ offered = {} /\ <<>> \in requirements => authenticated = None
         /\ schemes # {} /\ <<>> \notin requirements => authenticated # None
=============================================================================
