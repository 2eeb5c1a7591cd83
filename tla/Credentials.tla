---------------------------- MODULE Credentials ----------------------------
(***************************************************************************)
(* How a request of a provider's client gets its auth header:              *)
(* packages_py/provider_api_getters (the providers' get_api_key(), the     *)
(* token registry and the client factory) and the auth part of             *)
(* packages_py/fetch_client.                                               *)
(*                                                                         *)
(* One provider is followed, with any configuration it may have.  Secret 0 *)
(* is the key of the environment and secret 1 a text with all credentials, *)
(* as akamai and the databases have it; tokens that the application or a   *)
(* resolver issues are numbered from 2 on.                                 *)
(***************************************************************************)
EXTENDS AuthEncoding

CONSTANTS
  Setup,     \* configurations: a subset of Setups
  Task,      \* callers of resolve_startup_tokens() and get_client()
  MaxIssued  \* bound: tokens that are issued

\* "header" stands for what is configured and not a valid type.
AuthTypes == ValidTypes \cup {"header"}

Providers == {"jira", "confluence", "saucelabs", "servicenow", "github", "sonar",
              "figma", "gemini", "rally", "statsig", "akamai", "elasticsearch",
              "postgres", "redis"}

Setups ==
  [provider : Providers,
   type     : AuthTypes,                         \* api_auth_type
   named    : BOOLEAN,                           \* api_auth_header_name is there
   resolver : {"static", "startup", "request"},  \* token_resolver
   key      : BOOLEAN,                           \* the key is in the environment
   identity : BOOLEAN]                           \* so is the email or the user

ASSUME CredentialsAssumption == Setup \subseteq Setups /\ MaxIssued \in Nat

VARIABLES
  setup,     \* the configuration, which does not change
  runtime,   \* _runtime_tokens[provider]
  resolver,  \* provider \in _resolvers
  startup,   \* _startup_tokens[provider]
  issued,    \* tokens that were issued
  pc,        \* [Task -> {"off", "resolving", "asking"}]
  token,     \* [Task -> Values], what the resolver will return
  built,     \* the last client: the result it is from, and its header
  wanted     \* history: a startup token was asked for since the last clear()

vars == <<setup, runtime, resolver, startup, issued, pc, token, built, wanted>>

Values == [form : Forms, secret : 0 .. MaxIssued + 1]

Headers  == [name : {"none", "Authorization", "X-Api-Key", "own"}, value : Values]
NoHeader == [name |-> "none", value |-> None]
Header(name, value) == [name |-> name, value |-> value]

-----------------------------------------------------------------------------
(* What the providers make of the environment: get_api_key(). *)

\* A type that is not valid is replaced by the default of the provider.
AuthType(s) ==
  IF s.type # "header" THEN s.type ELSE IF s.provider = "figma" THEN "custom" ELSE "bearer"

\* A name that is configured is for the custom types.
HeaderName(s) ==
  CASE AuthType(s) \in BasicTypes \cup BearerTypes -> "Authorization"
    [] AuthType(s) = "x-api-key" -> "X-Api-Key"
    [] AuthType(s) \in CustomTypes /\ s.named -> "own"
    [] OTHER -> IF s.provider = "figma" THEN "own" ELSE "Authorization"

Result(api, type, name, identity, raw) ==
  [api |-> api, type |-> type, name |-> name, identity |-> identity, raw |-> raw]

Key(s) == IF s.key THEN Raw(0) ELSE None

\* The encoding of jira, which confluence repeats.
JiraEncoding(s) ==
  CASE AuthType(s) = "bearer"    -> Key(s)
    [] AuthType(s) \in PairTypes -> PairOf(Key(s))
    [] OTHER                     -> BasicOf(Key(s))

Jira(s) ==
  Result(IF s.key /\ s.identity THEN JiraEncoding(s) ELSE None,
         AuthType(s), "Authorization", s.identity, Key(s))

Confluence(s) == Jira(s)

SauceLabs(s) ==
  Result(IF s.key /\ s.identity THEN BasicOf(Key(s)) ELSE None,
         AuthType(s), "Authorization", s.identity, Key(s))

\* The password as it is.
ServiceNow(s) ==
  IF s.key /\ s.identity
  THEN Result(Key(s), "basic", "Authorization", TRUE, Key(s))
  ELSE Result(None, "basic", "Authorization", FALSE, None)

GitHub(s)  == Result(Key(s), "bearer", "Authorization", FALSE, Key(s))
Sonar(s)   == Result(Key(s), AuthType(s), "Authorization", FALSE, Key(s))
Figma(s)   == Result(Key(s), "custom", "own", FALSE, Key(s))
Gemini(s)  == Result(Key(s), "bearer", "Authorization", FALSE, Key(s))
Rally(s)   == Result(Key(s), "header", "own", FALSE, Key(s))
Statsig(s) == Result(Key(s), "custom_header", "own", FALSE, Key(s))

\* The credentials of EdgeGrid, as JSON.
Akamai(s) ==
  Result(IF s.key THEN Raw(1) ELSE None, "edgegrid", "Authorization", FALSE, Key(s))

\* A connection URL, which there is even without a password.
PostgresUrl      == Raw(1)
RedisUrl         == Raw(1)
ElasticsearchUrl == Raw(1)

Postgres(s) == Result(PostgresUrl, "connection_string", "Authorization", s.identity, Key(s))
Redis(s)    == Result(RedisUrl, "connection_string", "Authorization", s.identity, Key(s))
Elasticsearch(s) ==
  Result(ElasticsearchUrl, "connection_string", "Authorization", s.identity, Key(s))

ApiKey(s) ==
  [jira |-> Jira(s), confluence |-> Confluence(s), saucelabs |-> SauceLabs(s),
   servicenow |-> ServiceNow(s), github |-> GitHub(s), sonar |-> Sonar(s),
   figma |-> Figma(s), gemini |-> Gemini(s), rally |-> Rally(s),
   statsig |-> Statsig(s), akamai |-> Akamai(s), elasticsearch |-> Elasticsearch(s),
   postgres |-> Postgres(s), redis |-> Redis(s)][s.provider]

-----------------------------------------------------------------------------
(* From a result to a header, in the two ways the code has. *)

\* ApiKeyResult.get_auth_header()
ResultHeader(r) ==
  CASE r.type \in BasicTypes ->
         Header("Authorization",
                IF r.api.form = "basic" THEN r.api
                ELSE IF r.identity THEN BasicOf(Or(r.raw, r.api))
                ELSE BearerOf(Or(r.api, r.raw)))
    [] r.type \in BearerTypes ->
         Header("Authorization",
                IF r.api.form \in {"bearer", "pair"} THEN r.api
                ELSE IF r.type \in PairTypes /\ r.identity THEN PairOf(Or(r.raw, r.api))
                ELSE BearerOf(Or(r.api, r.raw)))
    [] r.type \in CustomTypes \cup {"x-api-key"} ->
         Header(r.name, Or(r.api, r.raw))
    [] OTHER -> Header("Authorization", BearerOf(Or(r.api, r.raw)))

\* The raw key for every type: what was computed is lost.
ResolveAuthRaw(type, r, name) ==
  IF type \in BearerTypes
  THEN [type |-> "bearer", key |-> Or(r.raw, r.api), name |-> "Authorization"]
  ELSE [type |-> "custom", key |-> Or(r.raw, r.api), name |-> name]

\* The AuthConfig that resolve_auth_config() makes for a client.
ResolveAuth(type, r, name) ==
  CASE type \in {"custom", "x-api-key"} ->
         [type |-> "custom", key |-> Or(r.raw, r.api), name |-> name]
    [] type \in BearerTypes ->
         IF r.api.form = "basic"
         THEN [type |-> "custom", key |-> r.api, name |-> name]
         ELSE [type |-> "bearer", key |-> Or(r.raw, r.api), name |-> "Authorization"]
    [] OTHER -> [type |-> "custom", key |-> r.api, name |-> name]

\* What each request of the client carries; without a key, nothing.
ClientHeader(s, r) ==
  LET auth == ResolveAuth(AuthType(s), r, HeaderName(s)) IN
  IF Given(r.api) THEN Header(auth.name, ClientSends(auth.type, Bearing(auth.key)).value)
  ELSE NoHeader

-----------------------------------------------------------------------------
(* The token registry. *)

InitFor(s) ==
  /\ setup = s
  /\ runtime = None /\ resolver = FALSE /\ startup = None
  /\ issued = 0
  /\ pc = [t \in Task |-> "off"] /\ token = [t \in Task |-> None]
  /\ built = [result |-> ApiKey(setup), header |-> NoHeader]
  /\ wanted = FALSE

Init == \E s \in Setup : InitFor(s)

\* A token of the application, with or without its prefix.
SetApiToken ==
  /\ issued < MaxIssued
  /\ issued' = issued + 1
  /\ runtime' \in {[form |-> f, secret |-> issued + 2] : f \in {"raw", "bearer"}}
  /\ UNCHANGED <<setup, resolver, startup, pc, token, built, wanted>>

ClearApiToken ==
  /\ runtime # None
  /\ runtime' = None
  /\ UNCHANGED <<setup, resolver, startup, issued, pc, token, built, wanted>>

\* By the application, in place of another one, too.
RegisterResolver ==
  /\ resolver' = TRUE
  /\ UNCHANGED <<setup, runtime, startup, issued, pc, token, built, wanted>>

\* As the server starts: of the configuration, if none was registered.
LoadResolvers ==
  /\ ~ resolver
  /\ resolver' = TRUE
  /\ UNCHANGED <<setup, runtime, startup, issued, pc, token, built, wanted>>

\* What was resolved at startup stays.
UnregisterResolver ==
  /\ resolver
  /\ resolver' = FALSE
  /\ UNCHANGED <<setup, runtime, startup, issued, pc, token, built, wanted>>

Resolving == \E t \in Task : pc[t] = "resolving"

\* clear() that forgets the tokens of the startup.
ClearButStartup ==
  /\ <<runtime, resolver, startup>> # <<None, FALSE, None>>
  /\ runtime' = None /\ resolver' = FALSE
  /\ wanted' = Resolving
  /\ UNCHANGED <<setup, startup, issued, pc, token, built>>

Clear ==
  /\ <<runtime, resolver, startup>> # <<None, FALSE, None>>
  /\ runtime' = None /\ resolver' = FALSE /\ startup' = None
  /\ wanted' = Resolving
  /\ UNCHANGED <<setup, issued, pc, token, built>>

\* The resolver is called, and answers later: with a token or by raising.
Asks(t, what) ==
  /\ pc[t] = "off" /\ resolver /\ issued < MaxIssued
  /\ issued' = issued + 1
  /\ pc' = [pc EXCEPT ![t] = what]
  /\ \E v \in {Raw(issued + 2), None} : token' = [token EXCEPT ![t] = v]

Answered(t, what) ==
  /\ pc[t] = what
  /\ pc' = [pc EXCEPT ![t] = "off"]
  /\ token' = [token EXCEPT ![t] = None]

\* resolve_startup_tokens()
Resolve(t) ==
  /\ setup.resolver = "startup"
  /\ Asks(t, "resolving")
  /\ wanted' = TRUE
  /\ UNCHANGED <<setup, runtime, resolver, startup, built>>

Resolved(t) ==
  /\ Answered(t, "resolving")
  /\ startup' = Or(token[t], startup)
  /\ UNCHANGED <<setup, runtime, resolver, issued, built, wanted>>

-----------------------------------------------------------------------------
(* get_api_key_async(), get_client() and the health check. *)

\* A token of the registry comes without an identity and without a raw key.
FromRegistry(v) ==
  IF Given(v) THEN Result(v, AuthType(setup), HeaderName(setup), FALSE, None)
  ELSE ApiKey(setup)

\* get_token() without a resolver that has to be asked.
AtHand == IF Given(runtime) THEN runtime
          ELSE IF setup.resolver = "startup" THEN startup ELSE None

MustAsk == ~ Given(runtime) /\ setup.resolver = "request" /\ resolver

Client(r) == [result |-> r, header |-> ClientHeader(setup, r)]

\* With tokens per request the client cannot be made: create_async_client()
\* does not take what get_client() passes.
Build(v) ==
  built' = IF setup.resolver = "request" THEN built ELSE Client(FromRegistry(v))

GetClient ==
  /\ ~ MustAsk
  /\ Build(AtHand)
  /\ UNCHANGED <<setup, runtime, resolver, startup, issued, pc, token, wanted>>

GetClientAsks(t) ==
  /\ MustAsk
  /\ Asks(t, "asking")
  /\ UNCHANGED <<setup, runtime, resolver, startup, built, wanted>>

GetClientAnswered(t) ==
  /\ Answered(t, "asking")
  /\ Build(token[t])
  /\ UNCHANGED <<setup, runtime, resolver, startup, issued, wanted>>

-----------------------------------------------------------------------------
Next ==
  \/ SetApiToken \/ ClearApiToken \/ RegisterResolver \/ LoadResolvers \/ UnregisterResolver
  \/ Clear
  \/ GetClient
  \/ \E t \in Task :
       Resolve(t) \/ Resolved(t) \/ GetClientAsks(t) \/ GetClientAnswered(t)

Spec == Init /\ [][Next]_vars

-----------------------------------------------------------------------------
(* Properties. *)

TypeOK ==
  /\ setup \in Setup /\ resolver \in BOOLEAN /\ issued \in 0 .. MaxIssued
  /\ runtime \in Values /\ startup \in Values
  /\ pc \in [Task -> {"off", "resolving", "asking"}] /\ token \in [Task -> Values]
  /\ built.header \in Headers

\* Where the two ways part: a type that get_api_key() does not know, a type
\* without a header, whose value is sent bare and told as a bearer, a value
\* without its Basic encoding, an identity that resolve_auth_config() leaves
\* out, a prefix that only one of them looks for, and a name that the result has
\* of its own.
Parts(r) ==
  \/ r.type # AuthType(setup)
  \/ r.type \in BareTypes
  \/ r.type \in BasicTypes /\ r.api.form # "basic"
  \/ r.identity /\ r.type \notin BasicTypes \cup {"bearer"}
  \/ setup.provider = "saucelabs" /\ r.identity /\ r.type = "bearer"
  \/ r.type \notin BasicTypes \cup BearerTypes /\ r.name # HeaderName(setup)

\* A client sends the header that get_auth_header() of its result tells.
HeadersAgree ==
  built.header # NoHeader =>
    \/ built.header = ResultHeader(built.result)
    \/ Parts(built.result)

\* After clear() a startup token comes only from a resolution that was under
\* way or begun later.
ClearedStaysCleared == Given(startup) => wanted
=============================================================================
