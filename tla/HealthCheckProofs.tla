--------------------------- MODULE HealthCheckProofs ---------------------------
(***************************************************************************)
(* What holds of the health checks, of the registry of tokens and of the   *)
(* manager of postgres beside them: for any configurations and places,     *)
(* with any number of callers, checks, scripts and requests.               *)
(*                                                                         *)
(* First what does not change: the header that a client of the factory     *)
(* sends for a configuration, the one that a script sends, the routes and  *)
(* the TLS.  Then the registry and the manager, each by itself, and that   *)
(* the checks leave both as they are; then the checks.  Last the encoders. *)
(***************************************************************************)
EXTENDS HealthCheck, TLAPS

-----------------------------------------------------------------------------
(* The results of the providers. *)

\* The result of a provider is what its own operator makes of the environment.
LEMMA ApiKeyIs ==
  ASSUME NEW s \in Setups
  PROVE  /\ s.provider \in Providers
         /\ s.provider = "jira" => ApiKey(s) = Jira(s)
         /\ s.provider = "confluence" => ApiKey(s) = Jira(s)
         /\ s.provider = "saucelabs" => ApiKey(s) = SauceLabs(s)
         /\ s.provider = "servicenow" => ApiKey(s) = ServiceNow(s)
         /\ s.provider = "github" => ApiKey(s) = GitHub(s)
         /\ s.provider = "sonar" => ApiKey(s) = Sonar(s)
         /\ s.provider = "figma" => ApiKey(s) = Figma(s)
         /\ s.provider = "gemini" => ApiKey(s) = Gemini(s)
         /\ s.provider = "rally" => ApiKey(s) = Rally(s)
         /\ s.provider = "statsig" => ApiKey(s) = Statsig(s)
         /\ s.provider = "akamai" => ApiKey(s) = Akamai(s)
         /\ s.provider = "elasticsearch" => ApiKey(s) = Elasticsearch(s)
         /\ s.provider = "postgres" => ApiKey(s) = Postgres(s)
         /\ s.provider = "redis" => ApiKey(s) = Redis(s)
BY DEF ApiKey, Setups, Confluence

\* A type that is configured is a valid one, and its header has a name.
LEMMA TypeAndName ==
  ASSUME NEW s \in Setups
  PROVE  /\ AuthType(s) \in ValidTypes
         /\ HeaderName(s) \in {"Authorization", "X-Api-Key", "own"}
         /\ AuthType(s) \in BasicTypes \cup BearerTypes => HeaderName(s) = "Authorization"
BY DEF AuthType, HeaderName, Setups, AuthTypes, ValidTypes, HeaderTypes, BareTypes, BasicTypes,
       BearerTypes, PairTypes, TokenTypes, CustomTypes

\* A type without a header is none of the others.
LEMMA BareIs ==
  ASSUME NEW type \in BareTypes
  PROVE  type \notin HeaderTypes \cup BasicTypes \cup PairTypes \cup TokenTypes \cup BearerTypes
                       \cup CustomTypes \cup PasswordTypes \cup {"x-api-key"}
BY DEF BareTypes, HeaderTypes, BasicTypes, BearerTypes, PairTypes, TokenTypes, CustomTypes,
       PasswordTypes

\* The secrets of the environment are secrets.
LEMMA SecretsFit == {0, 1} \subseteq 0 .. MaxIssued + 1
BY CredentialsAssumption

\* The key of the environment is raw, or there is none.
LEMMA KeyIs ==
  ASSUME NEW s
  PROVE  Key(s) = IF s.key THEN [form |-> "raw", secret |-> 0] ELSE [form |-> "none", secret |-> 0]
BY DEF Key, Raw, None

\* A result has values.
LEMMA ApiKeyTyped ==
  ASSUME NEW s \in Setups
  PROVE  ApiKey(s).api \in Values /\ ApiKey(s).raw \in Values
<1>. DEFINE Typed(r) == r.api \in Values /\ r.raw \in Values
<1>1. \A f \in Forms : \A n \in {0, 1} : [form |-> f, secret |-> n] \in Values
  BY SecretsFit DEF Values
<1>2. Key(s) \in Values /\ Raw(0) \in Values /\ Raw(1) \in Values /\ None \in Values
      /\ BasicOf(Key(s)) \in Values /\ PairOf(Key(s)) \in Values
  BY <1>1, KeyIs DEF Raw, None, Forms, BasicOf, PairOf
<1>3. Typed(Jira(s)) /\ Typed(SauceLabs(s))
  BY <1>2 DEF Jira, SauceLabs, JiraEncoding, Result
<1>4. Typed(ServiceNow(s)) /\ Typed(GitHub(s)) /\ Typed(Sonar(s)) /\ Typed(Figma(s))
      /\ Typed(Gemini(s))
  BY <1>2 DEF ServiceNow, GitHub, Sonar, Figma, Gemini, Result
<1>5. Typed(Rally(s)) /\ Typed(Statsig(s)) /\ Typed(Akamai(s))
  BY <1>2 DEF Rally, Statsig, Akamai, Result
<1>6. Typed(Postgres(s)) /\ Typed(Redis(s)) /\ Typed(Elasticsearch(s))
  BY <1>2 DEF Postgres, Redis, Elasticsearch, PostgresUrl, RedisUrl, ElasticsearchUrl, Result
<1>7. Typed(ApiKey(s))
  <2>. HIDE DEF Typed
  <2>. QED BY ApiKeyIs, <1>3, <1>4, <1>5, <1>6 DEF Providers
<1>. QED BY <1>7

-----------------------------------------------------------------------------
(* What the clients of the factory send. *)

Bearered(k) == IF Prefixed(k) THEN k ELSE BearerOf(k)

\* A client of the custom type sends its key as it is,
LEMMA CustomSends ==
  ASSUME NEW k, Given(k)
  PROVE  ClientSends("custom", Bearing(k)).value = k
<1>1. Identities("custom") = {} /\ Secret("custom", Bearing(k)) = k
  BY DEF Identities, Secret, PasswordTypes, Bearing
<1>2. Validates("custom", Bearing(k))
  BY <1>1 DEF Validates, HeaderTypes, CustomTypes, Bearing
<1>3. Format("custom", Bearing(k)) = AsItIs(k)
  BY DEF Format, Bearing, BasicTypes, PairTypes, TokenTypes
<1>. QED BY <1>2, <1>3 DEF ClientSends, AsItIs, Sent

\* and one of the bearer type sends it with a prefix.
LEMMA BearerSends ==
  ASSUME NEW k, Given(k)
  PROVE  ClientSends("bearer", Bearing(k)).value = Bearered(k)
<1>1. Identities("bearer") = {} /\ Secret("bearer", Bearing(k)) = k
  BY DEF Identities, Secret, PasswordTypes, Bearing
<1>2. Validates("bearer", Bearing(k))
  BY <1>1 DEF Validates, HeaderTypes, CustomTypes, BearerTypes, TokenTypes, Bearing
<1>3. Format("bearer", Bearing(k)) = Sent("none", Bearered(k))
  <2>1. CASE Prefixed(k)
    <3>1. Format("bearer", Bearing(k)) = AsItIs(k)
      BY <2>1 DEF Format, Bearing, BasicTypes, PairTypes, TokenTypes
    <3>. QED BY <2>1, <3>1 DEF Bearered, AsItIs
  <2>2. CASE ~ Prefixed(k)
    <3>1. Format("bearer", Bearing(k)) = Token(k)
      BY <2>2 DEF Format, Bearing, BasicTypes, PairTypes, TokenTypes
    <3>. QED BY <2>2, <3>1 DEF Bearered, Token
  <2>. QED BY <2>1, <2>2
<1>. QED BY <1>2, <1>3 DEF ClientSends, Sent

\* The header of a client, by the type.
LEMMA ClientHeaderIs ==
  ASSUME NEW s \in Setups, NEW r
  PROVE  /\ ~ Given(r.api) => ClientHeader(s, r) = NoHeader
         /\ Given(r.api) =>
              /\ AuthType(s) \in {"custom", "x-api-key"} =>
                   ClientHeader(s, r) = Header(HeaderName(s), Or(r.raw, r.api))
              /\ AuthType(s) \in BearerTypes /\ r.api.form = "basic" =>
                   ClientHeader(s, r) = Header(HeaderName(s), r.api)
              /\ AuthType(s) \in BearerTypes /\ r.api.form # "basic" =>
                   ClientHeader(s, r) = Header("Authorization", Bearered(Or(r.raw, r.api)))
              /\ AuthType(s) \in BasicTypes \cup BareTypes \cup {"custom_header"} =>
                   ClientHeader(s, r) = Header(HeaderName(s), r.api)
<1>1. CASE ~ Given(r.api)
  BY <1>1 DEF ClientHeader
<1>2. CASE Given(r.api)
  <2>. DEFINE auth == ResolveAuth(AuthType(s), r, HeaderName(s))
  <2>1. ClientHeader(s, r) = Header(auth.name, ClientSends(auth.type, Bearing(auth.key)).value)
    BY <1>2 DEF ClientHeader
  <2>2. Given(Or(r.raw, r.api))
    BY <1>2 DEF Or
  <2>3. ASSUME AuthType(s) \in {"custom", "x-api-key"}
        PROVE  ClientHeader(s, r) = Header(HeaderName(s), Or(r.raw, r.api))
    <3>1. auth = [type |-> "custom", key |-> Or(r.raw, r.api), name |-> HeaderName(s)]
      BY <2>3 DEF ResolveAuth, BearerTypes, PairTypes, TokenTypes
    <3>. HIDE DEF auth
    <3>. QED BY <3>1, <2>1, <2>2, CustomSends
  <2>4. ASSUME AuthType(s) \in BearerTypes, r.api.form = "basic"
        PROVE  ClientHeader(s, r) = Header(HeaderName(s), r.api)
    <3>1. auth = [type |-> "custom", key |-> r.api, name |-> HeaderName(s)]
      BY <2>4 DEF ResolveAuth, BearerTypes, PairTypes, TokenTypes
    <3>. HIDE DEF auth
    <3>. QED BY <3>1, <2>1, <1>2, CustomSends
  <2>5. ASSUME AuthType(s) \in BearerTypes, r.api.form # "basic"
        PROVE  ClientHeader(s, r) = Header("Authorization", Bearered(Or(r.raw, r.api)))
    <3>1. auth = [type |-> "bearer", key |-> Or(r.raw, r.api), name |-> "Authorization"]
      BY <2>5 DEF ResolveAuth, BearerTypes, PairTypes, TokenTypes
    <3>. HIDE DEF auth
    <3>. QED BY <3>1, <2>1, <2>2, BearerSends
  <2>6. ASSUME AuthType(s) \in BasicTypes \cup BareTypes \cup {"custom_header"}
        PROVE  ClientHeader(s, r) = Header(HeaderName(s), r.api)
    <3>1. auth = [type |-> "custom", key |-> r.api, name |-> HeaderName(s)]
      BY <2>6 DEF ResolveAuth, BasicTypes, BareTypes, BearerTypes, PairTypes, TokenTypes
    <3>. HIDE DEF auth
    <3>. QED BY <3>1, <2>1, <1>2, CustomSends
  <2>. QED BY <1>2, <2>3, <2>4, <2>5, <2>6
<1>. QED BY <1>1, <1>2

\* A client has a header if and only if there is a key.
LEMMA ClientHeaderGiven ==
  ASSUME NEW s \in Setups, NEW r, r.api \in Values, r.raw \in Values
  PROVE  /\ ClientHeader(s, r) \in Headers
         /\ ClientHeader(s, r) # NoHeader <=> Given(r.api)
<1>1. CASE ~ Given(r.api)
  BY <1>1, ClientHeaderIs, SecretsFit DEF NoHeader, Headers, Values, None, Forms
<1>2. CASE Given(r.api)
  <2>1. PICK name \in {"Authorization", "X-Api-Key", "own"}, v \in Values :
          ClientHeader(s, r) = Header(name, v)
    <3>1. Or(r.raw, r.api) \in Values
      BY DEF Or
    <3>2. Bearered(Or(r.raw, r.api)) \in Values
      BY <3>1 DEF Bearered, BearerOf, Values, Forms
    <3>3. AuthType(s)
            \in {"custom", "x-api-key"} \cup BearerTypes \cup BasicTypes \cup BareTypes
                  \cup {"custom_header"}
      BY TypeAndName DEF ValidTypes, HeaderTypes, CustomTypes
    <3>. QED BY <1>2, <3>1, <3>2, <3>3, ClientHeaderIs, TypeAndName
  <2>. QED BY <1>2, <2>1 DEF Header, Headers, NoHeader
<1>. QED BY <1>1, <1>2

-----------------------------------------------------------------------------
(* The two ways to a header agree. *)

\* What the registry has: a token with or without its prefix, and never the
\* key of the environment.
Registered(v) ==
  /\ v \in Values /\ v.form \in {"none", "raw", "bearer"}
  /\ Given(v) => v.secret \notin {0, 1}

Agree(r) ==
  \/ ClientHeader(setup, r) = ResultHeader(r)
  \/ Parts(r)

\* Of a token of the registry.
LEMMA TokensAgree ==
  ASSUME setup \in Setups, NEW v, Registered(v), Given(v)
  PROVE  Agree(FromRegistry(v))
<1>. DEFINE r == FromRegistry(v)
<1>. SUFFICES Agree(r)
  OBVIOUS
<1>1. /\ r.api = v /\ r.type = AuthType(setup) /\ r.name = HeaderName(setup)
      /\ ~ r.identity /\ r.raw = None
  BY DEF FromRegistry, Result
<1>2. /\ Given(r.api) /\ Or(r.raw, r.api) = v /\ Or(r.api, r.raw) = v
      /\ v.form \in {"raw", "bearer"}
  BY <1>1 DEF Or, Given, None, Registered
<1>. HIDE DEF r
<1>3. CASE AuthType(setup) \in BasicTypes
  BY <1>1, <1>2, <1>3 DEF Agree, Parts
<1>4. CASE AuthType(setup) \in BearerTypes
  <2>1. ClientHeader(setup, r) = Header("Authorization", Bearered(v))
    BY <1>1, <1>2, <1>4, ClientHeaderIs
  <2>2. ResultHeader(r) =
          Header("Authorization", IF v.form \in {"bearer", "pair"} THEN v ELSE BearerOf(v))
    <3>1. r.type \in BearerTypes /\ r.type \notin BasicTypes \cup CustomTypes \cup {"x-api-key"}
      BY <1>1, <1>4 DEF BasicTypes, BearerTypes, PairTypes, TokenTypes, CustomTypes
    <3>. QED BY <3>1, <1>1, <1>2 DEF ResultHeader
  <2>. QED BY <1>2, <2>1, <2>2 DEF Agree, Bearered, Prefixed
<1>5. CASE AuthType(setup) \in CustomTypes \cup {"x-api-key"}
  <2>1. ClientHeader(setup, r) = Header(HeaderName(setup), v)
    BY <1>1, <1>2, <1>5, ClientHeaderIs DEF CustomTypes
  <2>2. ResultHeader(r) = Header(HeaderName(setup), v)
    <3>1. r.type \in CustomTypes \cup {"x-api-key"} /\ r.type \notin BasicTypes \cup BearerTypes
      BY <1>1, <1>5 DEF BasicTypes, BearerTypes, PairTypes, TokenTypes, CustomTypes
    <3>. QED BY <3>1, <1>1, <1>2 DEF ResultHeader
  <2>. QED BY <2>1, <2>2 DEF Agree
<1>6. CASE AuthType(setup) \in BareTypes
  BY <1>1, <1>6 DEF Agree, Parts
<1>. QED BY <1>3, <1>4, <1>5, <1>6, TypeAndName DEF ValidTypes, HeaderTypes

\* Of a raw key without an identity.
LEMMA PlainAgrees ==
  ASSUME setup \in Setups, NEW r, Given(r.api), r.api.form = "raw", r.raw = r.api, ~ r.identity
  PROVE  Agree(r)
<1>. SUFFICES ASSUME ~ Parts(r) PROVE ClientHeader(setup, r) = ResultHeader(r)
  BY DEF Agree
<1>1. r.type = AuthType(setup) /\ r.type \notin BasicTypes \cup BareTypes
      /\ Or(r.raw, r.api) = r.api /\ Or(r.api, r.raw) = r.api
  BY DEF Parts, Or
<1>2. CASE r.type \in BearerTypes
  <2>1. ClientHeader(setup, r) = Header("Authorization", BearerOf(r.api))
    BY <1>1, <1>2, ClientHeaderIs DEF Bearered, Prefixed
  <2>2. r.type \notin CustomTypes \cup {"x-api-key"}
    BY <1>2 DEF BearerTypes, PairTypes, TokenTypes, CustomTypes
  <2>3. ResultHeader(r) = Header("Authorization", BearerOf(r.api))
    BY <1>1, <1>2, <2>2 DEF ResultHeader
  <2>. QED BY <2>1, <2>3
<1>3. CASE r.type \in CustomTypes \cup {"x-api-key"}
  <2>1. r.type \notin BearerTypes
    BY <1>3 DEF BearerTypes, PairTypes, TokenTypes, CustomTypes
  <2>2. r.name = HeaderName(setup)
    BY <1>1, <2>1 DEF Parts
  <2>3. ClientHeader(setup, r) = Header(HeaderName(setup), r.api)
    BY <1>1, <1>3, ClientHeaderIs DEF CustomTypes
  <2>4. ResultHeader(r) = Header(r.name, r.api)
    BY <1>1, <1>3, <2>1 DEF ResultHeader
  <2>. QED BY <2>2, <2>3, <2>4
<1>. QED BY <1>1, <1>2, <1>3, TypeAndName DEF ValidTypes, HeaderTypes

\* Of a key with an identity.
LEMMA IdentityAgrees ==
  ASSUME setup \in Setups, NEW r, Given(r.api), r.identity,
         r.type \in BasicTypes => r.api.form = "basic",
         r.type = "bearer" => r.api.form = "raw" /\ r.raw = r.api
  PROVE  Agree(r)
<1>. SUFFICES ASSUME ~ Parts(r) PROVE ClientHeader(setup, r) = ResultHeader(r)
  BY DEF Agree
<1>1. r.type = AuthType(setup) /\ r.type \in BasicTypes \cup {"bearer"}
  BY DEF Parts
<1>2. CASE r.type \in BasicTypes
  <2>1. ClientHeader(setup, r) = Header("Authorization", r.api)
    BY <1>1, <1>2, ClientHeaderIs, TypeAndName
  <2>2. r.type \notin BearerTypes \cup CustomTypes \cup {"x-api-key"}
    BY <1>2 DEF BasicTypes, BearerTypes, PairTypes, TokenTypes, CustomTypes
  <2>3. ResultHeader(r) = Header("Authorization", r.api)
    BY <1>2, <2>2 DEF ResultHeader
  <2>. QED BY <2>1, <2>3
<1>3. CASE r.type = "bearer"
  <2>1. /\ r.type \in BearerTypes /\ r.type \notin PairTypes
        /\ r.type \notin BasicTypes \cup CustomTypes \cup {"x-api-key"}
    BY <1>3 DEF BasicTypes, BearerTypes, PairTypes, TokenTypes, CustomTypes
  <2>2. r.api.form = "raw" /\ Or(r.raw, r.api) = r.api /\ Or(r.api, r.raw) = r.api
    BY <1>3 DEF Or
  <2>3. ClientHeader(setup, r) = Header("Authorization", BearerOf(r.api))
    BY <1>1, <2>1, <2>2, ClientHeaderIs DEF Bearered, Prefixed
  <2>4. ResultHeader(r) = Header("Authorization", BearerOf(r.api))
    BY <2>1, <2>2 DEF ResultHeader
  <2>. QED BY <2>3, <2>4
<1>. QED BY <1>1, <1>2, <1>3

\* Of the key of the environment.
LEMMA KeysAgree ==
  ASSUME setup \in Setups, Given(ApiKey(setup).api)
  PROVE  Agree(ApiKey(setup))
<1>. DEFINE s == setup
            r == ApiKey(setup)
<1>0. /\ Key(s) = None \/ Key(s) = Raw(0)
      /\ s.key <=> Given(Key(s))
      /\ ~ Given(None) /\ Raw(0).form = "raw"
  BY KeyIs DEF Given, None, Raw
<1>1. CASE s.provider \in {"jira", "confluence"}
  <2>1. r = Jira(s)
    BY <1>1, ApiKeyIs
  <2>2. s.key /\ s.identity /\ r.identity /\ r.api = JiraEncoding(s) /\ r.raw = Raw(0)
        /\ r.type = AuthType(s)
    BY <1>0, <2>1 DEF Jira, Result
  <2>3. r.type = "bearer" => r.api = Raw(0)
    BY <1>0, <2>2 DEF JiraEncoding, PairTypes
  <2>4. r.type \in BasicTypes => r.api = BasicOf(Raw(0))
    BY <1>0, <2>2 DEF JiraEncoding, PairTypes, BasicTypes
  <2>5. BasicOf(Raw(0)).form = "basic"
    BY DEF BasicOf, Raw
  <2>. HIDE DEF r
  <2>. QED BY <1>0, <2>2, <2>3, <2>4, <2>5, IdentityAgrees DEF r
<1>2. CASE s.provider = "saucelabs"
  <2>1. r = SauceLabs(s)
    BY <1>2, ApiKeyIs
  <2>2. s.key /\ r.identity /\ r.api = BasicOf(Raw(0)) /\ r.type = AuthType(s)
    BY <1>0, <2>1 DEF SauceLabs, Result
  <2>3. BasicOf(Raw(0)).form = "basic"
    BY DEF BasicOf, Raw
  <2>4. CASE r.type = "bearer"
    BY <1>2, <2>2, <2>4 DEF Agree, Parts
  <2>5. CASE r.type # "bearer"
    BY <2>2, <2>3, <2>5, IdentityAgrees
  <2>. QED BY <2>4, <2>5
<1>3. CASE s.provider = "servicenow"
  <2>1. r = ServiceNow(s)
    BY <1>3, ApiKeyIs
  <2>2. r.type = "basic" /\ r.api = Raw(0)
    BY <1>0, <2>1 DEF ServiceNow, Result
  <2>. QED BY <1>0, <2>2 DEF Agree, Parts, BasicTypes
<1>4. CASE s.provider \in {"github", "gemini", "sonar", "figma", "statsig"}
  <2>1. r \in {GitHub(s), Gemini(s), Sonar(s), Figma(s), Statsig(s)}
    BY <1>4, ApiKeyIs
  <2>2. r.api = Key(s) /\ r.raw = Key(s) /\ ~ r.identity
    BY <2>1 DEF GitHub, Gemini, Sonar, Figma, Statsig, Result
  <2>. QED BY <1>0, <2>2, PlainAgrees
<1>5. CASE s.provider \in {"rally", "akamai", "elasticsearch", "postgres", "redis"}
  <2>1. r \in {Rally(s), Akamai(s), Elasticsearch(s), Postgres(s), Redis(s)}
    BY <1>5, ApiKeyIs
  <2>2. r.type \notin HeaderTypes
    BY <2>1 DEF Rally, Akamai, Elasticsearch, Postgres, Redis, Result, HeaderTypes, BasicTypes,
                BearerTypes, PairTypes, TokenTypes, CustomTypes
  <2>. QED BY <2>2, TypeAndName DEF Agree, Parts, ValidTypes
<1>. QED BY <1>1, <1>2, <1>3, <1>4, <1>5, ApiKeyIs DEF Providers

-----------------------------------------------------------------------------
(* What the scripts send. *)

\* What the scripts hand to their clients.
LEMMA OffersOf ==
  /\ AsFactory = {"jira", "confluence", "github", "figma"}
  /\ \A p \in {"sonar", "gemini", "rally", "akamai", "statsig"} : ScriptOf[p].offer = "key"
  /\ \A p \in {"saucelabs", "elasticsearch"} : ScriptOf[p].offer = "username"
  /\ ScriptOf["servicenow"].offer = "email"
<1>1. \A base, offer, raises : Asking(base, offer, raises).offer = offer
  BY DEF Asking
<1>2. DOMAIN ScriptOf = {"jira", "confluence", "github", "figma", "saucelabs", "sonar", "gemini",
                         "rally", "akamai", "elasticsearch", "servicenow", "statsig"}
  BY DEF ScriptOf
<1>3. /\ ScriptOf["jira"].offer = "factory" /\ ScriptOf["confluence"].offer = "factory"
      /\ ScriptOf["github"].offer = "factory" /\ ScriptOf["figma"].offer = "factory"
      /\ ScriptOf["saucelabs"].offer = "username" /\ ScriptOf["elasticsearch"].offer = "username"
      /\ ScriptOf["servicenow"].offer = "email"
  BY <1>1 DEF ScriptOf, JiraScript, ConfluenceScript, GitHubScript, FigmaScript, SauceLabsScript,
              ElasticsearchScript, ServiceNowScript
<1>4. /\ ScriptOf["sonar"].offer = "key" /\ ScriptOf["gemini"].offer = "key"
      /\ ScriptOf["rally"].offer = "key" /\ ScriptOf["akamai"].offer = "key"
      /\ ScriptOf["statsig"].offer = "key"
  BY <1>1 DEF ScriptOf, SonarScript, GeminiScript, RallyScript, AkamaiScript, StatsigScript
<1>5. AsFactory = {"jira", "confluence", "github", "figma"}
  BY <1>2, <1>3, <1>4 DEF AsFactory
<1>. QED BY <1>3, <1>4, <1>5

\* A key without an identity is sent for the types that need none.
LEMMA KeySends ==
  ASSUME NEW type, NEW o, o.has = {}, o.named, o.password = None, o.key.form = "raw"
  PROVE  /\ type \in TokenTypes => ClientSends(type, o) = Sent("none", BearerOf(o.key))
         /\ type \in CustomTypes => ClientSends(type, o) = Sent("none", o.key)
         /\ type \in BasicTypes \cup PairTypes => ClientSends(type, o) = Nothing
         /\ type \notin HeaderTypes => ClientSends(type, o) = Nothing
<1>0. Given(o.key) /\ ~ Prefixed(o.key)
  BY DEF Given, Prefixed
<1>1. CASE type \in TokenTypes
  <2>1. type \notin BasicTypes \cup PairTypes \cup CustomTypes \cup PasswordTypes \cup {"hmac"}
    BY <1>1 DEF TokenTypes, BasicTypes, PairTypes, CustomTypes, PasswordTypes
  <2>2. Identities(type) = {} /\ Secret(type, o) = o.key
    BY <1>1, <2>1 DEF Identities, Secret, TokenTypes
  <2>3. Validates(type, o)
    BY <1>0, <1>1, <2>1, <2>2 DEF Validates, HeaderTypes, BearerTypes
  <2>4. Format(type, o) = Token(o.key)
    BY <1>0, <1>1, <2>1 DEF Format
  <2>. QED BY <1>0, <1>1, <2>1, <2>3, <2>4 DEF ClientSends, Token, HeaderTypes, BearerTypes
<1>2. CASE type \in CustomTypes
  <2>1. type \notin BasicTypes \cup PairTypes \cup TokenTypes \cup PasswordTypes \cup {"hmac"}
    BY <1>2 DEF TokenTypes, BasicTypes, PairTypes, CustomTypes, PasswordTypes
  <2>2. Identities(type) = {} /\ Secret(type, o) = o.key
    BY <1>2, <2>1 DEF Identities, Secret, CustomTypes
  <2>3. Validates(type, o)
    BY <1>0, <1>2, <2>2 DEF Validates, HeaderTypes
  <2>4. Format(type, o) = AsItIs(o.key)
    BY <1>0, <2>1 DEF Format
  <2>. QED BY <1>2, <2>1, <2>3, <2>4 DEF ClientSends, AsItIs, HeaderTypes
<1>3. CASE type \in BasicTypes \cup PairTypes
  <2>1. Identities(type) # {}
    BY <1>3 DEF Identities, BasicTypes, PairTypes
  <2>2. ~ Validates(type, o) /\ type \notin TokenTypes \cup CustomTypes /\ type \in HeaderTypes
    BY <1>3, <2>1
       DEF Validates, HeaderTypes, BasicTypes, BearerTypes, PairTypes, TokenTypes, CustomTypes
  <2>. QED BY <2>2 DEF ClientSends
<1>4. CASE type \notin HeaderTypes
  BY <1>4 DEF ClientSends, Validates, HeaderTypes, BearerTypes
<1>. QED BY <1>1, <1>2, <1>3, <1>4

\* The name of a header that a client is handed with its type.
LEMMA NameIs ==
  ASSUME NEW type, NEW name
  PROVE  /\ type \in CustomTypes => AuthHeaderName(type, name) = name
         /\ type \in BasicTypes \cup BearerTypes => AuthHeaderName(type, name) = "Authorization"
BY DEF AuthHeaderName, CustomTypes, BasicTypes, BearerTypes, PairTypes, TokenTypes

\* A key with an identity is encoded for a type of Basic, or not sent.
LEMMA BasicSends ==
  ASSUME NEW type \in BasicTypes, NEW o, o.password = None, o.key.form = "raw"
  PROVE  ClientSends(type, o) = Nothing \/ ClientSends(type, o).value = BasicOf(o.key)
<1>1. Given(o.key) /\ ~ Prefixed(o.key) /\ Or(o.password, o.key) = o.key
  BY DEF Given, Prefixed, Or, None
<1>2. type \notin PairTypes \cup TokenTypes \cup {"hmac"}
  BY DEF BasicTypes, PairTypes, TokenTypes
<1>3. Format(type, o) = Basic(Prefer(o.has, "email"), o.key)
  BY <1>1, <1>2 DEF Format
<1>. QED BY <1>1, <1>3 DEF ClientSends, Basic, Sent

\* A script that makes its own client sends what that client does.
LEMMA ScriptHeaderIs ==
  ASSUME NEW r, Provider \notin AsFactory, ScriptHeader(r) # NoHeader
  PROVE  /\ ClientSends(r.type, ScriptOffer(r)) # Nothing
         /\ ScriptHeader(r) = Header(AuthHeaderName(r.type, r.name),
                                     ClientSends(r.type, ScriptOffer(r)).value)
BY DEF ScriptHeader

\* Of a raw key without an identity.
LEMMA PlainScriptAgrees ==
  ASSUME NEW r, Provider \in {"sonar", "gemini", "statsig"}, ScriptHeader(r) # NoHeader,
         r.type # "x-api-key", r.api.form = "raw", r.raw = r.api, ~ r.identity
  PROVE  ScriptHeader(r) = ResultHeader(r)
<1>. DEFINE o == ScriptOffer(r)
<1>0. Provider \notin AsFactory
  BY OffersOf
<1>1. o.has = {} /\ o.password = None /\ o.key = r.api /\ o.named
  BY DEF ScriptOffer
<1>2. /\ ClientSends(r.type, o) # Nothing
      /\ ScriptHeader(r) = Header(AuthHeaderName(r.type, r.name), ClientSends(r.type, o).value)
  BY <1>0, ScriptHeaderIs
<1>. HIDE DEF o
<1>3. r.type \in TokenTypes \cup CustomTypes
  BY <1>1, <1>2, KeySends DEF HeaderTypes, BearerTypes
<1>4. Or(r.api, r.raw) = r.api
  BY DEF Or
<1>5. CASE r.type \in TokenTypes
  <2>1. /\ r.type \in BearerTypes /\ r.type \notin PairTypes
        /\ r.type \notin BasicTypes \cup CustomTypes \cup {"x-api-key"}
    BY <1>5 DEF BasicTypes, BearerTypes, PairTypes, TokenTypes, CustomTypes
  <2>2. ScriptHeader(r) = Header("Authorization", BearerOf(r.api))
    BY <1>1, <1>2, <1>5, <2>1, KeySends, NameIs DEF Sent
  <2>3. ResultHeader(r) = Header("Authorization", BearerOf(r.api))
    BY <1>4, <2>1 DEF ResultHeader
  <2>. QED BY <2>2, <2>3
<1>6. CASE r.type \in CustomTypes
  <2>1. r.type \notin BasicTypes \cup BearerTypes
    BY <1>6 DEF BasicTypes, BearerTypes, PairTypes, TokenTypes, CustomTypes
  <2>2. ScriptHeader(r) = Header(r.name, r.api)
    BY <1>1, <1>2, <1>6, KeySends, NameIs DEF Sent
  <2>3. ResultHeader(r) = Header(r.name, r.api)
    BY <1>4, <1>6, <2>1 DEF ResultHeader
  <2>. QED BY <2>2, <2>3
<1>. QED BY <1>3, <1>5, <1>6

\* A script sends the header of its credentials, or parts from it.
LEMMA ScriptsAgree ==
  ASSUME setup \in Setups, Provider \notin Databases, Given(ApiKey(setup).api),
         ScriptHeader(ApiKey(setup)) # NoHeader
  PROVE  ScriptHeader(ApiKey(setup)) = ResultHeader(ApiKey(setup)) \/ ScriptParts
<1>. DEFINE s == setup
            r == ApiKey(setup)
            o == ScriptOffer(r)
<1>0. /\ Key(s) = None \/ Key(s) = Raw(0)
      /\ s.key <=> Given(Key(s))
      /\ ~ Given(None) /\ Raw(0).form = "raw"
  BY KeyIs DEF Given, None, Raw
<1>a. o.password = None /\ o.key = r.raw
  BY DEF ScriptOffer
<1>b. ASSUME Provider \notin AsFactory
      PROVE  /\ ClientSends(r.type, o) # Nothing
             /\ ScriptHeader(r)
                  = Header(AuthHeaderName(r.type, r.name), ClientSends(r.type, o).value)
  BY <1>b, ScriptHeaderIs
<1>1. CASE Provider \in AsFactory
  BY <1>1, KeysAgree DEF Agree, ScriptParts, ScriptHeader
<1>2. CASE Provider = "saucelabs" /\ AuthType(s) \in BasicTypes
  <2>1. r = SauceLabs(s)
    BY <1>2, ApiKeyIs DEF Provider
  <2>2. r.api = BasicOf(Raw(0)) /\ r.raw = Raw(0) /\ r.type = AuthType(s)
    BY <1>0, <2>1 DEF SauceLabs, Result
  <2>3. BasicOf(Raw(0)).form = "basic" /\ Provider \notin AsFactory
    BY <1>2, OffersOf DEF BasicOf, Raw
  <2>4. r.type \notin BearerTypes \cup CustomTypes \cup {"x-api-key"}
    BY <1>2, <2>2 DEF BasicTypes, BearerTypes, PairTypes, TokenTypes, CustomTypes
  <2>. HIDE DEF r, o
  <2>5. ScriptHeader(r) = Header("Authorization", BasicOf(Raw(0)))
    BY <1>0, <1>2, <1>a, <1>b, <2>2, <2>3, BasicSends, NameIs
  <2>6. ResultHeader(r) = Header("Authorization", r.api)
    BY <1>2, <2>2, <2>3, <2>4 DEF ResultHeader
  <2>. QED BY <2>2, <2>5, <2>6 DEF r
<1>3. CASE Provider = "servicenow"
  <2>1. r = ServiceNow(s)
    BY <1>3, ApiKeyIs DEF Provider
  <2>2. r.api = Raw(0) /\ r.raw = Raw(0) /\ r.type = "basic" /\ r.identity
    BY <1>0, <2>1 DEF ServiceNow, Result
  <2>3. r.type \in BasicTypes /\ Provider \notin AsFactory /\ Or(r.raw, r.api) = Raw(0)
    BY <1>3, <2>2, OffersOf DEF BasicTypes, Or
  <2>4. r.type \notin BearerTypes \cup CustomTypes \cup {"x-api-key"}
    BY <2>2 DEF BearerTypes, PairTypes, TokenTypes, CustomTypes
  <2>. HIDE DEF r, o
  <2>5. ScriptHeader(r) = Header("Authorization", BasicOf(Raw(0)))
    BY <1>0, <1>a, <1>b, <2>2, <2>3, BasicSends, NameIs
  <2>6. ResultHeader(r) = Header("Authorization", BasicOf(Raw(0)))
    BY <1>0, <2>2, <2>3, <2>4 DEF ResultHeader
  <2>. QED BY <2>5, <2>6 DEF r
<1>4. CASE Provider \in {"sonar", "gemini", "statsig"}
  <2>1. r \in {Gemini(s), Sonar(s), Statsig(s)}
    BY <1>4, ApiKeyIs DEF Provider
  <2>2. r.api = Key(s) /\ r.raw = Key(s) /\ ~ r.identity
    BY <2>1 DEF Gemini, Sonar, Statsig, Result
  <2>3. r.type = "x-api-key" => Provider = "sonar" /\ AuthType(s) = "x-api-key"
    BY <1>4, ApiKeyIs DEF Provider, Gemini, Sonar, Statsig, Result
  <2>4. CASE r.type = "x-api-key"
    BY <2>3, <2>4 DEF ScriptParts
  <2>5. CASE r.type # "x-api-key"
    BY <1>0, <1>4, <2>2, <2>5, PlainScriptAgrees
  <2>. QED BY <2>4, <2>5
<1>5. CASE Provider \in {"rally", "akamai", "elasticsearch"}
  <2>1. r \in {Rally(s), Akamai(s), Elasticsearch(s)}
    BY <1>5, ApiKeyIs DEF Provider
  <2>2. r.type \notin HeaderTypes
    BY <2>1 DEF Rally, Akamai, Elasticsearch, Result, HeaderTypes, BasicTypes,
                BearerTypes, PairTypes, TokenTypes, CustomTypes
  <2>3. ClientSends(r.type, o) = Nothing
    BY <2>2 DEF ClientSends, Validates
  <2>. QED BY <1>5, <1>b, <2>3, OffersOf
<1>6. CASE Provider = "saucelabs" /\ AuthType(s) \notin BasicTypes
  BY <1>6 DEF ScriptParts
<1>. QED
  BY <1>1, <1>2, <1>3, <1>4, <1>5, <1>6, OffersOf, ApiKeyIs DEF Providers, Databases, Provider

-----------------------------------------------------------------------------
(* The routes. *)

\* A route has a proxy, or none.
LEMMA RoutesTyped ==
  ASSUME NEW provider, NEW place \in Places
  PROVE  /\ FactoryRoute(provider, place) \in Routes
         /\ ElasticsearchRoute(place) \in Routes
         /\ ScriptRoute(provider, place) \in Routes
<1>1. \A perEnv \in Proxies : Waterfall(place, perEnv) \in Proxies
  BY DEF Waterfall, Proxies
<1>2. \A direct \in {"unset", "none", "direct"} : \A agent \in Proxies : \A perEnv \in Proxies :
        ResolveProxy(place, direct, agent, perEnv) \in Proxies
  BY <1>1 DEF ResolveProxy, Proxies
<1>3. \A has, ownHas : /\ Ranked(has, ownHas, "agent", "ownAgent") \in Proxies
                       /\ Ranked(has, ownHas, "perEnv", "ownPerEnv") \in Proxies
                       /\ Ranked(has, {}, "agent", "") \in Proxies
                       /\ Ranked(has, {}, "perEnv", "") \in Proxies
  BY DEF Ranked, Proxies
<1>4. \A proxy \in Proxies : \A verify : Dispatch(place, proxy, verify) \in Routes
  BY DEF Dispatch, Route, Routes, Places
<1>5. place.direct \in {"unset", "none", "direct"}
  BY DEF Places
<1>6. FactoryRoute(provider, place) \in Routes /\ ElasticsearchRoute(place) \in Routes
  BY <1>2, <1>3, <1>4, <1>5 DEF FactoryRoute, ElasticsearchRoute
<1>7. Handed(provider, place) \in Proxies
  BY DEF Handed, Proxies
<1>8. DefaultRoute(place) \in Routes /\ PlainRoute(place) \in Routes
  BY DEF DefaultRoute, PlainRoute, Route, Routes, Proxies, Places
<1>9. DispatcherRoute(provider, place) \in Routes
  BY <1>2, <1>3, <1>4, <1>7, <1>8 DEF DispatcherRoute
<1>. QED BY <1>6, <1>8, <1>9 DEF ScriptRoute

\* What a place without anything that only one way looks at is like.
LEMMA ScriptAsFactory ==
  ASSUME NEW provider, NEW place \in Places, ~ RoutesPart(provider, place)
  PROVE  ScriptRoute(provider, place) = FactoryRoute(provider, place)
<1>. DEFINE section == Section(provider, place)
            handed  == Handed(provider, place)
<1>1. /\ place.own.has = {} /\ place.legacy = Absent
      /\ place.direct \in {"unset", "direct"}
      /\ place.direct = "direct" => provider = "confluence"
      /\ Configured(provider, place)
      /\ ~ Broken(place, DispatcherRoute(provider, place).proxy)
  BY DEF RoutesPart, Places, Sections
<1>2. ProviderSection(provider, place) = section
  BY <1>1 DEF ProviderSection
<1>3. "agent" \notin section.has /\ "perEnv" \notin section.has
  BY <1>1 DEF Section, ConfluenceConfig, NetworkConfig, Places, Sections
<1>4. handed = IF place.direct = "direct" THEN "direct" ELSE "none"
  BY <1>1 DEF Handed, NetworkConfig, Places, Sections
<1>5. \A setting \in {"agent", "perEnv"} : \A name, other :
        Ranked(place.global.has, section.has, setting, name)
          = Ranked(place.global.has, {}, setting, other)
  BY <1>3 DEF Ranked
<1>. DEFINE agent  == Ranked(place.global.has, {}, "agent", "")
            perEnv == Ranked(place.global.has, {}, "perEnv", "")
            verify == MergedVerify(place.global, section)
<1>6. FactoryRoute(provider, place)
        = Dispatch(place, ResolveProxy(place, place.direct, agent, perEnv), verify)
  BY <1>2, <1>5 DEF FactoryRoute
<1>7. ScriptRoute(provider, place)
        = Dispatch(place,
                   ResolveProxy(place, "unset", IF handed # "none" THEN handed ELSE agent, perEnv),
                   verify)
  BY <1>1 DEF ScriptRoute, DispatcherRoute
<1>. HIDE DEF handed, agent, perEnv, verify
<1>8. ResolveProxy(place, "unset", IF handed # "none" THEN handed ELSE agent, perEnv)
        = ResolveProxy(place, place.direct, agent, perEnv)
  BY <1>1, <1>4 DEF ResolveProxy
<1>. QED BY <1>6, <1>7, <1>8

\* Whose word on certificates counts.
LEMMA SectionVerifies ==
  ASSUME NEW provider, NEW place \in Places, ~ UnverifiedAsked(provider, place, FALSE)
  PROVE  /\ ~ place.off
         /\ MergedVerify(place.global, Section(provider, place)) # "off"
         /\ MergedVerify(place.global, ProviderSection(provider, place)) # "off"
<1>1. /\ ~ place.off /\ place.own.verify \in {"unset", "on"}
      /\ place.own.verify = "unset" => place.global.verify # "off" /\ place.legacy.verify # "off"
      /\ provider = "confluence" => place.own.verify = "on"
  BY DEF UnverifiedAsked, Places, Sections
<1>2. Section(provider, place).verify = place.own.verify
  BY <1>1 DEF Section, ConfluenceConfig, NetworkConfig
<1>3. MergedVerify(place.global, Section(provider, place)) # "off"
  BY <1>1, <1>2 DEF MergedVerify
<1>4. Section(provider, place) = Absent => place.own.verify = "unset"
  BY <1>2 DEF Absent
<1>5. MergedVerify(place.global, ProviderSection(provider, place)) # "off"
  BY <1>1, <1>3, <1>4 DEF ProviderSection, MergedVerify
<1>. QED BY <1>1, <1>3, <1>5

\* A client of the factory leaves no certificate unverified unasked,
LEMMA FactoryVerifies ==
  ASSUME NEW provider, NEW place \in Places
  PROVE  FactoryRoute(provider, place).verify \/ UnverifiedAsked(provider, place, FALSE)
BY SectionVerifies DEF FactoryRoute, Dispatch, Route

\* and neither does that of a script.
LEMMA ScriptVerifies ==
  ASSUME NEW provider, NEW place \in Places
  PROVE  ScriptRoute(provider, place).verify \/ UnverifiedAsked(provider, place, TRUE)
<1>. SUFFICES ASSUME ~ UnverifiedAsked(provider, place, TRUE)
              PROVE  ScriptRoute(provider, place).verify
  OBVIOUS
<1>1. ~ UnverifiedAsked(provider, place, FALSE)
  BY DEF UnverifiedAsked
<1>2. ~ place.off /\ (place.dev => Configured(provider, place))
  BY DEF UnverifiedAsked
<1>3. PlainRoute(place).verify
  BY <1>2 DEF PlainRoute
<1>4. DispatcherRoute(provider, place).verify
  <2>1. CASE Configured(provider, place)
    BY <1>1, <2>1, SectionVerifies DEF DispatcherRoute, Dispatch, Route
  <2>2. CASE ~ Configured(provider, place)
    BY <1>2, <2>2 DEF DispatcherRoute, DefaultRoute, Route
  <2>. QED BY <2>1, <2>2
<1>. QED BY <1>3, <1>4 DEF ScriptRoute

\* With which TLS.
LEMMA DatabaseTls ==
  ASSUME NEW place \in Places
  PROVE  /\ PostgresTls(place) \in Tls /\ RedisTls(place) \in Tls /\ RedisScriptTls \in Tls
         /\ \/ PostgresTls(place) = ModeTls[place.sslmode]
            \/ NetworkConfig(place).verify = "off"
         /\ \/ RedisTls(place) = IF place.tls THEN "verified" ELSE "plain"
            \/ NetworkConfig(place).verify = "off"
         /\ \/ PostgresScriptTls(place) = ServerTls(place)
            \/ place.ssl_mode \in {"require", "verify"}
<1>0. place.own \in Sections /\ place.sslmode \in SslModes /\ place.ssl_mode \in SslModes
  BY DEF Places
<1>1. place.off \/ place.own.verify = "off" => NetworkConfig(place).verify = "off"
  BY <1>0 DEF NetworkConfig, Sections
<1>2. \A mode \in SslModes : ModeTls[mode] \in Tls
  BY DEF ModeTls, SslModes, Tls
<1>3. PostgresScriptTls(place) = ServerTls(place) \/ place.ssl_mode \in {"require", "verify"}
  BY <1>0 DEF PostgresScriptTls, ServerTls, ConfigTls, ModeTls, SslModes
<1>. QED BY <1>0, <1>1, <1>2, <1>3 DEF PostgresTls, RedisTls, RedisScriptTls, Tls

-----------------------------------------------------------------------------
(* The registry of tokens by itself. *)

\* The registry has tokens that were issued, and tokens of the startup only
\* when they were wanted since the last clear(), as a resolution under way is.
RegistryInv ==
  /\ TypeOK
  /\ Registered(runtime) /\ Registered(startup)
  /\ \A t \in Task : Registered(token[t])
  /\ HeadersAgree /\ ClearedStaysCleared
  /\ Resolving => wanted

\* The next token is none of the environment.
LEMMA TokenIssued ==
  ASSUME RegistryInv, issued < MaxIssued, NEW f \in {"raw", "bearer"}
  PROVE  Registered([form |-> f, secret |-> issued + 2])
BY CredentialsAssumption DEF RegistryInv, TypeOK, Registered, Values, Forms

\* No token is one that the registry may have.
LEMMA NothingRegistered == Registered(None)
BY SecretsFit DEF Registered, Values, Forms, None, Given

\* The registry begins empty.
LEMMA RegistryInitially == Init => RegistryInv
<1>. SUFFICES ASSUME Init PROVE RegistryInv
  OBVIOUS
<1>1. TypeOK
  <2>1. None \in Values /\ NoHeader \in Headers /\ 0 \in 0 .. MaxIssued
    BY NothingRegistered, CredentialsAssumption DEF Registered, Headers, NoHeader
  <2>2. built.header = NoHeader
    BY DEF Init, InitFor
  <2>. QED BY <2>1, <2>2 DEF Init, InitFor, TypeOK
<1>2. HeadersAgree
  BY DEF Init, InitFor, HeadersAgree
<1>3. ClearedStaysCleared /\ ~ Resolving
  BY DEF Init, InitFor, ClearedStaysCleared, Resolving, Given, None
<1>. QED BY <1>1, <1>2, <1>3, NothingRegistered DEF RegistryInv, Init, InitFor

\* A client that is made of a token agrees.
LEMMA BuildKeeps ==
  ASSUME RegistryInv, NEW v, Registered(v), UNCHANGED setup, Build(v)
  PROVE  HeadersAgree' /\ built'.header \in Headers
<1>1. setup \in Setups
  BY CredentialsAssumption DEF RegistryInv, TypeOK
<1>2. CASE built' = built
  BY <1>2 DEF RegistryInv, TypeOK, HeadersAgree, Parts
<1>3. CASE built' = Client(FromRegistry(v))
  <2>. DEFINE r == FromRegistry(v)
  <2>1. r.api \in Values /\ r.raw \in Values
    BY <1>1, ApiKeyTyped, NothingRegistered DEF FromRegistry, Result, Registered
  <2>2. built'.result = r /\ built'.header = ClientHeader(setup, r)
    BY <1>3 DEF Client
  <2>3. ClientHeader(setup, r) # NoHeader => Given(r.api)
    BY <1>1, <2>1, ClientHeaderGiven
  <2>4. Given(r.api) => Agree(r)
    BY <1>1, TokensAgree, KeysAgree DEF FromRegistry
  <2>5. built'.header \in Headers
    BY <1>1, <2>1, <2>2, ClientHeaderGiven
  <2>. HIDE DEF r
  <2>6. HeadersAgree'
    BY <2>2, <2>3, <2>4 DEF HeadersAgree, Agree, Parts
  <2>. QED BY <2>5, <2>6
<1>. QED BY <1>2, <1>3 DEF Build

\* Each step of the registry and of a client keeps what it has.
LEMMA RegistryKeeps == RegistryInv /\ [Next]_vars => RegistryInv'
<1>. SUFFICES ASSUME RegistryInv, [Next]_vars PROVE RegistryInv'
  OBVIOUS
<1>. USE DEF RegistryInv
<1>0. ASSUME UNCHANGED <<setup, built>>
      PROVE  HeadersAgree' /\ setup' \in Setup /\ built'.header \in Headers
  BY <1>0 DEF TypeOK, HeadersAgree, Parts
<1>a. ASSUME UNCHANGED <<pc, token>>
      PROVE  /\ pc' \in [Task -> {"off", "resolving", "asking"}] /\ token' \in [Task -> Values]
             /\ (\A t \in Task : Registered(token[t]))' /\ (Resolving' <=> Resolving)
  BY <1>a DEF TypeOK, Registered, Resolving
<1>b. issued \in 0 .. MaxIssued /\ (issued < MaxIssued => issued + 1 \in 0 .. MaxIssued)
  BY CredentialsAssumption DEF TypeOK
<1>1. CASE SetApiToken
  <2>1. Registered(runtime')
    BY <1>1, TokenIssued DEF SetApiToken
  <2>. QED BY <1>1, <1>0, <1>a, <1>b, <2>1 DEF SetApiToken, TypeOK, Registered, ClearedStaysCleared
<1>2. CASE ClearApiToken
  BY <1>2, <1>0, <1>a, NothingRegistered DEF ClearApiToken, TypeOK, Registered, ClearedStaysCleared
<1>3. CASE RegisterResolver \/ LoadResolvers \/ UnregisterResolver
  BY <1>3, <1>0, <1>a
     DEF RegisterResolver, LoadResolvers, UnregisterResolver, TypeOK, Registered,
         ClearedStaysCleared
<1>4. CASE Clear
  BY <1>4, <1>0, <1>a, NothingRegistered
     DEF Clear, TypeOK, Registered, ClearedStaysCleared, Given, None
<1>5. CASE GetClient
  <2>1. Registered(AtHand)
    BY NothingRegistered DEF AtHand
  <2>2. HeadersAgree' /\ built'.header \in Headers
    BY <1>5, <2>1, BuildKeeps DEF GetClient
  <2>. QED BY <1>5, <1>a, <2>2 DEF GetClient, TypeOK, Registered, ClearedStaysCleared
\* A caller that asks the resolver, and one that it answers.
<1>6. ASSUME NEW t \in Task, NEW what \in {"resolving", "asking"}, Asks(t, what)
      PROVE  /\ pc' = [pc EXCEPT ![t] = what] /\ issued' \in 0 .. MaxIssued
             /\ pc' \in [Task -> {"off", "resolving", "asking"}] /\ token' \in [Task -> Values]
             /\ (\A u \in Task : Registered(token[u]))'
  <2>1. PICK v \in {Raw(issued + 2), None} : token' = [token EXCEPT ![t] = v]
    BY <1>6 DEF Asks
  <2>2. Registered(v)
    BY <1>6, TokenIssued, NothingRegistered DEF Asks, Raw
  <2>3. \A u \in Task : token'[u] = token[u] \/ token'[u] = v
    BY <2>1 DEF TypeOK
  <2>. QED BY <1>6, <1>b, <2>1, <2>2, <2>3 DEF Asks, TypeOK, Registered
<1>7. ASSUME NEW t \in Task, NEW what \in {"resolving", "asking"}, Answered(t, what)
      PROVE  /\ pc[t] = what /\ pc' = [pc EXCEPT ![t] = "off"]
             /\ pc' \in [Task -> {"off", "resolving", "asking"}] /\ token' \in [Task -> Values]
             /\ (\A u \in Task : Registered(token[u]))'
             /\ Resolving' => Resolving
  <2>1. token' = [token EXCEPT ![t] = None] /\ pc' = [pc EXCEPT ![t] = "off"]
    BY <1>7 DEF Answered
  <2>2. \A u \in Task : token'[u] = token[u] \/ token'[u] = None
    BY <2>1 DEF TypeOK
  <2>. QED BY <1>7, <2>1, <2>2, NothingRegistered DEF Answered, TypeOK, Registered, Resolving
<1>8. ASSUME NEW t \in Task, Resolve(t) PROVE RegistryInv'
  BY <1>8, <1>6, <1>0 DEF Resolve, TypeOK, Registered, ClearedStaysCleared
<1>9. ASSUME NEW t \in Task, Resolved(t) PROVE RegistryInv'
  <2>1. pc[t] = "resolving" /\ wanted
    BY <1>9, <1>7 DEF Resolved, Resolving
  <2>2. Registered(Or(token[t], startup))
    BY DEF Or
  <2>. QED
    BY <1>9, <1>7, <1>0, <2>1, <2>2 DEF Resolved, TypeOK, Registered, ClearedStaysCleared
<1>10. ASSUME NEW t \in Task, GetClientAsks(t) PROVE RegistryInv'
  <2>1. Resolving' => Resolving
    BY <1>10, <1>6 DEF GetClientAsks, Resolving, TypeOK
  <2>. QED
    BY <1>10, <1>6, <1>0, <2>1 DEF GetClientAsks, TypeOK, Registered, ClearedStaysCleared
<1>11. ASSUME NEW t \in Task, GetClientAnswered(t) PROVE RegistryInv'
  <2>1. HeadersAgree' /\ built'.header \in Headers
    BY <1>11, BuildKeeps DEF GetClientAnswered
  <2>. QED
    BY <1>11, <1>7, <2>1 DEF GetClientAnswered, TypeOK, Registered, ClearedStaysCleared
<1>12. CASE UNCHANGED vars
  BY <1>12, <1>0, <1>a DEF vars, TypeOK, Registered, ClearedStaysCleared
<1>. QED
  BY <1>1, <1>2, <1>3, <1>4, <1>5, <1>8, <1>9, <1>10, <1>11, <1>12 DEF Next

-----------------------------------------------------------------------------
(* The manager of postgres by itself. *)

ManagerSpec == ManagerInit /\ [][ManagerNext]_managerVars

\* What was made has its numbers, and a user is over an engine with a pool.
Numbered ==
  /\ engine <= engines
  /\ \A e \in 1 .. engines : poolOf[e] \in Pool
  /\ \A u \in User :
       at[u].doing \in InSession \cup {"disposing"} => at[u].engine \in 1 .. engines
  /\ \A u \in User : at[u].doing = "disposing" => at[u].pool \in Pool

\* Without an overlap the sessions are over the engine there is, what is idle
\* is in its pool, and who disposes of it drains that pool.
Together ==
  /\ \A p \in Pool : idle[p] > 0 => p \in Reached
  /\ \A u \in User : at[u].doing \in InSession =>
       /\ engine # 0 /\ at[u].engine = engine
       /\ at[u].pool \in {0, poolOf[engine]}
  /\ \A u \in User : at[u].doing = "disposing" /\ at[u].engine = engine =>
       at[u].pool = poolOf[engine]

ManagerInv == ManagerTypeOK /\ Numbered /\ (overlap \/ Together)

\* There is no engine at first.
LEMMA InitiallyTogether == ManagerInit => ManagerInv
<1>. SUFFICES ASSUME ManagerInit PROVE ManagerInv
  OBVIOUS
<1>1. ManagerTypeOK
  BY DEF ManagerInit, ManagerTypeOK, Doing
<1>2. Numbered
  BY DEF ManagerInit, Numbered, InSession
<1>3. Together
  BY DEF ManagerInit, Together, InSession
<1>. QED BY <1>1, <1>2, <1>3 DEF ManagerInv

\* Either the engine stays, or there was none and it is a new one.
LEMMA EngineThereIs ==
  ASSUME ManagerInv, SomeEngine
  PROVE  /\ engine' \in Engine /\ engines' \in {0} \cup Engine /\ pools' \in {0} \cup Pool
         /\ poolOf' \in [Engine -> {0} \cup Pool]
         /\ engine' <= engines' /\ engines <= engines'
         /\ \A e \in 1 .. engines' : poolOf'[e] \in Pool
         /\ \/ UNCHANGED <<engine, engines, poolOf, pools>>
            \/ engine = 0 /\ engine' = engines + 1
<1>1. CASE engine # 0 /\ UNCHANGED <<engine, engines, poolOf, pools>>
  BY <1>1 DEF ManagerInv, ManagerTypeOK, Numbered
<1>2. CASE engine = 0 /\ ~ UNCHANGED engine
  <2>1. /\ engines + 1 \in Engine /\ pools + 1 \in Pool
        /\ engine' = engines + 1 /\ engines' = engines + 1 /\ pools' = pools + 1
        /\ poolOf' = [poolOf EXCEPT ![engines + 1] = pools + 1]
    BY <1>2, ManagerAssumption DEF ManagerInv, ManagerTypeOK, SomeEngine, Engine, Pool
  <2>. QED BY <1>2, <2>1 DEF ManagerInv, ManagerTypeOK, Numbered, Engine
<1>. QED BY <1>1, <1>2 DEF SomeEngine, ManagerInv, ManagerTypeOK, Engine

\* A session begins over the engine there is.
LEMMA BeginKeeps ==
  ASSUME ManagerInv, NEW u \in User, NEW from, NEW doing \in InSession,
         NEW mine \in {"script", "server"}, from \notin InSession, Begin(u, from, doing, mine)
  PROVE  ManagerInv'
<1>1. ManagerTypeOK'
  BY EngineThereIs DEF ManagerInv, ManagerTypeOK, Begin, GetDbManager, Doing, InSession, Engine
<1>2. Numbered'
  BY EngineThereIs, <1>1 DEF ManagerInv, ManagerTypeOK, Numbered, Begin, InSession, Engine
<1>3. overlap' \/ Together'
  <2>. SUFFICES ASSUME Together PROVE Together'
    BY DEF ManagerInv, Begin
  <2>1. CASE UNCHANGED <<engine, engines, poolOf, pools>>
    BY <2>1, EngineThereIs
       DEF ManagerInv, ManagerTypeOK, Together, Begin, Reached, InSession, Engine
  <2>2. CASE engine = 0 /\ engine' = engines + 1
    BY <2>2, EngineThereIs
       DEF ManagerInv, ManagerTypeOK, Numbered, Together, Begin, Reached, InSession, Engine
  <2>. QED BY <2>1, <2>2, EngineThereIs DEF Begin
<1>. QED BY <1>1, <1>2, <1>3 DEF ManagerInv

\* Its connection is one of the pool of that engine,
LEMMA TakeConnectionKeeps ==
  ASSUME ManagerInv, NEW u \in User, TakeConnection(u)
  PROVE  ManagerInv'
<1>. DEFINE p == poolOf[at[u].engine]
<1>0. p \in Pool /\ at[u].doing \in InSession
  BY DEF ManagerInv, Numbered, TakeConnection
<1>1. ManagerTypeOK'
  BY <1>0 DEF ManagerInv, ManagerTypeOK, TakeConnection
<1>2. Numbered'
  BY <1>0 DEF ManagerInv, ManagerTypeOK, Numbered, TakeConnection, InSession
<1>3. overlap' \/ Together'
  BY <1>0 DEF ManagerInv, ManagerTypeOK, Together, TakeConnection, Reached, InSession
<1>. QED BY <1>1, <1>2, <1>3 DEF ManagerInv

\* What a session returns goes to the pool of the engine.
LEMMA ReturnsThere ==
  ASSUME ManagerInv, NEW u \in User
  PROVE  /\ Returned(u) \in [Pool -> Nat]
         /\ Together => \A p \in Pool : Returned(u)[p] > 0 => p \in Reached
BY DEF ManagerInv, ManagerTypeOK, Together, Returned, Reached, Pool

\* to which it returns,
LEMMA EndSessionKeeps ==
  ASSUME ManagerInv, NEW u \in User, EndSession(u)
  PROVE  ManagerInv'
<1>0. /\ UNCHANGED <<engine, engines, poolOf, pools>> \/ SomeEngine
      /\ After[at[u].doing] \in Doing \ (InSession \cup {"disposing"})
  BY DEF EndSession, InSession, After, Doing
<1>1. ManagerTypeOK'
  BY <1>0, EngineThereIs, ReturnsThere DEF ManagerInv, ManagerTypeOK, EndSession, Engine
<1>2. Numbered'
  BY <1>0, <1>1, EngineThereIs DEF ManagerInv, ManagerTypeOK, Numbered, EndSession, Engine
<1>3. overlap' \/ Together'
  <2>. SUFFICES ASSUME Together PROVE Together'
    BY DEF ManagerInv, EndSession
  <2>1. UNCHANGED <<engine, poolOf>>
    BY EngineThereIs, <1>0 DEF Together, EndSession
  <2>. QED
    BY <1>0, <2>1, ReturnsThere DEF ManagerInv, ManagerTypeOK, Together, EndSession, Reached
<1>. QED BY <1>1, <1>2, <1>3 DEF ManagerInv

\* also when it is cancelled.
LEMMA CancelKeeps ==
  ASSUME ManagerInv, NEW u \in User, CancelUser(u)
  PROVE  ManagerInv'
BY ReturnsThere
   DEF ManagerInv, ManagerTypeOK, Numbered, Together, CancelUser, InSession, Doing, Reached

\* A dispose() that ends without an overlap leaves nothing open.
LEMMA DrainKeeps ==
  ASSUME ManagerInv, NEW u \in User, NEW e \in 1 .. engines, NEW p \in Pool,
         at[u].doing \notin InSession, ~ overlap => (e = engine => p = poolOf[engine]),
         Drain(u, e, p)
  PROVE  ManagerInv'
<1>1. CASE idle[p] = 0 /\ Dispose(u, e)
  <2>1. ManagerTypeOK'
    BY <1>1, ManagerAssumption
       DEF ManagerInv, ManagerTypeOK, Dispose, Doing, Engine, Pool
  <2>2. Numbered'
    BY <1>1, <2>1, ManagerAssumption
       DEF ManagerInv, ManagerTypeOK, Numbered, Dispose, InSession, Engine, Pool
  <2>3. overlap' \/ Together'
    <3>. SUFFICES ASSUME ~ overlap' PROVE Together'
      OBVIOUS
    <3>1. Together /\ engine \in {0, e} /\ ~ overlap
      BY <1>1 DEF ManagerInv, Dispose
    <3>2. \A v \in User : at[v].doing \notin InSession
      BY <1>1, <3>1 DEF Dispose, Together
    <3>3. \A q \in Pool : idle[q] = 0
      BY <1>1, <3>1 DEF ManagerInv, ManagerTypeOK, Together, Reached
    <3>. QED
      BY <1>1, <3>2, <3>3
         DEF ManagerInv, ManagerTypeOK, Numbered, Together, Dispose, Reached, InSession
  <2>. QED BY <2>1, <2>2, <2>3 DEF ManagerInv
<1>2. CASE idle[p] > 0 /\ ~ (idle[p] = 0)
  <2>a. e \in Engine /\ idle[p] \in Nat /\ idle[p] > 0
    BY <1>2, ManagerAssumption DEF ManagerInv, ManagerTypeOK, Engine
  <2>b. idle[p] - 1 \in Nat
    BY <2>a
  <2>0. /\ idle' = [idle EXCEPT ![p] = idle[p] - 1]
        /\ at' = [at EXCEPT ![u] = [doing |-> "disposing", engine |-> e, pool |-> p]]
        /\ UNCHANGED <<manager, engine, engines, poolOf, pools, overlap>>
    BY <1>2 DEF Drain
  <2>1. ManagerTypeOK'
    BY <2>a, <2>b, <2>0 DEF ManagerInv, ManagerTypeOK, Doing
  <2>2. Numbered'
    BY <2>a, <2>0 DEF ManagerInv, ManagerTypeOK, Numbered, InSession
  <2>3. overlap' \/ Together'
    BY <2>a, <2>b, <2>0 DEF ManagerInv, ManagerTypeOK, Together, Reached, InSession
  <2>. QED BY <2>1, <2>2, <2>3 DEF ManagerInv
<1>. QED BY <1>1, <1>2 DEF Drain

\* A dispose() begins, or goes on.
LEMMA CloseKeeps ==
  ASSUME ManagerInv, NEW u \in User, Close(u) \/ GoOnClosing(u)
  PROVE  ManagerInv'
<1>1. CASE GoOnClosing(u)
  BY <1>1, DrainKeeps DEF GoOnClosing, ManagerInv, Numbered, Together, InSession
<1>2. CASE Close(u) /\ engine # 0
  <2>1. engine \in 1 .. engines /\ poolOf[engine] \in Pool
    BY <1>2 DEF ManagerInv, ManagerTypeOK, Numbered, Engine
  <2>. QED BY <1>2, <2>1, DrainKeeps DEF Close, InSession
<1>3. CASE Close(u) /\ engine = 0
  <2>1. ManagerTypeOK'
    BY <1>3 DEF Close, ManagerInv, ManagerTypeOK, Doing
  <2>2. Numbered'
    BY <1>3 DEF Close, ManagerInv, ManagerTypeOK, Numbered, InSession
  <2>3. overlap' \/ Together'
    BY <1>3 DEF Close, ManagerInv, ManagerTypeOK, Together, Reached, InSession
  <2>. QED BY <2>1, <2>2, <2>3 DEF ManagerInv
<1>. QED BY <1>1, <1>2, <1>3

\* Each step of the manager keeps what it has.
LEMMA StepKeeps == ManagerInv /\ [ManagerNext]_managerVars => ManagerInv'
<1>. SUFFICES ASSUME ManagerInv, [ManagerNext]_managerVars PROVE ManagerInv'
  OBVIOUS
<1>1. CASE UNCHANGED managerVars
  BY <1>1 DEF managerVars, ManagerInv, ManagerTypeOK, Numbered, Together, Reached
<1>2. ASSUME NEW u \in User, ManagerStep(u) PROVE ManagerInv'
  <2>1. CASE Test(u)
    BY <2>1, BeginKeeps DEF Test, InSession
  <2>2. CASE Probe(u)
    BY <2>2, BeginKeeps DEF Probe, InSession
  <2>3. CASE Serve(u)
    BY <2>3, BeginKeeps DEF Serve, InSession
  <2>. QED
    BY <1>2, <2>1, <2>2, <2>3, TakeConnectionKeeps, EndSessionKeeps, CloseKeeps, CancelKeeps
       DEF ManagerStep
<1>. QED BY <1>1, <1>2 DEF ManagerNext

\* A connection that is open and not in use is one that the manager reaches,
\* unless a dispose() ended beside a session or a newer engine.
THEOREM ManagerReaches == ManagerSpec => []OrphansByOverlap
<1>1. ManagerInv => OrphansByOverlap
  BY DEF ManagerInv, Together, OrphansByOverlap
<1>. QED BY InitiallyTogether, StepKeeps, <1>1, PTL DEF ManagerSpec

-----------------------------------------------------------------------------
(* The checks. *)

\* The checks leave the registry of tokens and the manager of postgres as they
\* are: what those do beside the checks they do by themselves, too.
THEOREM Composes == HealthSpec => Spec /\ ManagerSpec
<1>1. HealthInit => Init /\ ManagerInit
  <2>. SUFFICES ASSUME HealthInit PROVE Init
    BY DEF HealthInit
  <2>1. scene.setup \in Setup
    BY HealthAssumption DEF HealthInit, Scenes
  <2>. QED BY <2>1 DEF HealthInit, Init
<1>2. [HealthNext]_healthVars => [Next]_vars /\ [ManagerNext]_managerVars
  <2>. SUFFICES ASSUME [HealthNext]_healthVars PROVE [Next]_vars /\ [ManagerNext]_managerVars
    OBVIOUS
  <2>1. CASE CredentialsStep
    BY <2>1 DEF CredentialsStep
  <2>2. CASE ManagerSteps
    BY <2>2 DEF ManagerSteps, ManagerNext
  <2>3. ASSUME NEW p \in Prober,
               \/ CheckHttp(p) \/ CheckGoesOn(p) \/ CheckElasticsearch(p) \/ RunScript(p)
               \/ HttpAnswered(p) \/ CheckDatabase(p) \/ RunRedisScript(p) \/ DatabaseAnswered(p)
        PROVE  UNCHANGED <<vars, managerVars>>
    BY <2>3 DEF CheckHttp, CheckGoesOn, CheckElasticsearch, RunScript, HttpAnswered,
                CheckDatabase, RunRedisScript, DatabaseAnswered
  <2>4. CASE UNCHANGED healthVars
    BY <2>4 DEF healthVars
  <2>. QED BY <2>1, <2>2, <2>3, <2>4 DEF HealthNext
<1>. QED BY <1>1, <1>2, PTL DEF HealthSpec, Spec, ManagerSpec

Probes == [pc : {"off", "asking", "waiting", "done"}, by : {"none", "checker", "script"},
           status : Statuses, open : BOOLEAN, asked : BOOLEAN, header : Headers, route : Routes,
           tls : Tls]

\* How a provider was asked that is not a database.
Asked(r) ==
  /\ Provider \notin Databases
  /\ \/ /\ r.by = "checker" /\ Provider # "elasticsearch"
        /\ r.header # NoHeader /\ r.route = FactoryRoute(Provider, Place)
     \/ /\ r.by = "checker" /\ Provider = "elasticsearch"
        /\ r.route = ElasticsearchRoute(Place)
     \/ /\ r.by = "script" /\ Given(ApiKey(setup).api)
        /\ r.header # NoHeader /\ r.header = ScriptHeader(ApiKey(setup))
        /\ r.route = ScriptRoute(Provider, Place)

\* What may be open after a check.
LeftOpen(r) ==
  \/ ~ r.asked /\ r.status = "raised"
  \/ /\ Provider \in Databases /\ r.by = "checker"
     /\ r.status = "cancelled" \/ (Provider = "redis" /\ r.status = "error")

\* A check that has not asked has nothing open, and goes on with the key that
\* it found; one that has asked did it as configured.
Sound(r) ==
  /\ r.pc = "off" => r = Unstarted
  /\ r.pc = "asking" =>
       /\ r = [Unstarted EXCEPT !.pc = "asking", !.by = "checker"]
       /\ Given(ApiKey(setup).api) /\ Provider \notin Databases \cup {"elasticsearch"}
  /\ r.pc = "waiting" => r.by # "none"
  /\ r.asked => Asked(r)
  /\ r.by = "checker" /\ r.status = "refused" /\ r.header # NoHeader =>
       r.header.value.secret \notin {0, 1}
  /\ r.pc = "waiting" /\ r.by = "checker" =>
       /\ Provider = "postgres" => r.tls = PostgresTls(Place)
       /\ Provider = "redis" => r.tls = RedisTls(Place)
  /\ r.pc = "done" /\ r.open => LeftOpen(r)

ProbesInv ==
  /\ scene \in Scene
  /\ probe \in [Prober -> Probes]
  /\ \A p \in Prober : Sound(probe[p])

\* A sound check stays so while the configuration does not change.
LEMMA SoundStays ==
  ASSUME UNCHANGED <<setup, scene>>, NEW r, Sound(r)
  PROVE  Sound(r)'
<1>1. ScriptHeader(ApiKey(setup))' = ScriptHeader(ApiKey(setup))
  BY DEF ScriptHeader, ScriptOffer, Provider
<1>. QED BY <1>1 DEF Sound, Asked, LeftOpen, Provider, Place

\* One check goes on.
LEMMA OneGoesOn ==
  ASSUME ProbesInv, UNCHANGED <<setup, scene>>, NEW p \in Prober, NEW r \in Probes, Sound(r),
         probe' = [probe EXCEPT ![p] = r]
  PROVE  ProbesInv'
<1>1. scene' \in Scene /\ probe' \in [Prober -> Probes]
  BY DEF ProbesInv
<1>2. ASSUME NEW x \in Prober PROVE Sound(probe[x])'
  <2>1. PICK q : q = probe'[x] /\ Sound(q)
    BY DEF ProbesInv
  <2>2. Sound(q)'
    BY <2>1, SoundStays
  <2>. QED BY <2>1, <2>2 DEF Sound, Asked, LeftOpen
<1>. QED BY <1>1, <1>2 DEF ProbesInv

\* No check goes on.
LEMMA NoneGoesOn ==
  ASSUME ProbesInv, UNCHANGED <<setup, scene, probe>>
  PROVE  ProbesInv'
<1>1. scene' \in Scene /\ probe' \in [Prober -> Probes]
  BY DEF ProbesInv
<1>2. ASSUME NEW x \in Prober PROVE Sound(probe[x])'
  <2>1. PICK q : q = probe'[x] /\ Sound(q)
    BY DEF ProbesInv
  <2>2. Sound(q)'
    BY <2>1, SoundStays
  <2>. QED BY <2>1, <2>2 DEF Sound, Asked, LeftOpen
<1>. QED BY <1>1, <1>2 DEF ProbesInv

\* The configuration and the place are among those there are.
LEMMA Where ==
  ASSUME RegistryInv, ProbesInv
  PROVE  setup \in Setups /\ Provider \in Providers /\ Place \in Places
BY CredentialsAssumption, HealthAssumption, ApiKeyIs
   DEF RegistryInv, TypeOK, ProbesInv, Scenes, Provider, Place

\* A check that has not begun is sound.
LEMMA UnstartedSound == Unstarted \in Probes /\ Sound(Unstarted)
<1>1. NoHeader \in Headers /\ Route("none", TRUE) \in Routes
  BY NothingRegistered DEF Registered, Headers, NoHeader, Route, Routes, Proxies
<1>. QED BY <1>1 DEF Unstarted, Probes, Sound, Statuses, Tls

\* A check may end, with its client open only where that is named.
LEMMA EndsKeeps ==
  ASSUME ProbesInv, UNCHANGED <<setup, scene>>, NEW p \in Prober,
         NEW by \in {"checker", "script"}, NEW status \in Statuses, NEW open \in BOOLEAN,
         Ends(p, by, status, open),
         probe[p].asked => by = probe[p].by,
         by = "checker" /\ status = "refused" => probe[p].header = NoHeader,
         open => \/ ~ probe[p].asked /\ status = "raised"
                 \/ /\ Provider \in Databases /\ by = "checker"
                    /\ status = "cancelled" \/ (Provider = "redis" /\ status = "error")
  PROVE  ProbesInv'
<1>. DEFINE r == [probe[p] EXCEPT !.pc = "done", !.by = by, !.status = status, !.open = open]
<1>1. probe[p] \in Probes /\ Sound(probe[p])
  BY DEF ProbesInv
<1>2. /\ r \in Probes
      /\ r.pc = "done" /\ r.by = by /\ r.status = status /\ r.open = open
      /\ r.asked = probe[p].asked /\ r.header = probe[p].header /\ r.route = probe[p].route
  BY <1>1 DEF Probes
<1>3. probe' = [probe EXCEPT ![p] = r]
  BY <1>1 DEF ProbesInv, Ends, Probes
<1>. HIDE DEF r
<1>4. Sound(r)
  BY <1>1, <1>2 DEF Sound, Asked, LeftOpen
<1>. QED BY <1>2, <1>3, <1>4, OneGoesOn

\* A check may ask as it is configured.
LEMMA AsksKeeps ==
  ASSUME ProbesInv, UNCHANGED <<setup, scene>>, NEW p \in Prober,
         NEW by \in {"checker", "script"}, NEW header \in Headers, NEW route \in Routes,
         AsksOver(p, by, header, route), Asked([by |-> by, header |-> header, route |-> route])
  PROVE  ProbesInv'
<1>. DEFINE r == [pc |-> "waiting", by |-> by, status |-> "none", open |-> TRUE, asked |-> TRUE,
                  header |-> header, route |-> route, tls |-> "plain"]
<1>1. r \in Probes
  BY DEF Probes, Statuses, Tls
<1>2. Sound(r)
  BY DEF Sound, Asked, Databases
<1>3. probe' = [probe EXCEPT ![p] = r]
  BY DEF AsksOver
<1>. QED BY <1>1, <1>2, <1>3, OneGoesOn

\* A check of a database may connect with the TLS that is configured.
LEMMA ConnectsKeeps ==
  ASSUME ProbesInv, UNCHANGED <<setup, scene>>, NEW p \in Prober, probe[p].pc = "off",
         NEW by \in {"checker", "script"}, NEW tls \in Tls, Connects(p, by, tls),
         by = "checker" => /\ Provider = "postgres" => tls = PostgresTls(Place)
                           /\ Provider = "redis" => tls = RedisTls(Place)
  PROVE  ProbesInv'
<1>. DEFINE r == [Unstarted EXCEPT !.pc = "waiting", !.by = by, !.open = TRUE, !.tls = tls]
<1>1. probe[p] = Unstarted
  BY DEF ProbesInv, Sound
<1>2. /\ r \in Probes
      /\ r.pc = "waiting" /\ r.by = by /\ ~ r.asked /\ r.status = "none" /\ r.tls = tls
  BY UnstartedSound DEF Probes, Unstarted
<1>3. probe' = [probe EXCEPT ![p] = r]
  BY <1>1 DEF ProbesInv, Connects
<1>. HIDE DEF r
<1>4. Sound(r)
  BY <1>2 DEF Sound
<1>. QED BY <1>2, <1>3, <1>4, OneGoesOn

-----------------------------------------------------------------------------
(* The steps of the checker. *)

\* A token of the registry, or the key, which is there when it is not refused.
LEMMA CheckersHeader ==
  ASSUME RegistryInv, ProbesInv
  PROVE  /\ ClientHeader(setup, FromRegistry(AtHand)) \in Headers
         /\ ~ Refused => ClientHeader(setup, FromRegistry(AtHand)) # NoHeader
         /\ Refused /\ ClientHeader(setup, FromRegistry(AtHand)) # NoHeader =>
              ClientHeader(setup, FromRegistry(AtHand)).value.secret \notin {0, 1}
         /\ ClientHeader(setup, ApiKey(setup)) \in Headers
         /\ Given(ApiKey(setup).api) => ClientHeader(setup, ApiKey(setup)) # NoHeader
<1>. DEFINE v == AtHand
            r == FromRegistry(v)
<1>1. Registered(v)
  BY NothingRegistered DEF AtHand, RegistryInv
<1>2. setup \in Setups /\ ApiKey(setup).api \in Values /\ ApiKey(setup).raw \in Values
  BY Where, ApiKeyTyped
<1>3. /\ r.api \in Values /\ r.raw \in Values
      /\ r = ApiKey(setup) \/ (Given(v) /\ r.api = v /\ r.raw = None)
  BY <1>1, <1>2, NothingRegistered DEF FromRegistry, Result, Registered
<1>. HIDE DEF v, r
<1>4. /\ ClientHeader(setup, r) \in Headers
      /\ ClientHeader(setup, r) # NoHeader <=> Given(r.api)
  BY <1>2, <1>3, ClientHeaderGiven
<1>5. ASSUME Given(v), r.api = v, r.raw = None
      PROVE  ClientHeader(setup, r).value.secret = v.secret
  <2>1. Or(r.raw, r.api) = v /\ Given(r.api)
    BY <1>5 DEF Or, Given, None
  <2>2. PICK name : \/ ClientHeader(setup, r) = Header(name, v)
                    \/ ClientHeader(setup, r) = Header(name, Bearered(v))
    <3>1. AuthType(setup)
            \in {"custom", "x-api-key"} \cup BearerTypes \cup BasicTypes \cup BareTypes
                  \cup {"custom_header"}
      BY <1>2, TypeAndName DEF ValidTypes, HeaderTypes, CustomTypes
    <3>. QED BY <1>2, <1>5, <2>1, <3>1, ClientHeaderIs
  <2>. QED BY <2>2 DEF Header, Bearered, BearerOf
<1>6. /\ ClientHeader(setup, ApiKey(setup)) \in Headers
      /\ ClientHeader(setup, ApiKey(setup)) # NoHeader <=> Given(ApiKey(setup).api)
  BY <1>2, ClientHeaderGiven
<1>7. ~ Refused => ClientHeader(setup, r) # NoHeader
  BY <1>3, <1>4 DEF Refused
<1>8. Refused /\ ClientHeader(setup, r) # NoHeader =>
        ClientHeader(setup, r).value.secret \notin {0, 1}
  BY <1>1, <1>3, <1>4, <1>5 DEF Refused, Registered
<1>. QED BY <1>4, <1>6, <1>7, <1>8 DEF v, r

\* get_client() raises, with a client or without one, or the check asks.
LEMMA MakeClientKeeps ==
  ASSUME RegistryInv, ProbesInv, UNCHANGED <<setup, scene>>, NEW p \in Prober,
         probe[p].pc \in {"off", "asking"}, Provider \notin Databases \cup {"elasticsearch"},
         NEW r, ClientHeader(setup, r) \in Headers, ClientHeader(setup, r) # NoHeader,
         MakeClient(p, r)
  PROVE  ProbesInv'
<1>. DEFINE route == FactoryRoute(Provider, Place)
<1>1. ~ probe[p].asked /\ probe[p].header = NoHeader
  <2>1. \/ probe[p] = Unstarted
        \/ probe[p] = [Unstarted EXCEPT !.pc = "asking", !.by = "checker"]
    BY DEF ProbesInv, Sound
  <2>2. CASE probe[p] = Unstarted
    BY <2>2 DEF Unstarted
  <2>3. CASE probe[p] = [Unstarted EXCEPT !.pc = "asking", !.by = "checker"]
    BY <2>3 DEF Unstarted
  <2>. QED BY <2>1, <2>2, <2>3
<1>2. route \in Routes
  BY Where, RoutesTyped
<1>3. ASSUME NEW open \in BOOLEAN, Ends(p, "checker", "raised", open) PROVE ProbesInv'
  BY <1>1, <1>3, EndsKeeps DEF Statuses
<1>4. CASE AsksOver(p, "checker", ClientHeader(setup, r), route)
  BY <1>2, <1>4, AsksKeeps DEF Asked
<1>. QED BY <1>3, <1>4 DEF MakeClient

\* The checker begins,
LEMMA CheckHttpKeeps ==
  ASSUME RegistryInv, ProbesInv, NEW p \in Prober, CheckHttp(p)
  PROVE  ProbesInv'
<1>0. /\ UNCHANGED <<setup, scene>> /\ probe[p].pc = "off"
      /\ Provider \notin Databases \cup {"elasticsearch"} /\ probe[p] = Unstarted
  BY DEF CheckHttp, vars, Ready, Started, ProbesInv, Sound
<1>a. ~ probe[p].asked
  BY <1>0 DEF Unstarted
<1>. DEFINE header == ClientHeader(setup, FromRegistry(AtHand))
<1>1. CASE /\ Refused
           /\ probe' = [probe EXCEPT ![p].pc = "done", ![p].by = "checker",
                                     ![p].status = "refused",
                                     ![p].header = Client(FromRegistry(AtHand)).header]
  <2>. DEFINE r == [Unstarted EXCEPT !.pc = "done", !.by = "checker", !.status = "refused",
                                     !.header = header]
  <2>1. header \in Headers
    BY CheckersHeader
  <2>2. header # NoHeader => header.value.secret \notin {0, 1}
    BY <1>1, CheckersHeader
  <2>. HIDE DEF header
  <2>3. /\ r \in Probes /\ r.pc = "done" /\ ~ r.asked /\ ~ r.open /\ r.header = header
    BY <2>1, UnstartedSound DEF Probes, Unstarted, Statuses
  <2>4. probe' = [probe EXCEPT ![p] = r]
    BY <1>0, <1>1 DEF ProbesInv, Client, header
  <2>. HIDE DEF r
  <2>5. Sound(r)
    BY <2>2, <2>3 DEF Sound
  <2>. QED BY <1>0, <2>3, <2>4, <2>5, OneGoesOn
<1>2. CASE Ends(p, "checker", "error", FALSE)
  BY <1>0, <1>a, <1>2, EndsKeeps DEF Statuses
<1>3. CASE ~ Refused /\ probe' = [probe EXCEPT ![p].pc = "asking", ![p].by = "checker"]
  <2>. DEFINE r == [Unstarted EXCEPT !.pc = "asking", !.by = "checker"]
  <2>1. r \in Probes /\ r.pc = "asking" /\ ~ r.asked /\ r.status = "none" /\ ~ r.open
    BY UnstartedSound DEF Probes, Unstarted
  <2>2. probe' = [probe EXCEPT ![p] = r]
    BY <1>0, <1>3 DEF ProbesInv
  <2>3. Sound(r)
    BY <1>0, <1>3, <2>1 DEF Sound, Refused
  <2>. QED BY <1>0, <2>1, <2>2, <2>3, OneGoesOn
<1>4. CASE ~ Refused /\ MakeClient(p, FromRegistry(AtHand))
  BY <1>0, <1>4, CheckersHeader, MakeClientKeeps
<1>. QED BY <1>1, <1>2, <1>3, <1>4 DEF CheckHttp

\* and goes on when the resolver has answered.
LEMMA CheckGoesOnKeeps ==
  ASSUME RegistryInv, ProbesInv, NEW p \in Prober, CheckGoesOn(p)
  PROVE  ProbesInv'
<1>0. /\ UNCHANGED <<setup, scene>> /\ probe[p].pc = "asking" /\ ~ probe[p].asked
      /\ Given(ApiKey(setup).api) /\ Provider \notin Databases \cup {"elasticsearch"}
  BY DEF CheckGoesOn, vars, ProbesInv, Sound, Unstarted
<1>1. CASE MakeClient(p, ApiKey(setup))
  BY <1>0, <1>1, CheckersHeader, MakeClientKeeps
<1>2. CASE Ends(p, "checker", "cancelled", FALSE)
  BY <1>0, <1>2, EndsKeeps DEF Statuses
<1>. QED BY <1>1, <1>2 DEF CheckGoesOn

\* For elasticsearch it makes a client of its own.
LEMMA CheckElasticsearchKeeps ==
  ASSUME RegistryInv, ProbesInv, NEW p \in Prober, CheckElasticsearch(p)
  PROVE  ProbesInv'
<1>0. /\ UNCHANGED <<setup, scene>> /\ probe[p] = Unstarted /\ Provider = "elasticsearch"
  BY DEF CheckElasticsearch, vars, Ready, Started, ProbesInv, Sound
<1>a. ~ probe[p].asked
  BY <1>0 DEF Unstarted
<1>1. NoHeader \in Headers /\ ElasticsearchRoute(Place) \in Routes
  BY UnstartedSound, Where, RoutesTyped DEF Unstarted, Probes
<1>2. CASE Ends(p, "checker", "error", FALSE)
  BY <1>0, <1>a, <1>2, EndsKeeps DEF Statuses
<1>3. CASE AsksOver(p, "checker", NoHeader, ElasticsearchRoute(Place))
  BY <1>0, <1>1, <1>3, AsksKeeps DEF Asked, Databases
<1>. QED BY <1>2, <1>3 DEF CheckElasticsearch

-----------------------------------------------------------------------------
(* The steps of the scripts, and the answers. *)

\* What a script sends has its type.
LEMMA SendsTyped ==
  ASSUME NEW type, NEW o, o.key \in Values, o.password \in Values
  PROVE  ClientSends(type, o).value \in Values
<1>1. \A who : \A v \in Values :
        /\ AsItIs(v).value \in Values /\ Token(v).value \in Values
        /\ Basic(who, v).value \in Values /\ Pair(who, v).value \in Values
  <2>1. \A v \in Values : BasicOf(v) \in Values /\ PairOf(v) \in Values /\ BearerOf(v) \in Values
    BY DEF BasicOf, PairOf, BearerOf, Values, Forms
  <2>2. None \in Values
    BY NothingRegistered DEF Registered
  <2>. QED BY <2>1, <2>2 DEF AsItIs, Token, Basic, Pair, Sent, Nothing
<1>2. Or(o.password, o.key) \in Values
  BY DEF Or
<1>3. Nothing.value \in Values
  BY NothingRegistered DEF Nothing, Sent, Registered
<1>4. Format(type, o).value \in Values
  BY <1>1, <1>2, <1>3 DEF Format
<1>. QED BY <1>3, <1>4 DEF ClientSends

\* The header of a script has a name and a value.
LEMMA ScriptHeaderTyped ==
  ASSUME setup \in Setups
  PROVE  ScriptHeader(ApiKey(setup)) \in Headers
<1>. DEFINE s == setup
            r == ApiKey(setup)
<1>1. r.api \in Values /\ r.raw \in Values /\ None \in Values
  BY ApiKeyTyped, NothingRegistered DEF Registered
<1>2. r.name \in {"Authorization", "own"}
  <2>. DEFINE Named(q) == q.name \in {"Authorization", "own"}
  <2>1. Named(Jira(s)) /\ Named(SauceLabs(s)) /\ Named(ServiceNow(s)) /\ Named(GitHub(s))
        /\ Named(Sonar(s)) /\ Named(Figma(s)) /\ Named(Gemini(s))
    BY DEF Jira, SauceLabs, ServiceNow, GitHub, Sonar, Figma, Gemini, Result
  <2>2. Named(Rally(s)) /\ Named(Statsig(s)) /\ Named(Akamai(s)) /\ Named(Elasticsearch(s))
        /\ Named(Postgres(s)) /\ Named(Redis(s))
    BY DEF Rally, Statsig, Akamai, Elasticsearch, Postgres, Redis, Result
  <2>. HIDE DEF Named
  <2>3. Named(r)
    BY <2>1, <2>2, ApiKeyIs DEF Providers
  <2>. QED BY <2>3 DEF Named
<1>3. ScriptOffer(r).key = r.raw /\ ScriptOffer(r).password = None
  BY DEF ScriptOffer
<1>4. ClientSends(r.type, ScriptOffer(r)).value \in Values
  BY <1>1, <1>3, SendsTyped
<1>5. AuthHeaderName(r.type, r.name) \in {"Authorization", "X-Api-Key", "own"}
  BY <1>2 DEF AuthHeaderName
<1>6. ClientHeader(s, r) \in Headers
  BY <1>1, ClientHeaderGiven
<1>7. NoHeader \in Headers
  BY <1>1 DEF NoHeader, Headers
<1>. HIDE DEF r
<1>. QED BY <1>4, <1>5, <1>6, <1>7 DEF ScriptHeader, Header, Headers, r

\* A script begins.
LEMMA RunScriptKeeps ==
  ASSUME RegistryInv, ProbesInv, NEW p \in Prober, RunScript(p)
  PROVE  ProbesInv'
<1>. DEFINE r == ApiKey(setup)
            header == ScriptHeader(r)
            route == ScriptRoute(Provider, Place)
<1>0. /\ UNCHANGED <<setup, scene>> /\ probe[p] = Unstarted /\ Provider \notin Databases
  BY DEF RunScript, vars, Ready, Started, ProbesInv, Sound
<1>a. ~ probe[p].asked
  BY <1>0 DEF Unstarted
<1>1. ASSUME NEW status \in {"refused", "error"}, Ends(p, "script", status, FALSE)
      PROVE  ProbesInv'
  BY <1>0, <1>a, <1>1, EndsKeeps DEF Statuses
<1>2. CASE Ends(p, "script", "raised", TRUE)
  BY <1>0, <1>a, <1>2, EndsKeeps DEF Statuses
<1>3. CASE Given(r.api) /\ header # NoHeader /\ AsksOver(p, "script", header, route)
  <2>1. header \in Headers /\ route \in Routes
    BY Where, ScriptHeaderTyped, RoutesTyped
  <2>. QED BY <1>0, <1>3, <2>1, AsksKeeps DEF Asked
<1>. QED BY <1>1, <1>2, <1>3 DEF RunScript

\* An exception is raised by a script, or becomes an error.
LEMMA RaisesAre ==
  \A p \in Providers \ Databases : ScriptOf[p].raises \in {"error", "raised"}
<1>1. \A base, offer, raises : Asking(base, offer, raises).raises = raises
  BY DEF Asking
<1>2. /\ ScriptOf["jira"].raises = "raised" /\ ScriptOf["confluence"].raises = "raised"
      /\ ScriptOf["github"].raises = "raised" /\ ScriptOf["figma"].raises = "raised"
      /\ ScriptOf["saucelabs"].raises = "raised" /\ ScriptOf["elasticsearch"].raises = "raised"
      /\ ScriptOf["servicenow"].raises = "error"
  BY <1>1 DEF ScriptOf, JiraScript, ConfluenceScript, GitHubScript, FigmaScript, SauceLabsScript,
              ElasticsearchScript, ServiceNowScript
<1>3. /\ ScriptOf["sonar"].raises = "raised" /\ ScriptOf["gemini"].raises = "raised"
      /\ ScriptOf["rally"].raises = "raised" /\ ScriptOf["akamai"].raises = "error"
      /\ ScriptOf["statsig"].raises = "error"
  BY <1>1 DEF ScriptOf, SonarScript, GeminiScript, RallyScript, AkamaiScript, StatsigScript
<1>. QED BY <1>2, <1>3 DEF Providers, Databases

\* The answer ends a check, and its client is closed.
LEMMA HttpAnsweredKeeps ==
  ASSUME RegistryInv, ProbesInv, NEW p \in Prober, HttpAnswered(p)
  PROVE  ProbesInv'
<1>0. /\ UNCHANGED <<setup, scene>> /\ Provider \notin Databases
      /\ probe[p].by \in {"checker", "script"}
  BY DEF HttpAnswered, vars, ProbesInv, Sound, Probes
<1>1. PICK status \in {"connected", "error", OnException(p), "cancelled"} :
        Ends(p, probe[p].by, status, FALSE)
  BY DEF HttpAnswered
<1>2. OnException(p) \in {"error", "raised"}
  BY <1>0, Where, RaisesAre DEF OnException, Providers, Databases
<1>3. status \in Statuses /\ status # "refused"
  BY <1>1, <1>2 DEF Statuses
<1>. QED BY <1>0, <1>1, <1>3, EndsKeeps

\* The checker connects to a database,
LEMMA CheckDatabaseKeeps ==
  ASSUME RegistryInv, ProbesInv, NEW p \in Prober, CheckDatabase(p)
  PROVE  ProbesInv'
<1>0. /\ UNCHANGED <<setup, scene>> /\ probe[p] = Unstarted /\ probe[p].pc = "off"
  BY DEF CheckDatabase, vars, Ready, Started, ProbesInv, Sound
<1>a. ~ probe[p].asked
  BY <1>0 DEF Unstarted
<1>b. PostgresTls(Place) \in Tls /\ RedisTls(Place) \in Tls
  BY Where, DatabaseTls
<1>1. CASE Ends(p, "checker", "error", FALSE)
  BY <1>0, <1>a, <1>1, EndsKeeps DEF Statuses
<1>2. CASE Provider = "postgres" /\ Connects(p, "checker", PostgresTls(Place))
  BY <1>0, <1>b, <1>2, ConnectsKeeps
<1>3. CASE Provider = "redis" /\ Connects(p, "checker", RedisTls(Place))
  BY <1>0, <1>b, <1>3, ConnectsKeeps
<1>. QED BY <1>1, <1>2, <1>3 DEF CheckDatabase

\* and so does the script of redis,
LEMMA RunRedisScriptKeeps ==
  ASSUME RegistryInv, ProbesInv, NEW p \in Prober, RunRedisScript(p)
  PROVE  ProbesInv'
<1>0. UNCHANGED <<setup, scene>> /\ probe[p].pc = "off" /\ Connects(p, "script", RedisScriptTls)
  BY DEF RunRedisScript, vars, Ready, Started
<1>. QED BY <1>0, ConnectsKeeps DEF RedisScriptTls, Tls

\* and the answer ends either.
LEMMA DatabaseAnsweredKeeps ==
  ASSUME ProbesInv, NEW p \in Prober, DatabaseAnswered(p)
  PROVE  ProbesInv'
<1>0. UNCHANGED <<setup, scene>> /\ Provider \in {"postgres", "redis"}
  BY DEF DatabaseAnswered, vars
<1>a. ~ probe[p].asked /\ Provider \in Databases
  BY <1>0 DEF ProbesInv, Sound, Asked, Databases
<1>1. ASSUME NEW by \in {"checker", "script"}, NEW status \in {"connected", "error", "cancelled"},
             Ends(p, by, status, FALSE)
      PROVE  ProbesInv'
  BY <1>0, <1>a, <1>1, EndsKeeps DEF Statuses
<1>2. CASE Ends(p, "checker", "cancelled", TRUE)
  BY <1>0, <1>a, <1>2, EndsKeeps DEF Statuses
<1>3. CASE Provider = "redis" /\ Ends(p, "checker", "error", TRUE)
  BY <1>0, <1>a, <1>3, EndsKeeps DEF Statuses
<1>. QED
  BY <1>1, <1>2, <1>3 DEF DatabaseAnswered, PostgresAnswered, RedisAnswered, RedisScriptAnswered

-----------------------------------------------------------------------------
(* What holds. *)

\* No check has begun at first.
LEMMA ProbesInitially == HealthInit => ProbesInv
<1>. SUFFICES ASSUME HealthInit PROVE ProbesInv
  OBVIOUS
<1>1. scene \in Scene /\ probe = [p \in Prober |-> Unstarted]
  BY DEF HealthInit
<1>. QED BY <1>1, UnstartedSound DEF ProbesInv

\* Each step keeps the checks sound, beside the registry and the manager.
LEMMA ProbesKeep == RegistryInv /\ ProbesInv /\ [HealthNext]_healthVars => ProbesInv'
<1>. SUFFICES ASSUME RegistryInv, ProbesInv, [HealthNext]_healthVars PROVE ProbesInv'
  OBVIOUS
<1>1. CASE CredentialsStep
  <2>1. UNCHANGED setup
    BY <1>1 DEF CredentialsStep, Next, SetApiToken, ClearApiToken, RegisterResolver, LoadResolvers,
                UnregisterResolver, Clear, GetClient, Resolve, Resolved, GetClientAsks,
                GetClientAnswered
  <2>. QED BY <1>1, <2>1, NoneGoesOn DEF CredentialsStep
<1>2. CASE ManagerSteps
  BY <1>2, NoneGoesOn DEF ManagerSteps, vars
<1>3. ASSUME NEW p \in Prober,
             \/ CheckHttp(p) \/ CheckGoesOn(p) \/ CheckElasticsearch(p) \/ RunScript(p)
             \/ HttpAnswered(p) \/ CheckDatabase(p) \/ RunRedisScript(p) \/ DatabaseAnswered(p)
      PROVE  ProbesInv'
  BY <1>3, CheckHttpKeeps, CheckGoesOnKeeps, CheckElasticsearchKeeps, RunScriptKeeps,
     HttpAnsweredKeeps, CheckDatabaseKeeps, RunRedisScriptKeeps, DatabaseAnsweredKeeps
<1>4. CASE UNCHANGED healthVars
  BY <1>4, NoneGoesOn DEF healthVars, vars
<1>. QED BY <1>1, <1>2, <1>3, <1>4 DEF HealthNext

HealthInv == RegistryInv /\ ManagerInv /\ ProbesInv

\* Every step of the registry, of the manager and of a check keeps the
\* invariant: what the registry and its clients have, what the manager
\* reaches, and how each check has asked and what it has open.
THEOREM HealthInductive == HealthSpec => []HealthInv
<1>1. Spec => []RegistryInv
  BY RegistryInitially, RegistryKeeps, PTL DEF Spec
<1>2. ManagerSpec => []ManagerInv
  BY InitiallyTogether, StepKeeps, PTL DEF ManagerSpec
<1>3. HealthSpec => []RegistryInv /\ []ManagerInv
  BY <1>1, <1>2, Composes, PTL
<1>4. HealthSpec => []ProbesInv
  BY <1>3, ProbesInitially, ProbesKeep, PTL DEF HealthSpec
<1>5. RegistryInv /\ ManagerInv /\ ProbesInv => HealthInv
  BY DEF HealthInv
<1>. QED BY <1>3, <1>4, <1>5, PTL

\* What the registry, the manager and the checks have is of its type.
THEOREM HealthTyped == HealthSpec => []HealthTypeOK
<1>1. HealthInv => HealthTypeOK
  BY DEF HealthInv, RegistryInv, ManagerInv, ProbesInv, HealthTypeOK, Probes
<1>. QED BY <1>1, HealthInductive, PTL

\* A client of ProviderClientFactory sends the header that get_auth_header()
\* tells, except where the two ways part: for every configuration of the
\* fourteen providers, and every token that is set, resolved or cleared.
THEOREM HeadersAlwaysAgree == HealthSpec => []HeadersAgree
<1>1. HealthInv => HeadersAgree
  BY DEF HealthInv, RegistryInv
<1>. QED BY <1>1, HealthInductive, PTL

\* A resolution that began before clear() is all that can bring a token back
\* after it, however many callers resolve and clear at once.
THEOREM ClearedUntilWanted == HealthSpec => []ClearedStaysCleared
<1>1. HealthInv => ClearedStaysCleared
  BY DEF HealthInv, RegistryInv
<1>. QED BY <1>1, HealthInductive, PTL

\* The checker refuses what only the registry could have let it ask, and asks
\* nobody without a header.
THEOREM RefusesRegistryOnly == HealthSpec => []HealthMissesRegistryOnly
<1>1. ASSUME HealthInv, NEW p \in Prober, probe[p].by = "checker"
      PROVE  /\ probe[p].asked /\ Provider # "elasticsearch" => probe[p].header # NoHeader
             /\ probe[p].status = "refused" /\ probe[p].header # NoHeader =>
                  probe[p].header.value.secret \notin {0, 1}
  BY <1>1 DEF HealthInv, ProbesInv, Sound, Asked
<1>2. HealthInv => HealthMissesRegistryOnly
  BY <1>1 DEF HealthMissesRegistryOnly
<1>. QED BY <1>2, HealthInductive, PTL

\* Sound checks ask as they are configured.
LEMMA SoundAsks == HealthInv => AsksAsConfigured
<1>. SUFFICES ASSUME HealthInv PROVE AsksAsConfigured
  OBVIOUS
<1>1. RegistryInv /\ ProbesInv /\ ManagerInv
  BY DEF HealthInv
<1>2. setup \in Setups /\ Place \in Places
  BY <1>1, Where
<1>3. ASSUME NEW p \in Prober, probe[p].asked
      PROVE  /\ \/ probe[p].route = FactoryRoute(Provider, Place)
                \/ probe[p].by = "script" /\ RoutesPart(Provider, Place)
                \/ probe[p].by = "checker" /\ Provider = "elasticsearch"
             /\ probe[p].by = "script" =>
                  probe[p].header = ResultHeader(ApiKey(setup)) \/ ScriptParts
             /\ \/ probe[p].route.verify
                \/ UnverifiedAsked(Provider, Place, probe[p].by = "script")
                \/ /\ probe[p].by = "checker" /\ Provider = "elasticsearch"
                   /\ Place.global.verify = "off"
  <2>1. Asked(probe[p])
    BY <1>1, <1>3 DEF ProbesInv, Sound
  <2>2. CASE /\ probe[p].by = "checker" /\ Provider # "elasticsearch"
             /\ probe[p].route = FactoryRoute(Provider, Place)
    <3>1. UnverifiedAsked(Provider, Place, FALSE)
            => UnverifiedAsked(Provider, Place, probe[p].by = "script")
      BY DEF UnverifiedAsked
    <3>. QED BY <1>2, <2>2, <3>1, FactoryVerifies
  <2>3. CASE /\ probe[p].by = "checker" /\ Provider = "elasticsearch"
             /\ probe[p].route = ElasticsearchRoute(Place)
    <3>1. probe[p].route.verify \/ Place.off \/ Place.global.verify = "off"
      <4>1. ElasticsearchRoute(Place).verify = (~ Place.off /\ Place.global.verify # "off")
        BY DEF ElasticsearchRoute, Dispatch, Route
      <4>. QED BY <2>3, <4>1
    <3>. QED BY <2>3, <3>1 DEF UnverifiedAsked
  <2>4. CASE /\ probe[p].by = "script" /\ Given(ApiKey(setup).api)
             /\ probe[p].header # NoHeader /\ probe[p].header = ScriptHeader(ApiKey(setup))
             /\ probe[p].route = ScriptRoute(Provider, Place)
    <3>1. probe[p].header = ResultHeader(ApiKey(setup)) \/ ScriptParts
      BY <1>2, <2>1, <2>4, ScriptsAgree DEF Asked
    <3>2. UnverifiedAsked(Provider, Place, TRUE)
            => UnverifiedAsked(Provider, Place, probe[p].by = "script")
      BY <2>4 DEF UnverifiedAsked
    <3>. QED BY <1>2, <2>4, <3>1, <3>2, ScriptAsFactory, ScriptVerifies
  <2>. QED BY <2>1, <2>2, <2>3, <2>4 DEF Asked
<1>4. TlsAsConfigured
  <2>1. ASSUME NEW p \in Prober, probe[p].pc = "waiting", probe[p].by = "checker"
        PROVE  /\ Provider = "postgres" =>
                    \/ probe[p].tls = ModeTls[Place.sslmode]
                    \/ NetworkConfig(Place).verify = "off"
               /\ Provider = "redis" =>
                    \/ probe[p].tls = IF Place.tls THEN "verified" ELSE "plain"
                    \/ NetworkConfig(Place).verify = "off"
    BY <1>1, <1>2, <2>1, DatabaseTls DEF ProbesInv, Sound
  <2>2. \/ ManagerTls = ServerTls(Place)
        \/ manager = "script" /\ Place.ssl_mode \in {"require", "verify"}
    BY <1>2, DatabaseTls DEF ManagerTls
  <2>. QED BY <2>1, <2>2 DEF TlsAsConfigured
<1>. QED BY <1>3, <1>4 DEF AsksAsConfigured

\* A check asks over the route, with the header and with the TLS that are
\* configured, but for the differences between the two ways that are named.
THEOREM AsksRight == HealthSpec => []AsksAsConfigured
BY SoundAsks, HealthInductive, PTL

\* A check that is over has closed its client, but for the exceptions named;
\* and nobody but an overlap keeps the manager from closing a connection.
THEOREM ClosesWhatItOpens == HealthSpec => []NothingLeftOpen
<1>1. ManagerInv => OrphansByOverlap
  BY DEF ManagerInv, Together, OrphansByOverlap
<1>2. ASSUME ProbesInv, NEW p \in Prober, probe[p].pc = "done", probe[p].open
      PROVE  LeftOpen(probe[p])
  BY <1>2 DEF ProbesInv, Sound
<1>3. HealthInv => NothingLeftOpen
  BY <1>1, <1>2 DEF HealthInv, NothingLeftOpen, LeftOpen
<1>. QED BY <1>3, HealthInductive, PTL

-----------------------------------------------------------------------------
(* The encoders. *)

\* A type is of one kind, which says whose identity it names and which secret.
LEMMA KindsAre ==
  ASSUME NEW type \in ValidTypes, NEW o
  PROVE  /\ type \in BasicTypes \cup PairTypes =>
              /\ Identities(type) \in {{"email"}, {"username"}, {"email", "username"}}
              /\ type \notin TokenTypes \cup CustomTypes \cup {"x-api-key"}
         /\ type \in TokenTypes \cup CustomTypes \cup {"x-api-key"} =>
              /\ Identities(type) = {} /\ Secret(type, o) = o.key
              /\ type \notin BasicTypes \cup PairTypes \cup PasswordTypes \cup {"basic"}
         /\ type \in TokenTypes => type \notin CustomTypes \cup {"x-api-key"}
         /\ type = "x-api-key" => type \notin CustomTypes
         /\ type \in BasicTypes => type \notin PairTypes
         /\ type \in PasswordTypes => Secret(type, o) = o.password
         /\ type = "basic" => Secret(type, o) = Or(o.password, o.key)
         /\ type \notin PasswordTypes \cup {"basic"} => Secret(type, o) = o.key
         /\ type \notin BareTypes => type # "hmac"
         /\ type \in BasicTypes \cup PairTypes \cup TokenTypes \cup CustomTypes \cup {"x-api-key"}
                     \cup BareTypes
<1>0. "hmac" \in BareTypes
  BY DEF BareTypes
<1>1. CASE type \in BasicTypes \cup PairTypes
  <2>1. Identities(type) \in {{"email"}, {"username"}, {"email", "username"}}
    BY <1>1 DEF Identities, BasicTypes, PairTypes
  <2>2. type \notin TokenTypes \cup CustomTypes \cup {"x-api-key"}
    BY <1>1 DEF BasicTypes, PairTypes, TokenTypes, CustomTypes
  <2>3. type \in BasicTypes => type \notin PairTypes
    BY DEF BasicTypes, PairTypes
  <2>. QED BY <1>0, <1>1, <2>1, <2>2, <2>3 DEF Secret, PasswordTypes
<1>2. CASE type \in TokenTypes \cup CustomTypes \cup {"x-api-key"}
  <2>1. type \notin BasicTypes \cup PairTypes \cup PasswordTypes \cup {"basic"}
    BY <1>2 DEF BasicTypes, PairTypes, TokenTypes, CustomTypes, PasswordTypes
  <2>2. Identities(type) = {} /\ Secret(type, o) = o.key
    BY <1>2, <2>1 DEF Identities, Secret, TokenTypes, CustomTypes
  <2>3. /\ type \in TokenTypes => type \notin CustomTypes \cup {"x-api-key"}
        /\ type = "x-api-key" => type \notin CustomTypes
    BY DEF TokenTypes, CustomTypes
  <2>. QED BY <1>0, <1>2, <2>1, <2>2, <2>3
<1>3. CASE type \in BareTypes
  <2>1. type \notin BasicTypes \cup PairTypes \cup TokenTypes \cup CustomTypes \cup PasswordTypes
                       \cup {"x-api-key", "basic"}
    BY <1>3, BareIs DEF BasicTypes
  <2>. QED BY <1>3, <2>1 DEF Secret
<1>. QED BY <1>1, <1>2, <1>3 DEF ValidTypes, HeaderTypes, BearerTypes

\* Of the identities that there are, the one that an encoder prefers.
LEMMA PreferIs ==
  ASSUME NEW S \in SUBSET {"email", "username"}, NEW has \in SUBSET {"email", "username"}
  PROVE  /\ Prefer({}, "email") = "none" /\ Prefer({}, "username") = "none"
         /\ has # {} => Prefer(has, "email") # "none"
         /\ has # {"email", "username"} => Prefer(has, "email") = Prefer(has, "username")
         /\ S \cap has # {} /\ (S = {"username"} => "email" \notin has) =>
              Prefer(S \cap has, "email") = Prefer(has, "email")
BY DEF Prefer, Other

\* The encoders agree on an offer that is not ambiguous.
LEMMA EncodersAgreeOn ==
  ASSUME NEW V, \A v \in V : v.form \in Forms /\ (v.form = "none" => v = None),
         NEW type \in ValidTypes, NEW o \in Offers(V)
  PROVE  AgreesOn(type, o)
<1>. SUFFICES ASSUME ~ Ambiguous(type, o) PROVE AgreesOn(type, o)
  BY DEF AgreesOn
<1>0. /\ o.has \in SUBSET {"email", "username"} /\ o.password \in V /\ o.key \in V
      /\ ~ Given(o.key) => o.key = None
  BY DEF Offers, Given
<1>1. /\ type \notin PasswordTypes \cup {"basic"} => ~ Given(o.password)
      /\ Identities(type) = {"username"} => "email" \notin o.has
      /\ type = "bearer" => o.has = {}
      /\ Prefixed(o.key) => Validates(type, o)
      /\ type \in CustomTypes => o.named
  BY DEF Ambiguous
<1>2. CASE Prefixed(o.key)
  <2>1. Compute(type, o) = AsItIs(o.key) /\ Format(type, o) = AsItIs(o.key)
    BY <1>2 DEF Compute, Format
  <2>2. Compute(type, o) = ClientSends(type, o)
    BY <1>1, <1>2, <2>1 DEF ClientSends
  <2>. QED BY <1>2, <2>2 DEF AgreesOn
<1>3. CASE ~ Prefixed(o.key) /\ type \in TokenTypes
  <2>0. type \notin BareTypes /\ type \in HeaderTypes
    BY <1>3, BareIs DEF HeaderTypes, BearerTypes
  <2>1. Compute(type, o) = Token(o.key)
    BY <1>1, <1>3 DEF Compute, ComputeToken
  <2>2. Validates(type, o) <=> Given(o.key)
    BY <1>3, <2>0, KindsAre DEF Validates
  <2>3. ClientSends(type, o) = Token(o.key)
    <3>1. Format(type, o) = Token(o.key)
      BY <1>3, <2>0, KindsAre DEF Format
    <3>. QED BY <2>2, <3>1 DEF ClientSends, Token
  <2>4. EncodeAuth(type, o) = Token(o.key)
    <3>1. EncodeAuth(type, o) = Token(Or(o.key, o.password))
      BY <1>3, <2>0, KindsAre DEF EncodeAuth
    <3>2. ~ Given(o.password)
      BY <1>1, <1>3, KindsAre
    <3>. QED BY <3>1, <3>2 DEF Or, Token
  <2>5. Handler(type, o) = Token(o.key)
    BY <1>3, KindsAre DEF Handler, CustomTypes
  <2>6. Create(type, o) = Token(o.key)
    BY <1>3, KindsAre DEF Create
  <2>. QED BY <2>1, <2>3, <2>4, <2>5, <2>6 DEF AgreesOn
<1>4. CASE ~ Prefixed(o.key) /\ type \in CustomTypes \cup {"x-api-key"}
  <2>a. type \notin BareTypes /\ type \in HeaderTypes
    BY <1>4, BareIs DEF HeaderTypes
  <2>0. type \notin BasicTypes \cup PairTypes \cup TokenTypes \cup BareTypes \cup {"hmac"}
    BY <1>4, <2>a, KindsAre
  <2>1. Compute(type, o) = AsItIs(o.key)
    BY <1>4, <2>0 DEF Compute, ComputeEncoded
  <2>2. Validates(type, o) <=> Given(o.key)
    BY <1>1, <1>4, <2>a, KindsAre DEF Validates
  <2>3. ClientSends(type, o) = AsItIs(o.key)
    <3>1. Format(type, o) = AsItIs(o.key)
      BY <1>4, <2>0 DEF Format
    <3>2. ~ Given(o.key) => AsItIs(o.key) = Nothing
      BY <1>0 DEF AsItIs, Nothing
    <3>. QED BY <2>2, <3>1, <3>2 DEF ClientSends
  <2>4. EncodeAuth(type, o) = AsItIs(o.key)
    BY <2>0 DEF EncodeAuth
  <2>5. type \in {"x-api-key", "custom"} => Handler(type, o) = AsItIs(o.key)
    BY DEF Handler
  <2>6. Validates(type, o) => Create(type, o) = AsItIs(o.key)
    <3>1. CASE type \in CustomTypes
      BY <1>1, <2>0, <2>2, <3>1, KindsAre DEF Create, CreateCustom
    <3>2. CASE type = "x-api-key"
      BY <2>0, <2>2, <3>2, KindsAre DEF Create, CreateApiKey
    <3>. QED BY <1>4, <3>1, <3>2
  <2>. QED BY <2>0, <2>1, <2>3, <2>4, <2>5, <2>6 DEF AgreesOn
<1>5. CASE ~ Prefixed(o.key) /\ type \in BasicTypes \cup PairTypes
  <2>. DEFINE named == Identities(type) \cap o.has
              secret == Secret(type, o)
              send(who, v) == IF type \in BasicTypes THEN Basic(who, v) ELSE Pair(who, v)
  <2>0. type \notin TokenTypes \cup CustomTypes \cup {"x-api-key"} /\ Identities(type) # {}
        /\ Identities(type) \in SUBSET {"email", "username"}
        /\ type \notin BareTypes \cup {"hmac"} /\ type \in HeaderTypes
    <3>1. type \notin BareTypes /\ type \in HeaderTypes
      BY <1>5, BareIs DEF HeaderTypes, BearerTypes
    <3>. QED BY <1>5, <3>1, KindsAre
  <2>a. \A who, v : who = "none" \/ ~ Given(v) => send(who, v) = Nothing
    BY DEF Basic, Pair
  <2>1. Compute(type, o) = send(Prefer(named, "email"), secret)
    BY <1>5, <2>0, KindsAre DEF Compute, ComputeEncoded
  <2>2. EncodeAuth(type, o) = send(Prefer(named, "username"), secret)
    BY <1>5, <2>0, KindsAre DEF EncodeAuth
  <2>3. Format(type, o) = send(Prefer(o.has, "email"), Or(o.password, o.key))
    BY <1>5, <2>0, KindsAre DEF Format
  <2>4. Validates(type, o) <=> named # {} /\ Given(secret)
    BY <2>0 DEF Validates
  <2>5. Given(secret) => secret = Or(o.password, o.key)
    BY <1>1, KindsAre DEF Or
  <2>. HIDE DEF secret, send
  <2>6. ASSUME Validates(type, o)
        PROVE  Compute(type, o) = Format(type, o)
    <3>1. Prefer(named, "email") = Prefer(o.has, "email")
      BY <1>0, <1>1, <2>0, <2>4, <2>6, PreferIs
    <3>. QED BY <2>1, <2>3, <2>4, <2>5, <2>6, <3>1
  <2>7. ASSUME ~ Validates(type, o)
        PROVE  Compute(type, o) = Nothing
    <3>1. CASE named = {}
      BY <2>1, <2>a, <3>1, PreferIs
    <3>2. CASE ~ Given(secret)
      BY <2>1, <2>a, <3>2
    <3>. QED BY <2>4, <2>7, <3>1, <3>2
  <2>8. Compute(type, o) = ClientSends(type, o)
    BY <2>6, <2>7 DEF ClientSends
  <2>9. o.has = {"email", "username"} \/ EncodeAuth(type, o) = Compute(type, o)
    <3>1. o.has # {"email", "username"} => named # {"email", "username"}
      BY <1>0, <2>0
    <3>2. named \in SUBSET {"email", "username"}
      BY <1>0
    <3>3. o.has # {"email", "username"} => Prefer(named, "email") = Prefer(named, "username")
      <4>. HIDE DEF named
      <4>. QED BY <3>1, <3>2, PreferIs
    <3>. QED BY <2>1, <2>2, <3>3
  <2>10. Validates(type, o) /\ type \notin PairTypes => Create(type, o) = Compute(type, o)
    <3>. SUFFICES ASSUME Validates(type, o), type \notin PairTypes
                  PROVE  Create(type, o) = Compute(type, o)
      OBVIOUS
    <3>1. type \in BasicTypes
      BY <1>5
    <3>2. Create(type, o) = Basic(Prefer(o.has, "email"), Or(o.password, o.key))
      BY <3>1, <2>0 DEF Create
    <3>. QED BY <2>3, <2>6, <3>1, <3>2 DEF send
  <2>. QED BY <2>0, <2>8, <2>9, <2>10 DEF AgreesOn, CustomTypes
<1>6. CASE ~ Prefixed(o.key) /\ type \in BareTypes
  <2>1. type \notin HeaderTypes \cup BasicTypes \cup PairTypes \cup TokenTypes \cup CustomTypes
                       \cup {"x-api-key", "custom"}
    BY <1>6, BareIs DEF CustomTypes
  <2>2. ~ Validates(type, o) /\ ClientSends(type, o) = Nothing
    BY <2>1 DEF Validates, ClientSends
  <2>3. Compute(type, o) = Nothing
    BY <1>6, <2>1 DEF Compute, ComputeEncoded
  <2>4. EncodeAuth(type, o) = Nothing
    BY <1>6, <2>1 DEF EncodeAuth
  <2>. QED BY <2>1, <2>2, <2>3, <2>4 DEF AgreesOn
<1>. QED BY <1>2, <1>3, <1>4, <1>5, <1>6, KindsAre

\* For any secrets the header that a provider computes is the one that a
\* client sends with the same credentials, and the other encoders make it too,
\* but for the credentials that are ambiguous.
THEOREM EncodersAlwaysAgree ==
  ASSUME NEW V, \A v \in V : v.form \in Forms /\ (v.form = "none" => v = None)
  PROVE  EncodersAgree(V)
BY EncodersAgreeOn DEF EncodersAgree
==============================================================================
