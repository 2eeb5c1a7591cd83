----------------------------- MODULE HealthCheck -----------------------------
(***************************************************************************)
(* The health checks of packages_py/provider_api_getters: the checker,     *)
(* ProviderHealthChecker, which asks over a client of the factory, and the *)
(* script of each provider, which makes its own client.  A check finds     *)
(* credentials, makes a client with a route and a header, asks once and    *)
(* has to close what it opened, whatever the answer is.                    *)
(*                                                                         *)
(* Tokens are set, cleared and resolved meanwhile: Credentials.  The       *)
(* script of postgres uses the global DatabaseManager.                     *)
(***************************************************************************)
EXTENDS Credentials, ProviderNetwork, DatabaseManager, FiniteSets

CONSTANTS
  Scene,    \* a subset of Scenes: what is configured, and bounds
  Prober    \* health checks, by the checker or by a script

Scenes == [setup  : Setup,
           place  : Places,
           tokens : 0 .. MaxIssued,   \* bound: tokens that are issued
           checks : Nat]              \* bound: checks that are made

ASSUME HealthAssumption == (\A s \in Scene : s \in Scenes) /\ Script \subseteq Prober

VARIABLES
  scene,  \* the scene, which does not change
  probe   \* [Prober -> record], the checks

healthVars == <<vars, managerVars, scene, probe>>

Statuses  == {"none", "refused", "connected", "error", "raised", "cancelled"}
Unstarted == [pc |-> "off", by |-> "none", status |-> "none", open |-> FALSE,
              asked |-> FALSE, header |-> NoHeader, route |-> Route("none", TRUE),
              tls |-> "plain"]

Databases == {"postgres", "redis"}

HealthInit ==
  /\ scene \in Scene
  /\ InitFor(scene.setup)
  /\ ManagerInit
  /\ probe = [p \in Prober |-> Unstarted]

-----------------------------------------------------------------------------
(* What a check is made of. *)

Provider == setup.provider
Place    == scene.place

Started == {p \in Prober : probe[p].pc # "off" \/ (p \in Script /\ at[p].doing # "off")}

Ready(p) ==
  /\ p \notin Started
  /\ Cardinality(Started) < scene.checks

\* A client is made, and waits for the answer.
AsksOver(p, by, header, route) ==
  probe' = [probe EXCEPT ![p] = [pc |-> "waiting", by |-> by, status |-> "none", open |-> TRUE,
                                 asked |-> TRUE, header |-> header, route |-> route,
                                 tls |-> "plain"]]

\* The check is over, and a client may be left open.
Ends(p, by, status, open) ==
  probe' = [probe EXCEPT ![p].pc = "done", ![p].by = by, ![p].status = status, ![p].open = open]

\* Whether there is a base URL: akamai and elasticsearch know their host.
Bases == IF Provider \in {"akamai", "elasticsearch"} THEN {TRUE} ELSE BOOLEAN

-----------------------------------------------------------------------------
(* The checker: check() and _check_http(). *)

\* The client of get_client().  A proxy that is not a URL raises before there
\* is one; with tokens per request create_async_client() raises with one.
MakeClient(p, r) ==
  LET route == FactoryRoute(Provider, Place) IN
  \/ Broken(Place, route.proxy) /\ Ends(p, "checker", "raised", FALSE)
  \/ /\ ~ Broken(Place, route.proxy) /\ setup.resolver = "request"
     /\ Ends(p, "checker", "raised", TRUE)
  \/ /\ ~ Broken(Place, route.proxy) /\ setup.resolver # "request"
     /\ AsksOver(p, "checker", ClientHeader(setup, r), route)

\* Mutated form: credentials are not looked for.
NeverRefused == FALSE

\* Only the environment is asked for credentials, not the registry.
Refused == ~ Given(ApiKey(setup).api)

CheckHttp(p) ==
  /\ Ready(p) /\ Provider \notin Databases \cup {"elasticsearch"}
  /\ \E based \in Bases :
       \/ /\ Refused
          /\ probe' = [probe EXCEPT ![p].pc = "done", ![p].by = "checker",
                                    ![p].status = "refused",
                                    ![p].header = Client(FromRegistry(AtHand)).header]
       \/ ~ Refused /\ ~ based /\ Ends(p, "checker", "error", FALSE)
       \/ /\ ~ Refused /\ based /\ MustAsk
          /\ probe' = [probe EXCEPT ![p].pc = "asking", ![p].by = "checker"]
       \/ ~ Refused /\ based /\ ~ MustAsk /\ MakeClient(p, FromRegistry(AtHand))
  /\ UNCHANGED <<vars, managerVars, scene>>

\* The resolver has answered get_client(), or the check is cancelled.
CheckGoesOn(p) ==
  /\ probe[p].pc = "asking"
  /\ MakeClient(p, ApiKey(setup)) \/ Ends(p, "checker", "cancelled", FALSE)
  /\ UNCHANGED <<vars, managerVars, scene>>

\* _check_elasticsearch(): without a header, and what is raised is an answer.
CheckElasticsearch(p) ==
  /\ Ready(p) /\ Provider = "elasticsearch"
  /\ LET route == ElasticsearchRoute(Place) IN
     \/ Broken(Place, route.proxy) /\ Ends(p, "checker", "error", FALSE)
     \/ ~ Broken(Place, route.proxy) /\ AsksOver(p, "checker", NoHeader, route)
  /\ UNCHANGED <<vars, managerVars, scene>>

-----------------------------------------------------------------------------
(* The scripts. *)

\* How a script asks: before or after its credentials it looks whether there
\* is a base URL, or it does not; its client has the header of the factory, or
\* is handed the key with an identity; and what an exception of the request
\* becomes.
Asking(base, offer, raises) == [base |-> base, offer |-> offer, raises |-> raises]

JiraScript          == Asking("before", "factory", "raised")
ConfluenceScript    == Asking("before", "factory", "raised")
GitHubScript        == Asking("before", "factory", "raised")
FigmaScript         == Asking("before", "factory", "raised")
SauceLabsScript     == Asking("after", "username", "raised")
SonarScript         == Asking("after", "key", "raised")
GeminiScript        == Asking("after", "key", "raised")
RallyScript         == Asking("after", "key", "raised")
AkamaiScript        == Asking("after", "key", "error")
ElasticsearchScript == Asking("before", "username", "raised")
ServiceNowScript    == Asking("never", "email", "error")
StatsigScript       == Asking("never", "key", "error")

ScriptOf ==
  [jira |-> JiraScript, confluence |-> ConfluenceScript, github |-> GitHubScript,
   figma |-> FigmaScript, saucelabs |-> SauceLabsScript, sonar |-> SonarScript,
   gemini |-> GeminiScript, rally |-> RallyScript, akamai |-> AkamaiScript,
   elasticsearch |-> ElasticsearchScript, servicenow |-> ServiceNowScript,
   statsig |-> StatsigScript]

AsFactory == {p \in DOMAIN ScriptOf : ScriptOf[p].offer = "factory"}

\* What get_api_key() returned, handed to an AuthConfig.
ScriptOffer(r) ==
  [has |-> IF r.identity THEN {ScriptOf[Provider].offer} \cap {"email", "username"} ELSE {},
   password |-> None, key |-> r.raw, named |-> TRUE]

\* get_auth_header_name()
AuthHeaderName(type, name) ==
  CASE type \in CustomTypes -> name
    [] type = "x-api-key"   -> "X-Api-Key"
    [] OTHER                -> "Authorization"

ScriptHeader(r) ==
  IF Provider \in AsFactory THEN ClientHeader(setup, r)
  ELSE LET sent == ClientSends(r.type, ScriptOffer(r)) IN
       IF sent = Nothing THEN NoHeader ELSE Header(AuthHeaderName(r.type, r.name), sent.value)

\* A client is validated when it is made, and has its httpx client by then.
RunScript(p) ==
  /\ Ready(p) /\ Provider \notin Databases
  /\ \E based \in Bases :
       LET r      == ApiKey(setup)
           looks  == ScriptOf[Provider].base
           header == ScriptHeader(r) IN
       \/ /\ ~ Given(r.api) /\ (based \/ looks # "before")
          /\ Ends(p, "script", "refused", FALSE)
       \/ /\ ~ based /\ (looks = "before" \/ (looks = "after" /\ Given(r.api)))
          /\ Ends(p, "script", "error", FALSE)
       \/ /\ Given(r.api)
          /\ (~ based /\ looks = "never") \/ (based /\ header = NoHeader)
          /\ Ends(p, "script", "raised", TRUE)
       \/ /\ Given(r.api) /\ based /\ header # NoHeader
          /\ AsksOver(p, "script", header, ScriptRoute(Provider, Place))
  /\ UNCHANGED <<vars, managerVars, scene>>

-----------------------------------------------------------------------------
(* The answer. *)

\* What an exception of the request becomes.
OnException(p) ==
  IF probe[p].by = "checker" THEN "error" ELSE ScriptOf[Provider].raises

\* A client is closed by a finally or an async with, whatever happens.
HttpAnswered(p) ==
  /\ probe[p].pc = "waiting" /\ Provider \notin Databases
  /\ \E status \in {"connected", "error", OnException(p), "cancelled"} :
       Ends(p, probe[p].by, status, FALSE)
  /\ UNCHANGED <<vars, managerVars, scene>>

-----------------------------------------------------------------------------
(* Databases. *)

Connects(p, by, tls) ==
  probe' = [probe EXCEPT ![p].pc = "waiting", ![p].by = by, ![p].open = TRUE, ![p].tls = tls]

\* A pool of asyncpg or a client of redis-py is there, or cannot be made.
CheckDatabase(p) ==
  /\ Ready(p) /\ Provider \in Databases
  /\ \/ Ends(p, "checker", "error", FALSE)
     \/ Provider = "postgres" /\ Connects(p, "checker", PostgresTls(Place))
     \/ Provider = "redis" /\ Connects(p, "checker", RedisTls(Place))
  /\ UNCHANGED <<vars, managerVars, scene>>

RunRedisScript(p) ==
  /\ Ready(p) /\ Provider = "redis"
  /\ Connects(p, "script", RedisScriptTls)
  /\ UNCHANGED <<vars, managerVars, scene>>

\* _check_postgres(): terminate() comes with an answer and with an exception.
PostgresAnswered(p) ==
  \/ \E status \in {"connected", "error"} : Ends(p, "checker", status, FALSE)
  \/ Ends(p, "checker", "cancelled", TRUE)

\* _check_redis() closes after an answer only.
RedisAnswered(p) ==
  \/ \E status \in {"connected", "error"} : Ends(p, "checker", status, FALSE)
  \/ \E status \in {"error", "cancelled"} : Ends(p, "checker", status, TRUE)

\* The script closes in any case.
RedisScriptAnswered(p) ==
  \E status \in {"connected", "error", "cancelled"} : Ends(p, "script", status, FALSE)

DatabaseAnswered(p) ==
  /\ probe[p].pc = "waiting"
  /\ \/ Provider = "postgres" /\ PostgresAnswered(p)
     \/ Provider = "redis" /\ probe[p].by = "checker" /\ RedisAnswered(p)
     \/ Provider = "redis" /\ probe[p].by = "script" /\ RedisScriptAnswered(p)
  /\ UNCHANGED <<vars, managerVars, scene>>

-----------------------------------------------------------------------------
CredentialsStep ==
  /\ scene.tokens > 0 /\ Next /\ issued' <= scene.tokens
  /\ UNCHANGED <<managerVars, scene, probe>>

\* The script of postgres, and the application beside it.
ManagerSteps ==
  /\ scene.checks > 0 /\ Provider = "postgres"
  /\ \E u \in User :
       /\ u \in Script => probe[u].pc = "off" /\ (at[u].doing = "off" => Ready(u))
       /\ ManagerStep(u)
  /\ UNCHANGED <<vars, scene, probe>>

HealthNext ==
  \/ CredentialsStep \/ ManagerSteps
  \/ \E p \in Prober :
       \/ CheckHttp(p) \/ CheckGoesOn(p) \/ CheckElasticsearch(p) \/ RunScript(p)
       \/ HttpAnswered(p) \/ CheckDatabase(p) \/ RunRedisScript(p) \/ DatabaseAnswered(p)

HealthSpec == HealthInit /\ [][HealthNext]_healthVars

-----------------------------------------------------------------------------
(* Properties. *)

HealthTypeOK ==
  /\ TypeOK /\ ManagerTypeOK
  /\ scene \in Scene
  /\ probe \in [Prober -> [pc : {"off", "asking", "waiting", "done"},
                           by : {"none", "checker", "script"}, status : Statuses,
                           open : BOOLEAN, asked : BOOLEAN, header : Headers, route : Routes,
                           tls : Tls]]

\* The checker asks a provider only with a header, elasticsearch apart, and
\* refuses one whose clients have a header only when their token is from the
\* registry.
HealthMissesRegistryOnly ==
  \A p \in Prober :
    probe[p].by = "checker" =>
      /\ probe[p].asked /\ Provider # "elasticsearch" => probe[p].header # NoHeader
      /\ probe[p].status = "refused" /\ probe[p].header # NoHeader =>
           probe[p].header.value.secret \notin {0, 1}

\* Where a script sends another header than get_auth_header() tells.
ScriptParts ==
  \/ Provider \in AsFactory /\ Parts(ApiKey(setup))
  \/ Provider = "saucelabs" /\ AuthType(setup) \notin BasicTypes
  \/ Provider = "sonar" /\ AuthType(setup) = "x-api-key"

\* The sessions of the script and of the application have one manager, whose
\* configuration is that of the first of them.
ManagerTls == IF manager = "script" THEN PostgresScriptTls(Place) ELSE ServerTls(Place)

\* A database is asked with the TLS of its mode, unless that was switched off,
\* and but for the scripts: of redis, and of postgres with require or verify,
\* which the application then has to share.
TlsAsConfigured ==
  /\ \A p \in Prober : probe[p].pc = "waiting" /\ probe[p].by = "checker" =>
       /\ Provider = "postgres" =>
            \/ probe[p].tls = ModeTls[Place.sslmode]
            \/ NetworkConfig(Place).verify = "off"
       /\ Provider = "redis" =>
            \/ probe[p].tls = IF Place.tls THEN "verified" ELSE "plain"
            \/ NetworkConfig(Place).verify = "off"
  /\ \A u \in User : at[u].doing \in InSession /\ at[u].pool # 0 =>
       \/ ManagerTls = ServerTls(Place)
       \/ manager = "script" /\ Place.ssl_mode \in {"require", "verify"}

\* A check asks as it is configured: a database with the TLS of its mode, the
\* others over the route that a client of the factory has, a script with the
\* header of its credentials, and without verification only where that was
\* asked for; elasticsearch is checked as the global section says, whatever
\* its own section does.
AsksAsConfigured ==
  /\ TlsAsConfigured
  /\ \A p \in Prober :
       probe[p].asked =>
         /\ \/ probe[p].route = FactoryRoute(Provider, Place)
            \/ probe[p].by = "script" /\ RoutesPart(Provider, Place)
            \/ probe[p].by = "checker" /\ Provider = "elasticsearch"
         /\ probe[p].by = "script" => probe[p].header = ResultHeader(ApiKey(setup)) \/ ScriptParts
         /\ \/ probe[p].route.verify
            \/ UnverifiedAsked(Provider, Place, probe[p].by = "script")
            \/ /\ probe[p].by = "checker" /\ Provider = "elasticsearch"
               /\ Place.global.verify = "off"

\* A check that is over has closed what it opened, unless its client raised as
\* it was made, or a database check was cancelled or, redis, not answered;
\* and the manager can close what the script of postgres leaves.
NothingLeftOpen ==
  /\ \A p \in Prober :
       probe[p].pc = "done" /\ probe[p].open =>
         \/ ~ probe[p].asked /\ probe[p].status = "raised"
         \/ /\ Provider \in Databases /\ probe[p].by = "checker"
            /\ \/ probe[p].status = "cancelled"
               \/ Provider = "redis" /\ probe[p].status = "error"
  /\ OrphansByOverlap
=============================================================================
