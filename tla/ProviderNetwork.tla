--------------------------- MODULE ProviderNetwork ---------------------------
(***************************************************************************)
(* Over which proxy a provider is asked, and whether its certificate is    *)
(* verified: the two ways the code has.  A client of ProviderClientFactory *)
(* (provider_api_getters) is for the merged configuration; a health check  *)
(* script calls create_client_with_dispatcher (fetch_client).  Both go     *)
(* through fetch_proxy_dispatcher and fetch_proxy_config.                  *)
(*                                                                         *)
(* A proxy is named by where it is configured; that the environment has a  *)
(* URL in proxy_urls is "perEnv".                                          *)
(*                                                                         *)
(* And with which TLS a database is asked.                                 *)
(***************************************************************************)

\* A network section, with the settings it has.
Sections == [has : SUBSET {"agent", "perEnv", "proxy"}, verify : {"unset", "on", "off"}]
Absent   == [has |-> {}, verify |-> "unset"]

\* verify: verify-ca or verify-full.
SslModes == {"disable", "prefer", "require", "verify"}

\* own: the section of the provider, which confluence has at its top level;
\* legacy: what it has under "proxy".  direct: its proxy_url.
Places ==
  [off      : BOOLEAN,   \* SSL_CERT_VERIFY=0 or NODE_TLS_REJECT_UNAUTHORIZED=0
   dev      : BOOLEAN,   \* APP_ENV is DEV
   system   : BOOLEAN,   \* HTTPS_PROXY or HTTP_PROXY
   url      : BOOLEAN,   \* PROXY_URL
   stage    : BOOLEAN,   \* PROXY_{APP_ENV}_URL
   global   : Sections,
   own      : Sections,
   legacy   : Sections,
   direct   : {"unset", "none", "direct"},
   broken   : {"nothing", "direct", "agent", "url", "system"},  \* not a URL
   sslmode  : SslModes,   \* POSTGRES_SSLMODE, which the checker reads
   ssl_mode : SslModes,   \* POSTGRES_SSL_MODE, which DatabaseConfig reads
   tls      : BOOLEAN]    \* REDIS_TLS, use_tls or a port for TLS

Proxies == {"none", "direct", "section", "agent", "ownAgent", "perEnv", "ownPerEnv",
            "url", "system", "stage"}

\* Which client is made; trusting: httpx looks at the environment by itself.
Routes == [proxy : Proxies, verify : BOOLEAN, trusting : BOOLEAN]
Route(proxy, verify) == [proxy |-> proxy, verify |-> verify, trusting |-> FALSE]

\* A client cannot be made with a proxy that is not a URL.
Broken(place, proxy) == proxy # "none" /\ proxy = place.broken

-----------------------------------------------------------------------------
(* Sections.                                                               *)

\* get_network_config() of the base class: the environment has a say.
NetworkConfig(place) == IF place.off THEN [place.own EXCEPT !.verify = "off"] ELSE place.own

\* What confluence has instead: without its cert_verify there is no
\* verification, and the environment has no say here.
ConfluenceConfig(place) ==
  [has    |-> (place.own.has \cap {"agent"})
                \cup (IF place.direct = "direct" THEN {"proxy"} ELSE {}),
   verify |-> IF place.own.verify = "on" THEN "on" ELSE "off"]

Section(provider, place) ==
  IF provider = "confluence" THEN ConfluenceConfig(place) ELSE NetworkConfig(place)

\* The legacy section is for those that have no other.
ProviderSection(provider, place) ==
  IF Section(provider, place) = Absent THEN place.legacy ELSE Section(provider, place)

\* deep_merge(): what is unset does not override.
MergedVerify(global, own) == IF own.verify = "unset" THEN global.verify ELSE own.verify

Ranked(has, ownHas, setting, ownName) ==
  IF setting \in ownHas THEN ownName ELSE IF setting \in has THEN setting ELSE "none"

-----------------------------------------------------------------------------
(* fetch_proxy_config and fetch_proxy_dispatcher.                          *)

\* resolve_proxy_url()
Waterfall(place, perEnv) ==
  IF perEnv # "none" THEN perEnv
  ELSE IF place.url THEN "url"
  ELSE IF place.system THEN "system" ELSE "none"

\* ProxyDispatcherFactory._resolve_proxy_url(); "none" is FALSE, a direct connection.
ResolveProxy(place, direct, agent, perEnv) ==
  IF direct # "unset" THEN direct
  ELSE IF agent # "none" THEN agent
  ELSE Waterfall(place, perEnv)

\* Mutated form: who says nothing about certificates has them not verified.
DispatchUnverified(place, proxy, verify) == Route(proxy, ~ place.off /\ verify = "on")

\* ProxyDispatcherFactory.get_proxy_dispatcher()
Dispatch(place, proxy, verify) == Route(proxy, ~ place.off /\ verify # "off")

\* get_effective_proxy_url() and get_proxy_dispatcher() of the dispatcher.
DefaultRoute(place) ==
  Route(IF place.system THEN "system" ELSE IF place.stage THEN "stage" ELSE "none",
        ~ place.off /\ ~ place.dev)

-----------------------------------------------------------------------------
(* The two ways.                                                           *)

\* _get_merged_config_for_provider() and _create_httpx_client().
FactoryRoute(provider, place) ==
  LET own == ProviderSection(provider, place) IN
  Dispatch(place,
           ResolveProxy(place, place.direct,
                        Ranked(place.global.has, own.has, "agent", "ownAgent"),
                        Ranked(place.global.has, own.has, "perEnv", "ownPerEnv")),
           MergedVerify(place.global, own))

\* For elasticsearch the section of the provider is not merged.
ElasticsearchRoute(place) ==
  Dispatch(place,
           ResolveProxy(place, place.direct,
                        Ranked(place.global.has, {}, "agent", ""),
                        Ranked(place.global.has, {}, "perEnv", "")),
           place.global.verify)

\* What the script hands on as proxy: False is something that is not None.
Handed(provider, place) ==
  IF provider = "confluence"
  THEN IF place.direct = "direct" THEN "direct" ELSE "none"
  ELSE IF "proxy" \in NetworkConfig(place).has THEN "section" ELSE "none"

\* Something is configured, in YAML or by the arguments.
Configured(provider, place) ==
  \/ place.global # Absent
  \/ Section(provider, place).verify # "unset"
  \/ Handed(provider, place) # "none"

\* _get_proxy_dispatcher_safe(), before anything goes wrong.
DispatcherRoute(provider, place) ==
  LET handed == Handed(provider, place) IN
  IF Configured(provider, place)
  THEN Dispatch(place,
                ResolveProxy(place, "unset",
                             IF handed # "none" THEN handed
                             ELSE Ranked(place.global.has, {}, "agent", ""),
                             Ranked(place.global.has, {}, "perEnv", "")),
                MergedVerify(place.global, Section(provider, place)))
  ELSE DefaultRoute(place)

\* AsyncFetchClient without an httpx client makes a plain one.
PlainRoute(place) ==
  [proxy |-> IF place.system THEN "system" ELSE "none", verify |-> ~ place.off, trusting |-> TRUE]

\* Exceptions are swallowed, and a plain client is made.
ScriptRoute(provider, place) ==
  LET route == DispatcherRoute(provider, place) IN
  IF Broken(place, route.proxy) THEN PlainRoute(place) ELSE route

-----------------------------------------------------------------------------
(* Databases.                                                              *)

Tls == {"plain", "prefer", "unverified", "verified"}

\* _ssl_mode_to_context()
ModeTls == [disable |-> "plain", prefer |-> "prefer", require |-> "unverified",
            verify |-> "verified"]

\* _get_ssl_context(), for the pool of the checker.
PostgresTls(place) ==
  IF place.off THEN "plain"
  ELSE IF place.own.verify = "off" THEN "unverified" ELSE ModeTls[place.sslmode]

\* DatabaseConfig.get_connect_args(), for an application.
ServerTls(place) == ModeTls[place.ssl_mode]

\* get_connection_config() of postgres, and what the script makes of it: an
\* SSLContext is none of those that it knows, and True is require.
ConfigTls(place) == ModeTls[place.ssl_mode]
PostgresScriptTls(place) ==
  [plain |-> "plain", prefer |-> "prefer", unverified |-> "plain",
   verified |-> "unverified"][ConfigTls(place)]

\* get_connection_config() of redis, with a URL of its components.
RedisTls(place) ==
  IF ~ place.tls THEN "plain"
  ELSE IF place.off \/ place.own.verify = "off" THEN "unverified" ELSE "verified"

\* The script passes neither.
RedisScriptTls == "plain"

-----------------------------------------------------------------------------
(* Properties. *)

\* Where the script does not ask as the client does.
RoutesPart(provider, place) ==
  \* what only the client looks at
  \/ place.own.has \cap {"agent", "perEnv"} # {}
  \/ place.legacy # Absent
  \/ place.direct = "none"
  \/ place.direct = "direct" /\ provider # "confluence"
  \* what only the script looks at
  \/ "proxy" \in place.own.has
  \/ ~ Configured(provider, place)
  \* what only the client raises for
  \/ Broken(place, DispatcherRoute(provider, place).proxy)

\* Certificates go unverified only where that was asked for: by the
\* environment, by a section with cert_verify: false that nothing overrides,
\* by leaving confluence without its own cert_verify, and by a script in DEV
\* with nothing configured.
UnverifiedAsked(provider, place, script) ==
  \/ place.off
  \/ place.own.verify = "off"
  \/ place.own.verify = "unset" /\ (place.global.verify = "off" \/ place.legacy.verify = "off")
  \/ provider = "confluence" /\ place.own.verify # "on"
  \/ script /\ place.dev /\ ~ Configured(provider, place)
=============================================================================
