---------------------------- MODULE MCHealthCheck ----------------------------
EXTENDS HealthCheck, TLC

CONSTANTS t1, t2, s1, s2, r1

\* Every provider that is asked over HTTP, with every type; the name of a
\* header and an identity where they are looked at.
AllSetups ==
  {s \in Setups :
     /\ s.provider \notin Databases
     /\ s.named => s.type \in CustomTypes
     /\ s.identity => s.provider \in {"jira", "confluence", "saucelabs", "servicenow"}}

\* Where a token may make a difference to a check.
CheckedSetups ==
  {s \in AllSetups : s.named = (s.type \in CustomTypes)
                      /\ s.type \in {"basic", "bearer"}}

\* With its credentials, and nothing else of interest; a database is not asked
\* with a header.
Plain(provider) ==
  [provider |-> provider,
   type |-> IF provider \in Databases THEN "connection_string" ELSE "bearer", named |-> FALSE, resolver |-> "static",
   key |-> TRUE, identity |-> TRUE]

HealthSetups == AllSetups \cup {Plain(provider) : provider \in Providers}

NoPlace ==
  [off |-> FALSE, dev |-> FALSE, system |-> FALSE, url |-> FALSE, stage |-> FALSE,
   global |-> Absent, own |-> Absent, legacy |-> Absent, direct |-> "unset",
   broken |-> "nothing", sslmode |-> "disable", ssl_mode |-> "disable", tls |-> FALSE]

In(setups, places, tokens, checks) ==
  [setup : setups, place : places, tokens : {tokens}, checks : {checks}]

\* Sections that differ in one way each.
SomeSections ==
  {Absent} \cup {[has |-> {x}, verify |-> v] : x \in {"agent", "perEnv", "proxy"}, v \in {"unset", "on"}}
    \cup {[has |-> {}, verify |-> v] : v \in {"on", "off"}}

Sections3 == {Absent} \cup {[has |-> {"agent"}, verify |-> v] : v \in {"unset", "on", "off"}}

\* The environment, and what a section is, and what is not a URL.
NetworkPlaces ==
  {[NoPlace EXCEPT !.off = off, !.dev = dev, !.system = system, !.url = url, !.stage = stage,
                   !.own = own, !.direct = direct] :
     off \in BOOLEAN, dev \in BOOLEAN, system \in BOOLEAN, url \in BOOLEAN,
     stage \in BOOLEAN, own \in Sections3, direct \in {"unset", "direct"}}
  \cup
  {[NoPlace EXCEPT !.off = off, !.dev = TRUE, !.system = TRUE, !.url = url,
                   !.global = global, !.own = own, !.legacy = legacy, !.direct = direct,
                   !.broken = broken] :
     off \in BOOLEAN, url \in BOOLEAN, global \in SomeSections, own \in SomeSections,
     legacy \in Sections3, direct \in {"unset", "none", "direct"},
     broken \in {"nothing", "direct", "agent", "url", "system"}}

\* What the TLS of a database depends on.
TlsPlaces ==
  {[NoPlace EXCEPT !.off = off, !.own.verify = verify, !.sslmode = sslmode,
                   !.ssl_mode = ssl_mode, !.tls = tls] :
     off \in BOOLEAN, verify \in {"unset", "on", "off"}, sslmode \in SslModes,
     ssl_mode \in SslModes, tls \in BOOLEAN}

PostgresPlaces ==
  {p \in TlsPlaces :
     ~ p.tls /\ (p.ssl_mode # "disable" => p = [NoPlace EXCEPT !.ssl_mode = p.ssl_mode])}
RedisPlaces    == {p \in TlsPlaces : p.sslmode = "disable" /\ p.ssl_mode = "disable"}

AllScenes ==
  In(AllSetups \cup {Plain(p) : p \in Databases}, {NoPlace}, 2, 0)
    \cup In(CheckedSetups, {NoPlace}, 1, 1)
    \cup In(AllSetups \ CheckedSetups, {NoPlace}, 0, 1)
    \cup In({Plain(p) : p \in {"jira", "confluence", "elasticsearch"}}, NetworkPlaces, 0, 1)
    \cup In({Plain("postgres"), Plain("redis")}, {NoPlace}, 0, 2)
    \cup In({Plain("postgres")}, PostgresPlaces, 0, 1)
    \cup In({Plain("redis")}, RedisPlaces, 0, 1)

\* What any credentials are encoded to, whatever the scene is.
ASSUME EncodersAgreeHere ==
  EncodersAgree({None} \cup [form : Forms \ {"none"}, secret : {0, 2}])

Symmetric == Permutations(Task) \cup Permutations(Script)
=============================================================================
