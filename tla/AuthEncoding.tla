---------------------------- MODULE AuthEncoding ----------------------------
(***************************************************************************)
(* From credentials to the value of an auth header.  The code has these    *)
(* ways: encode_auth() of packages_py/fetch_auth_encoding, the encoder of  *)
(* a provider (compute_auth_header_value of provider_api_getters), the     *)
(* validation of fetch_client's AuthConfig with the formatter behind it,   *)
(* its AuthHandler, and the create() of provider_api_getters'              *)
(* AuthHeaderFactory.                                                      *)
(*                                                                         *)
(* A value is a form and a secret: "raw" is the secret as it is, "basic"   *)
(* is Basic base64(identity:secret), "bearer" is Bearer secret, "pair" is  *)
(* Bearer base64(identity:secret), "doubled" has two prefixes.             *)
(***************************************************************************)
EXTENDS Naturals

BasicTypes  == {"basic", "basic_email_token", "basic_token", "basic_email"}
PairTypes   == {"bearer_username_token", "bearer_username_password",
                "bearer_email_token", "bearer_email_password"}
TokenTypes  == {"bearer", "bearer_oauth", "bearer_jwt"}
BearerTypes == PairTypes \cup TokenTypes
CustomTypes == {"custom", "custom_header"}
HeaderTypes == BasicTypes \cup BearerTypes \cup CustomTypes \cup {"x-api-key"}

\* A provider may have one of these, of which nobody makes a header: the one
\* is for later, the other for databases.
BareTypes   == {"hmac", "connection_string"}
ValidTypes  == HeaderTypes \cup BareTypes

Forms    == {"none", "raw", "basic", "bearer", "pair", "doubled"}
None     == [form |-> "none", secret |-> 0]
Raw(s)   == [form |-> "raw", secret |-> s]

Given(v)    == v.form # "none"
Prefixed(v) == v.form \notin {"none", "raw"}
Or(v, w)    == IF Given(v) THEN v ELSE w

BasicOf(v)  == [form |-> IF v.form = "raw" THEN "basic" ELSE "doubled", secret |-> v.secret]
PairOf(v)   == [form |-> IF v.form = "raw" THEN "pair" ELSE "doubled", secret |-> v.secret]
BearerOf(v) == [form |-> IF v.form = "raw" THEN "bearer" ELSE "doubled", secret |-> v.secret]

-----------------------------------------------------------------------------
(* What a type names: whose identity is encoded, and which secret.         *)

\* What an encoder is given: identities, a password and a key (a token).
Offers(V) == [has : SUBSET {"email", "username"}, password : V, key : V, named : BOOLEAN]
Bearing(key) == [has |-> {}, password |-> None, key |-> key, named |-> TRUE]

Identities(type) ==
  CASE type = "basic" -> {"email", "username"}
    [] type \in {"basic_email_token", "basic_email",
                 "bearer_email_token", "bearer_email_password"} -> {"email"}
    [] type \in {"basic_token", "bearer_username_token", "bearer_username_password"} -> {"username"}
    [] OTHER -> {}

PasswordTypes == {"basic_email", "bearer_username_password", "bearer_email_password"}

Secret(type, o) == CASE type \in PasswordTypes -> o.password
                     [] type = "basic"         -> Or(o.password, o.key)
                     [] OTHER                  -> o.key

\* The identity that is encoded, and the value of the header.
Sent(who, v) == [who |-> who, value |-> v]
Nothing      == Sent("none", None)

\* Of those that are there, the preferred one.
Other(who) == IF who = "email" THEN "username" ELSE "email"
Prefer(S, first) ==
  IF first \in S THEN first ELSE IF Other(first) \in S THEN Other(first) ELSE "none"

Basic(who, v) == IF who = "none" \/ ~ Given(v) THEN Nothing ELSE Sent(who, BasicOf(v))
Pair(who, v)  == IF who = "none" \/ ~ Given(v) THEN Nothing ELSE Sent(who, PairOf(v))
Token(v)      == IF Given(v) THEN Sent("none", BearerOf(v)) ELSE Nothing
AsItIs(v)     == Sent("none", v)

-----------------------------------------------------------------------------
(* The encoders: Nothing stands for an exception or None.                  *)

\* encode_auth(); its custom types take a header and not credentials.
EncodeAuth(type, o) ==
  LET who == Prefer(Identities(type) \cap o.has, "username") IN
  CASE type \in BasicTypes -> Basic(who, Secret(type, o))
    [] type \in PairTypes  -> Pair(who, Secret(type, o))
    [] type \in TokenTypes -> Token(Or(o.key, o.password))
    [] type \in BareTypes  -> Nothing
    [] OTHER               -> AsItIs(o.key)

\* A key with its prefix is passed on as it is, by the next two.
ComputeEncoded(type, o) ==
  LET who == Prefer(Identities(type) \cap o.has, "email") IN
  CASE type \in BasicTypes -> Basic(who, Secret(type, o))
    [] type \in PairTypes  -> Pair(who, Secret(type, o))
    [] type \in BareTypes  -> Nothing
    [] OTHER               -> AsItIs(o.key)

\* A bearer with an identity is a pair.
ComputeToken(type, o) ==
  IF type = "bearer" /\ o.has # {}
  THEN Pair(Prefer(o.has, "email"), Or(o.password, o.key))
  ELSE Token(o.key)

\* compute_auth_header_value()
Compute(type, o) ==
  IF Prefixed(o.key) THEN AsItIs(o.key)
  ELSE IF type \in TokenTypes THEN ComputeToken(type, o)
  ELSE ComputeEncoded(type, o)

\* validate_auth_config(): hmac is in its list, and refused nevertheless.
Validates(type, o) ==
  /\ type \in HeaderTypes
  /\ Identities(type) # {} => Identities(type) \cap o.has # {}
  /\ Given(Secret(type, o))
  /\ type \in CustomTypes => o.named

\* format_auth_header_value(): any identity and any password will do.
Format(type, o) ==
  LET who == Prefer(o.has, "email") IN
  IF Prefixed(o.key) THEN AsItIs(o.key)
  ELSE CASE type \in BasicTypes -> Basic(who, Or(o.password, o.key))
         [] type \in PairTypes  -> Pair(who, Or(o.password, o.key))
         [] type \in TokenTypes -> Token(o.key)
         [] type = "hmac"       -> Nothing
         [] OTHER               -> AsItIs(o.key)

\* An AuthHandler, whose user makes requests of its own: it takes the key as
\* it is and knows three types; what it does not know is a bearer.
Handler(type, o) == IF type \in {"x-api-key", "custom"} THEN AsItIs(o.key) ELSE Token(o.key)

\* AuthHeaderFactory.create(): its schemes are the kinds of types, pairs apart,
\* and it takes what it is given for raw.
CreateApiKey(v)        == IF Given(v) THEN AsItIs(v) ELSE Nothing
CreateCustom(named, v) == IF named /\ Given(v) THEN AsItIs(v) ELSE Nothing
Create(type, o) ==
  CASE type \in BasicTypes  -> Basic(Prefer(o.has, "email"), Or(o.password, o.key))
    [] type \in CustomTypes -> CreateCustom(o.named, o.key)
    [] type = "x-api-key"   -> CreateApiKey(o.key)
    [] OTHER                -> Token(o.key)

\* What a client sends that is made with the offer.
ClientSends(type, o) == IF Validates(type, o) THEN Format(type, o) ELSE Nothing

-----------------------------------------------------------------------------
(* Properties. *)

\* An offer that names more than its type does, or that only one of the
\* encoders takes for complete: a password beside the key that the type
\* names, both identities, an identity with a bearer token, a key with its
\* prefix but without the rest, a custom header without a name.
Ambiguous(type, o) ==
  \/ type \notin PasswordTypes \cup {"basic"} /\ Given(o.password)
  \/ Identities(type) = {"username"} /\ "email" \in o.has
  \/ type = "bearer" /\ o.has # {}
  \/ Prefixed(o.key) /\ ~ Validates(type, o)
  \/ type \in CustomTypes /\ ~ o.named

\* The header that a provider computes is the one that a client sends when it
\* is given the same credentials, unless they are ambiguous; and encode_auth()
\* makes it too, of raw secrets with one identity.  An AuthHandler does of a raw
\* key, for the types without an identity, custom_header apart, and
\* AuthHeaderFactory.create() for all that are complete, pairs apart.
AgreesOn(type, o) ==
  Ambiguous(type, o) \/
    /\ Compute(type, o) = ClientSends(type, o)
    /\ Prefixed(o.key) \/ o.has = {"email", "username"} \/ EncodeAuth(type, o) = Compute(type, o)
    /\ type \in TokenTypes \cup {"x-api-key", "custom"} /\ ~ Prefixed(o.key) =>
         Handler(type, o) = Compute(type, o)
    /\ Validates(type, o) /\ type \notin PairTypes /\ ~ Prefixed(o.key) =>
         Create(type, o) = Compute(type, o)

EncodersAgree(V) == \A type \in ValidTypes : \A o \in Offers(V) : AgreesOn(type, o)
=============================================================================
