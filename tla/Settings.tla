------------------------------ MODULE Settings ------------------------------
(***************************************************************************)
(* What a process of apme-api makes of its environment: the required        *)
(* variables of src/auth.rs and src/cases.rs, the origin policy of          *)
(* src/main.rs and the configurations of the two transports of              *)
(* src/transport.rs, as operators.                                          *)
(*                                                                         *)
(* An environment maps the variables that are set to their values.  A value *)
(* is abstracted to what the code asks of it: a text is Blank (empty once   *)
(* trimmed) or says what is wrong with it, if anything; a number that does  *)
(* not parse as usize is negative; a list of origins is a sequence of       *)
(* tokens, as fine as parse_allowed_origins looks at them.                  *)
(***************************************************************************)
EXTENDS Integers, Sequences

CONSTANT Blank

(* optional_env, required_env and required_path: trimmed, and not empty. *)
Has(env, name) == name \in DOMAIN env /\ env[name] # Blank

Verdict(condition) == IF condition THEN "good" ELSE "bad"

(* AuthService::from_env; try_new refuses a base that is no URL. *)
AuthVariables == {"AUTH_BASE_URL", "AUTH_ISSUER", "AUTH_AUDIENCE", "AUTH_CREDENTIAL"}
AuthSetting(env) ==
  Verdict(/\ \A name \in AuthVariables : Has(env, name)
          /\ env["AUTH_BASE_URL"] = "usable")

(* CaseService::from_env before it connects. *)
DatabaseSetting(env) == Verdict(Has(env, "DATABASE_URL"))

(* BIND_ADDR is not trimmed: blank is an address that does not parse. *)
HttpSetting(env) == Verdict("BIND_ADDR" \in DOMAIN env => env["BIND_ADDR"] = "address")

-----------------------------------------------------------------------------
(* cors_layer_from_env, parse_allowed_origins. *)

Tokens == {",", " ", "*", "http://", "https://", "/", "host", "control"}
(* Tokens with a character that has no place in an authority: "/" stands    *)
(* for a path, a query or a fragment, and a scheme holds two slashes.       *)
Schemes == {"http://", "https://"}
NotInAuthority == {"/"} \cup Schemes

(* raw.split(','): the pieces between neighbouring cuts. *)
Cuts(raw) == {0, Len(raw) + 1} \cup {i \in 1 .. Len(raw) : raw[i] = ","}
Split(raw) ==
  LET neighbours == {cut \in Cuts(raw) \X Cuts(raw) :
                       /\ cut[1] < cut[2]
                       /\ \A other \in Cuts(raw) : other <= cut[1] \/ other >= cut[2]}
  IN {SubSeq(raw, cut[1] + 1, cut[2] - 1) : cut \in neighbours}

(* str::trim *)
Trim(text) ==
  LET kept == {i \in DOMAIN text : text[i] # " "} IN
  IF kept = {} THEN <<>>
  ELSE SubSeq(text, CHOOSE i \in kept : \A j \in kept : i <= j,
                    CHOOSE i \in kept : \A j \in kept : i >= j)

Candidates(raw) == {Trim(item) : item \in Split(raw)} \ {<<>>}

(* One round of the loop of parse_allowed_origins; HeaderValue takes no     *)
(* control character.                                                       *)
OriginAccepted(origin) ==
  /\ origin # <<"*">>
  /\ origin[1] \in Schemes
  /\ Tail(origin) # <<>>
  /\ \A i \in 2 .. Len(origin) : origin[i] \notin NotInAuthority \cup {"control"}

(* Mutant of ParseAllowedOrigins: an origin that is refused is skipped. *)
ParseAllowedOriginsSkipping(raw) ==
  LET accepted == {origin \in Candidates(raw) : OriginAccepted(origin)} IN
  [verdict |-> Verdict(accepted # {}), origins |-> accepted]

ParseAllowedOrigins(raw) ==
  LET candidates == Candidates(raw) IN
  [verdict |-> Verdict(candidates # {} /\ \A origin \in candidates : OriginAccepted(origin)),
   origins |-> candidates]

DefaultDevOrigins == <<"http://", "host", ",", "http://", "host">>

(* env::var, not optional_env: a variable that is set and blank is an empty *)
(* list, not a missing one.                                                 *)
CorsLayer(env) ==
  IF "CORS_ALLOWED_ORIGINS" \in DOMAIN env THEN ParseAllowedOrigins(env["CORS_ALLOWED_ORIGINS"])
  ELSE IF "APP_ENV" \in DOMAIN env /\ env["APP_ENV"] = "production"
  THEN [verdict |-> "bad", origins |-> {}]
  ELSE ParseAllowedOrigins(DefaultDevOrigins)

-----------------------------------------------------------------------------
(* tcp::Config::from_env and load_tls_config. *)

TlsFiles == {"TLS_CERT_FILE", "TLS_KEY_FILE", "CLIENT_CA_FILE"}
(* bounded_env: the least value is 1, the default within the bounds. *)
Largest ==
  [MAX_CONNECTIONS |-> 4096, MAX_REQUESTS_PER_CONNECTION |-> 4096, IDLE_TIMEOUT_SECONDS |-> 300]

TcpVerdict(env) ==
  Verdict(/\ \A file \in TlsFiles : Has(env, file) /\ env[file] = "usable"
          /\ \A limit \in DOMAIN Largest : Has(env, limit) => env[limit] \in 1 .. Largest[limit])

(* Mutant of TcpSetting: without its certificate the avenue stays disabled. *)
TcpSettingLenient(env) ==
  IF ~Has(env, "TCP_BIND") \/ ~Has(env, "TLS_CERT_FILE") THEN "off" ELSE TcpVerdict(env)

TcpSetting(env) ==
  IF Has(env, "TCP_BIND") THEN TcpVerdict(env) ELSE "off"

(* nats::Config::from_env and validate: tls:// with a host and no user,     *)
(* safe_topology_name for the names that are not defaulted.                 *)
TopologyNames == {"REQUEST_STREAM", "RESPONSE_STREAM", "CONSUMER"}

NatsSetting(env) ==
  IF ~Has(env, "NATS_URL") THEN "off"
  ELSE Verdict(/\ Has(env, "NATS_CREDENTIALS_FILE") /\ env["NATS_CREDENTIALS_FILE"] = "usable"
               /\ env["NATS_URL"] = "tls"
               /\ \A name \in TopologyNames : Has(env, name) => env[name] = "safe")
=============================================================================
