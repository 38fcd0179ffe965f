----------------------------- MODULE MCLifecycle -----------------------------
(* Small instances of Lifecycle: one job of every kind, a second status     *)
(* signal, and a second HTTP request, whose client may stall.  The          *)
(* environments combine the ways each part can be configured; for the       *)
(* origin policy they are all texts of up to RawLength tokens, and one more *)
(* of the tokens two origins are made of, beside a configuration that is    *)
(* right otherwise.                                                         *)
EXTENDS Lifecycle, TLC

CONSTANTS h1, h2, s1, c1, n1, n2, RawLength

OneOfEach ==
  [j \in {h1, h2, s1, c1, n1, n2} |->
     CASE j \in {h1, h2} -> "http" [] j = s1 -> "socket" [] j = c1 -> "tcp"
       [] j \in {n1, n2} -> "nats"]

Unset == <<>>
Full(names) == [x \in names |-> "usable"]
Without(e, name) == [x \in DOMAIN e \ {name} |-> e[x]]

Auths ==
  LET good == Full(AuthVariables) IN
  {good, Without(good, "AUTH_ISSUER"), "AUTH_BASE_URL" :> "no url" @@ good,
   "AUTH_CREDENTIAL" :> Blank @@ good}
Databases == {Unset, "DATABASE_URL" :> "usable"}
Origins == <<"https://", "host">>
Tcps ==
  LET good == "TCP_BIND" :> "address" @@ Full(TlsFiles) IN
  {Unset, Full(TlsFiles), good}
    \cup {"TCP_BIND" :> Blank}
    \cup {Without(good, file) : file \in TlsFiles}
    \cup {"CLIENT_CA_FILE" :> "empty" @@ good}
    \cup {"MAX_CONNECTIONS" :> n @@ good : n \in {-1, 0, 1, 4096, 4097}}
    \cup {"IDLE_TIMEOUT_SECONDS" :> n @@ good : n \in {0, 300, 301}}
Natss ==
  LET good == "NATS_URL" :> "tls" @@ "NATS_CREDENTIALS_FILE" :> "usable" IN
  {Unset, good, Without(good, "NATS_CREDENTIALS_FILE"), "NATS_URL" :> "plain" @@ good,
   "NATS_URL" :> "user" @@ good, "CONSUMER" :> "unsafe" @@ good, "CONSUMER" :> "safe" @@ good}
Https == {Unset, "BIND_ADDR" :> Blank}

Services ==
  {a @@ d @@ t @@ n @@ h @@ "CORS_ALLOWED_ORIGINS" :> Origins :
     a \in Auths, d \in Databases, t \in Tcps, n \in Natss, h \in Https}
Raws ==
  UNION {[1 .. n -> Tokens] : n \in 0 .. RawLength}
    \cup [1 .. RawLength + 1 -> {",", " ", "https://", "host"}]
Browsers ==
  LET rest == Full(AuthVariables) @@ "DATABASE_URL" :> "usable" IN
  {"CORS_ALLOWED_ORIGINS" :> raw @@ rest : raw \in Raws}
    \cup {rest, "APP_ENV" :> "production" @@ rest, "APP_ENV" :> "development" @@ rest}

AllEnvironments == Services \cup Browsers
RunningEverything ==
  {Full(AuthVariables) @@ "DATABASE_URL" :> "usable" @@ "CORS_ALLOWED_ORIGINS" :> Origins}
=============================================================================
