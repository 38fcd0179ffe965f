------------------------------ MODULE Lifecycle ------------------------------
(***************************************************************************)
(* One process of apme-api from main to its end: the startup of             *)
(* src/main.rs, the optional transports it spawns, the work each avenue     *)
(* carries, and the signals that stop it.                                   *)
(*                                                                         *)
(* main goes through its settings in a fixed order and returns with the     *)
(* first error; returning drops the runtime and with it every task.  The    *)
(* mTLS listener and the status worker run from the moment they are         *)
(* started, while main is still on its way to the HTTP listener.  The only  *)
(* signal with a handler is SIGINT (tokio::signal::ctrl_c), and only once   *)
(* the HTTP server runs.  A graceful end waits for the HTTP requests in     *)
(* flight; upgraded sockets and the transport tasks are not joined.         *)
(***************************************************************************)
EXTENDS Settings

CONSTANTS
  Environments,  \* the environments the process may be started in
  Jobs,          \* pieces of work clients may ask for; each is used once
  KindOf,        \* "http" request, WebSocket "socket", "tcp" connection, "nats" signal
  Prompt         \* HTTP requests whose client sends its body and takes its answer

Avenues == {"tcp", "nats"}
Kinds == {"http", "socket"} \cup Avenues

ASSUME JobAssumption ==
  /\ KindOf \in [Jobs -> Kinds]
  /\ Prompt \subseteq {j \in Jobs : KindOf[j] = "http"}
(* The allow-list an operator may write is any text over the tokens. *)
ASSUME RawAssumption ==
  \A e \in Environments :
    "CORS_ALLOWED_ORIGINS" \in DOMAIN e => e["CORS_ALLOWED_ORIGINS"] \in Seq(Tokens)

(* What main needs, in the order in which it asks for it: AuthService and   *)
(* CaseService::from_env, migrate, cors_layer_from_env, the two transports, *)
(* BIND_ADDR with its listener.                                             *)
After ==
  [auth |-> "database", database |-> "schema", schema |-> "cors", cors |-> "tcp",
   tcp |-> "nats", nats |-> "http", http |-> "serving"]
Steps == DOMAIN After
Phases == Steps \cup {"serving", "draining", "exited", "killed"}

VARIABLES
  env,       \* the environment of this start
  phase,     \* how far main has got
  migrated,  \* the schema is in place
  origins,   \* the allow-list of the CORS layer
  avenue,    \* the task of each optional transport
  shutdown,  \* the watch channel says true
  job,       \* the work of each client
  pid1,      \* the process is PID 1 of its container
  stopping   \* docker stop has sent SIGTERM and will send SIGKILL

vars == <<env, phase, migrated, origins, avenue, shutdown, job, pid1, stopping>>

(* The type invariant; an origin is a nonempty piece of the raw list. *)
TypeOK ==
  /\ phase \in Phases
  /\ \A origin \in origins : origin \in Seq(Tokens) /\ origin # <<>>
  /\ migrated \in BOOLEAN
  /\ avenue \in [Avenues -> {"none", "running", "ended"}]
  /\ shutdown \in BOOLEAN
  /\ job \in [Jobs -> {"none", "running", "done", "cut"}]
  /\ pid1 \in BOOLEAN
  /\ stopping \in BOOLEAN

Init ==
  /\ env \in Environments
  /\ phase = "auth"
  /\ migrated = FALSE
  /\ origins = {}
  /\ avenue = [a \in Avenues |-> "none"]
  /\ shutdown = FALSE
  /\ job = [j \in Jobs |-> "none"]
  /\ pid1 \in BOOLEAN
  /\ stopping = FALSE

Alive == phase \notin {"exited", "killed"}
InFlight(k) == {j \in Jobs : KindOf[j] = k /\ job[j] = "running"}

-----------------------------------------------------------------------------
(* Startup. *)

(* What each step finds in the environment; "off" is a transport that is    *)
(* not enabled.                                                             *)
Setting(x) ==
  CASE x = "auth" -> AuthSetting(env)
    [] x = "database" -> DatabaseSetting(env)
    [] x = "schema" -> "good"
    [] x = "cors" -> CorsLayer(env).verdict
    [] x = "tcp" -> TcpSetting(env)
    [] x = "nats" -> NatsSetting(env)
    [] x = "http" -> HttpSetting(env)

Passed(x) ==
  /\ phase = x
  /\ Setting(x) # "bad"
  /\ phase' = After[x]

(* Steps of main that leave nothing behind but a value it goes on with. *)
Configured(x) ==
  /\ Passed(x)
  /\ UNCHANGED <<env, migrated, origins, avenue, shutdown, job, pid1, stopping>>

ConfigureAuth == Configured("auth")
ConnectDatabase == Configured("database")

ConfigureCors ==
  /\ Passed("cors")
  /\ origins' = CorsLayer(env).origins
  /\ UNCHANGED <<env, migrated, avenue, shutdown, job, pid1, stopping>>

Migrate ==
  /\ Passed("schema")
  /\ migrated' = TRUE
  /\ UNCHANGED <<env, origins, avenue, shutdown, job, pid1, stopping>>

(* Mutant of StartAvenue: the task's state is confused with the setting. *)
StartAvenueRaw(a) ==
  /\ Passed(a)
  /\ avenue' = [avenue EXCEPT ![a] = Setting(a)]
  /\ UNCHANGED <<env, migrated, origins, shutdown, job, pid1, stopping>>

(* start_optional_transports: a transport that is not enabled is skipped,   *)
(* an enabled one is bound or connected and its task spawned.               *)
StartAvenue(a) ==
  /\ Passed(a)
  /\ avenue' = [avenue EXCEPT ![a] = IF Setting(a) = "good" THEN "running" ELSE "none"]
  /\ UNCHANGED <<env, migrated, origins, shutdown, job, pid1, stopping>>

StartTcp == StartAvenue("tcp")
StartNats == StartAvenue("nats")

(* The listener is bound and axum::serve begins. *)
Listen == Configured("http")

(* The process is gone: the runtime is dropped with every task in it. *)
End(how) ==
  /\ phase' = how
  /\ avenue' = [a \in Avenues |-> IF avenue[a] = "running" THEN "ended" ELSE avenue[a]]
  /\ job' = [j \in Jobs |-> IF job[j] = "running" THEN "cut" ELSE job[j]]
  /\ UNCHANGED <<env, migrated, origins, shutdown, pid1>>

(* `?` in main: a setting is wrong, or the database, the migration, an      *)
(* address to bind or the broker fails.                                     *)
StartFails ==
  /\ phase \in Steps
  /\ \/ Setting(phase) = "bad"
     \/ phase \notin {"auth", "cors"} /\ Setting(phase) = "good"
  /\ End("exited")
  /\ UNCHANGED stopping

-----------------------------------------------------------------------------
(* Work. *)

(* Who takes new work: the HTTP server until it drains; the transports      *)
(* while their loop runs, the status worker one signal at a time.           *)
Accepting(k) ==
  CASE k \in {"http", "socket"} -> phase = "serving"
    [] k = "tcp" -> avenue[k] = "running"
    [] k = "nats" -> avenue[k] = "running" /\ InFlight(k) = {}

Begin(j) ==
  /\ job[j] = "none"
  /\ Accepting(KindOf[j])
  /\ job' = [job EXCEPT ![j] = "running"]
  /\ UNCHANGED <<env, phase, migrated, origins, avenue, shutdown, pid1, stopping>>

Finish(j) ==
  /\ job[j] = "running"
  /\ job' = [job EXCEPT ![j] = "done"]
  /\ UNCHANGED <<env, phase, migrated, origins, avenue, shutdown, pid1, stopping>>

(* Mutant of AvenueFails: the error is returned from main. *)
AvenueFailsFatal(a) ==
  /\ avenue[a] = "running"
  /\ End("exited")
  /\ UNCHANGED stopping

(* A transport's serve returns an error: it is logged and the task ends,    *)
(* and with the status worker's task the signal it was handling.            *)
AvenueFails(a) ==
  /\ avenue[a] = "running"
  /\ avenue' = [avenue EXCEPT ![a] = "ended"]
  /\ job' = [j \in Jobs |-> IF a = "nats" /\ j \in InFlight(a) THEN "cut" ELSE job[j]]
  /\ UNCHANGED <<env, phase, migrated, origins, shutdown, pid1, stopping>>

(* shutdown.changed() wins the select of a transport's loop: the listener   *)
(* goes, its connections stay; the worker is between two signals.           *)
AvenueStops(a) ==
  /\ avenue[a] = "running" /\ shutdown
  /\ a = "nats" => InFlight(a) = {}
  /\ avenue' = [avenue EXCEPT ![a] = "ended"]
  /\ UNCHANGED <<env, phase, migrated, origins, shutdown, job, pid1, stopping>>

-----------------------------------------------------------------------------
(* The end. *)

(* SIGINT, or ctrl_c() that cannot be installed, while the server runs: the *)
(* transports are told and the HTTP server drains.                          *)
Interrupt ==
  /\ phase = "serving"
  /\ phase' = "draining"
  /\ shutdown' = TRUE
  /\ UNCHANGED <<env, migrated, origins, avenue, job, pid1, stopping>>

(* SIGINT before ctrl_c() is awaited has its default effect, except on PID 1. *)
InterruptEarly ==
  /\ phase \in Steps /\ ~pid1
  /\ End("killed")
  /\ UNCHANGED stopping

(* SIGTERM, for which the process installs no handler: PID 1 never sees it, *)
(* any other process is ended by it.                                        *)
Terminate ==
  /\ Alive /\ ~stopping
  /\ stopping' = TRUE
  /\ IF pid1
     THEN UNCHANGED <<env, phase, migrated, origins, avenue, shutdown, job, pid1>>
     ELSE End("killed")

(* docker stop: SIGKILL once the grace period has passed. *)
Kill ==
  /\ Alive /\ stopping
  /\ End("killed")
  /\ UNCHANGED stopping

ExitOnce(idle) ==
  /\ phase = "draining" /\ \A k \in idle : InFlight(k) = {}
  /\ End("exited")
  /\ UNCHANGED stopping

(* Mutants of Exit: the process does not wait for its requests; it waits    *)
(* for every task.                                                          *)
ExitAtOnce == ExitOnce({})
ExitJoining == ExitOnce(Kinds)

(* with_graceful_shutdown completes and main returns. *)
Exit == ExitOnce({"http"})

-----------------------------------------------------------------------------
Start ==
  \/ ConfigureAuth \/ ConnectDatabase \/ Migrate \/ ConfigureCors
  \/ StartTcp \/ StartNats \/ Listen \/ StartFails
Stop == Interrupt \/ InterruptEarly \/ Terminate \/ Kill

Next ==
  \/ Start \/ Stop \/ Exit
  \/ \E j \in Jobs : Begin(j) \/ Finish(j)
  \/ \E a \in Avenues : AvenueFails(a) \/ AvenueStops(a)

Spec == Init /\ [][Next]_vars

(* main goes on, and so does a handler whose client does its part (CaseApi  *)
(* shows that it comes to its end).  Nothing bounds how long the Json       *)
(* extractor waits for a body, or the server for a client to read: a        *)
(* request that is not prompt may stay for ever.  Sockets, TCP connections  *)
(* and the broker owe nothing either.                                       *)
FairSpec ==
  /\ Spec
  /\ WF_vars(Start) /\ WF_vars(Exit)
  /\ \A j \in Prompt : WF_vars(Finish(j))

-----------------------------------------------------------------------------
(* Properties. *)

(* Items of the raw list, read off its text: the longest pieces between     *)
(* commas that neither begin nor end with a space.                          *)
ListedIn(raw) ==
  LET Comma(i, j) == \E k \in i .. j : raw[k] = ","
      Item(i, j) ==
        /\ i <= j /\ ~Comma(i, j) /\ raw[i] # " " /\ raw[j] # " "
        /\ \A k \in 1 .. i - 1 : Comma(k, i) \/ raw[k] = " "
        /\ \A k \in j + 1 .. Len(raw) : Comma(j, k) \/ raw[k] = " "
      items == {p \in (1 .. Len(raw)) \X (1 .. Len(raw)) : Item(p[1], p[2])}
  IN {SubSeq(raw, p[1], p[2]) : p \in items}

(* Whoever is served over HTTP is served under an allow-list that is        *)
(* exactly what the operator wrote, however the list is punctuated: an      *)
(* entry that is no plain origin stops the start instead of being dropped   *)
(* or let through, the wildcard never gets in, and production has no        *)
(* default (cors_layer_from_env, parse_allowed_origins).                    *)
AllowListExact ==
  phase \in {"serving", "draining"} =>
    /\ origins # {}
    /\ IF "CORS_ALLOWED_ORIGINS" \in DOMAIN env
       THEN origins = ListedIn(env["CORS_ALLOWED_ORIGINS"])
       ELSE "APP_ENV" \in DOMAIN env => env["APP_ENV"] # "production"
    /\ \A origin \in origins :
         /\ Len(origin) > 1
         /\ \A i \in DOMAIN origin :
              /\ origin[i] \in Schemes <=> i = 1
              /\ origin[i] \notin {"/", ",", "control"}

(* No avenue does any work before authentication is configured and the      *)
(* schema migrated, although the transports start before the HTTP server;   *)
(* a TCP connection is taken only with the whole TLS material, a signal     *)
(* only over TLS with a credentials file; and HTTP is served only if every  *)
(* avenue that was asked for could be started: "a partially configured      *)
(* enabled avenue fails startup" (README.md:98-99).                         *)
ServedOnlyWhenReady ==
  LET Wanted(a) == Has(env, IF a = "tcp" THEN "TCP_BIND" ELSE "NATS_URL")
      Complete(a) ==
        IF a = "tcp"
        THEN /\ \A file \in {"TLS_CERT_FILE", "TLS_KEY_FILE", "CLIENT_CA_FILE"} :
                  file \in DOMAIN env /\ env[file] = "usable"
             /\ \A limit \in DOMAIN Largest \cap DOMAIN env :
                  env[limit] # Blank => env[limit] > 0 /\ env[limit] <= Largest[limit]
        ELSE /\ env["NATS_URL"] = "tls"
             /\ "NATS_CREDENTIALS_FILE" \in DOMAIN env
             /\ env["NATS_CREDENTIALS_FILE"] = "usable"
  IN \A j \in Jobs : job[j] # "none" =>
       /\ migrated
       /\ \A name \in AuthVariables : Has(env, name)
       /\ KindOf[j] \in Avenues => Wanted(KindOf[j]) /\ Complete(KindOf[j])
       /\ KindOf[j] \in {"http", "socket"} =>
            \A a \in Avenues : Wanted(a) => Complete(a) /\ avenue[a] # "none"

(* Whatever ends by itself does so without cutting an HTTP request: main    *)
(* returns only from a failed start, when there was none yet, or when the   *)
(* drain is over.                                                           *)
ExitCutsNoRequest ==
  phase = "exited" => \A j \in Jobs : KindOf[j] = "http" => job[j] \in {"none", "done"}

(* From the moment the only HTTP requests left are those of clients that    *)
(* do their part, a drain comes to its end, however long sockets, TCP       *)
(* connections and the status worker stay busy: none of them is waited for. *)
(* A stalled HTTP client holds the drain as long as it likes: axum's        *)
(* graceful shutdown has no timeout.                                        *)
DrainEnds ==
  phase = "draining" /\ InFlight("http") \subseteq Prompt ~> ~Alive

(* A request that was taken, and whose client does its part, is answered,   *)
(* unless a signal kills the process: neither a transport whose task fails  *)
(* (accept runs out of file descriptors, one status signal goes wrong), nor *)
(* a stalled request beside it, nor a drain ends it.                        *)
RequestsOutliveAvenues ==
  \A j \in Prompt :
    job[j] = "running" ~> job[j] = "done" \/ phase = "killed"

(* .just/env.just on docker stop: the application is PID 1 "so SIGTERM      *)
(* reaches it directly and it can drain".  In a container an HTTP request   *)
(* is cut only after a drain has begun.                                     *)
StopDrains ==
  pid1 => \A j \in Jobs : KindOf[j] = "http" /\ job[j] = "cut" => shutdown
=============================================================================
