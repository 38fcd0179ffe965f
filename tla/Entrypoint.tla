----------------------------- MODULE Entrypoint -----------------------------
(***************************************************************************)
(* scripts/sops-entrypoint.sh, the entry point of the images: it decrypts   *)
(* the dotenv file baked into the image, exports its variables one line     *)
(* after the other and becomes the API (exec).                              *)
(*                                                                         *)
(* A line is a sequence of tokens: a name or another piece of text, "=",    *)
(* and what the case statement of the loop tells apart in a key.            *)
(***************************************************************************)
EXTENDS Naturals, Sequences

CONSTANTS
  Names,     \* tokens that are variable names by themselves
  Files,     \* the plaintexts sops may produce: sequences of lines
  Presets    \* the environments the container may be started with

VARIABLES
  stage,     \* "checking", "exporting", "exec" or "failed"
  plain,     \* the decrypted lines
  next,      \* the line to read
  given,     \* history: the environment the container was started with
  env        \* the environment: exported names to values

vars == <<stage, plain, next, given, env>>

Init ==
  /\ stage = "checking"
  /\ plain = <<>>
  /\ next = 1
  /\ given \in Presets
  /\ env = given

-----------------------------------------------------------------------------
(* No ciphertext in the image, or no age key and SOPS_REQUIRE_KEY not 1. *)
ExecUnchanged ==
  /\ stage = "checking"
  /\ stage' = "exec"
  /\ UNCHANGED <<plain, next, given, env>>

(* The key is required and missing, there is no sops, or it cannot decrypt. *)
Refuse ==
  /\ stage = "checking"
  /\ stage' = "failed"
  /\ UNCHANGED <<plain, next, given, env>>

Decrypt ==
  /\ stage = "checking"
  /\ plain' \in Files
  /\ stage' = "exporting"
  /\ UNCHANGED <<next, given, env>>

(* IFS='=' read -r key value.  The key is what is before the first "=", the *)
(* value all that follows it; but field splitting takes a single "=" at the *)
(* end of the last field for its terminator and drops it, and keeps it as   *)
(* soon as there is another one.                                            *)
Equals(text) == {i \in 1 .. Len(text) : text[i] = "="}
FirstEqual(line) ==
  CHOOSE i \in Equals(line) \cup {Len(line) + 1} : \A j \in Equals(line) : i <= j
Key(line) == SubSeq(line, 1, FirstEqual(line) - 1)
AfterFirstEqual(line) == SubSeq(line, FirstEqual(line) + 1, Len(line))
Value(line) ==
  LET field == AfterFirstEqual(line) IN
  IF Equals(field) = {Len(field)} THEN SubSeq(field, 1, Len(field) - 1) ELSE field

(* The case statement: empty, a comment, metadata of sops, or no name. *)
KeyAccepted(key) == Len(key) = 1 /\ key[1] \in Names

(* One round of the loop; a variable that is already set wins. *)
ExportLine ==
  /\ stage = "exporting" /\ next <= Len(plain)
  /\ next' = next + 1
  /\ LET key == Key(plain[next]) IN
     env' = IF KeyAccepted(key) /\ key[1] \notin DOMAIN env
            THEN [name \in DOMAIN env \cup {key[1]} |->
                    IF name = key[1] THEN Value(plain[next]) ELSE env[name]]
            ELSE env
  /\ UNCHANGED <<stage, plain, given>>

(* exec "$@" *)
Exec ==
  /\ stage = "exporting" /\ next > Len(plain)
  /\ stage' = "exec"
  /\ UNCHANGED <<plain, next, given, env>>

Next == ExecUnchanged \/ Refuse \/ Decrypt \/ ExportLine \/ Exec
Spec == Init /\ [][Next]_vars

-----------------------------------------------------------------------------
(* "Splitting on the first `=` only keeps URLs, base64 and JWTs intact"     *)
(* (scripts/sops-entrypoint.sh:43-44): what the loop leaves in the          *)
(* environment is the text after the first "=" of the line it came from.    *)
ValuesIntact ==
  \A i \in 1 .. next - 1 :
    LET key == Key(plain[i])
        earlier == \E k \in 1 .. i - 1 : Key(plain[k]) = key
    IN KeyAccepted(key) /\ ~earlier /\ key[1] \notin DOMAIN given
         => env[key[1]] = AfterFirstEqual(plain[i])
=============================================================================
