---------------------------- MODULE MCEntrypoint ----------------------------
(* A small instance of Entrypoint: files of up to two lines of up to six    *)
(* tokens that start with a name, a comment sign, sops' own prefix or "=".  *)
EXTENDS Entrypoint

Heads == {"K", "L", "#", "sops_", "="}
SmallLines ==
  {<<head>> : head \in Heads}
    \cup {<<head, "=", "text">> \o tail :
            head \in Heads, tail \in UNION {[1 .. n -> {"=", "text"}] : n \in 0 .. 3}}
SmallFiles == UNION {[1 .. n -> SmallLines] : n \in 0 .. 2}
NothingOrL == {<<>>, [name \in {"L"} |-> <<"text">>]}
=============================================================================
