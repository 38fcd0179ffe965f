------------------------------- MODULE MCAuth -------------------------------
(* A small instance of Auth: a token of Shared Auth, one without a session  *)
(* id and one of every other outcome; a session in order, and every way in  *)
(* which one field of it can be wrong.                                      *)
EXTENDS Auth, TLC

CONSTANTS t1, t2, t3, t4, u1, u2, d1, d2

Id(outcome, session) == [outcome |-> outcome, user |-> u1, session |-> session]
Verified ==
  t1 :> Id("sharedAuth", d1) @@ t2 :> Id("sharedAuth", Absent)
    @@ t3 :> Id("sandboxed", d1) @@ t4 :> Id("unauthenticated", d1)

LiveSession ==
  [active |-> TRUE, sub |-> u1, iss |-> "ours", aud |-> "ours", sid |-> d1, exp |-> 2,
   nbf |-> Absent, scopes |-> {"read", "write"}]
Deviations ==
  { LiveSession,
    [LiveSession EXCEPT !.active = FALSE],
    [LiveSession EXCEPT !.sub = u2],
    [LiveSession EXCEPT !.iss = "theirs"],
    [LiveSession EXCEPT !.aud = Absent],
    [LiveSession EXCEPT !.sid = d2],
    [LiveSession EXCEPT !.exp = Absent],
    [LiveSession EXCEPT !.exp = 1],
    [LiveSession EXCEPT !.nbf = 1],
    [LiveSession EXCEPT !.scopes = {"read"}] }

RequestSymmetry == Permutations(Requests)
=============================================================================
