----------------------------- MODULE MCAuthService -----------------------------
(* Three names for two places in the user table, two passwords.  The names, *)
(* and the passwords, are interchangeable.  Time, up to a wrap of the tick  *)
(* counter, passes with at most one stored user and two token pairs; the    *)
(* larger tables are explored within one tick.                              *)
EXTENDS AuthService, TLC

CONSTANTS u1, u2, u3, p1, p2

MCUsername == {u1, u2, u3}
MCPassword == {p1, p2}
MCOneName == {u1}
MCOnePassword == {p1}
MCSymmetry == Permutations(MCUsername) \cup Permutations(MCPassword)

MCTimeBound ==
  now > 0 => Len(tokens) < 3 /\ Len(users) < 2 /\ Len(stored) < 2
=============================================================================
