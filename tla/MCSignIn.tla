----------------------------- MODULE MCSignIn -----------------------------
(* SignIn with two accounts that administer each other, or neither does; one *)
(* that is alone and refreshes often; or an administrator who has devices.   *)
EXTENDS SignIn, TLC

CONSTANTS a, b, c, d, f, g

MCStart ==
  {[there |-> {a, b}, admins |-> {a, b}], [there |-> {a, b}, admins |-> {}],
   [there |-> {c}, admins |-> {}], [there |-> {d}, admins |-> {d}]}
MCMaxToken == (a :> 0) @@ (b :> 1) @@ (c :> 3) @@ (d :> 1)
MCMaxRows == (a :> 1) @@ (b :> 1) @@ (c :> 1) @@ (d :> 1)
Symmetry == Permutations(Family)
=============================================================================
