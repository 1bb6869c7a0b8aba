------------------------------ MODULE MCIdempotent -----------------------------
(***************************************************************************)
(* Two writes with different targets, two keys with stripes of their own.  *)
(***************************************************************************)
EXTENDS IdempotentWrite, TLC
CONSTANTS w0, w1, k1, k2, c1, p1
MCTarget == w0 :> 0 @@ w1 :> 1
MCStripe == k1 :> 1 @@ k2 :> 2

\* The processes are alike: the first call may as well be in the first.
MCInit == IdempotentInit /\ home[c1] = p1

MCSpec == MCInit /\ [][IdempotentNext]_vars /\ IdempotentFairness
================================================================================
