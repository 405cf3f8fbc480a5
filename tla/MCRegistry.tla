----------------------------- MODULE MCRegistry -----------------------------
(* Registers: three meters and serials in two units; two tariffs for two   *)
(* months; two requests over three relations of one unit; two uploads of   *)
(* statements with a repeated row and a broken one; two links and two      *)
(* requests to one account.                                                *)
EXTENDS Registry, TLC
CONSTANTS u1, u2, n1, n2, n3, s1, s2, t1, t2, r1, k1, k2, k3, q1, q2,
          m1, m2, m3, w1, w2, e1, l1, l2, v1, v2

Lookup(rows) ==
  [base |-> 0, minimum |-> 0, discount |-> 0, percent |-> 0, rounding |-> "HALF_UP",
   tiers |-> {[m3 |-> 100 * k, fixed |-> 3, perM3 |-> 0, type |-> "LOOKUP_BY_M3"]
                : k \in rows}]

MCInputs == {Lookup({}), Lookup({0})}
MCFiles  == {<<m1, m2, m1>>, <<m3, m2>>}

RegistrySymmetry == Permutations(Link) \cup Permutations(Request)
=============================================================================
