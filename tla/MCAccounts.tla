----------------------------- MODULE MCAccounts -----------------------------
EXTENDS Accounts, TLC

CONSTANTS r1, o1, o2, l1, q1, n1

MCRegister == {r1}
MCOAuth == {o1, o2}
MCLogin == {l1}
MCList == {q1}
MCNonceOf == (o1 :> n1) @@ (o2 :> n1)
Symmetry == Permutations({o1, o2})
=============================================================================
