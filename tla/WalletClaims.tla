---------------------------- MODULE WalletClaims ----------------------------
(***************************************************************************)
(* What docs/SYSTEM_DESIGN.md says of a move of money and the code does    *)
(* not do.                                                                 *)
(***************************************************************************)
EXTENDS MCWalletLedger

\* docs/SYSTEM_DESIGN.md:280 "(Debit from, Credit to)": a move that adds to its
\* target takes from its source.
NoFreeCredit ==
  [][\A r \in transactions' \ transactions :
       IsMove(op[r]) /\ balance'[Target(r)] > balance[Target(r)]
         => balance'[Source(r)] < balance[Source(r)]]_vars

\* A conversion of less than a tick, and what may run beside it.
FineWork ==
  {Convert(ada, USD, NGN, 4, None), Fund(ada, 20, None)}
=============================================================================
