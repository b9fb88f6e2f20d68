----------------------------- MODULE MCWalletStore -----------------------------
(* A small instance of WalletStore. *)
EXTENDS WalletStore, TLC

CONSTANTS w1, w2, w3

ThreeWallets   == {w1, w2, w3}
WalletSymmetry == Permutations(ThreeWallets)
================================================================================
