----------------------------- MODULE MCVault -----------------------------
(* One entry, of either backend and any policy, and two overlapping         *)
(* operations: entries share nothing but the prompts a lock dismisses.      *)
EXTENDS Vault
=============================================================================
