---------------------------- MODULE MCVaultPages ------------------------------
(* One user: a few CDP tokens in the wallet, some FAssets in the vault. *)
EXTENDS VaultPages, TLC
==============================================================================
