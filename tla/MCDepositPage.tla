---------------------------- MODULE MCDepositPage -----------------------------
(* The user's own tag t1, and one tag t2 that he reserves at the manager himself, *)
(* or that another account or an earlier adapter of the app has left behind.      *)
EXTENDS DepositPage, TLC
==============================================================================
