---------------------------- MODULE MCStoreInit ----------------------------
(* Two processes call once each, as any kind, and each of them may die.     *)
EXTENDS StoreInit
=============================================================================
