---------------------------- MODULE MCCuration ----------------------------
(* One captured lesson and one inbox lesson, four requests of any content. *)
EXTENDS Curation, TLC

\* Requests, scopes, texts and digests are only compared.
Symmetry == Permutations(RequestIds) \cup Permutations(Scopes)
              \cup Permutations(Texts) \cup Permutations(Digests)
=============================================================================
