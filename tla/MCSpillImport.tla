--------------------------- MODULE MCSpillImport ---------------------------
(* Hooks spill while importers import, in two settings: records of this    *)
(* release that fill, seal and overflow the spill, and an export with a    *)
(* hook of the previous release.                                           *)
EXTENDS SpillImport, TLC

\* The hooks of each release do the same things, and so do importers.
Symmetry == Permutations(NewHooks) \cup Permutations(OldHooks) \cup Permutations(Exports)
            \cup Permutations(Importers)
=============================================================================
