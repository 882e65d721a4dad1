------------------------------ MODULE MCReview ------------------------------
EXTENDS LedgerRepair, TLC

World(promoted, touched, c, r, k, o) ==
  [promoted |-> promoted,
   budget |-> [patterns |-> touched, commits |-> c, reflections |-> r,
               crashes |-> k, outside |-> o]]

\* Two patterns in breadth, one in depth.
MCBeginnings ==
  { World({}, Patterns, 3, 2, 1, 0), World({}, Patterns, 4, 1, 1, 0),
    World({}, Patterns, 4, 1, 0, 1), World(Patterns, Patterns, 4, 0, 1, 0),
    World(Patterns, Patterns, 4, 0, 0, 1) }
  \cup UNION { { World({p}, {p}, 5, 1, 1, 0), World({p}, {p}, 4, 1, 0, 1),
                 World({p}, {p}, 5, 0, 0, 1), World({}, {p}, 5, 2, 0, 0) } : p \in Patterns }

\* One promoted artifact, every step of a person, no failure.
MCImported == { World(Patterns, Patterns, 5, 0, 0, 0) }

\* No ledger row yet.
MCEmpty == { World({}, Patterns, 4, 2, 0, 0) }

Symmetry == Permutations(Patterns)
=============================================================================
