------------------------- MODULE MCLessonSession -------------------------
EXTENDS LessonSession, TLC

Bounds(requests, rivals, moves, opens, reloads, links, generation) ==
  [requests |-> requests, rivals |-> rivals, moves |-> moves, opens |-> opens,
   reloads |-> reloads, links |-> links, generation |-> generation, inFlight |-> 1]

Scenario(installs, full, bounds) == [installs |-> installs, full |-> full, left |-> bounds]

MCScenarios ==
  UNION { { \* two saves against a rival
            Scenario({i}, FALSE, Bounds(2, 1, 0, 1, 0, 0, 2)),
            \* purges, the list of purged records full
            Scenario({i}, TRUE, Bounds(2, 0, 0, 2, 0, 0, 4)),
            \* a page reload while saves are under way
            Scenario({i}, FALSE, Bounds(2, 0, 0, 1, 1, 0, 3)) } : i \in Installs }
  \cup { \* the store at the location is replaced by another one
         Scenario(Installs, FALSE, Bounds(1, 0, 1, 0, 0, 1, 2)),
         \* no store yet: this pane or a rival creates it
         Scenario({}, FALSE, Bounds(2, 0, 1, 1, 0, 0, 4)),
         Scenario({}, FALSE, Bounds(1, 1, 1, 1, 0, 0, 4)) }

Symmetry == Permutations(Installs) \cup Permutations(Requests) \cup Permutations(Texts)
=============================================================================
