---------------------------- MODULE MCRepository ----------------------------
(* Instances of Repository for TLC. *)
EXTENDS Repository, TLC

\* Retention policies: everything, or one job that keeps the
\* two newest and one that keeps the newest and what is a day old.
NoLimit   == [j \in Jobs |-> 0]
MixedLast == [j \in Jobs |-> IF j = "byCount" THEN 2 ELSE 1]
MixedDays == [j \in Jobs |-> IF j = "byCount" THEN 0 ELSE 1]

\* Hashes, snapshot ids and clients are interchangeable.
Symmetric == Permutations(Hashes) \cup Permutations(SnapIds) \cup Permutations(Clients)
=============================================================================
