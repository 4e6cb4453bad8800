---------------------------- MODULE MCBackupRun ----------------------------
(* Instances of BackupRun for TLC. *)
EXTENDS BackupRun, TLC

MCClients == Agents \cup (Agents \X Files)

NoLimit == [j \in Jobs |-> 0]

\* Hashes, agents and files are interchangeable.
Symmetric == Permutations(Hashes) \cup Permutations(Agents) \cup Permutations(Files)
=============================================================================
