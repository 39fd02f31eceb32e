----------------------------- MODULE MCIndexJobs -----------------------------
(* Small instances of IndexJobs for TLC. *)
EXTENDS IndexJobsProps, TLC

Symmetric == Permutations(Tenants) \cup Permutations(Handlers)

=============================================================================
