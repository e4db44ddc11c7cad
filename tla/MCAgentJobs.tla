---------------------------- MODULE MCAgentJobs ----------------------------
(* AgentJobs for TLC: the symmetry of its model values, and a bound.        *)
EXTENDS AgentJobs, TLC

Symmetry == Permutations(Job) \cup Permutations(Worker)

\* The question of JobsCapacity is about submissions: requests for a job that
\* exists are left out of that run, which makes room for a third job.
OnlySubmissions == \A w \in Worker : wk[w].pc \in {"idle", "admitted", "created"}
=============================================================================
