---------------------------- MODULE MCLeaderJobs ----------------------------
(* An instance of LeaderJobs for TLC: a cluster of two servers. *)
EXTENDS LeaderJobs

ConfiguredServers == <<"n1", "n2">>

=============================================================================
