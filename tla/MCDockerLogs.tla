---------------------------- MODULE MCDockerLogs ----------------------------
(* Instances of DockerLogs for TLC.                                          *)
EXTENDS DockerLogs, TLC
=============================================================================
