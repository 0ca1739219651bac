---------------------------- MODULE MCMediaJobs ----------------------------
(* MediaJobs on small instances.                                            *)
EXTENDS MediaJobs
=============================================================================
