---------------------------- MODULE MCMemoryJobs ----------------------------
(* An instance of MemoryJobs for TLC: two jobs, two or three worker names,  *)
(* leases and retries of one or two units.                                  *)
EXTENDS MemoryJobs
=============================================================================
