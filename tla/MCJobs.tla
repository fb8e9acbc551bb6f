------------------------------- MODULE MCJobs -------------------------------
(* One small instance of each job. *)
EXTENDS Jobs
=============================================================================
