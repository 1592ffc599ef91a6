-------------------------- MODULE MCMediaRetention --------------------------
(* Instances of MediaRetention for TLC. *)
EXTENDS MediaRetention

Unlimited == [k \in Kinds |-> MaxJobs]
=============================================================================
