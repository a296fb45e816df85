----------------------------- MODULE MCAwsAssigner -----------------------------
(* Small instances of AwsAssigner for TLC.                                 *)
EXTENDS AwsAssigner

=============================================================================
