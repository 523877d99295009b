------------------------------ MODULE MCDeploy ------------------------------
(* Deploy on small instances.                                              *)
EXTENDS Deploy
=============================================================================
