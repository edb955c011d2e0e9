--------------------------- MODULE MCWorkflowLock ---------------------------
(* Instances of WorkflowLock for TLC. *)
EXTENDS WorkflowLock

OneWorkflow == {"w1"}
TwoWorkflows == {"w1", "w2"}
TwoSessions == {"s1", "s2"}
ThreeSessions == {"s1", "s2", "s3"}
=============================================================================
