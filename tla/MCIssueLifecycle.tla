-------------------------- MODULE MCIssueLifecycle --------------------------
(* One issue.                                                                  *)
EXTENDS IssueLifecycle
CONSTANT i1
=============================================================================
