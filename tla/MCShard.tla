------------------------------- MODULE MCShard -------------------------------
(* One owner, one more submitter, three user messages and one system message, *)
(* queues of two, two valid budgets and an invalid one, one restart.          *)
EXTENDS Shard
==============================================================================
