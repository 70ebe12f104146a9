---------------------------- MODULE MCInboxEngine ----------------------------
(* Model-checking instances of InboxEngine: topics and spends are numbers.  *)
EXTENDS InboxEngine, TLC

Request(op, spend) == [op |-> op, spend |-> spend, topic |-> 1]
Watch(spend, after) == [op |-> "watch", spend |-> spend, topic |-> 1, after |-> after]
Manage(op, spend, rev, lease) ==
  [op |-> op, spend |-> spend, topic |-> 1, rev |-> rev, lease |-> lease]
Suppress == [op |-> "policy", topic |-> 1, policy |-> "suppressed"]

Traffic ==
  {Request("create", 1), Request("append", 2), Request("append", 3), Watch(4, 0),
   Manage("renew", 5, 0, 2), Manage("close", 0, 0, 2), Suppress}

Ample == [inboxes |-> 9, frames |-> 9, topic |-> 9, stored |-> 9, staging |-> 9,
          control |-> 99, tombs |-> 9, waiters |-> 9]

Symmetry == Permutations(Clients)
=============================================================================
