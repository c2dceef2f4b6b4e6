---------------------------- MODULE MCTaskQueue ----------------------------
(* TaskQueue for TLC: a queue schedules one that schedules a third.        *)
EXTENDS TaskQueue

CONSTANTS outer, inner, last

MCQueue == {outer, inner, last}
MCTasks == [q \in MCQueue |-> CASE q = outer -> <<Leaf, inner, Leaf>> [] q = inner -> <<Leaf, last>> [] OTHER -> <<Leaf>>]
============================================================================
