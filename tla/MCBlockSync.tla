---------------------------- MODULE MCBlockSync ----------------------------
(* A trunk of two blocks; the node's branch of two, the peer's of four.  A  *)
(* request holds three blocks, and the store keeps three heights.           *)
EXTENDS BlockSync

MCBlock == {"g", "t1", "t2", "a3", "a4", "b3", "b4", "b5", "b6"}

MCPrev == [b \in MCBlock |->
    CASE b = "g" -> "zero" [] b = "t1" -> "g" [] b = "t2" -> "t1"
      [] b = "a3" -> "t2" [] b = "a4" -> "a3"
      [] b = "b3" -> "t2" [] b = "b4" -> "b3" [] b = "b5" -> "b4" [] b = "b6" -> "b5"]

\* Behind on the trunk; on a fork; on a fork with the other branch's first
\* block held as a side block; and the two forks under hardening.
MCStarts ==
    {[tip |-> "t2", side |-> {}, hard |-> FALSE, faults |-> 0],
     [tip |-> "a4", side |-> {}, hard |-> FALSE, faults |-> 0],
     [tip |-> "a4", side |-> {"b3"}, hard |-> FALSE, faults |-> 1],
     [tip |-> "a4", side |-> {"b3"}, hard |-> TRUE, faults |-> 0]}

MCPeerStarts == {"b4"}
============================================================================
