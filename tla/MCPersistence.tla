--------------------------- MODULE MCPersistence ---------------------------
(***************************************************************************)
(* Two branches from genesis, A1 and B1-B2: B2 displaces A1, so the node   *)
(* reorganises, writes two blocks of one height and restarts on a mixture. *)
(***************************************************************************)
EXTENDS Persistence

MCBlock == {"G", "A1", "B1", "B2"}

MCParent == [A1 |-> "G", B1 |-> "G", B2 |-> "B1"]

MCBody == [b \in MCBlock |-> [work |-> 1, hash |-> 0, rank |-> 0, anchored |-> TRUE]]

Never == 100
=============================================================================
