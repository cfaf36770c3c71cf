------------------------------ MODULE MCBuilder ------------------------------
(***************************************************************************)
(* Small instances of Builder.  Two configurations: one that asks for     *)
(* every extra (a new opcode layout, a new key, both tools) and builds    *)
(* the server, and one that only reshuffles and builds server and gadget. *)
(* Every confirmation prompt may be answered either way.                   *)
(***************************************************************************)
EXTENDS Builder

Everything == [shuffle |-> TRUE, key |-> TRUE, comper |-> TRUE, dih |-> TRUE,
               server |-> TRUE, gadget |-> FALSE]
ShuffleOnly == [shuffle |-> TRUE, key |-> FALSE, comper |-> FALSE, dih |-> FALSE,
                server |-> TRUE, gadget |-> TRUE]

MCConfigs == {Everything, ShuffleOnly}
=============================================================================
