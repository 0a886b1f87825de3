--------------------------- MODULE MCDbIntegrator ---------------------------
(***************************************************************************)
(* A universe of blocks for DbIntegrator: two geneses, the chain 1, 2 over *)
(* the first, and reconciliations that are refused for each reason the     *)
(* code knows: a foreign hash, a null hash, a missing shard, a shard with  *)
(* blocks that were never imported, a wrong chain ID.                      *)
(***************************************************************************)
EXTENDS DbIntegrator

Null == "null"

Genesis(h) == [type |-> "Genesis", hash |-> h]
Recon(h, id, infos) ==
    [type |-> "Reconciliation", hash |-> h, chainId |-> id, shardInfo |-> infos]
Info(n, h) == [blocks |-> n, hash |-> h]

MCBlocks ==
    { Genesis("g"), Genesis("g2"),
      Recon("r1", 1, <<Info(0, "g")>>),
      Recon("r1b", 1, <<Info(0, "g2")>>),
      Recon("r2", 2, <<Info(0, "r1")>>),
      Recon("n1", 1, <<Info(0, Null)>>),
      Recon("n2", 2, <<Info(0, Null)>>),
      Recon("m1", 1, <<>>),
      Recon("w1", 1, <<Info(0, "g"), Info(0, Null)>>),
      Recon("s1", 1, <<Info(0, "g"), Info(1, "x")>>),
      [type |-> "Node", hash |-> "x"],
      [type |-> "None", hash |-> Null] }
=============================================================================
