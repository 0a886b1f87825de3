----------------------------- MODULE MCCurator -----------------------------
(***************************************************************************)
(* Storage directories for Curator.                                        *)
(***************************************************************************)
EXTENDS Curator, TLC

Null == "null"

Info(n, h) == [blocks |-> n, hash |-> h]
Recon(h, id, infos) ==
    [type |-> "Reconciliation", hash |-> h, chainId |-> id, shardInfo |-> infos]

G == [type |-> "Genesis", hash |-> "g"]
R1 == Recon("r1", 1, <<Info(0, "g")>>)
R2 == Recon("r2", 2, <<Info(0, "r1")>>)
R3 == Recon("r3", 3, <<Info(0, "r2")>>)
Fork == Recon("f", 2, <<Info(0, "g")>>)
Rival == Recon("v", 1, <<Info(0, "g")>>)
Node == [type |-> "Node", hash |-> "x"]

MCBlocks == {G, R1, R2, R3, Fork, Rival, Node}

Chain0 == <<0, 0, 0>> :> G
Chain1 == Chain0 @@ <<1, 0, 0>> :> R1
Chain3 == Chain1 @@ <<2, 0, 0>> :> R2 @@ <<3, 0, 0>> :> R3

\* A whole chain; chains with a gap, a foreign hash, a file that does not
\* decode, a block under a wrong index, a second block over the genesis, a
\* genesis missing.
MCDirectories ==
    { Chain3,
      Chain1 @@ <<3, 0, 0>> :> R3,
      Chain1 @@ <<2, 0, 0>> :> Fork @@ <<3, 0, 0>> :> R3,
      Chain1 @@ <<2, 0, 0>> :> Undecodable @@ <<3, 0, 0>> :> R3,
      Chain1 @@ <<0, 1, 0>> :> Node @@ <<0, 0, 1>> :> G,
      Chain1 @@ <<1, 1, 0>> :> Rival @@ <<2, 0, 0>> :> R2,
      <<1, 0, 0>> :> R1 @@ <<2, 0, 0>> :> R2 }
=============================================================================
