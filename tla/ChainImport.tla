---------------------------- MODULE ChainImport ----------------------------
(***************************************************************************)
(* What the curator promises of its database, without sessions, caches,    *)
(* statements or crashes (doc/schema.sql 1-17): the tables hold nothing,   *)
(* then the genesis, then reconciliation 1, 2, ... one at a time, each one *)
(* naming the hash of what was imported before it.                         *)
(***************************************************************************)
EXTENDS Integers, Sequences

CONSTANTS
    Blocks,     \* the decoded blocks there are
    NullHash    \* block::Hash() of nothing

VARIABLES
    height,     \* the reconciliation recorded in imported_blocks, -1 for none
    tip,        \* the hash recorded with it
    opened      \* the genesis blocks whose wallet rows exist

avars == <<height, tip, opened>>

AInit ==
    /\ height = -1
    /\ tip = NullHash
    /\ opened = {}

\* The genesis opens the creator's wallet and becomes height 0.
AImportGenesis ==
    /\ height = -1
    /\ \E b \in Blocks :
         /\ b.type = "Genesis"
         /\ tip' = b.hash
         /\ opened' = {b.hash}
    /\ height' = 0

\* Reconciliation n+1 extends height n when it confirms the hash of the tip.
AImportReconciliation ==
    /\ height >= 0
    /\ \E b \in Blocks :
         /\ b.type = "Reconciliation"
         /\ b.chainId = height + 1
         /\ b.shardInfo = <<[blocks |-> 0, hash |-> tip]>>
         /\ tip' = b.hash
    /\ height' = height + 1
    /\ UNCHANGED opened

ANext == AImportGenesis \/ AImportReconciliation

ASpec == AInit /\ [][ANext]_avars
=============================================================================
