------------------------------ MODULE MCBlocks ------------------------------
(***************************************************************************)
(* A small instance of BlockObjects: two slots, two validators and one or  *)
(* two objects of each class, built with the setters.                      *)
(***************************************************************************)
EXTENDS BlockObjects

\* In the order of their bytes, the vote of validator 2 comes first.
MCVerdicts == <<{TRUE}, {FALSE}>>

amount == [Specie_new EXCEPT !.coins = LongMax, !.fluffs = UInt32Max]

genesis ==
    [Genesis_new EXCEPT
        !.protocol = 1, !.name = <<"fluffy">>, !.version = UInt32Max,
        !.creation = LongMax, !.creator = <<1>>, !.validatorKey = <<"key", 2>>,
        !.stakeAddress = <<2>>, !.greed = amount]

MCGenesises == {genesis}

MCReconciliations ==
    {[Reconciliation_new EXCEPT
        !.protocol = 1, !.chainId = 1, !.leader = <<2>>,
        !.shardInfo = <<[hash |-> Hash_of(Genesis_encode(genesis)), blocks |-> 0],
                        [hash |-> Hash_new, blocks |-> UInt32Max]>>]}

transaction ==
    [Transaction_setTransfer(Transaction_new,
        [Transfer_new EXCEPT
            !.exchanges = <<[receiver |-> <<2>>, amount |-> amount],
                            [receiver |-> <<1>>, amount |-> Specie_new]>>])
     EXCEPT !.time = 1, !.signer = <<1>>, !.signerKey = <<"key", 1>>, !.newAddress = <<3>>]

MCTransactions == {transaction, [Transaction_new EXCEPT !.signer = <<2>>]}

node ==
    [Node_new EXCEPT
        !.chainId = LongMax, !.shardId = 1, !.index = UInt32Max, !.leader = <<1>>,
        !.prevHash = Hash_of(<<"previous">>), !.nonce = <<"nonce">>, !.newAddress = <<4>>]

MCNodes == {node, [node EXCEPT !.transactions = <<transaction>>]}

MCMineActionObjects ==
    [register |->
        {[Register_new EXCEPT
            !.stakeAmount = amount, !.stakeAddress = <<1>>, !.stakeKey = <<"key", 1>>,
            !.newAddress = <<3>>, !.authAddress = <<2>>, !.authKey = <<"key", 2>>]},
     unregister |-> {[Unregister_new EXCEPT !.authAddress = <<2>>]},
     credentialChange |->
        {[CredentialChange_new EXCEPT
            !.authAddress = <<2>>, !.newAuthAddress = <<4>>, !.newAuthKey = <<"key", 4>>,
            !.stakeAddress = <<1>>, !.stakeKey = <<"key", 1>>, !.newStakeAddress = <<3>>]}]

=============================================================================
