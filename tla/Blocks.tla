------------------------------- MODULE Blocks -------------------------------
(***************************************************************************)
(* The classes of src/block.  For each class C                             *)
(*   C_new             a default constructed object, a field per member;   *)
(*   C_type(o)         o has the members of the class, with the values the *)
(*                     accessors take and give;                            *)
(*   C_long(o)         its 64 bit integers are ones that a long can hold;  *)
(*   asn1_C            its ASN.1 structure as the library allocates it;    *)
(*   C_toAsn1(o), C_fromAsn1(t), C_toContent(o)  as in the code: toAsn1    *)
(*                     fills a new structure, fromAsn1 a new object.       *)
(* A std::unique_ptr is a sequence of at most one element, <<>> when null. *)
(* Address, PublicKey and Signature are the byte string they hold, Time is *)
(* its count of milliseconds.                                              *)
(***************************************************************************)
EXTENDS Asn1, FiniteSets, Functions

\* o has the members of the default constructed object, and no others.
Members(o, default) == o = [f \in DOMAIN default |-> o[f]]

List(s) == s \in Seq(Range(s))

BinData(b) == DOMAIN b = 1 .. Len(b)

Address_toAsn1(a) == fromBin(a)
Address_fromAsn1(t) == toBin(t)

PublicKey_toAsn1(k) == fromBin(k)
PublicKey_fromAsn1(t) == toBin(t)

Signature_toAsn1(s) == fromBin(s)
Signature_fromAsn1(t) == toBin(t)

Time_new == 0
Time_type(sinceEpoch) == sinceEpoch \in UInt64
Time_toAsn1(sinceEpoch) == fromUInt64(sinceEpoch)
Time_fromAsn1(t) == toUInt64(t)

-----------------------------------------------------------------------------
Specie_new == [coins |-> 0, fluffs |-> 0]

\* setFluffs logs an amount of a whole coin or more, and keeps it.
Specie_type(o) == Members(o, Specie_new) /\ o.coins \in UInt64 /\ o.fluffs \in UInt32
Specie_long(o) == o.coins <= LongMax

asn1_Specie == [coins |-> ASN1_INTEGER_new, fluffs |-> ASN1_INTEGER_new]

Specie_toAsn1(o) ==
    [asn1_Specie EXCEPT !.coins = fromUInt64(o.coins),
                        !.fluffs = fromUInt32(o.fluffs)]

Specie_fromAsn1(t) ==
    [Specie_new EXCEPT !.coins = toUInt64(t.coins),
                       !.fluffs = toUInt32(t.fluffs)]

Hash_new == [sha2 |-> <<>>, sha3 |-> <<>>]

\* The constructor from data; the digests are external and collide never.
Hash_of(value) == [sha2 |-> <<"sha2", value>>, sha3 |-> <<"sha3", value>>]

Hash_type(o) == Members(o, Hash_new) /\ BinData(o.sha2) /\ BinData(o.sha3)

asn1_Hash == [sha2 |-> ASN1_OCTET_STRING_new, sha3 |-> ASN1_OCTET_STRING_new]

Hash_toAsn1(o) ==
    [asn1_Hash EXCEPT !.sha2 = fromBin(o.sha2), !.sha3 = fromBin(o.sha3)]

Hash_fromAsn1(t) ==
    [Hash_new EXCEPT !.sha2 = toBin(t.sha2), !.sha3 = toBin(t.sha3)]

\* operator==: lengths and bytes of both digests.
Hash_equal(a, b) == a.sha2 = b.sha2 /\ a.sha3 = b.sha3

-----------------------------------------------------------------------------
Validation_new == [verified |-> FALSE, address |-> <<>>, signature |-> <<>>]

Validation_type(o) ==
    /\ Members(o, Validation_new)
    /\ o.verified \in BOOLEAN /\ BinData(o.address) /\ BinData(o.signature)

\* -1 is OpenSSL's value for a BOOLEAN that was not set.
asn1_Validation ==
    [verified |-> -1,
     authAddress |-> ASN1_OCTET_STRING_new,
     signature |-> ASN1_OCTET_STRING_new]

Validation_toAsn1(o) ==
    [asn1_Validation EXCEPT
        !.verified = IF o.verified THEN 1 ELSE 0,
        !.authAddress = Address_toAsn1(o.address),
        !.signature = Signature_toAsn1(o.signature)]

Validation_fromAsn1(t) ==
    [Validation_new EXCEPT
        !.verified = t.verified # 0,
        !.address = Address_fromAsn1(t.authAddress),
        !.signature = Signature_fromAsn1(t.signature)]

\* External: a SET OF is written in the order of its elements' bytes, the
\* BOOLEAN first.  Addresses are one number each, in their order as bytes.
DerLess(a, b) ==
    \/ a.verified < b.verified
    \/ a.verified = b.verified /\ a.authAddress.data[1] < b.authAddress.data[1]

SetOf(votes) ==
    LET S == Range(votes) IN
    CHOOSE s \in [1 .. Cardinality(S) -> S] :
        Range(s) = S /\ \A i, j \in DOMAIN s : i < j => ~DerLess(s[j], s[i])

-----------------------------------------------------------------------------
Exchange_new == [receiver |-> <<>>, amount |-> Specie_new]

Exchange_type(o) ==
    Members(o, Exchange_new) /\ BinData(o.receiver) /\ Specie_type(o.amount)

asn1_Exchange == [receiver |-> ASN1_OCTET_STRING_new, amount |-> asn1_Specie]

Exchange_toAsn1(o) ==
    [asn1_Exchange EXCEPT !.receiver = Address_toAsn1(o.receiver),
                          !.amount = Specie_toAsn1(o.amount)]

Exchange_fromAsn1(t) ==
    [Exchange_new EXCEPT !.receiver = Address_fromAsn1(t.receiver),
                         !.amount = Specie_fromAsn1(t.amount)]

Transfer_new == [exchanges |-> <<>>, coin |-> <<>>]

Transfer_type(o) ==
    /\ Members(o, Transfer_new)
    /\ List(o.exchanges)
    /\ \A i \in DOMAIN o.exchanges : Exchange_type(o.exchanges[i])
    /\ BinData(o.coin)
Transfer_long(o) == \A i \in DOMAIN o.exchanges : Specie_long(o.exchanges[i].amount)

asn1_Transfer == [exchanges |-> <<>>, coin |-> ASN1_UTF8STRING_new]

Transfer_toAsn1(o) ==
    [asn1_Transfer EXCEPT !.exchanges = toStack(Exchange_toAsn1, o.exchanges),
                          !.coin = fromString(o.coin)]

Transfer_fromAsn1(t) ==
    [Transfer_new EXCEPT !.exchanges = fromStack(Exchange_fromAsn1, t.exchanges),
                         !.coin = toString(t.coin)]

-----------------------------------------------------------------------------
\* The enumerators after Transfer are compiled out.
TransactionActions == {"None", "Transfer"}

Transaction_new ==
    [type |-> "None", transfer |-> <<>>, time |-> Time_new, signer |-> <<>>,
     signerKey |-> <<>>, newAddress |-> <<>>, signature |-> <<>>]

Transaction_type(o) ==
    /\ Members(o, Transaction_new)
    /\ o.type \in TransactionActions
    /\ List(o.transfer)
    /\ Len(o.transfer) = IF o.type = "Transfer" THEN 1 ELSE 0
    /\ \A i \in DOMAIN o.transfer : Transfer_type(o.transfer[i])
    /\ Time_type(o.time)
    /\ BinData(o.signer) /\ BinData(o.signerKey)
    /\ BinData(o.newAddress) /\ BinData(o.signature)
Transaction_long(o) ==
    o.time <= LongMax /\ \A i \in DOMAIN o.transfer : Transfer_long(o.transfer[i])

Transaction_resetChoice(o) == [o EXCEPT !.type = "None", !.transfer = <<>>]

Transaction_setTransfer(o, transfer) ==
    [Transaction_resetChoice(o) EXCEPT !.type = "Transfer", !.transfer = <<transfer>>]

\* The move takes over the choice and nothing else.
Transaction_move(lhs, rhs) ==
    [Transaction_resetChoice(lhs) EXCEPT !.type = rhs.type, !.transfer = rhs.transfer]

asn1_TransactionContent ==
    [time |-> ASN1_INTEGER_new,
     action |-> ASN1_CHOICE_new,
     signer |-> ASN1_OCTET_STRING_new,
     signerKey |-> ASN1_OCTET_STRING_new,
     newAddress |-> ASN1_OCTET_STRING_new]

asn1_Transaction ==
    [content |-> asn1_TransactionContent, signature |-> ASN1_OCTET_STRING_new]

Transaction_toAsn1(o) ==
    LET action == [ASN1_CHOICE_new EXCEPT
                       !.type = o.type,
                       !.u = toStack(Transfer_toAsn1, o.transfer)]
        content == [asn1_TransactionContent EXCEPT
                       !.action = action,
                       !.time = Time_toAsn1(o.time),
                       !.signer = Address_toAsn1(o.signer),
                       !.signerKey = PublicKey_toAsn1(o.signerKey),
                       !.newAddress = Address_toAsn1(o.newAddress)]
    IN  [asn1_Transaction EXCEPT !.content = content,
                                 !.signature = Signature_toAsn1(o.signature)]

Transaction_fromAsn1(t) ==
    [Transaction_new EXCEPT
        !.type = t.content.action.type,
        !.transfer = fromStack(Transfer_fromAsn1, t.content.action.u),
        !.time = Time_fromAsn1(t.content.time),
        !.signer = Address_fromAsn1(t.content.signer),
        !.signerKey = PublicKey_fromAsn1(t.content.signerKey),
        !.newAddress = Address_fromAsn1(t.content.newAddress),
        !.signature = Signature_fromAsn1(t.signature)]

Transaction_toContent(o) == i2d("30", Transaction_toAsn1(o).content)

\* An element of a decoded list is decoded into a local object, which is then
\* moved into the list.
Transaction_fromStackElement(t) ==
    Transaction_move(Transaction_new, Transaction_fromAsn1(t))

-----------------------------------------------------------------------------
Register_new ==
    [stakeAmount |-> Specie_new, stakeAddress |-> <<>>, stakeKey |-> <<>>,
     newAddress |-> <<>>, authAddress |-> <<>>, authKey |-> <<>>,
     stakeSignature |-> <<>>, authSignature |-> <<>>]

Register_type(o) ==
    /\ Members(o, Register_new)
    /\ Specie_type(o.stakeAmount)
    /\ \A f \in DOMAIN Register_new \ {"stakeAmount"} : BinData(o[f])
Register_long(o) == Specie_long(o.stakeAmount)

asn1_RegisterContent ==
    [stakeAmount |-> asn1_Specie,
     stakeAddress |-> ASN1_OCTET_STRING_new, stakeKey |-> ASN1_OCTET_STRING_new,
     newAddress |-> ASN1_OCTET_STRING_new,
     authAddress |-> ASN1_OCTET_STRING_new, authKey |-> ASN1_OCTET_STRING_new]

asn1_Register ==
    [content |-> asn1_RegisterContent,
     stakeSignature |-> ASN1_OCTET_STRING_new,
     authSignature |-> ASN1_OCTET_STRING_new]

Register_toAsn1(o) ==
    LET content == [asn1_RegisterContent EXCEPT
                       !.stakeAmount = Specie_toAsn1(o.stakeAmount),
                       !.stakeAddress = Address_toAsn1(o.stakeAddress),
                       !.stakeKey = PublicKey_toAsn1(o.stakeKey),
                       !.newAddress = Address_toAsn1(o.newAddress),
                       !.authAddress = Address_toAsn1(o.authAddress),
                       !.authKey = PublicKey_toAsn1(o.authKey)]
    IN  [asn1_Register EXCEPT
            !.content = content,
            !.stakeSignature = Signature_toAsn1(o.stakeSignature),
            !.authSignature = Signature_toAsn1(o.authSignature)]

Register_fromAsn1(t) ==
    [Register_new EXCEPT
        !.stakeAmount = Specie_fromAsn1(t.content.stakeAmount),
        !.stakeAddress = Address_fromAsn1(t.content.stakeAddress),
        !.stakeKey = PublicKey_fromAsn1(t.content.stakeKey),
        !.newAddress = Address_fromAsn1(t.content.newAddress),
        !.authAddress = Address_fromAsn1(t.content.authAddress),
        !.authKey = PublicKey_fromAsn1(t.content.authKey),
        !.stakeSignature = Signature_fromAsn1(t.stakeSignature),
        !.authSignature = Signature_fromAsn1(t.authSignature)]

Register_toContent(o) == i2d("30", Register_toAsn1(o).content)

Unregister_new == [authAddress |-> <<>>, authSignature |-> <<>>]

Unregister_type(o) ==
    Members(o, Unregister_new) /\ BinData(o.authAddress) /\ BinData(o.authSignature)

asn1_Unregister ==
    [authAddress |-> ASN1_OCTET_STRING_new, authSignature |-> ASN1_OCTET_STRING_new]

Unregister_toAsn1(o) ==
    [asn1_Unregister EXCEPT !.authAddress = Address_toAsn1(o.authAddress),
                            !.authSignature = Signature_toAsn1(o.authSignature)]

Unregister_fromAsn1(t) ==
    [Unregister_new EXCEPT !.authAddress = Address_fromAsn1(t.authAddress),
                           !.authSignature = Signature_fromAsn1(t.authSignature)]

\* What is signed is the bare address, not an ASN.1 structure.
Unregister_toContent(o) == o.authAddress

CredentialChange_new ==
    [authAddress |-> <<>>, newAuthAddress |-> <<>>, newAuthKey |-> <<>>,
     stakeAddress |-> <<>>, stakeKey |-> <<>>, newStakeAddress |-> <<>>,
     authSignature |-> <<>>, newAuthSignature |-> <<>>, stakeSignature |-> <<>>]

CredentialChange_type(o) ==
    /\ Members(o, CredentialChange_new)
    /\ \A f \in DOMAIN CredentialChange_new : BinData(o[f])

asn1_CredentialChangeContent ==
    [f \in {"authAddress", "newAuthAddress", "newAuthKey",
            "stakeAddress", "stakeKey", "newStakeAddress"} |-> ASN1_OCTET_STRING_new]

asn1_CredentialChange ==
    [content |-> asn1_CredentialChangeContent,
     authSignature |-> ASN1_OCTET_STRING_new,
     newAuthSignature |-> ASN1_OCTET_STRING_new,
     stakeSignature |-> ASN1_OCTET_STRING_new]

CredentialChange_toAsn1(o) ==
    LET content == [asn1_CredentialChangeContent EXCEPT
                       !.authAddress = Address_toAsn1(o.authAddress),
                       !.newAuthAddress = Address_toAsn1(o.newAuthAddress),
                       !.stakeAddress = Address_toAsn1(o.stakeAddress),
                       !.newStakeAddress = Address_toAsn1(o.newStakeAddress),
                       !.newAuthKey = PublicKey_toAsn1(o.newAuthKey),
                       !.stakeKey = PublicKey_toAsn1(o.stakeKey)]
    IN  [asn1_CredentialChange EXCEPT
            !.content = content,
            !.authSignature = Signature_toAsn1(o.authSignature),
            !.newAuthSignature = Signature_toAsn1(o.newAuthSignature),
            !.stakeSignature = Signature_toAsn1(o.stakeSignature)]

CredentialChange_fromAsn1(t) ==
    [CredentialChange_new EXCEPT
        !.authAddress = Address_fromAsn1(t.content.authAddress),
        !.newAuthAddress = Address_fromAsn1(t.content.newAuthAddress),
        !.stakeAddress = Address_fromAsn1(t.content.stakeAddress),
        !.newStakeAddress = Address_fromAsn1(t.content.newStakeAddress),
        !.newAuthKey = PublicKey_fromAsn1(t.content.newAuthKey),
        !.stakeKey = PublicKey_fromAsn1(t.content.stakeKey),
        !.authSignature = Signature_fromAsn1(t.authSignature),
        !.newAuthSignature = Signature_fromAsn1(t.newAuthSignature),
        !.stakeSignature = Signature_fromAsn1(t.stakeSignature)]

CredentialChange_toContent(o) == i2d("30", CredentialChange_toAsn1(o).content)

-----------------------------------------------------------------------------
MineActions == {"None", "Register", "Unregister", "CredentialChange"}

MineAction_new ==
    [action |-> "None", tregister |-> <<>>, unregister |-> <<>>, credentialChange |-> <<>>]

\* The pointer the action names is the one that is set.
MineAction_type(o) ==
    /\ Members(o, MineAction_new)
    /\ o.action \in MineActions
    /\ Len(o.tregister) = IF o.action = "Register" THEN 1 ELSE 0
    /\ Len(o.unregister) = IF o.action = "Unregister" THEN 1 ELSE 0
    /\ Len(o.credentialChange) = IF o.action = "CredentialChange" THEN 1 ELSE 0
    /\ \A i \in DOMAIN o.tregister : Register_type(o.tregister[i])
    /\ \A i \in DOMAIN o.unregister : Unregister_type(o.unregister[i])
    /\ \A i \in DOMAIN o.credentialChange : CredentialChange_type(o.credentialChange[i])

MineAction_resetChoice(o) == MineAction_new

MineAction_setRegister(o, r) ==
    [MineAction_resetChoice(o) EXCEPT !.action = "Register", !.tregister = <<r>>]
MineAction_setUnregister(o, u) ==
    [MineAction_resetChoice(o) EXCEPT !.action = "Unregister", !.unregister = <<u>>]
MineAction_setCredentialChange(o, c) ==
    [MineAction_resetChoice(o) EXCEPT
        !.action = "CredentialChange", !.credentialChange = <<c>>]

MineAction_move(lhs, rhs) ==
    [MineAction_resetChoice(lhs) EXCEPT
        !.action = rhs.action, !.tregister = rhs.tregister,
        !.unregister = rhs.unregister, !.credentialChange = rhs.credentialChange]

asn1_MineAction == ASN1_CHOICE_new

MineAction_toAsn1(o) ==
    [asn1_MineAction EXCEPT
        !.type = o.action,
        !.u = CASE o.action = "None" -> <<>>
                [] o.action = "Register" -> toStack(Register_toAsn1, o.tregister)
                [] o.action = "Unregister" -> toStack(Unregister_toAsn1, o.unregister)
                [] o.action = "CredentialChange" ->
                        toStack(CredentialChange_toAsn1, o.credentialChange)]

MineAction_fromAsn1(t) ==
    LET o == MineAction_new IN
    CASE t.type = "None" -> o
      [] t.type = "Register" -> MineAction_setRegister(o, Register_fromAsn1(t.u[1]))
      [] t.type = "Unregister" -> MineAction_setUnregister(o, Unregister_fromAsn1(t.u[1]))
      [] t.type = "CredentialChange" ->
            MineAction_setCredentialChange(o, CredentialChange_fromAsn1(t.u[1]))

-----------------------------------------------------------------------------
Genesis_new ==
    [protocol |-> 0, name |-> <<>>, version |-> 0, creation |-> Time_new,
     creator |-> <<>>, validatorKey |-> <<>>, stakeAddress |-> <<>>,
     greed |-> Specie_new, seed |-> <<>>]

Genesis_type(o) ==
    /\ Members(o, Genesis_new)
    /\ o.protocol \in UInt32 /\ o.version \in UInt32
    /\ Time_type(o.creation) /\ Specie_type(o.greed)
    /\ \A f \in {"name", "creator", "validatorKey", "stakeAddress", "seed"} : BinData(o[f])
Genesis_long(o) == o.creation <= LongMax /\ Specie_long(o.greed)

asn1_Genesis ==
    [protocol |-> ASN1_INTEGER_new, name |-> ASN1_UTF8STRING_new,
     version |-> ASN1_INTEGER_new, creation |-> ASN1_INTEGER_new,
     creator |-> ASN1_OCTET_STRING_new, validatorKey |-> ASN1_OCTET_STRING_new,
     stakeAddress |-> ASN1_OCTET_STRING_new, greed |-> asn1_Specie,
     seed |-> ASN1_OCTET_STRING_new]

\* The integers are written as 64 bit values and read as 32 bit ones.
Genesis_toAsn1(o) ==
    [asn1_Genesis EXCEPT
        !.protocol = fromUInt64(o.protocol), !.name = fromString(o.name),
        !.version = fromUInt64(o.version), !.creation = Time_toAsn1(o.creation),
        !.creator = Address_toAsn1(o.creator),
        !.validatorKey = PublicKey_toAsn1(o.validatorKey),
        !.stakeAddress = Address_toAsn1(o.stakeAddress),
        !.greed = Specie_toAsn1(o.greed), !.seed = fromBin(o.seed)]

\* Mutant: the stake address is not read.
Genesis_fromAsn1NoStake(t) ==
    [Genesis_new EXCEPT
        !.protocol = toUInt32(t.protocol), !.name = toString(t.name),
        !.version = toUInt32(t.version), !.creation = Time_fromAsn1(t.creation),
        !.creator = Address_fromAsn1(t.creator),
        !.validatorKey = PublicKey_fromAsn1(t.validatorKey),
        !.greed = Specie_fromAsn1(t.greed), !.seed = toBin(t.seed)]

Genesis_fromAsn1(t) ==
    [Genesis_new EXCEPT
        !.protocol = toUInt32(t.protocol), !.name = toString(t.name),
        !.version = toUInt32(t.version), !.creation = Time_fromAsn1(t.creation),
        !.creator = Address_fromAsn1(t.creator),
        !.validatorKey = PublicKey_fromAsn1(t.validatorKey),
        !.stakeAddress = Address_fromAsn1(t.stakeAddress),
        !.greed = Specie_fromAsn1(t.greed), !.seed = toBin(t.seed)]

Genesis_encode(o) == i2d("30", Genesis_toAsn1(o))

-----------------------------------------------------------------------------
ShardInfo_type(o) ==
    /\ o = [hash |-> o.hash, blocks |-> o.blocks]
    /\ Hash_type(o.hash) /\ o.blocks \in UInt32

asn1_ShardInfo == [hash |-> asn1_Hash, blocks |-> ASN1_INTEGER_new]

ShardInfo_toAsn1(o) ==
    [asn1_ShardInfo EXCEPT !.hash = Hash_toAsn1(o.hash), !.blocks = fromUInt32(o.blocks)]

ShardInfo_fromAsn1(t) ==
    [hash |-> Hash_fromAsn1(t.hash), blocks |-> toUInt32(t.blocks)]

Reconciliation_new ==
    [protocol |-> 0, chainId |-> 0, shardInfo |-> <<>>, leader |-> <<>>,
     signature |-> <<>>, votes |-> <<>>]

Reconciliation_type(o) ==
    /\ Members(o, Reconciliation_new)
    /\ o.protocol \in UInt32 /\ o.chainId \in UInt32
    /\ List(o.shardInfo) /\ List(o.votes)
    /\ \A i \in DOMAIN o.shardInfo : ShardInfo_type(o.shardInfo[i])
    /\ BinData(o.leader) /\ BinData(o.signature)
    /\ \A i \in DOMAIN o.votes : Validation_type(o.votes[i])

asn1_ReconciliationContent ==
    [protocol |-> ASN1_INTEGER_new, time |-> ASN1_INTEGER_new,
     chainId |-> ASN1_INTEGER_new, shardInfo |-> <<>>, leader |-> ASN1_OCTET_STRING_new]

asn1_Reconciliation ==
    [content |-> asn1_ReconciliationContent,
     signature |-> ASN1_OCTET_STRING_new, votes |-> <<>>]

\* The class has no time: the one of the structure stays as allocated.
Reconciliation_toAsn1(o) ==
    LET content ==
            [asn1_ReconciliationContent EXCEPT
                !.protocol = fromUInt32(o.protocol),
                !.chainId = fromUInt32(o.chainId),
                !.shardInfo = toStack(ShardInfo_toAsn1, o.shardInfo),
                !.leader = Address_toAsn1(o.leader)]
    IN  [asn1_Reconciliation EXCEPT
            !.content = content,
            !.signature = Signature_toAsn1(o.signature),
            !.votes = toStack(Validation_toAsn1, o.votes)]

\* Mutant: the signature is not read.
Reconciliation_fromAsn1NoSignature(t) ==
    [Reconciliation_new EXCEPT
        !.protocol = toUInt32(t.content.protocol),
        !.chainId = toUInt32(t.content.chainId),
        !.shardInfo = fromStack(ShardInfo_fromAsn1, t.content.shardInfo),
        !.leader = Address_fromAsn1(t.content.leader),
        !.votes = fromStack(Validation_fromAsn1, t.votes)]

Reconciliation_fromAsn1(t) ==
    [Reconciliation_new EXCEPT
        !.protocol = toUInt32(t.content.protocol),
        !.chainId = toUInt32(t.content.chainId),
        !.shardInfo = fromStack(ShardInfo_fromAsn1, t.content.shardInfo),
        !.leader = Address_fromAsn1(t.content.leader),
        !.signature = Signature_fromAsn1(t.signature),
        !.votes = fromStack(Validation_fromAsn1, t.votes)]

Reconciliation_toContent(o) == i2d("30", Reconciliation_toAsn1(o).content)

\* Mutant: the votes are a SEQUENCE OF.
i2d_ReconciliationSequence(tag, t) == i2d(tag, t)

i2d_Reconciliation(tag, t) == i2d(tag, [t EXCEPT !.votes = SetOf(t.votes)])

Reconciliation_encode(o) == i2d_Reconciliation("30", Reconciliation_toAsn1(o))

-----------------------------------------------------------------------------
Node_new ==
    [chainId |-> 0, shardId |-> 0, index |-> 0, prevHash |-> Hash_new,
     transactions |-> <<>>, nonce |-> <<>>, leader |-> <<>>, newAddress |-> <<>>,
     signature |-> <<>>, votes |-> <<>>]

Node_type(o) ==
    /\ Members(o, Node_new)
    /\ List(o.transactions) /\ List(o.votes)
    /\ o.chainId \in UInt64 /\ o.shardId \in UInt32 /\ o.index \in UInt32
    /\ Hash_type(o.prevHash)
    /\ \A i \in DOMAIN o.transactions : Transaction_type(o.transactions[i])
    /\ \A f \in {"nonce", "leader", "newAddress", "signature"} : BinData(o[f])
    /\ \A i \in DOMAIN o.votes : Validation_type(o.votes[i])
Node_long(o) ==
    o.chainId <= LongMax /\ \A i \in DOMAIN o.transactions : Transaction_long(o.transactions[i])

asn1_NodeContent ==
    [chainId |-> ASN1_INTEGER_new, shardId |-> ASN1_INTEGER_new,
     index |-> ASN1_INTEGER_new, prevHash |-> asn1_Hash, transactions |-> <<>>,
     nonce |-> ASN1_OCTET_STRING_new, leader |-> ASN1_OCTET_STRING_new,
     newAddress |-> ASN1_OCTET_STRING_new]

asn1_Node ==
    [content |-> asn1_NodeContent, signature |-> ASN1_OCTET_STRING_new, votes |-> <<>>]

Node_toAsn1(o) ==
    LET content ==
            [asn1_NodeContent EXCEPT
                !.chainId = fromUInt64(o.chainId),
                !.shardId = fromUInt32(o.shardId),
                !.index = fromUInt32(o.index),
                !.prevHash = Hash_toAsn1(o.prevHash),
                !.transactions = toStack(Transaction_toAsn1, o.transactions),
                !.nonce = fromBin(o.nonce),
                !.leader = Address_toAsn1(o.leader),
                !.newAddress = Address_toAsn1(o.newAddress)]
    IN  [asn1_Node EXCEPT
            !.content = content,
            !.signature = Signature_toAsn1(o.signature),
            !.votes = toStack(Validation_toAsn1, o.votes)]

Node_fromAsn1(t) ==
    [Node_new EXCEPT
        !.signature = Signature_fromAsn1(t.signature),
        !.votes = fromStack(Validation_fromAsn1, t.votes),
        !.chainId = toUInt64(t.content.chainId),
        !.shardId = toUInt32(t.content.shardId),
        !.index = toUInt32(t.content.index),
        !.prevHash = Hash_fromAsn1(t.content.prevHash),
        !.transactions = fromStack(Transaction_fromStackElement, t.content.transactions),
        !.nonce = toBin(t.content.nonce),
        !.leader = Address_fromAsn1(t.content.leader),
        !.newAddress = Address_fromAsn1(t.content.newAddress)]

Node_toContent(o) == i2d("30", Node_toAsn1(o).content)

i2d_Node(tag, t) == i2d(tag, [t EXCEPT !.votes = SetOf(t.votes)])

-----------------------------------------------------------------------------
BlockTypes == {"None", "Genesis", "Reconciliation", "Node"}

Block_new == [type |-> "None", genesis |-> <<>>, reconciliation |-> <<>>, node |-> <<>>]

\* The pointer the type names is the one that is set.
Block_type(o) ==
    /\ Members(o, Block_new)
    /\ o.type \in BlockTypes
    /\ Len(o.genesis) = IF o.type = "Genesis" THEN 1 ELSE 0
    /\ Len(o.reconciliation) = IF o.type = "Reconciliation" THEN 1 ELSE 0
    /\ Len(o.node) = IF o.type = "Node" THEN 1 ELSE 0
    /\ \A i \in DOMAIN o.genesis : Genesis_type(o.genesis[i])
    /\ \A i \in DOMAIN o.reconciliation : Reconciliation_type(o.reconciliation[i])
    /\ \A i \in DOMAIN o.node : Node_type(o.node[i])

Block_resetChoice(o) == Block_new

Block_setGenesis(o, genesis) ==
    [Block_resetChoice(o) EXCEPT !.type = "Genesis", !.genesis = <<genesis>>]
Block_setReconciliation(o, reconciliation) ==
    [Block_resetChoice(o) EXCEPT
        !.type = "Reconciliation", !.reconciliation = <<reconciliation>>]
Block_setNode(o, node) ==
    [Block_resetChoice(o) EXCEPT !.type = "Node", !.node = <<node>>]

Block_move(lhs, rhs) ==
    [Block_resetChoice(lhs) EXCEPT
        !.type = rhs.type, !.genesis = rhs.genesis,
        !.reconciliation = rhs.reconciliation, !.node = rhs.node]

asn1_Block == ASN1_CHOICE_new

Block_toAsn1(o) ==
    [asn1_Block EXCEPT
        !.type = o.type,
        !.u = CASE o.type = "None" -> <<>>
                [] o.type = "Genesis" -> <<Genesis_toAsn1(o.genesis[1])>>
                [] o.type = "Reconciliation" ->
                        <<Reconciliation_toAsn1(o.reconciliation[1])>>
                [] o.type = "Node" -> <<Node_toAsn1(o.node[1])>>]

Block_fromAsn1(t) ==
    CASE t.type = "None" -> Block_new
      [] t.type = "Genesis" -> Block_setGenesis(Block_new, Genesis_fromAsn1(t.u[1]))
      [] t.type = "Reconciliation" ->
            Block_setReconciliation(Block_new, Reconciliation_fromAsn1(t.u[1]))
      [] t.type = "Node" -> Block_setNode(Block_new, Node_fromAsn1(t.u[1]))

\* operator=(const Block &) goes through the ASN.1 structure.
Block_copy(rhs) == Block_fromAsn1(Block_toAsn1(rhs))

\* External: the tag tells the alternatives of the CHOICE apart.
i2d_Block(t) ==
    CASE t.type = "None" -> i2d("05", <<>>)
      [] t.type = "Genesis" -> i2d("A1", t.u[1])
      [] t.type = "Reconciliation" -> i2d_Reconciliation("A2", t.u[1])
      [] t.type = "Node" -> i2d_Node("A3", t.u[1])

\* External: null, as <<>>, for bytes that are not those of a Block.
d2i_Block(data) ==
    IF Len(data) # 2 THEN <<>>
    ELSE CASE data[1] = "05" -> <<[type |-> "None", u |-> <<>>]>>
           [] data[1] = "A1" -> <<[type |-> "Genesis", u |-> <<data[2]>>]>>
           [] data[1] = "A2" -> <<[type |-> "Reconciliation", u |-> <<data[2]>>]>>
           [] data[1] = "A3" -> <<[type |-> "Node", u |-> <<data[2]>>]>>
           [] OTHER -> <<>>

Block_encode(o) == i2d_Block(Block_toAsn1(o))

\* The object decode leaves in hash: what it was when the bytes do not parse.
decode_Block(data, hash) ==
    LET asn1Data == d2i_Block(data)
    IN  IF asn1Data = <<>> THEN hash ELSE Block_fromAsn1(asn1Data[1])

=============================================================================
