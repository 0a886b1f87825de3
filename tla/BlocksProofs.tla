---------------------------- MODULE BlocksProofs ----------------------------
(***************************************************************************)
(* What the codec of the classes of src/block does to one object, for      *)
(* every width of the integers: an object whose 64 bit integers fit in a   *)
(* long is read as it was written, except that the transactions of a node  *)
(* keep only their action and that the votes of an encoded block come back *)
(* in the order of a SET OF.  The proofs about the tools that write blocks *)
(* rest on these lemmas.                                                   *)
(***************************************************************************)
EXTENDS Blocks, TLAPS

\* Leaves that name no prover are left to Zenon.
USE Zenon

-----------------------------------------------------------------------------
(* Lists. *)

\* What the elements of a list are, and how many.
LEMMA ListIs ==
    ASSUME NEW s, List(s)
    PROVE  /\ Len(s) \in Nat /\ DOMAIN s = 1 .. Len(s)
           /\ s = [i \in 1 .. Len(s) |-> s[i]]
  BY SMT DEF List, Range

\* A function on 1 .. n is a list of n elements.
LEMMA FunctionIsList ==
    ASSUME NEW n \in Nat, NEW s, s = [i \in 1 .. n |-> s[i]]
    PROVE  List(s) /\ Len(s) = n /\ DOMAIN s = 1 .. n
  BY SMT DEF List, Range

\* The byte strings that the model spells out.
LEMMA ShortBytes ==
    /\ BinData(<<>>)
    /\ \A x : BinData(<<x>>)
    /\ \A x, y : BinData(<<x, y>>)
    /\ \A x, y, z : BinData(<<x, y, z>>)
  BY SMT DEF BinData

\* Null and set pointers.
LEMMA Pointers ==
    /\ List(<<>>) /\ Len(<<>>) = 0
    /\ \A x : List(<<x>>) /\ Len(<<x>>) = 1 /\ DOMAIN <<x>> = {1} /\ <<x>>[1] = x
  BY SMT DEF List, Range

\* A list of no elements, and a list of one.
LEMMA ShortLists ==
    ASSUME NEW s, List(s)
    PROVE  /\ Len(s) = 0 => s = <<>>
           /\ Len(s) = 1 => s = <<s[1]>>
<1>1. /\ Len(s) \in Nat /\ DOMAIN s = 1 .. Len(s)
      /\ s = [i \in 1 .. Len(s) |-> s[i]]
  BY ListIs
<1> QED
  BY <1>1, SMT

-----------------------------------------------------------------------------
(* The conversions of integers and byte strings. *)

\* toUInt32 reads what fromUInt32 and fromUInt64 wrote.
LEMMA ReadUInt32 ==
    ASSUME NEW n \in UInt32
    PROVE  toUInt32(fromUInt32(n)) = n /\ toUInt32(fromUInt64(n)) = n
<1>1. fromUInt32(n) = [asn1 |-> "INTEGER", int |-> n]
  BY SMT DEF fromUInt32, ASN1_INTEGER_new
<1>2. fromUInt64(n) = [asn1 |-> "INTEGER", int |-> n]
  BY SMT DEF fromUInt64, ASN1_INTEGER_new
<1>3. toUInt32([asn1 |-> "INTEGER", int |-> n]) = n
  BY WidthAssumption, SMT DEF toUInt32, ASN1_INTEGER_get, UInt32
<1> QED
  BY <1>1, <1>2, <1>3

\* toUInt64 reads back from an ASN1_INTEGER what a long can hold.
LEMMA ReadUInt64 ==
    ASSUME NEW n \in UInt64, n <= LongMax
    PROVE  toUInt64(fromUInt64(n)) = n
<1>0. n \in 0 .. LongMax
  BY WidthAssumption, SMT DEF UInt64, UInt64Max
<1>1. fromUInt64(n) = [asn1 |-> "INTEGER", int |-> n]
  BY SMT DEF fromUInt64, ASN1_INTEGER_new
<1>2. n % (2 * LongMax + 1 + 1) = n
  BY <1>0, WidthAssumption, SMT
<1>3. toUInt64([asn1 |-> "INTEGER", int |-> n]) = n % (2 * LongMax + 1 + 1)
  BY <1>0, WidthAssumption, SMT DEF toUInt64, ASN1_INTEGER_get, UInt64Max
<1> QED
  BY <1>1, <1>2, <1>3

\* A Time is read as it was written.
LEMMA ReadTime ==
    ASSUME NEW n, Time_type(n), n <= LongMax
    PROVE  Time_fromAsn1(Time_toAsn1(n)) = n
  BY ReadUInt64 DEF Time_type, Time_fromAsn1, Time_toAsn1

\* Byte strings are read as they were written.
LEMMA ReadBytes ==
    \A b : /\ toBin(fromBin(b)) = b /\ toString(fromString(b)) = b
           /\ Address_fromAsn1(Address_toAsn1(b)) = b
           /\ PublicKey_fromAsn1(PublicKey_toAsn1(b)) = b
           /\ Signature_fromAsn1(Signature_toAsn1(b)) = b
<1>1. \A b : toBin(fromBin(b)) = b /\ toString(fromString(b)) = b
  BY DEF toBin, fromBin, toString, fromString, ASN1_OCTET_STRING_new, ASN1_UTF8STRING_new
<1> QED
  BY <1>1 DEF Address_fromAsn1, Address_toAsn1, PublicKey_fromAsn1, PublicKey_toAsn1,
              Signature_fromAsn1, Signature_toAsn1

-----------------------------------------------------------------------------
(* The classes: what fromAsn1 reads of what toAsn1 wrote. *)

\* Specie::toAsn1 and fromAsn1 keep an amount that a long can hold.
LEMMA SpecieReads ==
    ASSUME NEW o, Specie_type(o), Specie_long(o)
    PROVE  Specie_fromAsn1(Specie_toAsn1(o)) = o
<1> DEFINE t == Specie_toAsn1(o)
           d == Specie_fromAsn1(t)
<1>1. t = [asn1_Specie EXCEPT
              !.coins = fromUInt64(o.coins), !.fluffs = fromUInt32(o.fluffs)]
  BY DEF Specie_toAsn1
<1>2. d = [Specie_new EXCEPT
              !.coins = toUInt64(t.coins), !.fluffs = toUInt32(t.fluffs)]
  <2> HIDE DEF t
  <2> QED BY DEF Specie_fromAsn1
<1> HIDE DEF t, d
<1>3. /\ t.coins = fromUInt64(o.coins) /\ t.fluffs = fromUInt32(o.fluffs)
  BY <1>1 DEF asn1_Specie
<1>4. d = [coins |-> toUInt64(t.coins), fluffs |-> toUInt32(t.fluffs)]
  BY <1>2 DEF Specie_new
<1>5. toUInt64(t.coins) = o.coins /\ toUInt32(t.fluffs) = o.fluffs
  BY <1>3, ReadUInt32, ReadUInt64 DEF Specie_type, Specie_long
<1>9. o = [coins |-> o.coins, fluffs |-> o.fluffs]
  BY DEF Specie_type, Members, Specie_new
<1> QED
  BY <1>4, <1>5, <1>9 DEF d, t

\* Hash::toAsn1 and fromAsn1 keep both digests.
LEMMA HashReads ==
    ASSUME NEW o, Hash_type(o)
    PROVE  Hash_fromAsn1(Hash_toAsn1(o)) = o
<1> DEFINE t == Hash_toAsn1(o)
           d == Hash_fromAsn1(t)
<1>1. t = [asn1_Hash EXCEPT
              !.sha2 = fromBin(o.sha2), !.sha3 = fromBin(o.sha3)]
  BY DEF Hash_toAsn1
<1>2. d = [Hash_new EXCEPT
              !.sha2 = toBin(t.sha2), !.sha3 = toBin(t.sha3)]
  <2> HIDE DEF t
  <2> QED BY DEF Hash_fromAsn1
<1> HIDE DEF t, d
<1>3. /\ t.sha2 = fromBin(o.sha2) /\ t.sha3 = fromBin(o.sha3)
  BY <1>1 DEF asn1_Hash
<1>4. d = [sha2 |-> toBin(t.sha2), sha3 |-> toBin(t.sha3)]
  BY <1>2 DEF Hash_new
<1>5. toBin(t.sha2) = o.sha2 /\ toBin(t.sha3) = o.sha3
  BY <1>3, ReadBytes
<1>9. o = [sha2 |-> o.sha2, sha3 |-> o.sha3]
  BY DEF Hash_type, Members, Hash_new
<1> QED
  BY <1>4, <1>5, <1>9 DEF d, t

\* A vote is read as it was written, its verdict through an ASN.1 BOOLEAN.
LEMMA ValidationReads ==
    ASSUME NEW o, Members(o, Validation_new), o.verified \in BOOLEAN
    PROVE  Validation_fromAsn1(Validation_toAsn1(o)) = o
<1> DEFINE t == Validation_toAsn1(o)
           d == Validation_fromAsn1(t)
           flag == IF o.verified THEN 1 ELSE 0
           b == t.verified # 0
<1>1. t = [asn1_Validation EXCEPT
              !.verified = flag, !.authAddress = Address_toAsn1(o.address),
              !.signature = Signature_toAsn1(o.signature)]
  BY DEF Validation_toAsn1
<1>2. d = [Validation_new EXCEPT
              !.verified = b, !.address = Address_fromAsn1(t.authAddress),
              !.signature = Signature_fromAsn1(t.signature)]
  <2> HIDE DEF t
  <2> QED BY DEF Validation_fromAsn1
<1>3. flag # 0 <=> o.verified
  BY SMT
<1>4. b = (t.verified # 0)
  OBVIOUS
<1> HIDE DEF t, d, flag, b
<1>5. /\ t.verified = flag /\ t.authAddress = Address_toAsn1(o.address)
      /\ t.signature = Signature_toAsn1(o.signature)
  BY <1>1 DEF asn1_Validation
<1>6. d = [verified |-> b, address |-> Address_fromAsn1(t.authAddress),
           signature |-> Signature_fromAsn1(t.signature)]
  BY <1>2 DEF Validation_new
<1>7. /\ Address_fromAsn1(t.authAddress) = o.address
      /\ Signature_fromAsn1(t.signature) = o.signature
  BY <1>5, ReadBytes
<1>8. b = o.verified
  BY <1>3, <1>4, <1>5
<1>9. o = [verified |-> o.verified, address |-> o.address, signature |-> o.signature]
  BY DEF Members, Validation_new
<1> QED
  BY <1>6, <1>7, <1>8, <1>9 DEF d, t

\* Exchange::toAsn1 and fromAsn1 keep the receiver and the amount.
LEMMA ExchangeReads ==
    ASSUME NEW o, Exchange_type(o), Specie_long(o.amount)
    PROVE  Exchange_fromAsn1(Exchange_toAsn1(o)) = o
<1> DEFINE t == Exchange_toAsn1(o)
           d == Exchange_fromAsn1(t)
<1>1. t = [asn1_Exchange EXCEPT
              !.receiver = Address_toAsn1(o.receiver), !.amount = Specie_toAsn1(o.amount)]
  BY DEF Exchange_toAsn1
<1>2. d = [Exchange_new EXCEPT
              !.receiver = Address_fromAsn1(t.receiver),
              !.amount = Specie_fromAsn1(t.amount)]
  <2> HIDE DEF t
  <2> QED BY DEF Exchange_fromAsn1
<1> HIDE DEF t, d
<1>3. /\ t.receiver = Address_toAsn1(o.receiver) /\ t.amount = Specie_toAsn1(o.amount)
  BY <1>1 DEF asn1_Exchange
<1>4. d = [receiver |-> Address_fromAsn1(t.receiver), amount |-> Specie_fromAsn1(t.amount)]
  BY <1>2 DEF Exchange_new
<1>5. Address_fromAsn1(t.receiver) = o.receiver /\ Specie_fromAsn1(t.amount) = o.amount
  BY <1>3, ReadBytes, SpecieReads DEF Exchange_type
<1>9. o = [receiver |-> o.receiver, amount |-> o.amount]
  BY DEF Exchange_type, Members, Exchange_new
<1> QED
  BY <1>4, <1>5, <1>9 DEF d, t

\* Unregister::toAsn1 and fromAsn1 keep the address and its signature.
LEMMA UnregisterReads ==
    ASSUME NEW o, Unregister_type(o)
    PROVE  Unregister_fromAsn1(Unregister_toAsn1(o)) = o
<1> DEFINE t == Unregister_toAsn1(o)
           d == Unregister_fromAsn1(t)
<1>1. t = [asn1_Unregister EXCEPT
              !.authAddress = Address_toAsn1(o.authAddress),
              !.authSignature = Signature_toAsn1(o.authSignature)]
  BY DEF Unregister_toAsn1
<1>2. d = [Unregister_new EXCEPT
              !.authAddress = Address_fromAsn1(t.authAddress),
              !.authSignature = Signature_fromAsn1(t.authSignature)]
  <2> HIDE DEF t
  <2> QED BY DEF Unregister_fromAsn1
<1> HIDE DEF t, d
<1>3. /\ t.authAddress = Address_toAsn1(o.authAddress)
      /\ t.authSignature = Signature_toAsn1(o.authSignature)
  BY <1>1 DEF asn1_Unregister
<1>4. d = [authAddress |-> Address_fromAsn1(t.authAddress),
           authSignature |-> Signature_fromAsn1(t.authSignature)]
  BY <1>2 DEF Unregister_new
<1>5. /\ Address_fromAsn1(t.authAddress) = o.authAddress
      /\ Signature_fromAsn1(t.authSignature) = o.authSignature
  BY <1>3, ReadBytes
<1>9. o = [authAddress |-> o.authAddress, authSignature |-> o.authSignature]
  BY DEF Unregister_type, Members, Unregister_new
<1> QED
  BY <1>4, <1>5, <1>9 DEF d, t

\* Genesis::toAsn1 and fromAsn1 keep every member; the greed is read as
\* Specie reads it.
LEMMA GenesisReads ==
    ASSUME NEW o, o.protocol \in UInt32, o.version \in UInt32,
           Time_type(o.creation), o.creation <= LongMax
    PROVE  Genesis_fromAsn1(Genesis_toAsn1(o)) =
           [protocol |-> o.protocol, name |-> o.name, version |-> o.version,
            creation |-> o.creation, creator |-> o.creator, validatorKey |-> o.validatorKey,
            stakeAddress |-> o.stakeAddress, greed |-> Specie_fromAsn1(Specie_toAsn1(o.greed)),
            seed |-> o.seed]
<1> DEFINE t == Genesis_toAsn1(o)
           d == Genesis_fromAsn1(t)
<1>1. t = [asn1_Genesis EXCEPT
              !.protocol = fromUInt64(o.protocol), !.name = fromString(o.name),
              !.version = fromUInt64(o.version), !.creation = Time_toAsn1(o.creation),
              !.creator = Address_toAsn1(o.creator),
              !.validatorKey = PublicKey_toAsn1(o.validatorKey),
              !.stakeAddress = Address_toAsn1(o.stakeAddress),
              !.greed = Specie_toAsn1(o.greed), !.seed = fromBin(o.seed)]
  BY DEF Genesis_toAsn1
<1>2. d = [Genesis_new EXCEPT
              !.protocol = toUInt32(t.protocol), !.name = toString(t.name),
              !.version = toUInt32(t.version), !.creation = Time_fromAsn1(t.creation),
              !.creator = Address_fromAsn1(t.creator),
              !.validatorKey = PublicKey_fromAsn1(t.validatorKey),
              !.stakeAddress = Address_fromAsn1(t.stakeAddress),
              !.greed = Specie_fromAsn1(t.greed), !.seed = toBin(t.seed)]
  <2> HIDE DEF t
  <2> QED BY DEF Genesis_fromAsn1
<1> HIDE DEF t, d
<1>3. /\ t.protocol = fromUInt64(o.protocol) /\ t.name = fromString(o.name)
      /\ t.version = fromUInt64(o.version) /\ t.creation = Time_toAsn1(o.creation)
      /\ t.creator = Address_toAsn1(o.creator)
      /\ t.validatorKey = PublicKey_toAsn1(o.validatorKey)
      /\ t.stakeAddress = Address_toAsn1(o.stakeAddress) /\ t.greed = Specie_toAsn1(o.greed)
      /\ t.seed = fromBin(o.seed)
  BY <1>1 DEF asn1_Genesis
<1>4. d = [protocol |-> toUInt32(t.protocol), name |-> toString(t.name),
           version |-> toUInt32(t.version), creation |-> Time_fromAsn1(t.creation),
           creator |-> Address_fromAsn1(t.creator),
           validatorKey |-> PublicKey_fromAsn1(t.validatorKey),
           stakeAddress |-> Address_fromAsn1(t.stakeAddress),
           greed |-> Specie_fromAsn1(t.greed), seed |-> toBin(t.seed)]
  BY <1>2 DEF Genesis_new
<1>5. toUInt32(t.protocol) = o.protocol /\ toUInt32(t.version) = o.version
  BY <1>3, ReadUInt32
<1>6. Time_fromAsn1(t.creation) = o.creation
  BY <1>3, ReadTime
<1>7. /\ toString(t.name) = o.name /\ Address_fromAsn1(t.creator) = o.creator
      /\ PublicKey_fromAsn1(t.validatorKey) = o.validatorKey
      /\ Address_fromAsn1(t.stakeAddress) = o.stakeAddress /\ toBin(t.seed) = o.seed
  BY <1>3, ReadBytes
<1> QED
  BY <1>3, <1>4, <1>5, <1>6, <1>7 DEF d, t

\* The exchanges of a transfer are read in order.
LEMMA ExchangesRead ==
    ASSUME NEW s, List(s), \A i \in DOMAIN s : Exchange_type(s[i]) /\ Specie_long(s[i].amount)
    PROVE  LET t == toStack(Exchange_toAsn1, s)
           IN  List(t) /\ Len(t) = Len(s) /\ fromStack(Exchange_fromAsn1, t) = s
<1> DEFINE t == [i \in 1 .. Len(s) |-> Exchange_toAsn1(s[i])]
           d == [i \in 1 .. Len(t) |-> Exchange_fromAsn1(t[i])]
<1>1. /\ Len(s) \in Nat /\ DOMAIN s = 1 .. Len(s)
      /\ s = [i \in 1 .. Len(s) |-> s[i]]
  BY ListIs
<1>2. List(t) /\ Len(t) = Len(s)
  <2>1. t = [i \in 1 .. Len(s) |-> t[i]]
    OBVIOUS
  <2> HIDE DEF t
  <2> QED BY <1>1, <2>1, FunctionIsList
<1>3. \A i \in 1 .. Len(s) : Exchange_fromAsn1(t[i]) = s[i]
  BY <1>1, ExchangeReads
<1> HIDE DEF t
<1>4. d = [i \in 1 .. Len(s) |-> s[i]]
  BY <1>2, <1>3
<1> HIDE DEF d
<1>5. d = s
  BY <1>1, <1>4
<1> QED
  BY <1>2, <1>5 DEF d, t, toStack, fromStack

\* Transfer::toAsn1 and fromAsn1 keep the exchanges and the coin.
LEMMA TransferReads ==
    ASSUME NEW o, Transfer_type(o), Transfer_long(o)
    PROVE  Transfer_fromAsn1(Transfer_toAsn1(o)) = o
<1> DEFINE s == toStack(Exchange_toAsn1, o.exchanges)
           t == Transfer_toAsn1(o)
           e == fromStack(Exchange_fromAsn1, t.exchanges)
           d == Transfer_fromAsn1(t)
<1>1. t = [asn1_Transfer EXCEPT !.exchanges = s, !.coin = fromString(o.coin)]
  BY DEF Transfer_toAsn1, toStack
<1>2. d = [Transfer_new EXCEPT !.exchanges = e, !.coin = toString(t.coin)]
  <2> HIDE DEF t
  <2> QED BY DEF Transfer_fromAsn1, fromStack
<1>3. List(o.exchanges) /\ \A i \in DOMAIN o.exchanges :
          Exchange_type(o.exchanges[i]) /\ Specie_long(o.exchanges[i].amount)
  BY DEF Transfer_type, Transfer_long
<1>4. fromStack(Exchange_fromAsn1, s) = o.exchanges
  BY <1>3, ExchangesRead DEF fromStack, toStack
<1> HIDE DEF t, d, s
<1>5. t.exchanges = s /\ t.coin = fromString(o.coin)
  BY <1>1 DEF asn1_Transfer
<1>6. e = o.exchanges
  BY <1>4, <1>5 DEF fromStack
<1> HIDE DEF e
<1>7. d = [exchanges |-> e, coin |-> toString(t.coin)]
  BY <1>2 DEF Transfer_new
<1>8. toString(t.coin) = o.coin
  BY <1>5, ReadBytes
<1>9. o = [exchanges |-> o.exchanges, coin |-> o.coin]
  BY DEF Transfer_type, Members, Transfer_new
<1> QED
  BY <1>6, <1>7, <1>8, <1>9 DEF d, t

\* The pointer to the transfer of a transaction.
LEMMA TransfersRead ==
    ASSUME NEW s, List(s), \A i \in DOMAIN s : Transfer_type(s[i]) /\ Transfer_long(s[i])
    PROVE  LET t == toStack(Transfer_toAsn1, s)
           IN  List(t) /\ Len(t) = Len(s) /\ fromStack(Transfer_fromAsn1, t) = s
<1> DEFINE t == [i \in 1 .. Len(s) |-> Transfer_toAsn1(s[i])]
           d == [i \in 1 .. Len(t) |-> Transfer_fromAsn1(t[i])]
<1>1. /\ Len(s) \in Nat /\ DOMAIN s = 1 .. Len(s)
      /\ s = [i \in 1 .. Len(s) |-> s[i]]
  BY ListIs
<1>2. List(t) /\ Len(t) = Len(s)
  <2>1. t = [i \in 1 .. Len(s) |-> t[i]]
    OBVIOUS
  <2> HIDE DEF t
  <2> QED BY <1>1, <2>1, FunctionIsList
<1>3. \A i \in 1 .. Len(s) : Transfer_fromAsn1(t[i]) = s[i]
  BY <1>1, TransferReads
<1> HIDE DEF t
<1>4. d = [i \in 1 .. Len(s) |-> s[i]]
  BY <1>2, <1>3
<1> HIDE DEF d
<1>5. d = s
  BY <1>1, <1>4
<1> QED
  BY <1>2, <1>5 DEF d, t, toStack, fromStack

\* ReconciliationShardInfo is read as it was written.
LEMMA ShardInfoReads ==
    ASSUME NEW o, ShardInfo_type(o)
    PROVE  ShardInfo_fromAsn1(ShardInfo_toAsn1(o)) = o
<1> DEFINE t == ShardInfo_toAsn1(o)
<1>1. t = [asn1_ShardInfo EXCEPT !.hash = Hash_toAsn1(o.hash),
                                 !.blocks = fromUInt32(o.blocks)]
  BY DEF ShardInfo_toAsn1
<1> HIDE DEF t
<1>2. t.hash = Hash_toAsn1(o.hash) /\ t.blocks = fromUInt32(o.blocks)
  BY <1>1 DEF asn1_ShardInfo
<1>3. Hash_fromAsn1(t.hash) = o.hash /\ toUInt32(t.blocks) = o.blocks
  BY <1>2, HashReads, ReadUInt32 DEF ShardInfo_type
<1>4. ShardInfo_fromAsn1(t) = [hash |-> o.hash, blocks |-> o.blocks]
  BY <1>3 DEF ShardInfo_fromAsn1
<1> QED
  BY <1>4 DEF t, ShardInfo_type

\* The shards of a reconciliation are read in order.
LEMMA ShardInfosRead ==
    ASSUME NEW s, List(s), \A i \in DOMAIN s : ShardInfo_type(s[i])
    PROVE  LET t == toStack(ShardInfo_toAsn1, s)
           IN  List(t) /\ Len(t) = Len(s) /\ fromStack(ShardInfo_fromAsn1, t) = s
<1> DEFINE t == [i \in 1 .. Len(s) |-> ShardInfo_toAsn1(s[i])]
           d == [i \in 1 .. Len(t) |-> ShardInfo_fromAsn1(t[i])]
<1>1. /\ Len(s) \in Nat /\ DOMAIN s = 1 .. Len(s)
      /\ s = [i \in 1 .. Len(s) |-> s[i]]
  BY ListIs
<1>2. List(t) /\ Len(t) = Len(s)
  <2>1. t = [i \in 1 .. Len(s) |-> t[i]]
    OBVIOUS
  <2> HIDE DEF t
  <2> QED BY <1>1, <2>1, FunctionIsList
<1>3. \A i \in 1 .. Len(s) : ShardInfo_fromAsn1(t[i]) = s[i]
  BY <1>1, ShardInfoReads
<1> HIDE DEF t
<1>4. d = [i \in 1 .. Len(s) |-> s[i]]
  BY <1>2, <1>3
<1> HIDE DEF d
<1>5. d = s
  BY <1>1, <1>4
<1> QED
  BY <1>2, <1>5 DEF d, t, toStack, fromStack

\* The votes are read in order.
LEMMA ValidationsRead ==
    ASSUME NEW s, List(s),
           \A i \in DOMAIN s : Members(s[i], Validation_new) /\ s[i].verified \in BOOLEAN
    PROVE  LET t == toStack(Validation_toAsn1, s)
           IN  List(t) /\ Len(t) = Len(s) /\ fromStack(Validation_fromAsn1, t) = s
<1> DEFINE t == [i \in 1 .. Len(s) |-> Validation_toAsn1(s[i])]
           d == [i \in 1 .. Len(t) |-> Validation_fromAsn1(t[i])]
<1>1. /\ Len(s) \in Nat /\ DOMAIN s = 1 .. Len(s)
      /\ s = [i \in 1 .. Len(s) |-> s[i]]
  BY ListIs
<1>2. List(t) /\ Len(t) = Len(s)
  <2>1. t = [i \in 1 .. Len(s) |-> t[i]]
    OBVIOUS
  <2> HIDE DEF t
  <2> QED BY <1>1, <2>1, FunctionIsList
<1>3. \A i \in 1 .. Len(s) : Validation_fromAsn1(t[i]) = s[i]
  BY <1>1, ValidationReads
<1> HIDE DEF t
<1>4. d = [i \in 1 .. Len(s) |-> s[i]]
  BY <1>2, <1>3
<1> HIDE DEF d
<1>5. d = s
  BY <1>1, <1>4
<1> QED
  BY <1>2, <1>5 DEF d, t, toStack, fromStack

\* The content of a registration, the part that is signed.
Register_content(o) ==
    [stakeAmount |-> Specie_toAsn1(o.stakeAmount),
     stakeAddress |-> Address_toAsn1(o.stakeAddress),
     stakeKey |-> PublicKey_toAsn1(o.stakeKey), newAddress |-> Address_toAsn1(o.newAddress),
     authAddress |-> Address_toAsn1(o.authAddress), authKey |-> PublicKey_toAsn1(o.authKey)]

\* Register::toAsn1; the content does not depend on the signatures.
LEMMA RegisterWrites ==
    ASSUME NEW o
    PROVE  /\ Register_toAsn1(o) = [content |-> Register_content(o),
                                    stakeSignature |-> Signature_toAsn1(o.stakeSignature),
                                    authSignature |-> Signature_toAsn1(o.authSignature)]
           /\ Register_toContent(o) = i2d("30", Register_content(o))
<1> DEFINE c == [asn1_RegisterContent EXCEPT
                    !.stakeAmount = Specie_toAsn1(o.stakeAmount),
                    !.stakeAddress = Address_toAsn1(o.stakeAddress),
                    !.stakeKey = PublicKey_toAsn1(o.stakeKey),
                    !.newAddress = Address_toAsn1(o.newAddress),
                    !.authAddress = Address_toAsn1(o.authAddress),
                    !.authKey = PublicKey_toAsn1(o.authKey)]
           t == Register_toAsn1(o)
<1>1. c = [asn1_RegisterContent EXCEPT
              !.stakeAmount = Specie_toAsn1(o.stakeAmount),
              !.stakeAddress = Address_toAsn1(o.stakeAddress),
              !.stakeKey = PublicKey_toAsn1(o.stakeKey),
              !.newAddress = Address_toAsn1(o.newAddress),
              !.authAddress = Address_toAsn1(o.authAddress),
              !.authKey = PublicKey_toAsn1(o.authKey)]
  OBVIOUS
<1>2. t = [asn1_Register EXCEPT
              !.content = c, !.stakeSignature = Signature_toAsn1(o.stakeSignature),
              !.authSignature = Signature_toAsn1(o.authSignature)]
  BY DEF Register_toAsn1
<1> HIDE DEF c, t
<1>3. c = Register_content(o)
  BY <1>1 DEF Register_content, asn1_RegisterContent
<1>4. t = [content |-> c, stakeSignature |-> Signature_toAsn1(o.stakeSignature),
           authSignature |-> Signature_toAsn1(o.authSignature)]
  BY <1>2 DEF asn1_Register
<1>5. t.content = c
  BY <1>4
<1> QED
  BY <1>3, <1>4, <1>5 DEF t, Register_toContent

\* Register::toAsn1 and fromAsn1 keep every member.
LEMMA RegisterReads ==
    ASSUME NEW o, Register_type(o), Register_long(o)
    PROVE  Register_fromAsn1(Register_toAsn1(o)) = o
<1> DEFINE t == Register_toAsn1(o)
           c == Register_content(o)
           d == Register_fromAsn1(t)
<1>1. t = [content |-> c, stakeSignature |-> Signature_toAsn1(o.stakeSignature),
           authSignature |-> Signature_toAsn1(o.authSignature)]
  BY RegisterWrites
<1>2. d = [Register_new EXCEPT
              !.stakeAmount = Specie_fromAsn1(t.content.stakeAmount),
              !.stakeAddress = Address_fromAsn1(t.content.stakeAddress),
              !.stakeKey = PublicKey_fromAsn1(t.content.stakeKey),
              !.newAddress = Address_fromAsn1(t.content.newAddress),
              !.authAddress = Address_fromAsn1(t.content.authAddress),
              !.authKey = PublicKey_fromAsn1(t.content.authKey),
              !.stakeSignature = Signature_fromAsn1(t.stakeSignature),
              !.authSignature = Signature_fromAsn1(t.authSignature)]
  <2> HIDE DEF t
  <2> QED BY DEF Register_fromAsn1
<1>3. /\ c.stakeAmount = Specie_toAsn1(o.stakeAmount)
      /\ c.stakeAddress = Address_toAsn1(o.stakeAddress)
      /\ c.stakeKey = PublicKey_toAsn1(o.stakeKey)
      /\ c.newAddress = Address_toAsn1(o.newAddress)
      /\ c.authAddress = Address_toAsn1(o.authAddress)
      /\ c.authKey = PublicKey_toAsn1(o.authKey)
  BY DEF Register_content
<1> HIDE DEF t, c, d
<1>4. /\ t.content = c /\ t.stakeSignature = Signature_toAsn1(o.stakeSignature)
      /\ t.authSignature = Signature_toAsn1(o.authSignature)
  BY <1>1
<1>5. d = [stakeAmount |-> Specie_fromAsn1(t.content.stakeAmount),
           stakeAddress |-> Address_fromAsn1(t.content.stakeAddress),
           stakeKey |-> PublicKey_fromAsn1(t.content.stakeKey),
           newAddress |-> Address_fromAsn1(t.content.newAddress),
           authAddress |-> Address_fromAsn1(t.content.authAddress),
           authKey |-> PublicKey_fromAsn1(t.content.authKey),
           stakeSignature |-> Signature_fromAsn1(t.stakeSignature),
           authSignature |-> Signature_fromAsn1(t.authSignature)]
  BY <1>2 DEF Register_new
<1>6. /\ Address_fromAsn1(t.content.stakeAddress) = o.stakeAddress
      /\ PublicKey_fromAsn1(t.content.stakeKey) = o.stakeKey
      /\ Address_fromAsn1(t.content.newAddress) = o.newAddress
      /\ Address_fromAsn1(t.content.authAddress) = o.authAddress
      /\ PublicKey_fromAsn1(t.content.authKey) = o.authKey
      /\ Signature_fromAsn1(t.stakeSignature) = o.stakeSignature
      /\ Signature_fromAsn1(t.authSignature) = o.authSignature
  BY <1>3, <1>4, ReadBytes
<1>7. Specie_fromAsn1(t.content.stakeAmount) = o.stakeAmount
  BY <1>3, <1>4, SpecieReads DEF Register_type, Register_long
<1>8. o = [stakeAmount |-> o.stakeAmount, stakeAddress |-> o.stakeAddress,
           stakeKey |-> o.stakeKey, newAddress |-> o.newAddress,
           authAddress |-> o.authAddress, authKey |-> o.authKey,
           stakeSignature |-> o.stakeSignature, authSignature |-> o.authSignature]
  BY DEF Register_type, Members, Register_new
<1> QED
  BY <1>5, <1>6, <1>7, <1>8 DEF d, t

\* The content of a change of credentials, the part that is signed.
CredentialChange_content(o) ==
    [authAddress |-> Address_toAsn1(o.authAddress),
     newAuthAddress |-> Address_toAsn1(o.newAuthAddress),
     stakeAddress |-> Address_toAsn1(o.stakeAddress),
     newStakeAddress |-> Address_toAsn1(o.newStakeAddress),
     newAuthKey |-> PublicKey_toAsn1(o.newAuthKey),
     stakeKey |-> PublicKey_toAsn1(o.stakeKey)]

\* CredentialChange::toAsn1; the content does not depend on the signatures.
LEMMA CredentialChangeWrites ==
    ASSUME NEW o
    PROVE  /\ CredentialChange_toAsn1(o) = [content |-> CredentialChange_content(o),
                                            authSignature |-> Signature_toAsn1(o.authSignature),
                                            newAuthSignature |-> Signature_toAsn1(o.newAuthSignature),
                                            stakeSignature |-> Signature_toAsn1(o.stakeSignature)]
           /\ CredentialChange_toContent(o) = i2d("30", CredentialChange_content(o))
<1> DEFINE c == [asn1_CredentialChangeContent EXCEPT
                    !.authAddress = Address_toAsn1(o.authAddress),
                    !.newAuthAddress = Address_toAsn1(o.newAuthAddress),
                    !.stakeAddress = Address_toAsn1(o.stakeAddress),
                    !.newStakeAddress = Address_toAsn1(o.newStakeAddress),
                    !.newAuthKey = PublicKey_toAsn1(o.newAuthKey),
                    !.stakeKey = PublicKey_toAsn1(o.stakeKey)]
           t == CredentialChange_toAsn1(o)
<1>1. c = [asn1_CredentialChangeContent EXCEPT
              !.authAddress = Address_toAsn1(o.authAddress),
              !.newAuthAddress = Address_toAsn1(o.newAuthAddress),
              !.stakeAddress = Address_toAsn1(o.stakeAddress),
              !.newStakeAddress = Address_toAsn1(o.newStakeAddress),
              !.newAuthKey = PublicKey_toAsn1(o.newAuthKey),
              !.stakeKey = PublicKey_toAsn1(o.stakeKey)]
  OBVIOUS
<1>2. t = [asn1_CredentialChange EXCEPT
              !.content = c, !.authSignature = Signature_toAsn1(o.authSignature),
              !.newAuthSignature = Signature_toAsn1(o.newAuthSignature),
              !.stakeSignature = Signature_toAsn1(o.stakeSignature)]
  BY DEF CredentialChange_toAsn1
<1> HIDE DEF c, t
<1>3. c = CredentialChange_content(o)
  BY <1>1 DEF CredentialChange_content, asn1_CredentialChangeContent
<1>4. t = [content |-> c, authSignature |-> Signature_toAsn1(o.authSignature),
           newAuthSignature |-> Signature_toAsn1(o.newAuthSignature),
           stakeSignature |-> Signature_toAsn1(o.stakeSignature)]
  BY <1>2 DEF asn1_CredentialChange
<1>5. t.content = c
  BY <1>4
<1> QED
  BY <1>3, <1>4, <1>5 DEF t, CredentialChange_toContent

\* CredentialChange::toAsn1 and fromAsn1 keep every member.
LEMMA CredentialChangeReads ==
    ASSUME NEW o, CredentialChange_type(o)
    PROVE  CredentialChange_fromAsn1(CredentialChange_toAsn1(o)) = o
<1> DEFINE t == CredentialChange_toAsn1(o)
           c == CredentialChange_content(o)
           d == CredentialChange_fromAsn1(t)
<1>1. t = [content |-> c, authSignature |-> Signature_toAsn1(o.authSignature),
           newAuthSignature |-> Signature_toAsn1(o.newAuthSignature),
           stakeSignature |-> Signature_toAsn1(o.stakeSignature)]
  BY CredentialChangeWrites
<1>2. d = [CredentialChange_new EXCEPT
              !.authAddress = Address_fromAsn1(t.content.authAddress),
              !.newAuthAddress = Address_fromAsn1(t.content.newAuthAddress),
              !.stakeAddress = Address_fromAsn1(t.content.stakeAddress),
              !.newStakeAddress = Address_fromAsn1(t.content.newStakeAddress),
              !.newAuthKey = PublicKey_fromAsn1(t.content.newAuthKey),
              !.stakeKey = PublicKey_fromAsn1(t.content.stakeKey),
              !.authSignature = Signature_fromAsn1(t.authSignature),
              !.newAuthSignature = Signature_fromAsn1(t.newAuthSignature),
              !.stakeSignature = Signature_fromAsn1(t.stakeSignature)]
  <2> HIDE DEF t
  <2> QED BY DEF CredentialChange_fromAsn1
<1>3. /\ c.authAddress = Address_toAsn1(o.authAddress)
      /\ c.newAuthAddress = Address_toAsn1(o.newAuthAddress)
      /\ c.stakeAddress = Address_toAsn1(o.stakeAddress)
      /\ c.newStakeAddress = Address_toAsn1(o.newStakeAddress)
      /\ c.newAuthKey = PublicKey_toAsn1(o.newAuthKey)
      /\ c.stakeKey = PublicKey_toAsn1(o.stakeKey)
  BY DEF CredentialChange_content
<1> HIDE DEF t, c, d
<1>4. /\ t.content = c /\ t.authSignature = Signature_toAsn1(o.authSignature)
      /\ t.newAuthSignature = Signature_toAsn1(o.newAuthSignature)
      /\ t.stakeSignature = Signature_toAsn1(o.stakeSignature)
  BY <1>1
<1>5. d = [authAddress |-> Address_fromAsn1(t.content.authAddress),
           newAuthAddress |-> Address_fromAsn1(t.content.newAuthAddress),
           stakeAddress |-> Address_fromAsn1(t.content.stakeAddress),
           newStakeAddress |-> Address_fromAsn1(t.content.newStakeAddress),
           newAuthKey |-> PublicKey_fromAsn1(t.content.newAuthKey),
           stakeKey |-> PublicKey_fromAsn1(t.content.stakeKey),
           authSignature |-> Signature_fromAsn1(t.authSignature),
           newAuthSignature |-> Signature_fromAsn1(t.newAuthSignature),
           stakeSignature |-> Signature_fromAsn1(t.stakeSignature)]
  BY <1>2 DEF CredentialChange_new
<1>6. /\ Address_fromAsn1(t.content.authAddress) = o.authAddress
      /\ Address_fromAsn1(t.content.newAuthAddress) = o.newAuthAddress
      /\ Address_fromAsn1(t.content.stakeAddress) = o.stakeAddress
      /\ Address_fromAsn1(t.content.newStakeAddress) = o.newStakeAddress
      /\ PublicKey_fromAsn1(t.content.newAuthKey) = o.newAuthKey
      /\ PublicKey_fromAsn1(t.content.stakeKey) = o.stakeKey
      /\ Signature_fromAsn1(t.authSignature) = o.authSignature
      /\ Signature_fromAsn1(t.newAuthSignature) = o.newAuthSignature
      /\ Signature_fromAsn1(t.stakeSignature) = o.stakeSignature
  BY <1>3, <1>4, ReadBytes
<1>8. o = [authAddress |-> o.authAddress, newAuthAddress |-> o.newAuthAddress,
           stakeAddress |-> o.stakeAddress, newStakeAddress |-> o.newStakeAddress,
           newAuthKey |-> o.newAuthKey, stakeKey |-> o.stakeKey,
           authSignature |-> o.authSignature, newAuthSignature |-> o.newAuthSignature,
           stakeSignature |-> o.stakeSignature]
  BY DEF CredentialChange_type, Members, CredentialChange_new
<1> QED
  BY <1>5, <1>6, <1>8 DEF d, t

-----------------------------------------------------------------------------
(* Transactions, reconciliations and nodes, which hold lists. *)

\* Transaction::toAsn1 and fromAsn1 keep every member.
LEMMA TransactionReads ==
    ASSUME NEW o, Transaction_type(o), Transaction_long(o)
    PROVE  Transaction_fromAsn1(Transaction_toAsn1(o)) = o
<1> DEFINE u == toStack(Transfer_toAsn1, o.transfer)
           a == [ASN1_CHOICE_new EXCEPT !.type = o.type, !.u = u]
           c == [asn1_TransactionContent EXCEPT
                    !.action = a,
                    !.time = Time_toAsn1(o.time),
                    !.signer = Address_toAsn1(o.signer),
                    !.signerKey = PublicKey_toAsn1(o.signerKey),
                    !.newAddress = Address_toAsn1(o.newAddress)]
           t == Transaction_toAsn1(o)
           transfer == fromStack(Transfer_fromAsn1, t.content.action.u)
           d == Transaction_fromAsn1(t)
<1>1. a = [ASN1_CHOICE_new EXCEPT !.type = o.type, !.u = u]
  OBVIOUS
<1>2. c = [asn1_TransactionContent EXCEPT
              !.action = a, !.time = Time_toAsn1(o.time), !.signer = Address_toAsn1(o.signer),
              !.signerKey = PublicKey_toAsn1(o.signerKey),
              !.newAddress = Address_toAsn1(o.newAddress)]
  OBVIOUS
<1>3. t = [asn1_Transaction EXCEPT !.content = c,
                                   !.signature = Signature_toAsn1(o.signature)]
  BY DEF Transaction_toAsn1, toStack
<1>4. d = [Transaction_new EXCEPT
              !.type = t.content.action.type, !.transfer = transfer,
              !.time = Time_fromAsn1(t.content.time),
              !.signer = Address_fromAsn1(t.content.signer),
              !.signerKey = PublicKey_fromAsn1(t.content.signerKey),
              !.newAddress = Address_fromAsn1(t.content.newAddress),
              !.signature = Signature_fromAsn1(t.signature)]
  <2> HIDE DEF t
  <2> QED BY DEF Transaction_fromAsn1, fromStack
<1>5. fromStack(Transfer_fromAsn1, u) = o.transfer
  BY TransfersRead DEF fromStack, toStack, Transaction_type, Transaction_long
<1> HIDE DEF u, a, c, t, d
<1>6. a.type = o.type /\ a.u = u
  BY <1>1 DEF ASN1_CHOICE_new
<1>7. /\ c.action = a /\ c.time = Time_toAsn1(o.time) /\ c.signer = Address_toAsn1(o.signer)
      /\ c.signerKey = PublicKey_toAsn1(o.signerKey)
      /\ c.newAddress = Address_toAsn1(o.newAddress)
  BY <1>2 DEF asn1_TransactionContent
<1>8. t.content = c /\ t.signature = Signature_toAsn1(o.signature)
  BY <1>3 DEF asn1_Transaction
<1>9. t.content.action.type = o.type /\ t.content.action.u = u
  BY <1>6, <1>7, <1>8
<1>10. transfer = o.transfer
  BY <1>5, <1>9 DEF fromStack
<1> HIDE DEF transfer
<1>11. d = [type |-> t.content.action.type, transfer |-> transfer,
            time |-> Time_fromAsn1(t.content.time),
            signer |-> Address_fromAsn1(t.content.signer),
            signerKey |-> PublicKey_fromAsn1(t.content.signerKey),
            newAddress |-> Address_fromAsn1(t.content.newAddress),
            signature |-> Signature_fromAsn1(t.signature)]
  BY <1>4 DEF Transaction_new
<1>12. Time_fromAsn1(t.content.time) = o.time
  BY <1>7, <1>8, ReadTime DEF Transaction_type, Transaction_long
<1>13. /\ Address_fromAsn1(t.content.signer) = o.signer
       /\ PublicKey_fromAsn1(t.content.signerKey) = o.signerKey
       /\ Address_fromAsn1(t.content.newAddress) = o.newAddress
       /\ Signature_fromAsn1(t.signature) = o.signature
  BY <1>7, <1>8, ReadBytes
<1>14. o = [type |-> o.type, transfer |-> o.transfer, time |-> o.time, signer |-> o.signer,
            signerKey |-> o.signerKey, newAddress |-> o.newAddress, signature |-> o.signature]
  BY DEF Transaction_type, Members, Transaction_new
<1> QED
  BY <1>9, <1>10, <1>11, <1>12, <1>13, <1>14 DEF d, t

\* An element of a decoded list keeps of the transaction what the move takes over.
LEMMA TransactionElement ==
    ASSUME NEW o, Transaction_type(o), Transaction_long(o)
    PROVE  Transaction_fromStackElement(Transaction_toAsn1(o)) =
               Transaction_move(Transaction_new, o)
  BY TransactionReads DEF Transaction_fromStackElement

\* The transactions of a node are read in order, each one cut down to its action.
LEMMA TransactionsRead ==
    ASSUME NEW s, List(s), \A i \in DOMAIN s : Transaction_type(s[i]) /\ Transaction_long(s[i])
    PROVE  LET t == toStack(Transaction_toAsn1, s)
           IN  List(t) /\ Len(t) = Len(s) /\ fromStack(Transaction_fromStackElement, t) = [i \in 1 .. Len(s) |-> Transaction_move(Transaction_new, s[i])]
<1> DEFINE t == [i \in 1 .. Len(s) |-> Transaction_toAsn1(s[i])]
           d == [i \in 1 .. Len(t) |-> Transaction_fromStackElement(t[i])]
<1>1. /\ Len(s) \in Nat /\ DOMAIN s = 1 .. Len(s)
      /\ s = [i \in 1 .. Len(s) |-> s[i]]
  BY ListIs
<1>2. List(t) /\ Len(t) = Len(s)
  <2>1. t = [i \in 1 .. Len(s) |-> t[i]]
    OBVIOUS
  <2> HIDE DEF t
  <2> QED BY <1>1, <2>1, FunctionIsList
<1>3. \A i \in 1 .. Len(s) : Transaction_fromStackElement(t[i]) = Transaction_move(Transaction_new, s[i])
  BY <1>1, TransactionElement
<1> HIDE DEF t
<1>4. d = [i \in 1 .. Len(s) |-> Transaction_move(Transaction_new, s[i])]
  BY <1>2, <1>3
<1> HIDE DEF d
<1>5. d = [i \in 1 .. Len(s) |-> Transaction_move(Transaction_new, s[i])]
  BY <1>1, <1>4
<1> QED
  BY <1>2, <1>5 DEF d, t, toStack, fromStack

\* The content of a reconciliation, the part that is signed and hashed.
Reconciliation_content(o) ==
    [protocol |-> fromUInt32(o.protocol), time |-> ASN1_INTEGER_new,
     chainId |-> fromUInt32(o.chainId), shardInfo |-> toStack(ShardInfo_toAsn1, o.shardInfo),
     leader |-> Address_toAsn1(o.leader)]

\* Reconciliation::toAsn1; the content does not depend on the signature and votes.
LEMMA ReconciliationWrites ==
    ASSUME NEW o
    PROVE  /\ Reconciliation_toAsn1(o) =
                  [content |-> Reconciliation_content(o),
                   signature |-> Signature_toAsn1(o.signature),
                   votes |-> toStack(Validation_toAsn1, o.votes)]
           /\ Reconciliation_toContent(o) = i2d("30", Reconciliation_content(o))
<1> DEFINE s == toStack(ShardInfo_toAsn1, o.shardInfo)
           v == toStack(Validation_toAsn1, o.votes)
           c == [asn1_ReconciliationContent EXCEPT
                    !.protocol = fromUInt32(o.protocol),
                    !.chainId = fromUInt32(o.chainId),
                    !.shardInfo = s,
                    !.leader = Address_toAsn1(o.leader)]
           t == Reconciliation_toAsn1(o)
<1>1. c = [asn1_ReconciliationContent EXCEPT
              !.protocol = fromUInt32(o.protocol), !.chainId = fromUInt32(o.chainId),
              !.shardInfo = s, !.leader = Address_toAsn1(o.leader)]
  OBVIOUS
<1>2. t = [asn1_Reconciliation EXCEPT
              !.content = c, !.signature = Signature_toAsn1(o.signature), !.votes = v]
  BY DEF Reconciliation_toAsn1, toStack
<1> HIDE DEF s, v, c, t
<1>3. c = [protocol |-> fromUInt32(o.protocol), time |-> ASN1_INTEGER_new,
           chainId |-> fromUInt32(o.chainId), shardInfo |-> s,
           leader |-> Address_toAsn1(o.leader)]
  BY <1>1 DEF asn1_ReconciliationContent
<1>4. c = Reconciliation_content(o)
  BY <1>3 DEF Reconciliation_content, s, toStack
<1>5. t = [content |-> c, signature |-> Signature_toAsn1(o.signature), votes |-> v]
  BY <1>2 DEF asn1_Reconciliation
<1>6. t.content = c
  BY <1>5
<1> QED
  BY <1>4, <1>5, <1>6 DEF t, v, Reconciliation_toContent, toStack

\* Reconciliation::fromAsn1 reads every member as it was written, and the
\* votes from the list that came with the content.
LEMMA ReconciliationReads ==
    ASSUME NEW o, o.protocol \in UInt32, o.chainId \in UInt32, List(o.shardInfo),
           \A i \in DOMAIN o.shardInfo : ShardInfo_type(o.shardInfo[i]), NEW w
    PROVE  Reconciliation_fromAsn1([content |-> Reconciliation_content(o),
                                    signature |-> Signature_toAsn1(o.signature),
                                    votes |-> w]) =
           [protocol |-> o.protocol, chainId |-> o.chainId, shardInfo |-> o.shardInfo,
            leader |-> o.leader, signature |-> o.signature,
            votes |-> fromStack(Validation_fromAsn1, w)]
<1> DEFINE c == Reconciliation_content(o)
           t == [content |-> c, signature |-> Signature_toAsn1(o.signature), votes |-> w]
           s == toStack(ShardInfo_toAsn1, o.shardInfo)
           infos == fromStack(ShardInfo_fromAsn1, t.content.shardInfo)
           votes == fromStack(Validation_fromAsn1, t.votes)
           d == Reconciliation_fromAsn1(t)
<1>1. d = [Reconciliation_new EXCEPT
              !.protocol = toUInt32(t.content.protocol),
              !.chainId = toUInt32(t.content.chainId), !.shardInfo = infos,
              !.leader = Address_fromAsn1(t.content.leader),
              !.signature = Signature_fromAsn1(t.signature), !.votes = votes]
  <2> HIDE DEF t
  <2> QED BY DEF Reconciliation_fromAsn1, fromStack
<1>2. fromStack(ShardInfo_fromAsn1, s) = o.shardInfo
  BY ShardInfosRead DEF fromStack, toStack
<1>3. c = [protocol |-> fromUInt32(o.protocol), time |-> ASN1_INTEGER_new,
           chainId |-> fromUInt32(o.chainId), shardInfo |-> s,
           leader |-> Address_toAsn1(o.leader)]
  BY DEF Reconciliation_content, toStack
<1> HIDE DEF c, s
<1>4. t.content = c /\ t.signature = Signature_toAsn1(o.signature) /\ t.votes = w
  OBVIOUS
<1> HIDE DEF t, d
<1>5. /\ c.protocol = fromUInt32(o.protocol) /\ c.chainId = fromUInt32(o.chainId)
      /\ c.shardInfo = s /\ c.leader = Address_toAsn1(o.leader)
  BY <1>3
<1>6. infos = o.shardInfo /\ votes = fromStack(Validation_fromAsn1, w)
  BY <1>2, <1>4, <1>5 DEF fromStack
<1> HIDE DEF infos, votes
<1>7. d = [protocol |-> toUInt32(t.content.protocol), chainId |-> toUInt32(t.content.chainId),
           shardInfo |-> infos, leader |-> Address_fromAsn1(t.content.leader),
           signature |-> Signature_fromAsn1(t.signature), votes |-> votes]
  BY <1>1 DEF Reconciliation_new
<1>8. toUInt32(t.content.protocol) = o.protocol /\ toUInt32(t.content.chainId) = o.chainId
  BY <1>4, <1>5, ReadUInt32
<1>9. /\ Address_fromAsn1(t.content.leader) = o.leader
      /\ Signature_fromAsn1(t.signature) = o.signature
  BY <1>4, <1>5, ReadBytes
<1> QED
  BY <1>6, <1>7, <1>8, <1>9 DEF d, t, c, fromStack

\* The content of a node, the part that is signed.
Node_content(o) ==
    [chainId |-> fromUInt64(o.chainId), shardId |-> fromUInt32(o.shardId),
     index |-> fromUInt32(o.index), prevHash |-> Hash_toAsn1(o.prevHash),
     transactions |-> toStack(Transaction_toAsn1, o.transactions), nonce |-> fromBin(o.nonce),
     leader |-> Address_toAsn1(o.leader), newAddress |-> Address_toAsn1(o.newAddress)]

\* Node::toAsn1; the content does not depend on the signature and votes.
LEMMA NodeWrites ==
    ASSUME NEW o
    PROVE  /\ Node_toAsn1(o) = [content |-> Node_content(o),
                                signature |-> Signature_toAsn1(o.signature),
                                votes |-> toStack(Validation_toAsn1, o.votes)]
           /\ Node_toContent(o) = i2d("30", Node_content(o))
<1> DEFINE s == toStack(Transaction_toAsn1, o.transactions)
           v == toStack(Validation_toAsn1, o.votes)
           c == [asn1_NodeContent EXCEPT
                    !.chainId = fromUInt64(o.chainId),
                    !.shardId = fromUInt32(o.shardId),
                    !.index = fromUInt32(o.index),
                    !.prevHash = Hash_toAsn1(o.prevHash),
                    !.transactions = s,
                    !.nonce = fromBin(o.nonce),
                    !.leader = Address_toAsn1(o.leader),
                    !.newAddress = Address_toAsn1(o.newAddress)]
           t == Node_toAsn1(o)
<1>1. c = [asn1_NodeContent EXCEPT
              !.chainId = fromUInt64(o.chainId), !.shardId = fromUInt32(o.shardId),
              !.index = fromUInt32(o.index), !.prevHash = Hash_toAsn1(o.prevHash),
              !.transactions = s, !.nonce = fromBin(o.nonce),
              !.leader = Address_toAsn1(o.leader),
              !.newAddress = Address_toAsn1(o.newAddress)]
  OBVIOUS
<1>2. t = [asn1_Node EXCEPT
              !.content = c, !.signature = Signature_toAsn1(o.signature), !.votes = v]
  BY DEF Node_toAsn1, toStack
<1> HIDE DEF s, v, c, t
<1>3. c = [chainId |-> fromUInt64(o.chainId), shardId |-> fromUInt32(o.shardId),
           index |-> fromUInt32(o.index), prevHash |-> Hash_toAsn1(o.prevHash),
           transactions |-> s, nonce |-> fromBin(o.nonce),
           leader |-> Address_toAsn1(o.leader), newAddress |-> Address_toAsn1(o.newAddress)]
  BY <1>1 DEF asn1_NodeContent
<1>4. c = Node_content(o)
  BY <1>3 DEF Node_content, s, toStack
<1>5. t = [content |-> c, signature |-> Signature_toAsn1(o.signature), votes |-> v]
  BY <1>2 DEF asn1_Node
<1>6. t.content = c
  BY <1>5
<1> QED
  BY <1>4, <1>5, <1>6 DEF t, v, Node_toContent, toStack

\* Node::fromAsn1 reads every member as it was written, but for the
\* transactions, cut down to their actions, and the votes, which are those of
\* the list that came with the content.
LEMMA NodeReads ==
    ASSUME NEW o, Node_type(o), Node_long(o), NEW w
    PROVE  Node_fromAsn1([content |-> Node_content(o),
                          signature |-> Signature_toAsn1(o.signature),
                          votes |-> w]) =
           [chainId |-> o.chainId, shardId |-> o.shardId, index |-> o.index,
            prevHash |-> o.prevHash,
            transactions |-> [i \in 1 .. Len(o.transactions) |->
                                 Transaction_move(Transaction_new, o.transactions[i])],
            nonce |-> o.nonce, leader |-> o.leader, newAddress |-> o.newAddress,
            signature |-> o.signature, votes |-> fromStack(Validation_fromAsn1, w)]
<1> DEFINE c == Node_content(o)
           t == [content |-> c, signature |-> Signature_toAsn1(o.signature), votes |-> w]
           s == toStack(Transaction_toAsn1, o.transactions)
           cut == [i \in 1 .. Len(o.transactions) |->
                      Transaction_move(Transaction_new, o.transactions[i])]
           txs == fromStack(Transaction_fromStackElement, t.content.transactions)
           votes == fromStack(Validation_fromAsn1, t.votes)
           d == Node_fromAsn1(t)
<1>1. d = [Node_new EXCEPT
              !.signature = Signature_fromAsn1(t.signature), !.votes = votes,
              !.chainId = toUInt64(t.content.chainId),
              !.shardId = toUInt32(t.content.shardId),
              !.index = toUInt32(t.content.index),
              !.prevHash = Hash_fromAsn1(t.content.prevHash),
              !.transactions = txs, !.nonce = toBin(t.content.nonce),
              !.leader = Address_fromAsn1(t.content.leader),
              !.newAddress = Address_fromAsn1(t.content.newAddress)]
  <2> HIDE DEF t
  <2> QED BY DEF Node_fromAsn1, fromStack
<1>2. fromStack(Transaction_fromStackElement, s) = cut
  BY TransactionsRead DEF fromStack, toStack, Node_type, Node_long
<1>3. c = [chainId |-> fromUInt64(o.chainId), shardId |-> fromUInt32(o.shardId),
           index |-> fromUInt32(o.index), prevHash |-> Hash_toAsn1(o.prevHash),
           transactions |-> s, nonce |-> fromBin(o.nonce),
           leader |-> Address_toAsn1(o.leader), newAddress |-> Address_toAsn1(o.newAddress)]
  BY DEF Node_content, toStack
<1> HIDE DEF c, s, cut
<1>4. t.content = c /\ t.signature = Signature_toAsn1(o.signature) /\ t.votes = w
  OBVIOUS
<1> HIDE DEF t, d
<1>5. /\ c.chainId = fromUInt64(o.chainId) /\ c.shardId = fromUInt32(o.shardId)
      /\ c.index = fromUInt32(o.index) /\ c.prevHash = Hash_toAsn1(o.prevHash)
      /\ c.transactions = s /\ c.nonce = fromBin(o.nonce)
      /\ c.leader = Address_toAsn1(o.leader) /\ c.newAddress = Address_toAsn1(o.newAddress)
  BY <1>3
<1>6. txs = cut /\ votes = fromStack(Validation_fromAsn1, w)
  BY <1>2, <1>4, <1>5 DEF fromStack
<1> HIDE DEF txs, votes
<1>7. d = [chainId |-> toUInt64(t.content.chainId), shardId |-> toUInt32(t.content.shardId),
           index |-> toUInt32(t.content.index),
           prevHash |-> Hash_fromAsn1(t.content.prevHash), transactions |-> txs,
           nonce |-> toBin(t.content.nonce), leader |-> Address_fromAsn1(t.content.leader),
           newAddress |-> Address_fromAsn1(t.content.newAddress),
           signature |-> Signature_fromAsn1(t.signature), votes |-> votes]
  BY <1>1 DEF Node_new
<1>8. /\ toUInt64(t.content.chainId) = o.chainId /\ toUInt32(t.content.shardId) = o.shardId
      /\ toUInt32(t.content.index) = o.index
  BY <1>4, <1>5, ReadUInt32, ReadUInt64 DEF Node_type, Node_long
<1>9. Hash_fromAsn1(t.content.prevHash) = o.prevHash
  BY <1>4, <1>5, HashReads DEF Node_type
<1>10. /\ toBin(t.content.nonce) = o.nonce /\ Address_fromAsn1(t.content.leader) = o.leader
       /\ Address_fromAsn1(t.content.newAddress) = o.newAddress
       /\ Signature_fromAsn1(t.signature) = o.signature
  BY <1>4, <1>5, ReadBytes
<1> QED
  BY <1>6, <1>7, <1>8, <1>9, <1>10 DEF d, t, c, cut, fromStack

-----------------------------------------------------------------------------
(* The SET OF the votes of an encoded block. *)

\* What sets of at most one element have for their number of elements.
LEMMA SmallCardinality ==
    ASSUME NEW v
    PROVE  Cardinality({}) = 0 /\ Cardinality({v}) = 1
<1>1. ASSUME NEW S, S \subseteq {v}
      PROVE  Cardinality(S) = IF S = {} THEN 0 ELSE 1
  <2> DEFINE Step(CS, T) == IF T = {} THEN 0 ELSE 1 + CS[T \ {CHOOSE x : x \in T}]
             Count == CHOOSE CS : CS = [T \in SUBSET S |-> Step(CS, T)]
             count == [T \in SUBSET S |-> IF T = {} THEN 0 ELSE 1]
  <2>1. \A T \in SUBSET S : T = {} \/ (T = S /\ T \ {CHOOSE x : x \in T} = {})
    BY <1>1
  <2>2. count = [T \in SUBSET S |-> Step(count, T)]
    BY <2>1, SMT
  <2>3. Count = [T \in SUBSET S |-> Step(Count, T)]
    BY <2>2
  <2>4. Cardinality(S) = Count[S]
    BY DEF Cardinality
  <2> HIDE DEF Count
  <2>5. Count[{}] = 0
    BY <2>3
  <2> QED
    BY <2>1, <2>3, <2>4, <2>5, SMT
<1> QED
  BY <1>1

\* SetOf depends on the votes and not on their order.
LEMMA SetOfRange ==
    ASSUME NEW u, NEW v, Range(u) = Range(v)
    PROVE  SetOf(u) = SetOf(v)
  BY DEF SetOf

\* The DER encoding of a SET OF one vote.
LEMMA OneVote ==
    ASSUME NEW v
    PROVE  SetOf(<<v>>) = <<v>>
<1>1. Range(<<v>>) = {v}
  BY SMT DEF Range
<1>2. Cardinality({v}) = 1
  BY SmallCardinality
<1>3. <<v>> \in [1 .. 1 -> {v}] /\ \A f \in [1 .. 1 -> {v}] : f = <<v>>
  BY SMT
<1>4. \A i, j \in DOMAIN <<v>> : ~(i < j)
  BY SMT
<1> QED
  BY <1>1, <1>2, <1>3, <1>4 DEF SetOf

-----------------------------------------------------------------------------
(* Blocks: the CHOICE around the three kinds of block. *)

genesisBlock(g) ==
    [type |-> "Genesis", genesis |-> <<g>>, reconciliation |-> <<>>, node |-> <<>>]
reconciliationBlock(r) ==
    [type |-> "Reconciliation", genesis |-> <<>>, reconciliation |-> <<r>>, node |-> <<>>]
nodeBlock(n) ==
    [type |-> "Node", genesis |-> <<>>, reconciliation |-> <<>>, node |-> <<n>>]

\* What the encoding of a reconciliation or node carries, votes as a SET OF.
reconciliationWire(r) ==
    [content |-> Reconciliation_content(r), signature |-> Signature_toAsn1(r.signature),
     votes |-> SetOf(toStack(Validation_toAsn1, r.votes))]
nodeWire(n) ==
    [content |-> Node_content(n), signature |-> Signature_toAsn1(n.signature),
     votes |-> SetOf(toStack(Validation_toAsn1, n.votes))]

\* The setters leave nothing of the block that was there.
LEMMA BlockSetters ==
    \A b, x : /\ Block_setGenesis(b, x) = genesisBlock(x)
              /\ Block_setReconciliation(b, x) = reconciliationBlock(x)
              /\ Block_setNode(b, x) = nodeBlock(x)
<1> SUFFICES ASSUME NEW b, NEW x
             PROVE  /\ Block_setGenesis(b, x) = genesisBlock(x)
                    /\ Block_setReconciliation(b, x) = reconciliationBlock(x)
                    /\ Block_setNode(b, x) = nodeBlock(x)
  OBVIOUS
<1> DEFINE p == <<x>>
           g == Block_setGenesis(b, x)
           r == Block_setReconciliation(b, x)
           n == Block_setNode(b, x)
<1>1. /\ g = [Block_new EXCEPT !.type = "Genesis", !.genesis = p]
      /\ r = [Block_new EXCEPT !.type = "Reconciliation", !.reconciliation = p]
      /\ n = [Block_new EXCEPT !.type = "Node", !.node = p]
  BY DEF Block_setGenesis, Block_setReconciliation, Block_setNode, Block_resetChoice
<1> HIDE DEF p, g, r, n
<1>2. g = [type |-> "Genesis", genesis |-> p, reconciliation |-> <<>>, node |-> <<>>]
  BY <1>1 DEF Block_new
<1>3. r = [type |-> "Reconciliation", genesis |-> <<>>, reconciliation |-> p, node |-> <<>>]
  BY <1>1 DEF Block_new
<1>4. n = [type |-> "Node", genesis |-> <<>>, reconciliation |-> <<>>, node |-> p]
  BY <1>1 DEF Block_new
<1> QED
  BY <1>2, <1>3, <1>4 DEF g, r, n, p, genesisBlock, reconciliationBlock, nodeBlock

\* The pointers of a block.
LEMMA BlockMembers ==
    \A x : /\ genesisBlock(x).type = "Genesis" /\ genesisBlock(x).genesis = <<x>>
           /\ genesisBlock(x).genesis[1] = x
           /\ reconciliationBlock(x).type = "Reconciliation"
           /\ reconciliationBlock(x).reconciliation = <<x>>
           /\ reconciliationBlock(x).reconciliation[1] = x
           /\ nodeBlock(x).type = "Node" /\ nodeBlock(x).node = <<x>>
           /\ nodeBlock(x).node[1] = x
<1>1. \A x : /\ genesisBlock(x).type = "Genesis" /\ genesisBlock(x).genesis = <<x>>
             /\ reconciliationBlock(x).type = "Reconciliation"
             /\ reconciliationBlock(x).reconciliation = <<x>>
             /\ nodeBlock(x).type = "Node" /\ nodeBlock(x).node = <<x>>
  BY DEF genesisBlock, reconciliationBlock, nodeBlock
<1> QED
  BY <1>1, Pointers

\* Block::toAsn1 sets the alternative that the type names.
LEMMA BlockToAsn1 ==
    /\ Block_toAsn1(Block_new) = [type |-> "None", u |-> <<>>]
    /\ \A x : /\ Block_toAsn1(genesisBlock(x)) =
                     [type |-> "Genesis", u |-> <<Genesis_toAsn1(x)>>]
              /\ Block_toAsn1(reconciliationBlock(x)) =
                     [type |-> "Reconciliation", u |-> <<Reconciliation_toAsn1(x)>>]
              /\ Block_toAsn1(nodeBlock(x)) = [type |-> "Node", u |-> <<Node_toAsn1(x)>>]
<1> DEFINE U(o) == CASE o.type = "None" -> <<>>
                     [] o.type = "Genesis" -> <<Genesis_toAsn1(o.genesis[1])>>
                     [] o.type = "Reconciliation" ->
                             <<Reconciliation_toAsn1(o.reconciliation[1])>>
                     [] o.type = "Node" -> <<Node_toAsn1(o.node[1])>>
<1>1. \A o : Block_toAsn1(o) = [asn1_Block EXCEPT !.type = o.type, !.u = U(o)]
  BY DEF Block_toAsn1
<1>2. U(Block_new) = <<>> /\ Block_new.type = "None"
  BY DEF Block_new
<1>3. \A x : /\ U(genesisBlock(x)) = <<Genesis_toAsn1(x)>>
             /\ U(reconciliationBlock(x)) = <<Reconciliation_toAsn1(x)>>
             /\ U(nodeBlock(x)) = <<Node_toAsn1(x)>>
  <2> SUFFICES ASSUME NEW x
               PROVE  /\ U(genesisBlock(x)) = <<Genesis_toAsn1(x)>>
                      /\ U(reconciliationBlock(x)) = <<Reconciliation_toAsn1(x)>>
                      /\ U(nodeBlock(x)) = <<Node_toAsn1(x)>>
    OBVIOUS
  <2>1. U(genesisBlock(x)) = <<Genesis_toAsn1(x)>>
    BY BlockMembers
  <2>2. U(reconciliationBlock(x)) = <<Reconciliation_toAsn1(x)>>
    BY BlockMembers
  <2>3. U(nodeBlock(x)) = <<Node_toAsn1(x)>>
    BY BlockMembers
  <2> QED BY <2>1, <2>2, <2>3
<1> HIDE DEF U
<1>4. \A o : Block_toAsn1(o) = [type |-> o.type, u |-> U(o)]
  BY <1>1 DEF asn1_Block, ASN1_CHOICE_new
<1> QED
  BY <1>2, <1>3, <1>4, BlockMembers

\* Block::fromAsn1 sets the pointer of the alternative.
LEMMA BlockFromAsn1 ==
    /\ Block_fromAsn1([type |-> "None", u |-> <<>>]) = Block_new
    /\ \A t : /\ Block_fromAsn1([type |-> "Genesis", u |-> <<t>>]) =
                     genesisBlock(Genesis_fromAsn1(t))
              /\ Block_fromAsn1([type |-> "Reconciliation", u |-> <<t>>]) =
                     reconciliationBlock(Reconciliation_fromAsn1(t))
              /\ Block_fromAsn1([type |-> "Node", u |-> <<t>>]) =
                     nodeBlock(Node_fromAsn1(t))
<1>1. Block_fromAsn1([type |-> "None", u |-> <<>>]) = Block_new
  BY DEF Block_fromAsn1
<1>2. ASSUME NEW t, NEW a, a.u[1] = t
      PROVE  /\ a.type = "Genesis" => Block_fromAsn1(a) = genesisBlock(Genesis_fromAsn1(t))
             /\ a.type = "Reconciliation" =>
                    Block_fromAsn1(a) = reconciliationBlock(Reconciliation_fromAsn1(t))
             /\ a.type = "Node" => Block_fromAsn1(a) = nodeBlock(Node_fromAsn1(t))
  BY <1>2, BlockSetters DEF Block_fromAsn1
<1>3. \A t : /\ [type |-> "Genesis", u |-> <<t>>].u[1] = t
             /\ [type |-> "Reconciliation", u |-> <<t>>].u[1] = t
             /\ [type |-> "Node", u |-> <<t>>].u[1] = t
  BY Pointers
<1> QED
  BY <1>1, <1>2, <1>3

\* operator=(const Block &).
LEMMA BlockCopies ==
    /\ Block_copy(Block_new) = Block_new
    /\ \A x : /\ Block_copy(genesisBlock(x)) =
                     genesisBlock(Genesis_fromAsn1(Genesis_toAsn1(x)))
              /\ Block_copy(reconciliationBlock(x)) =
                     reconciliationBlock(Reconciliation_fromAsn1(Reconciliation_toAsn1(x)))
              /\ Block_copy(nodeBlock(x)) = nodeBlock(Node_fromAsn1(Node_toAsn1(x)))
  BY BlockToAsn1, BlockFromAsn1 DEF Block_copy

\* Block::encode: the tag of the alternative, then its structure.
LEMMA BlockEncodes ==
    /\ Block_encode(Block_new) = <<"05", <<>>>>
    /\ \A x : /\ Block_encode(genesisBlock(x)) = <<"A1", Genesis_toAsn1(x)>>
              /\ Block_encode(reconciliationBlock(x)) = <<"A2", reconciliationWire(x)>>
              /\ Block_encode(nodeBlock(x)) = <<"A3", nodeWire(x)>>
<1>1. ASSUME NEW t, NEW a, a.u[1] = t
      PROVE  /\ a.type = "None" => i2d_Block(a) = <<"05", <<>>>>
             /\ a.type = "Genesis" => i2d_Block(a) = <<"A1", t>>
             /\ a.type = "Reconciliation" =>
                    i2d_Block(a) = <<"A2", [t EXCEPT !.votes = SetOf(t.votes)]>>
             /\ a.type = "Node" => i2d_Block(a) = <<"A3", [t EXCEPT !.votes = SetOf(t.votes)]>>
  BY <1>1 DEF i2d_Block, i2d, i2d_Reconciliation, i2d_Node
<1>2. \A t : /\ [type |-> "Genesis", u |-> <<t>>].u[1] = t
             /\ [type |-> "Reconciliation", u |-> <<t>>].u[1] = t
             /\ [type |-> "Node", u |-> <<t>>].u[1] = t
  BY Pointers
<1>3. ASSUME NEW c, NEW s, NEW v, NEW t, t = [content |-> c, signature |-> s, votes |-> v]
      PROVE  [t EXCEPT !.votes = SetOf(t.votes)] =
                 [content |-> c, signature |-> s, votes |-> SetOf(v)]
  <2>1. PICK w : w = SetOf(t.votes)
    OBVIOUS
  <2>2. t.votes = v
    BY <1>3
  <2>3. [t EXCEPT !.votes = w] = [content |-> c, signature |-> s, votes |-> w]
    BY <1>3, SMT
  <2> QED BY <2>1, <2>2, <2>3
<1>4. ASSUME NEW x
      PROVE  LET t == Reconciliation_toAsn1(x)
             IN  [t EXCEPT !.votes = SetOf(t.votes)] = reconciliationWire(x)
  <2> DEFINE c == Reconciliation_content(x)
             z == Signature_toAsn1(x.signature)
             v == toStack(Validation_toAsn1, x.votes)
             t == Reconciliation_toAsn1(x)
  <2>1. t = [content |-> c, signature |-> z, votes |-> v]
    BY ReconciliationWrites DEF toStack
  <2>2. reconciliationWire(x) = [content |-> c, signature |-> z, votes |-> SetOf(v)]
    BY DEF reconciliationWire, toStack
  <2> HIDE DEF c, z, v, t
  <2>3. [t EXCEPT !.votes = SetOf(t.votes)] = [content |-> c, signature |-> z, votes |-> SetOf(v)]
    BY <1>3, <2>1
  <2> QED BY <2>2, <2>3 DEF t
<1>5. ASSUME NEW x
      PROVE  LET t == Node_toAsn1(x) IN [t EXCEPT !.votes = SetOf(t.votes)] = nodeWire(x)
  <2> DEFINE c == Node_content(x)
             z == Signature_toAsn1(x.signature)
             v == toStack(Validation_toAsn1, x.votes)
             t == Node_toAsn1(x)
  <2>1. t = [content |-> c, signature |-> z, votes |-> v]
    BY NodeWrites DEF toStack
  <2>2. nodeWire(x) = [content |-> c, signature |-> z, votes |-> SetOf(v)]
    BY DEF nodeWire, toStack
  <2> HIDE DEF c, z, v, t
  <2>3. [t EXCEPT !.votes = SetOf(t.votes)] = [content |-> c, signature |-> z, votes |-> SetOf(v)]
    BY <1>3, <2>1
  <2> QED BY <2>2, <2>3 DEF t
<1>6. i2d_Block([type |-> "None", u |-> <<>>]) = <<"05", <<>>>>
  BY <1>1
<1>7. ASSUME NEW x
      PROVE  /\ Block_encode(genesisBlock(x)) = <<"A1", Genesis_toAsn1(x)>>
             /\ Block_encode(reconciliationBlock(x)) = <<"A2", reconciliationWire(x)>>
             /\ Block_encode(nodeBlock(x)) = <<"A3", nodeWire(x)>>
  <2>1. Block_encode(genesisBlock(x)) = <<"A1", Genesis_toAsn1(x)>>
    <3> DEFINE t == Genesis_toAsn1(x)
               a == [type |-> "Genesis", u |-> <<t>>]
    <3>1. Block_toAsn1(genesisBlock(x)) = a
      BY BlockToAsn1
    <3>2. a.type = "Genesis" /\ a.u[1] = t
      BY <1>2
    <3> HIDE DEF a, t
    <3>3. i2d_Block(a) = <<"A1", t>>
      BY <1>1, <3>2
    <3> QED BY <3>1, <3>3 DEF Block_encode, t
  <2>2. Block_encode(reconciliationBlock(x)) = <<"A2", reconciliationWire(x)>>
    <3> DEFINE t == Reconciliation_toAsn1(x)
               a == [type |-> "Reconciliation", u |-> <<t>>]
    <3>1. Block_toAsn1(reconciliationBlock(x)) = a
      BY BlockToAsn1
    <3>2. a.type = "Reconciliation" /\ a.u[1] = t
      BY <1>2
    <3> HIDE DEF a, t
    <3>3. i2d_Block(a) = <<"A2", [t EXCEPT !.votes = SetOf(t.votes)]>>
      BY <1>1, <3>2
    <3> QED BY <1>4, <3>1, <3>3 DEF Block_encode, t
  <2>3. Block_encode(nodeBlock(x)) = <<"A3", nodeWire(x)>>
    <3> DEFINE t == Node_toAsn1(x)
               a == [type |-> "Node", u |-> <<t>>]
    <3>1. Block_toAsn1(nodeBlock(x)) = a
      BY BlockToAsn1
    <3>2. a.type = "Node" /\ a.u[1] = t
      BY <1>2
    <3> HIDE DEF a, t
    <3>3. i2d_Block(a) = <<"A3", [t EXCEPT !.votes = SetOf(t.votes)]>>
      BY <1>1, <3>2
    <3> QED BY <1>5, <3>1, <3>3 DEF Block_encode, t
  <2> QED BY <2>1, <2>2, <2>3
<1>8. Block_encode(Block_new) = <<"05", <<>>>>
  BY <1>6, BlockToAsn1 DEF Block_encode
<1> QED
  BY <1>7, <1>8

\* decode of what Block::encode wrote.
LEMMA BlockDecodes ==
    ASSUME NEW hash
    PROVE  /\ decode_Block(Block_encode(Block_new), hash) = Block_new
           /\ \A x : /\ decode_Block(Block_encode(genesisBlock(x)), hash) =
                            genesisBlock(Genesis_fromAsn1(Genesis_toAsn1(x)))
                     /\ decode_Block(Block_encode(reconciliationBlock(x)), hash) =
                            reconciliationBlock(Reconciliation_fromAsn1(reconciliationWire(x)))
                     /\ decode_Block(Block_encode(nodeBlock(x)), hash) =
                            nodeBlock(Node_fromAsn1(nodeWire(x)))
<1>1. \A t : /\ d2i_Block(<<"05", t>>) = <<[type |-> "None", u |-> <<>>]>>
             /\ d2i_Block(<<"A1", t>>) = <<[type |-> "Genesis", u |-> <<t>>]>>
             /\ d2i_Block(<<"A2", t>>) = <<[type |-> "Reconciliation", u |-> <<t>>]>>
             /\ d2i_Block(<<"A3", t>>) = <<[type |-> "Node", u |-> <<t>>]>>
  BY DEF d2i_Block
<1>2. \A data, a : d2i_Block(data) = <<a>> => decode_Block(data, hash) = Block_fromAsn1(a)
  <2> SUFFICES ASSUME NEW data, NEW a, d2i_Block(data) = <<a>>
               PROVE  decode_Block(data, hash) = Block_fromAsn1(a)
    OBVIOUS
  <2>1. <<a>> # <<>> /\ <<a>>[1] = a
    BY SMT
  <2> QED BY <2>1 DEF decode_Block
<1>3. ASSUME NEW t
      PROVE  /\ decode_Block(<<"05", t>>, hash) = Block_new
             /\ decode_Block(<<"A1", t>>, hash) = genesisBlock(Genesis_fromAsn1(t))
             /\ decode_Block(<<"A2", t>>, hash) =
                    reconciliationBlock(Reconciliation_fromAsn1(t))
             /\ decode_Block(<<"A3", t>>, hash) = nodeBlock(Node_fromAsn1(t))
  <2>1. decode_Block(<<"05", t>>, hash) = Block_fromAsn1([type |-> "None", u |-> <<>>])
    BY <1>1, <1>2
  <2>2. decode_Block(<<"A1", t>>, hash) = Block_fromAsn1([type |-> "Genesis", u |-> <<t>>])
    BY <1>1, <1>2
  <2>3. decode_Block(<<"A2", t>>, hash) =
            Block_fromAsn1([type |-> "Reconciliation", u |-> <<t>>])
    BY <1>1, <1>2
  <2>4. decode_Block(<<"A3", t>>, hash) = Block_fromAsn1([type |-> "Node", u |-> <<t>>])
    BY <1>1, <1>2
  <2> QED BY <2>1, <2>2, <2>3, <2>4, BlockFromAsn1
<1>4. decode_Block(Block_encode(Block_new), hash) = Block_new
  BY <1>3, BlockEncodes
<1>5. ASSUME NEW x
      PROVE  /\ decode_Block(Block_encode(genesisBlock(x)), hash) =
                    genesisBlock(Genesis_fromAsn1(Genesis_toAsn1(x)))
             /\ decode_Block(Block_encode(reconciliationBlock(x)), hash) =
                    reconciliationBlock(Reconciliation_fromAsn1(reconciliationWire(x)))
             /\ decode_Block(Block_encode(nodeBlock(x)), hash) =
                    nodeBlock(Node_fromAsn1(nodeWire(x)))
  BY <1>3, BlockEncodes
<1> QED
  BY <1>4, <1>5

=============================================================================
