------------------------- MODULE BlockObjectsProofs -------------------------
(***************************************************************************)
(* Proofs about the objects of src/block on their way between programs,    *)
(* for any number of variables and validators and any objects whose 64 bit *)
(* integers fit in a long.                                                 *)
(*                                                                         *)
(* What is said of an object is about the one it was copied from, however  *)
(* many copies, encodings and moves ago.  So the invariant relates every   *)
(* variable to the object as built: equal but for the votes, and for the   *)
(* transactions of a node, of which only the actions are kept.  The bytes  *)
(* on the wire are those of some object related in the same way to the one *)
(* they were made from.  The signatures are part of the invariant, since a *)
(* vote is added to one copy and is carried on by the next.                *)
(***************************************************************************)
EXTENDS ObjectsProofs

\* Leaves that name no prover are left to Zenon.
USE Zenon

-----------------------------------------------------------------------------
(* The invariant. *)

Good(c, o) ==
    /\ c = "Block" => GoodBlock(o)
    /\ c = "Transaction" => GoodTransaction(o)
    /\ c = "MineAction" => GoodMineAction(o)

\* o is a copy of b: a transaction that is moved keeps its action only, and a
\* mine action all there is.
Same(c, o, b) ==
    /\ c = "Block" => SameBlock(o, b)
    /\ c = "Transaction" => Action(o) = Action(b)
    /\ c = "MineAction" => o = b

\* o is a copy of the object that org names.
From(c, org, o) == org = <<>> \/ \E b : org = <<b>> /\ Good(c, b) /\ Same(c, o, b)

ObjectsInv ==
    /\ class \in Classes
    /\ slot = [s \in Slots |-> slot[s]] /\ origin = [s \in Slots |-> origin[s]]
    /\ \A s \in Slots : Good(class, slot[s]) /\ From(class, origin[s], slot[s])
    /\ \/ wire = <<>>
       \/ wire = <<"garbage">>
       \/ \E o : wire = encode(class, o) /\ Good(class, o) /\ From(class, wireOrigin, o)

\* An object as it is built is a copy of itself.
LEMMA Built ==
    ASSUME NEW c, NEW o, Good(c, o)
    PROVE  From(c, <<o>>, o)
  BY DEF From, Same, SameBlock

\* A copy of a copy is a copy.
LEMMA CopyOfCopy ==
    ASSUME NEW c \in Classes, NEW org, NEW o, From(c, org, o), NEW d, Same(c, d, o)
    PROVE  From(c, org, d)
<1>1. CASE org = <<>>
  BY <1>1 DEF From
<1>2. ASSUME NEW b, org = <<b>>, Good(c, b), Same(c, o, b) PROVE From(c, org, d)
  <2>1. Same(c, d, b)
    <3>1. CASE c = "Block"
      BY <1>2, <3>1, SameBlockTransitive DEF Same
    <3>2. CASE c = "Transaction"
      BY <1>2, <3>2 DEF Same
    <3>3. CASE c = "MineAction"
      BY <1>2, <3>3 DEF Same
    <3> QED BY <3>1, <3>2, <3>3 DEF Classes
  <2> QED BY <1>2, <2>1 DEF From
<1> QED
  BY <1>1, <1>2 DEF From

\* A default constructed object.
LEMMA NewGood ==
    ASSUME NEW c \in Classes
    PROVE  Good(c, new(c))
<1>1. GoodBlock(Block_new) /\ GoodMineAction(MineAction_new)
  BY DEF GoodBlock, GoodMineAction
<1>2. GoodTransaction(Transaction_new)
  <2> DEFINE t == Transaction_new
  <2>1. /\ t.type = "None" /\ t.transfer = <<>> /\ t.time = 0 /\ t.signer = <<>>
        /\ t.signerKey = <<>> /\ t.newAddress = <<>> /\ t.signature = <<>>
        /\ Members(t, Transaction_new)
    BY DEF Transaction_new, Time_new, Members
  <2>2. 0 \in UInt64 /\ 0 <= LongMax
    BY WidthAssumption, SMT DEF UInt64, UInt64Max
  <2>3. List(<<>>) /\ Len(<<>>) = 0 /\ DOMAIN <<>> = {} /\ BinData(<<>>)
    <3>1. DOMAIN <<>> = {}
      BY SMT
    <3> QED BY <3>1, Pointers, ShortBytes
  <2> HIDE DEF t
  <2>4. Transaction_type(t)
    BY <2>1, <2>2, <2>3 DEF Transaction_type, TransactionActions, Time_type
  <2>5. Transaction_long(t)
    BY <2>1, <2>2, <2>3 DEF Transaction_long
  <2> QED BY <2>4, <2>5 DEF t, GoodTransaction
<1>3. CASE c = "Block"
  BY <1>1, <1>3 DEF Good, new
<1>4. CASE c = "Transaction"
  BY <1>2, <1>4 DEF Good, new
<1>5. CASE c = "MineAction"
  BY <1>1, <1>5 DEF Good, new
<1> QED
  BY <1>3, <1>4, <1>5 DEF Classes

\* An encoding is read as a copy of the object it was made from, whatever the
\* object it is read into was before.
LEMMA Decoded ==
    ASSUME NEW c \in Classes, NEW o, Good(c, o), NEW x
    PROVE  /\ Len(encode(c, o)) = 2
           /\ Good(c, decode(c, encode(c, o), x))
           /\ Same(c, decode(c, encode(c, o), x), o)
<1>1. \A tag, t : Len(i2d(tag, t)) = 2 /\ i2d(tag, t)[2] = t
  BY SMT DEF i2d
<1>2. CASE c = "Block"
  <2>1. encode(c, o) = Block_encode(o)
    BY <1>2 DEF encode
  <2>2. decode(c, encode(c, o), x) = decode_Block(Block_encode(o), x)
    BY <1>2, <2>1 DEF decode
  <2>3. GoodBlock(o)
    BY <1>2 DEF Good
  <2>4. Len(Block_encode(o)) = 2
    <3>1. \A tag, t : Len(<<tag, t>>) = 2
      BY SMT
    <3>2. \E tag, t : Block_encode(o) = <<tag, t>>
      BY <2>3, BlockEncodes DEF GoodBlock
    <3> QED BY <3>1, <3>2
  <2> QED BY <1>2, <2>1, <2>2, <2>3, <2>4, DecodeKept DEF Good, Same
<1>3. CASE c = "Transaction"
  <2>1. encode(c, o) = i2d("30", Transaction_toAsn1(o))
    BY <1>3 DEF encode
  <2>2. GoodTransaction(o)
    BY <1>3 DEF Good
  <2> DEFINE data == encode(c, o)
  <2>3. Len(data) = 2 /\ data[2] = Transaction_toAsn1(o)
    BY <1>1, <2>1
  <2> HIDE DEF data
  <2>4. decode(c, data, x) = Transaction_fromAsn1(Transaction_toAsn1(o))
    BY <1>3, <2>3 DEF decode
  <2>5. decode(c, data, x) = o
    BY <2>2, <2>4, TransactionReads DEF GoodTransaction
  <2> QED BY <1>3, <2>3, <2>5 DEF data, Same
<1>4. CASE c = "MineAction"
  <2>1. encode(c, o) = i2d("choice", MineAction_toAsn1(o))
    BY <1>4 DEF encode
  <2>2. GoodMineAction(o)
    BY <1>4 DEF Good
  <2> DEFINE data == encode(c, o)
  <2>3. Len(data) = 2 /\ data[2] = MineAction_toAsn1(o)
    BY <1>1, <2>1
  <2> HIDE DEF data
  <2>4. decode(c, data, x) = MineAction_fromAsn1(MineAction_toAsn1(o))
    BY <1>4, <2>3 DEF decode
  <2>5. decode(c, data, x) = o
    BY <2>2, <2>4, MineActionKept
  <2> QED BY <1>4, <2>3, <2>5 DEF data, Same
<1> QED
  BY <1>2, <1>3, <1>4 DEF Classes

\* Damaged bytes leave the object as it was.
LEMMA NotDecoded ==
    ASSUME NEW c \in Classes, NEW x
    PROVE  Len(<<"garbage">>) = 1 /\ decode(c, <<"garbage">>, x) = x
<1> DEFINE data == <<"garbage">>
<1>1. Len(data) # 2 /\ Len(data) = 1
  BY SMT
<1> HIDE DEF data
<1>2. decode_Block(data, x) = x
  BY <1>1 DEF decode_Block, d2i_Block
<1> QED
  BY <1>1, <1>2 DEF decode, Classes, data

\* A move takes all there is of a block.
LEMMA BlockMoved ==
    ASSUME NEW l, NEW o, GoodBlock(o)
    PROVE  Block_move(l, o) = o
<1> DEFINE d == Block_move(l, o)
<1>1. d = [Block_new EXCEPT !.type = o.type, !.genesis = o.genesis,
                            !.reconciliation = o.reconciliation, !.node = o.node]
  BY DEF Block_move, Block_resetChoice
<1> HIDE DEF d
<1>2. d = [type |-> o.type, genesis |-> o.genesis, reconciliation |-> o.reconciliation,
           node |-> o.node]
  BY <1>1 DEF Block_new
<1>3. o = [type |-> o.type, genesis |-> o.genesis, reconciliation |-> o.reconciliation,
           node |-> o.node]
  <2>1. CASE o = Block_new
    BY <2>1 DEF Block_new
  <2>2. ASSUME NEW x, o = genesisBlock(x) \/ o = reconciliationBlock(x) \/ o = nodeBlock(x)
        PROVE  o = [type |-> o.type, genesis |-> o.genesis,
                    reconciliation |-> o.reconciliation, node |-> o.node]
    BY <2>2 DEF genesisBlock, reconciliationBlock, nodeBlock
  <2> QED BY <2>1, <2>2 DEF GoodBlock
<1> QED
  BY <1>2, <1>3 DEF d

\* A transaction with the choice of another one, or with none.
LEMMA TransactionMoved ==
    ASSUME NEW l, GoodTransaction(l), NEW t, GoodTransaction(t)
    PROVE  LET d == Transaction_move(l, t)
               e == Transaction_resetChoice(l)
           IN  GoodTransaction(d) /\ Action(d) = Action(t) /\ GoodTransaction(e)
<1> DEFINE d == Transaction_move(l, t)
           e == Transaction_resetChoice(l)
<1>1. e = [l EXCEPT !.type = "None", !.transfer = <<>>]
  BY DEF Transaction_resetChoice
<1>2. d = [e EXCEPT !.type = t.type, !.transfer = t.transfer]
  BY DEF Transaction_move
<1> HIDE DEF d, e
<1>3. l = [type |-> l.type, transfer |-> l.transfer, time |-> l.time, signer |-> l.signer,
           signerKey |-> l.signerKey, newAddress |-> l.newAddress, signature |-> l.signature]
  BY DEF GoodTransaction, Transaction_type, Members, Transaction_new
<1>4. e = [type |-> "None", transfer |-> <<>>, time |-> l.time, signer |-> l.signer,
           signerKey |-> l.signerKey, newAddress |-> l.newAddress, signature |-> l.signature]
  BY <1>1, <1>3
<1>5. d = [type |-> t.type, transfer |-> t.transfer, time |-> l.time, signer |-> l.signer,
           signerKey |-> l.signerKey, newAddress |-> l.newAddress, signature |-> l.signature]
  BY <1>2, <1>4
<1>6. /\ e.type = "None" /\ e.transfer = <<>> /\ e.time = l.time /\ e.signer = l.signer
      /\ e.signerKey = l.signerKey /\ e.newAddress = l.newAddress
      /\ e.signature = l.signature /\ Members(e, Transaction_new)
  BY ONLY <1>4, Zenon DEF Members, Transaction_new
<1>7. /\ d.type = t.type /\ d.transfer = t.transfer /\ d.time = l.time /\ d.signer = l.signer
      /\ d.signerKey = l.signerKey /\ d.newAddress = l.newAddress
      /\ d.signature = l.signature /\ Members(d, Transaction_new)
  BY ONLY <1>5, Zenon DEF Members, Transaction_new
<1>8. GoodTransaction(d)
  BY <1>7 DEF GoodTransaction, Transaction_type, Transaction_long
<1>9. GoodTransaction(e)
  <2>1. DOMAIN <<>> = {}
    BY SMT
  <2> QED BY <1>6, <2>1, Pointers
          DEF GoodTransaction, Transaction_type, Transaction_long, TransactionActions
<1>10. Action(d) = Action(t)
  BY <1>7, ActionEquals
<1> QED
  BY <1>8, <1>9, <1>10 DEF d, e

\* A move makes a copy, and leaves an object that can be used again.
LEMMA Moved ==
    ASSUME NEW c \in Classes, NEW l, Good(c, l), NEW o, Good(c, o)
    PROVE  /\ Good(c, move(c, l, o)) /\ Same(c, move(c, l, o), o)
           /\ Good(c, movedFrom(c, o))
<1>1. CASE c = "Block"
  <2>1. move(c, l, o) = o
    BY <1>1, BlockMoved DEF Good, move
  <2>2. movedFrom(c, o) = Block_new
    BY <1>1 DEF movedFrom, Block_resetChoice
  <2> QED BY <1>1, <2>1, <2>2 DEF Good, Same, GoodBlock, SameBlock
<1>2. CASE c = "Transaction"
  <2>1. move(c, l, o) = Transaction_move(l, o)
    BY <1>2 DEF move
  <2>2. movedFrom(c, o) = Transaction_resetChoice(o)
    BY <1>2 DEF movedFrom
  <2>3. GoodTransaction(l) /\ GoodTransaction(o)
    BY <1>2 DEF Good
  <2>4. /\ GoodTransaction(Transaction_move(l, o)) /\ Action(Transaction_move(l, o)) = Action(o)
        /\ GoodTransaction(Transaction_resetChoice(o))
    BY <2>3, TransactionMoved
  <2> QED BY <1>2, <2>1, <2>2, <2>4 DEF Good, Same
<1>3. CASE c = "MineAction"
  <2>1. move(c, l, o) = o
    BY <1>3, MineActionMoved DEF Good, move
  <2>2. movedFrom(c, o) = MineAction_new
    BY <1>3 DEF movedFrom, MineAction_resetChoice
  <2> QED BY <1>3, <2>1, <2>2 DEF Good, Same, GoodMineAction
<1> QED
  BY <1>1, <1>2, <1>3 DEF Classes

-----------------------------------------------------------------------------
(* The steps. *)

\* The programs start with default constructed objects.
LEMMA ObjectsInvInit ==
    Init => ObjectsInv
<1> SUFFICES ASSUME Init PROVE ObjectsInv
  OBVIOUS
<1>1. class \in Classes /\ wire = <<>>
  BY DEF Init
<1>2. slot = [s \in Slots |-> slot[s]] /\ origin = [s \in Slots |-> origin[s]]
  BY DEF Init
<1>3. \A s \in Slots : slot[s] = new(class) /\ origin[s] = <<>>
  BY DEF Init
<1>4. \A s \in Slots : Good(class, slot[s]) /\ From(class, origin[s], slot[s])
  BY <1>1, <1>3, NewGood DEF From
<1> QED
  BY <1>1, <1>2, <1>4 DEF ObjectsInv

\* A step that puts a good copy of some object into one variable.
LEMMA OneSlot ==
    ASSUME ObjectsInv, NEW s \in Slots, NEW o, Good(class, o), NEW org, From(class, org, o),
           slot' = [slot EXCEPT ![s] = o], origin' = [origin EXCEPT ![s] = org],
           UNCHANGED <<class, wire, wireOrigin>>
    PROVE  ObjectsInv'
<1>1. slot = [t \in Slots |-> slot[t]] /\ origin = [t \in Slots |-> origin[t]]
  BY DEF ObjectsInv
<1>2. /\ slot' = [t \in Slots |-> slot'[t]] /\ slot'[s] = o
      /\ \A t \in Slots \ {s} : slot'[t] = slot[t]
  <2>1. slot' = [t \in Slots |-> IF t = s THEN o ELSE slot[t]]
    BY <1>1
  <2> QED BY ONLY <2>1, s \in Slots, Zenon
<1>3. /\ origin' = [t \in Slots |-> origin'[t]] /\ origin'[s] = org
      /\ \A t \in Slots \ {s} : origin'[t] = origin[t]
  <2>1. origin' = [t \in Slots |-> IF t = s THEN org ELSE origin[t]]
    BY <1>1
  <2> QED BY ONLY <2>1, s \in Slots, Zenon
<1>4. class' = class /\ wire' = wire /\ wireOrigin' = wireOrigin
  OBVIOUS
<1>5. ASSUME NEW t \in Slots
      PROVE  Good(class', slot'[t]) /\ From(class', origin'[t], slot'[t])
  <2>1. CASE t = s
    BY ONLY <1>2, <1>3, <1>4, <2>1, Good(class, o), From(class, org, o), Zenon
  <2>2. CASE t # s
    <3>1. Good(class, slot[t]) /\ From(class, origin[t], slot[t])
      BY DEF ObjectsInv
    <3>2. slot'[t] = slot[t] /\ origin'[t] = origin[t]
      BY ONLY <1>2, <1>3, <2>2, t \in Slots, Zenon
    <3> QED BY ONLY <1>4, <3>1, <3>2, Zenon
  <2> QED BY <2>1, <2>2
<1>6. /\ class \in Classes
      /\ \/ wire = <<>>
         \/ wire = <<"garbage">>
         \/ \E b : wire = encode(class, b) /\ Good(class, b) /\ From(class, wireOrigin, b)
  BY DEF ObjectsInv
<1>7. /\ class' \in Classes
      /\ \/ wire' = <<>>
         \/ wire' = <<"garbage">>
         \/ \E b : wire' = encode(class', b) /\ Good(class', b) /\ From(class', wireOrigin', b)
  BY ONLY <1>4, <1>6, Zenon
<1> QED
  BY ONLY <1>2, <1>3, <1>5, <1>7, Zenon DEF ObjectsInv

\* The same when the variable held a copy of that object already.
LEMMA SameOrigin ==
    ASSUME ObjectsInv, NEW s \in Slots, NEW o, Good(class, o), Same(class, o, slot[s]),
           slot' = [slot EXCEPT ![s] = o], UNCHANGED <<class, origin, wire, wireOrigin>>
    PROVE  ObjectsInv'
<1>1. origin' = [origin EXCEPT ![s] = origin[s]]
  <2>1. origin = [t \in Slots |-> origin[t]] /\ origin' = origin
    BY DEF ObjectsInv
  <2> QED BY <2>1
<1>2. From(class, origin[s], o)
  BY CopyOfCopy DEF ObjectsInv
<1> QED
  BY <1>1, <1>2, OneSlot

\* A step that builds a good object.
LEMMA StoreStep ==
    ASSUME ObjectsInv, NEW s \in Slots, NEW o, Good(class, o), Store(s, o)
    PROVE  ObjectsInv'
  BY Built, OneSlot DEF Store

\* setGenesis, setReconciliation and setNode, the latter two with what their
\* leader has signed.
LEMMA BuildBlockStep ==
    ASSUME ObjectsInv, NEW s \in Slots,
           BuildGenesis(s) \/ BuildReconciliation(s) \/ BuildNode(s)
    PROVE  ObjectsInv'
<1>1. class = "Block"
  BY DEF BuildGenesis, BuildReconciliation, BuildNode
<1>2. ASSUME NEW g \in Genesises, Store(s, Block_setGenesis(slot[s], g)) PROVE ObjectsInv'
  <2>1. Good(class, genesisBlock(g))
    BY <1>1, BuiltAssumption DEF Good, GoodBlock, GoodGenesis
  <2> QED BY <1>2, <2>1, BlockSetters, StoreStep
<1>3. ASSUME NEW r \in Reconciliations,
             Store(s, Block_setReconciliation(slot[s], signReconciliation(r)))
      PROVE  ObjectsInv'
  <2>1. GoodReconciliation(signReconciliation(r))
    BY BuiltAssumption, ReconciliationSigned
  <2>2. Good(class, reconciliationBlock(signReconciliation(r)))
    BY <1>1, <2>1 DEF Good, GoodBlock
  <2> QED BY <1>3, <2>2, BlockSetters, StoreStep
<1>4. ASSUME NEW n \in Nodes, Store(s, Block_setNode(slot[s], signNode(n)))
      PROVE  ObjectsInv'
  <2>1. GoodNode(signNode(n))
    BY BuiltAssumption, NodeSigned
  <2>2. Good(class, nodeBlock(signNode(n)))
    BY <1>1, <2>1 DEF Good, GoodBlock
  <2> QED BY <1>4, <2>2, BlockSetters, StoreStep
<1> QED
  BY <1>2, <1>3, <1>4 DEF BuildGenesis, BuildReconciliation, BuildNode

\* A transaction that its sender has signed.
LEMMA BuildTransactionStep ==
    ASSUME ObjectsInv, NEW s \in Slots, BuildTransaction(s)
    PROVE  ObjectsInv'
<1>1. PICK t \in Transactions : Store(s, signTransaction(t))
  BY DEF BuildTransaction
<1>2. GoodTransaction(signTransaction(t))
  BY BuiltAssumption, TransactionSigned
<1>3. Good(class, signTransaction(t))
  BY <1>2 DEF Good, BuildTransaction
<1> QED
  BY <1>1, <1>3, StoreStep

\* setRegister, setUnregister and setCredentialChange, with what was signed.
LEMMA BuildMineActionStep ==
    ASSUME ObjectsInv, NEW s \in Slots,
           BuildRegister(s) \/ BuildUnregister(s) \/ BuildCredentialChange(s)
    PROVE  ObjectsInv'
<1>1. class = "MineAction"
  BY DEF BuildRegister, BuildUnregister, BuildCredentialChange
<1>2. ASSUME NEW r \in MineActionObjects.register,
             Store(s, MineAction_setRegister(slot[s], signRegister(r)))
      PROVE  ObjectsInv'
  <2>1. GoodRegister(signRegister(r))
    BY BuiltAssumption, RegisterSigned
  <2>2. Good(class, registerAction(signRegister(r)))
    BY <1>1, <2>1 DEF Good, GoodMineAction
  <2> QED BY <1>2, <2>2, MineActionSetters, StoreStep
<1>3. ASSUME NEW u \in MineActionObjects.unregister,
             Store(s, MineAction_setUnregister(slot[s], signUnregister(u)))
      PROVE  ObjectsInv'
  <2>1. GoodUnregister(signUnregister(u))
    BY BuiltAssumption, UnregisterSigned
  <2>2. Good(class, unregisterAction(signUnregister(u)))
    BY <1>1, <2>1 DEF Good, GoodMineAction
  <2> QED BY <1>3, <2>2, MineActionSetters, StoreStep
<1>4. ASSUME NEW c \in MineActionObjects.credentialChange,
             Store(s, MineAction_setCredentialChange(slot[s], signCredentialChange(c)))
      PROVE  ObjectsInv'
  <2>1. GoodCredentialChange(signCredentialChange(c))
    BY BuiltAssumption, CredentialChangeSigned
  <2>2. Good(class, credentialChangeAction(signCredentialChange(c)))
    BY <1>1, <2>1 DEF Good, GoodMineAction
  <2> QED BY <1>4, <2>2, MineActionSetters, StoreStep
<1> QED
  BY <1>2, <1>3, <1>4 DEF BuildRegister, BuildUnregister, BuildCredentialChange

\* A block of one type has its pointer set.
LEMMA BlockOfType ==
    ASSUME NEW o, GoodBlock(o)
    PROVE  /\ o.type = "Reconciliation" =>
                  \E r : o = reconciliationBlock(r) /\ GoodReconciliation(r)
           /\ o.type = "Node" => \E n : o = nodeBlock(n) /\ GoodNode(n)
           /\ o.type = "Genesis" => \E g : o = genesisBlock(g) /\ GoodGenesis(g)
           /\ o.type \in BlockTypes
<1>1. Block_new.type = "None"
  BY DEF Block_new
<1>2. \A x : /\ genesisBlock(x).type = "Genesis" /\ nodeBlock(x).type = "Node"
             /\ reconciliationBlock(x).type = "Reconciliation"
  BY BlockMembers
<1> QED
  BY <1>1, <1>2 DEF GoodBlock, BlockTypes

\* A vote is put into the block that the variable holds.
LEMMA VoteStep ==
    ASSUME ObjectsInv, NEW s \in Slots, NEW a \in Validators, NEW verified \in Verdicts[a],
           Vote(s, a, verified)
    PROVE  ObjectsInv'
<1>1. class = "Block" /\ UNCHANGED <<class, origin, wire, wireOrigin>>
  BY DEF Vote
<1>2. GoodBlock(slot[s])
  BY <1>1 DEF ObjectsInv, Good
<1>3. ASSUME slot[s].type = "Reconciliation",
             slot' = [slot EXCEPT ![s].reconciliation[1].votes =
                         Append(@, vote(a, verified,
                                        Reconciliation_toContent(slot[s].reconciliation[1])))]
      PROVE  ObjectsInv'
  <2>1. PICK r : slot[s] = reconciliationBlock(r) /\ GoodReconciliation(r)
    BY <1>2, <1>3, BlockOfType
  <2> DEFINE v == vote(a, verified, Reconciliation_toContent(r))
             d == [r EXCEPT !.votes = Append(r.votes, v)]
             o == [slot[s] EXCEPT !.reconciliation =
                      [slot[s].reconciliation EXCEPT ![1] =
                          [slot[s].reconciliation[1] EXCEPT !.votes =
                              Append(slot[s].reconciliation[1].votes,
                                     vote(a, verified,
                                          Reconciliation_toContent(slot[s].reconciliation[1])))]]]
  <2>2. slot' = [slot EXCEPT ![s] = o]
    BY <1>3
  <2>3. slot[s].reconciliation = <<r>> /\ slot[s].reconciliation[1] = r
    BY <2>1, BlockMembers
  <2>4. o = [slot[s] EXCEPT !.reconciliation = [<<r>> EXCEPT ![1] = d]]
    BY <2>3
  <2>5. GoodReconciliation(d) /\ SameReconciliation(d, r)
    BY <2>1, ReconciliationVoted
  <2> HIDE DEF d, o
  <2>6. [<<r>> EXCEPT ![1] = d] = <<d>>
    BY SMT
  <2>7. o = [reconciliationBlock(r) EXCEPT !.reconciliation = <<d>>]
    BY <2>1, <2>4, <2>6
  <2>8. o = reconciliationBlock(d)
    <3> DEFINE x == <<r>>
               y == <<d>>
    <3>1. o = [[type |-> "Reconciliation", genesis |-> <<>>, reconciliation |-> x,
                node |-> <<>>] EXCEPT !.reconciliation = y]
      BY <2>7 DEF reconciliationBlock
    <3> HIDE DEF x, y
    <3>2. o = [type |-> "Reconciliation", genesis |-> <<>>, reconciliation |-> y, node |-> <<>>]
      BY ONLY <3>1, Zenon
    <3> QED BY <3>2 DEF y, reconciliationBlock
  <2>9. Good(class, o) /\ Same(class, o, slot[s])
    BY <1>1, <2>1, <2>5, <2>8 DEF Good, Same, GoodBlock, SameBlock
  <2> QED BY <1>1, <2>2, <2>9, SameOrigin
<1>4. ASSUME slot[s].type = "Node",
             slot' = [slot EXCEPT ![s].node[1].votes =
                         Append(@, vote(a, verified, Node_toContent(slot[s].node[1])))]
      PROVE  ObjectsInv'
  <2>1. PICK n : slot[s] = nodeBlock(n) /\ GoodNode(n)
    BY <1>2, <1>4, BlockOfType
  <2> DEFINE v == vote(a, verified, Node_toContent(n))
             d == [n EXCEPT !.votes = Append(n.votes, v)]
             o == [slot[s] EXCEPT !.node =
                      [slot[s].node EXCEPT ![1] =
                          [slot[s].node[1] EXCEPT !.votes =
                              Append(slot[s].node[1].votes,
                                     vote(a, verified, Node_toContent(slot[s].node[1])))]]]
  <2>2. slot' = [slot EXCEPT ![s] = o]
    BY <1>4
  <2>3. slot[s].node = <<n>> /\ slot[s].node[1] = n
    BY <2>1, BlockMembers
  <2>4. o = [slot[s] EXCEPT !.node = [<<n>> EXCEPT ![1] = d]]
    BY <2>3
  <2>5. GoodNode(d) /\ SameNode(d, n)
    BY <2>1, NodeVoted
  <2> HIDE DEF d, o
  <2>6. [<<n>> EXCEPT ![1] = d] = <<d>>
    BY SMT
  <2>7. o = [nodeBlock(n) EXCEPT !.node = <<d>>]
    BY <2>1, <2>4, <2>6
  <2>8. o = nodeBlock(d)
    <3> DEFINE x == <<n>>
               y == <<d>>
    <3>1. o = [[type |-> "Node", genesis |-> <<>>, reconciliation |-> <<>>, node |-> x]
                  EXCEPT !.node = y]
      BY <2>7 DEF nodeBlock
    <3> HIDE DEF x, y
    <3>2. o = [type |-> "Node", genesis |-> <<>>, reconciliation |-> <<>>, node |-> y]
      BY ONLY <3>1, Zenon
    <3> QED BY <3>2 DEF y, nodeBlock
  <2>9. Good(class, o) /\ Same(class, o, slot[s])
    BY <1>1, <2>1, <2>5, <2>8 DEF Good, Same, GoodBlock, SameBlock
  <2> QED BY <1>1, <2>2, <2>9, SameOrigin
<1> QED
  BY <1>3, <1>4 DEF Vote

\* The encoding of an object is sent.
LEMMA EncodeStep ==
    ASSUME ObjectsInv, NEW s \in Slots, Encode(s)
    PROVE  ObjectsInv'
<1>1. class' = class /\ slot' = slot /\ origin' = origin
  BY DEF Encode
<1>2. wire' = encode(class, slot[s]) /\ wireOrigin' = origin[s]
  BY DEF Encode
<1>3. Good(class, slot[s]) /\ From(class, origin[s], slot[s])
  BY DEF ObjectsInv
<1> QED
  BY <1>1, <1>2, <1>3 DEF ObjectsInv

\* It is damaged.
LEMMA DamageStep ==
    ASSUME ObjectsInv, Damage
    PROVE  ObjectsInv'
  BY DEF ObjectsInv, Damage

\* What was sent is read into a variable, or the variable is left alone.
LEMMA DecodeStep ==
    ASSUME ObjectsInv, NEW s \in Slots, Decode(s)
    PROVE  ObjectsInv'
<1>1. class \in Classes /\ wire # <<>> /\ UNCHANGED <<class, wire, wireOrigin>>
  BY DEF ObjectsInv, Decode
<1>2. CASE wire = <<"garbage">>
  <2>1. decode(class, wire, slot[s]) = slot[s] /\ Len(wire) = 1
    BY <1>1, <1>2, NotDecoded
  <2>2. slot' = [slot EXCEPT ![s] = slot[s]]
    BY <2>1 DEF Decode
  <2>3. origin' = origin
    <3>1. Len(wire) # 2
      BY <2>1, SMT
    <3> QED BY <3>1 DEF Decode
  <2>4. Good(class, slot[s])
    BY DEF ObjectsInv
  <2>5. Same(class, slot[s], slot[s])
    BY DEF Same, SameBlock
  <2> QED BY <1>1, <2>2, <2>3, <2>4, <2>5, SameOrigin
<1>3. ASSUME NEW o, wire = encode(class, o), Good(class, o), From(class, wireOrigin, o)
      PROVE  ObjectsInv'
  <2> DEFINE d == decode(class, wire, slot[s])
  <2>1. Len(wire) = 2 /\ Good(class, d) /\ Same(class, d, o)
    BY <1>1, <1>3, Decoded
  <2>2. slot' = [slot EXCEPT ![s] = d] /\ origin' = [origin EXCEPT ![s] = wireOrigin]
    BY <2>1 DEF Decode
  <2>3. From(class, wireOrigin, d)
    BY <1>1, <1>3, <2>1, CopyOfCopy
  <2> HIDE DEF d
  <2> QED BY <1>1, <2>1, <2>2, <2>3, OneSlot
<1> QED
  BY <1>1, <1>2, <1>3 DEF ObjectsInv

\* operator=(const Block &): a copy goes through the ASN.1 structure.
LEMMA CopyStep ==
    ASSUME ObjectsInv, NEW s \in Slots, NEW r \in Slots, Copy(s, r)
    PROVE  ObjectsInv'
<1>1. /\ class \in Classes /\ class = "Block" /\ UNCHANGED <<class, wire, wireOrigin>>
      /\ origin' = [origin EXCEPT ![s] = origin[r]]
  BY DEF ObjectsInv, Copy
<1>2. Good(class, slot[r]) /\ From(class, origin[r], slot[r])
  BY DEF ObjectsInv
<1>3. CASE s = r
  <2>1. slot' = [slot EXCEPT ![s] = slot[s]]
    <3>1. slot = [t \in Slots |-> slot[t]] /\ slot' = slot
      BY <1>3 DEF ObjectsInv, Copy
    <3> QED BY <3>1
  <2> QED BY <1>1, <1>2, <1>3, <2>1, OneSlot
<1>4. CASE s # r
  <2> DEFINE d == Block_copy(slot[r])
  <2>1. slot' = [slot EXCEPT ![s] = d]
    BY <1>4 DEF Copy
  <2>2. Good(class, d) /\ Same(class, d, slot[r])
    BY <1>1, <1>2, CopyKept DEF Good, Same
  <2>3. From(class, origin[r], d)
    BY <1>1, <1>2, <2>2, CopyOfCopy
  <2> HIDE DEF d
  <2> QED BY <1>1, <2>1, <2>2, <2>3, OneSlot
<1> QED
  BY <1>3, <1>4

\* operator=(Block &&) and its like: the object that is moved from is reset.
LEMMA MoveStep ==
    ASSUME ObjectsInv, NEW s \in Slots, NEW r \in Slots, Move(s, r)
    PROVE  ObjectsInv'
<1>1. class \in Classes /\ class' = class /\ wire' = wire /\ wireOrigin' = wireOrigin
  BY DEF ObjectsInv, Move
<1>2. CASE s = r
  <2>1. slot' = slot /\ origin' = origin
    BY <1>2 DEF Move
  <2> QED BY <1>1, <2>1 DEF ObjectsInv
<1>3. CASE s # r
  <2> DEFINE m == move(class, slot[s], slot[r])
             f == movedFrom(class, slot[r])
  <2>1. /\ slot' = [slot EXCEPT ![s] = m, ![r] = f]
        /\ origin' = [origin EXCEPT ![s] = origin[r], ![r] = <<>>]
    BY <1>3 DEF Move
  <2>2. \A t \in Slots : Good(class, slot[t]) /\ From(class, origin[t], slot[t])
    BY DEF ObjectsInv
  <2>3. Good(class, m) /\ Same(class, m, slot[r]) /\ Good(class, f)
    BY <1>1, <2>2, Moved
  <2>4. From(class, origin[r], m)
    BY <1>1, <2>2, <2>3, CopyOfCopy
  <2>5. From(class, <<>>, f)
    BY DEF From
  <2> HIDE DEF m, f
  <2>6. slot = [t \in Slots |-> slot[t]] /\ origin = [t \in Slots |-> origin[t]]
    BY DEF ObjectsInv
  <2>7. slot' = [t \in Slots |-> IF t = r THEN f ELSE IF t = s THEN m ELSE slot[t]]
    <3> DEFINE e == [slot EXCEPT ![s] = m]
    <3>1. slot' = [e EXCEPT ![r] = f]
      BY <2>1
    <3>2. e = [t \in Slots |-> IF t = s THEN m ELSE slot[t]]
      BY <2>6
    <3> HIDE DEF e
    <3> QED BY <3>1, <3>2
  <2>8. origin' = [t \in Slots |-> IF t = r THEN <<>> ELSE IF t = s THEN origin[r] ELSE origin[t]]
    <3> DEFINE e == [origin EXCEPT ![s] = origin[r]]
    <3>1. origin' = [e EXCEPT ![r] = <<>>]
      BY <2>1
    <3>2. e = [t \in Slots |-> IF t = s THEN origin[r] ELSE origin[t]]
      BY <2>6
    <3> HIDE DEF e
    <3> QED BY <3>1, <3>2
  <2>9. slot' = [t \in Slots |-> slot'[t]] /\ origin' = [t \in Slots |-> origin'[t]]
    BY <2>7, <2>8
  <2>10. ASSUME NEW t \in Slots PROVE Good(class', slot'[t]) /\ From(class', origin'[t], slot'[t])
    <3>1. CASE t = r
      <4>1. slot'[t] = f /\ origin'[t] = <<>>
        BY <2>7, <2>8, <3>1
      <4> QED BY <1>1, <2>3, <2>5, <4>1
    <3>2. CASE t = s
      <4>1. slot'[t] = m /\ origin'[t] = origin[r]
        BY <1>3, <2>7, <2>8, <3>2
      <4> QED BY <1>1, <2>3, <2>4, <4>1
    <3>3. CASE t # r /\ t # s
      <4>1. slot'[t] = slot[t] /\ origin'[t] = origin[t]
        BY <2>7, <2>8, <3>3
      <4> QED BY <1>1, <2>2, <4>1
    <3> QED BY <3>1, <3>2, <3>3
  <2> QED BY <1>1, <2>9, <2>10 DEF ObjectsInv
<1> QED
  BY <1>2, <1>3

\* Every step keeps the invariant.
LEMMA ObjectsInvNext ==
    ObjectsInv /\ [Next]_vars => ObjectsInv'
<1> SUFFICES ASSUME ObjectsInv, [Next]_vars PROVE ObjectsInv'
  OBVIOUS
<1>1. ASSUME NEW s \in Slots,
             \/ BuildGenesis(s) \/ BuildReconciliation(s) \/ BuildNode(s)
             \/ BuildTransaction(s)
             \/ BuildRegister(s) \/ BuildUnregister(s) \/ BuildCredentialChange(s)
      PROVE  ObjectsInv'
  BY <1>1, BuildBlockStep, BuildTransactionStep, BuildMineActionStep
<1>2. ASSUME NEW s \in Slots, NEW a \in Validators, NEW verified \in Verdicts[a],
             Vote(s, a, verified)
      PROVE  ObjectsInv'
  BY <1>2, VoteStep
<1>3. ASSUME NEW s \in Slots, Encode(s) \/ Decode(s) PROVE ObjectsInv'
  BY <1>3, EncodeStep, DecodeStep
<1>4. ASSUME NEW s \in Slots, NEW r \in Slots, Copy(s, r) \/ Move(s, r) PROVE ObjectsInv'
  BY <1>4, CopyStep, MoveStep
<1>5. CASE Damage
  BY <1>5, DamageStep
<1>6. CASE UNCHANGED vars
  BY <1>6 DEF vars, ObjectsInv
<1> QED
  BY <1>1, <1>2, <1>3, <1>4, <1>5, <1>6 DEF Next

\* In every state the objects are good copies of what they were built as, and
\* so is what the bytes on the wire stand for.
THEOREM ObjectsInvariant ==
    Spec => []ObjectsInv
<1> QED
  BY ObjectsInvInit, ObjectsInvNext, PTL DEF Spec

-----------------------------------------------------------------------------
(* What the invariant gives. *)

\* A good copy of a block is a block of the same type.
LEMMA SameType ==
    ASSUME NEW o, GoodBlock(o), NEW b, GoodBlock(b), SameBlock(o, b)
    PROVE  \/ o = b /\ o = Block_new
           \/ \E g : o = b /\ o = genesisBlock(g)
           \/ \E r, q : /\ o = reconciliationBlock(r) /\ b = reconciliationBlock(q)
                        /\ GoodReconciliation(r) /\ SameReconciliation(r, q)
           \/ \E n, q : /\ o = nodeBlock(n) /\ b = nodeBlock(q)
                        /\ GoodNode(n) /\ GoodNode(q) /\ SameNode(n, q)
<1>1. \A x, y : reconciliationBlock(x) = reconciliationBlock(y) => x = y
  <2> SUFFICES ASSUME NEW x, NEW y, reconciliationBlock(x) = reconciliationBlock(y)
               PROVE  x = y
    OBVIOUS
  <2>1. /\ reconciliationBlock(x).reconciliation[1] = x
        /\ reconciliationBlock(y).reconciliation[1] = y
    BY BlockMembers
  <2> QED BY <2>1
<1>2. \A x, y : nodeBlock(x) = nodeBlock(y) => x = y
  <2> SUFFICES ASSUME NEW x, NEW y, nodeBlock(x) = nodeBlock(y)
               PROVE  x = y
    OBVIOUS
  <2>1. nodeBlock(x).node[1] = x /\ nodeBlock(y).node[1] = y
    BY BlockMembers
  <2> QED BY <2>1
<1>3. CASE o = b
  BY <1>3 DEF GoodBlock, SameReconciliation, SameNode
<1>4. ASSUME NEW r, NEW q, o = reconciliationBlock(r), b = reconciliationBlock(q),
             SameReconciliation(r, q)
      PROVE  /\ o = reconciliationBlock(r) /\ b = reconciliationBlock(q)
             /\ GoodReconciliation(r) /\ SameReconciliation(r, q)
  <2>1. o.type = "Reconciliation"
    BY <1>4, BlockMembers
  <2>2. GoodReconciliation(r)
    <3>1. PICK x : o = reconciliationBlock(x) /\ GoodReconciliation(x)
      BY <2>1, BlockOfType
    <3>2. x = r
      BY <1>1, <1>4, <3>1
    <3> QED BY <3>1, <3>2
  <2> QED BY <1>4, <2>2
<1>5. ASSUME NEW n, NEW q, o = nodeBlock(n), b = nodeBlock(q), SameNode(n, q)
      PROVE  /\ o = nodeBlock(n) /\ b = nodeBlock(q)
             /\ GoodNode(n) /\ GoodNode(q) /\ SameNode(n, q)
  <2>1. o.type = "Node" /\ b.type = "Node"
    BY <1>5, BlockMembers
  <2>2. GoodNode(n) /\ GoodNode(q)
    <3>1. PICK x, y : o = nodeBlock(x) /\ GoodNode(x) /\ b = nodeBlock(y) /\ GoodNode(y)
      BY <2>1, BlockOfType
    <3>2. x = n /\ y = q
      BY <1>2, <1>5, <3>1
    <3> QED BY <3>1, <3>2
  <2> QED BY <1>5, <2>2
<1> QED
  BY <1>3, <1>4, <1>5 DEF SameBlock

\* What every route keeps of a node.
LEMMA NodeKeeps ==
    ASSUME NEW n, GoodNode(n), NEW q, GoodNode(q), SameNode(n, q)
    PROVE  Node_toContent([n EXCEPT !.transactions = toStack(Action, @)]) =
           Node_toContent([q EXCEPT !.transactions = toStack(Action, @)])
<1> DEFINE t == Actions(n.transactions)
           m == [n EXCEPT !.transactions = t]
           p == [q EXCEPT !.transactions = t]
<1>1. [n EXCEPT !.transactions = toStack(Action, @)] = m
  BY DEF toStack, Actions
<1>2. [q EXCEPT !.transactions = toStack(Action, @)] = p
  <2>1. Actions(q.transactions) = t
    BY DEF SameNode
  <2>2. [q EXCEPT !.transactions = toStack(Action, @)] =
            [q EXCEPT !.transactions = Actions(q.transactions)]
    BY DEF toStack, Actions
  <2> HIDE DEF t
  <2> QED BY <2>1, <2>2
<1> HIDE DEF t
<1>3. /\ m.chainId = n.chainId /\ m.shardId = n.shardId /\ m.index = n.index
      /\ m.prevHash = n.prevHash /\ m.nonce = n.nonce /\ m.leader = n.leader
      /\ m.newAddress = n.newAddress /\ m.transactions = t
  <2>1. n = [chainId |-> n.chainId, shardId |-> n.shardId, index |-> n.index,
             prevHash |-> n.prevHash, transactions |-> n.transactions, nonce |-> n.nonce,
             leader |-> n.leader, newAddress |-> n.newAddress, signature |-> n.signature,
             votes |-> n.votes]
    BY DEF GoodNode, Node_type, Members, Node_new
  <2>3. m = [n EXCEPT !.transactions = t]
    OBVIOUS
  <2> HIDE DEF m
  <2>2. m = [chainId |-> n.chainId, shardId |-> n.shardId, index |-> n.index,
             prevHash |-> n.prevHash, transactions |-> t, nonce |-> n.nonce,
             leader |-> n.leader, newAddress |-> n.newAddress, signature |-> n.signature,
             votes |-> n.votes]
    BY ONLY <2>1, <2>3, Zenon
  <2> QED BY ONLY <2>2, Zenon
<1>4. /\ p.chainId = q.chainId /\ p.shardId = q.shardId /\ p.index = q.index
      /\ p.prevHash = q.prevHash /\ p.nonce = q.nonce /\ p.leader = q.leader
      /\ p.newAddress = q.newAddress /\ p.transactions = t
  <2>1. q = [chainId |-> q.chainId, shardId |-> q.shardId, index |-> q.index,
             prevHash |-> q.prevHash, transactions |-> q.transactions, nonce |-> q.nonce,
             leader |-> q.leader, newAddress |-> q.newAddress, signature |-> q.signature,
             votes |-> q.votes]
    BY DEF GoodNode, Node_type, Members, Node_new
  <2>3. p = [q EXCEPT !.transactions = t]
    OBVIOUS
  <2> HIDE DEF p
  <2>2. p = [chainId |-> q.chainId, shardId |-> q.shardId, index |-> q.index,
             prevHash |-> q.prevHash, transactions |-> t, nonce |-> q.nonce,
             leader |-> q.leader, newAddress |-> q.newAddress, signature |-> q.signature,
             votes |-> q.votes]
    BY ONLY <2>1, <2>3, Zenon
  <2> QED BY ONLY <2>2, Zenon
<1> HIDE DEF m, p
<1>5. Node_content(m) = Node_content(p)
  BY <1>3, <1>4 DEF SameNode, Node_content, toStack
<1>6. Node_toContent(m) = Node_toContent(p)
  BY <1>5, NodeWrites
<1> QED
  BY <1>1, <1>2, <1>6

\* What the curator records of a block is the same for every good copy of it.
LEMMA BlockKeeps ==
    ASSUME NEW o, GoodBlock(o), NEW b, GoodBlock(b), SameBlock(o, b)
    PROVE  o.type = b.type /\ KeptOfBlock(o) = KeptOfBlock(b)
<1>1. CASE o = b
  BY <1>1
<1>2. ASSUME NEW r, NEW q, o = reconciliationBlock(r), b = reconciliationBlock(q),
             SameReconciliation(r, q)
      PROVE  o.type = b.type /\ KeptOfBlock(o) = KeptOfBlock(b)
  <2>1. /\ o.type = "Reconciliation" /\ b.type = "Reconciliation"
        /\ o.reconciliation[1] = r /\ b.reconciliation[1] = q
    BY <1>2, BlockMembers
  <2>2. Reconciliation_toContent(r) = Reconciliation_toContent(q)
    BY <1>2, ReconciliationContent
  <2>3. KeptOfBlock(o) = Hash_of(Reconciliation_toContent(r))
    BY <2>1 DEF KeptOfBlock
  <2>4. KeptOfBlock(b) = Hash_of(Reconciliation_toContent(q))
    BY <2>1 DEF KeptOfBlock
  <2> QED BY <2>1, <2>2, <2>3, <2>4
<1>3. ASSUME NEW n, NEW q, o = nodeBlock(n), b = nodeBlock(q), SameNode(n, q),
             GoodNode(n), GoodNode(q)
      PROVE  o.type = b.type /\ KeptOfBlock(o) = KeptOfBlock(b)
  <2> DEFINE K(x) == Node_toContent([x EXCEPT !.transactions = toStack(Action, @)])
  <2>1. o.type = "Node" /\ b.type = "Node" /\ o.node[1] = n /\ b.node[1] = q
    BY <1>3, BlockMembers
  <2>2. K(n) = K(q)
    BY <1>3, NodeKeeps DEF toStack
  <2>3. KeptOfBlock(o) = K(o.node[1])
    BY <2>1 DEF KeptOfBlock, toStack
  <2>4. KeptOfBlock(b) = K(b.node[1])
    BY <2>1 DEF KeptOfBlock, toStack
  <2> HIDE DEF K
  <2> QED BY <2>1, <2>2, <2>3, <2>4
<1> QED
  BY <1>1, <1>2, <1>3, SameType

\* The objects are well formed: ObjectsOK, so that toAsn1 never reads a null
\* pointer (Block.cpp:171, MineAction.cpp:147).
THEOREM ObjectsAlwaysOK ==
    Spec => []ObjectsOK
<1>1. ObjectsInv => ObjectsOK
  <2> SUFFICES ASSUME ObjectsInv, NEW s \in Slots
               PROVE  CASE class = "Block" -> Block_type(slot[s])
                        [] class = "Transaction" -> Transaction_type(slot[s])
                        [] class = "MineAction" -> MineAction_type(slot[s])
    BY DEF ObjectsOK
  <2>1. class \in Classes /\ Good(class, slot[s])
    BY DEF ObjectsInv
  <2>2. class = "Block" => Block_type(slot[s])
    BY <2>1, GoodBlockTyped DEF Good
  <2>3. class = "Transaction" => Transaction_type(slot[s])
    BY <2>1 DEF Good, GoodTransaction
  <2>4. class = "MineAction" => MineAction_type(slot[s])
    BY <2>1, GoodMineActionTyped DEF Good
  <2> QED BY <2>1, <2>2, <2>3, <2>4 DEF Classes
<1> QED
  BY <1>1, ObjectsInvariant, PTL

\* ContentSurvives: however often an object is encoded, decoded, copied and
\* moved, the hash that is recorded for it is that of the object as built.
THEOREM ContentAlwaysSurvives ==
    Spec => []ContentSurvives
<1>1. ObjectsInv => ContentSurvives
  <2> SUFFICES ASSUME ObjectsInv, NEW s \in Slots, origin[s] # <<>>
               PROVE  /\ class = "Block" => slot[s].type = origin[s][1].type
                      /\ Kept(class, slot[s]) = Kept(class, origin[s][1])
    BY DEF ContentSurvives
  <2>1. class \in Classes /\ Good(class, slot[s]) /\ From(class, origin[s], slot[s])
    BY DEF ObjectsInv
  <2>2. PICK b : origin[s] = <<b>> /\ Good(class, b) /\ Same(class, slot[s], b)
    BY <2>1 DEF From
  <2>3. origin[s][1] = b
    BY <2>2, Pointers
  <2>4. CASE class = "Block"
    <3>1. GoodBlock(slot[s]) /\ GoodBlock(b) /\ SameBlock(slot[s], b)
      BY <2>1, <2>2, <2>4 DEF Good, Same
    <3>2. slot[s].type = b.type /\ KeptOfBlock(slot[s]) = KeptOfBlock(b)
      BY <3>1, BlockKeeps
    <3>3. Kept(class, slot[s]) = KeptOfBlock(slot[s]) /\ Kept(class, b) = KeptOfBlock(b)
      BY <2>4 DEF Kept
    <3> QED BY <2>3, <3>2, <3>3
  <2>5. CASE class = "Transaction"
    <3>1. Kept(class, slot[s]) = Action(slot[s]) /\ Kept(class, b) = Action(b)
      BY <2>5 DEF Kept
    <3> QED BY <2>2, <2>3, <2>5, <3>1 DEF Same
  <2>6. CASE class = "MineAction"
    BY <2>2, <2>3, <2>6 DEF Same
  <2> QED BY <2>1, <2>4, <2>5, <2>6 DEF Classes
<1> QED
  BY <1>1, ObjectsInvariant, PTL

\* The signatures of one object verify.
LEMMA BlockVerifies ==
    ASSUME NEW o, GoodBlock(o), ~HoldsTransactions("Block", o),
           NEW p \in Signatures("Block", o)
    PROVE  verify(p[1], p[2])
<1>1. CASE o.type = "Reconciliation"
  <2>1. PICK r : o = reconciliationBlock(r) /\ GoodReconciliation(r)
    BY <1>1, BlockOfType
  <2> DEFINE content == Reconciliation_toContent(o.reconciliation[1])
             sigs == {o.reconciliation[1].signature} \cup
                         {v.signature : v \in Range(o.reconciliation[1].votes)}
  <2>2. p \in {<<content, sig>> : sig \in sigs}
    BY <1>1 DEF Signatures
  <2>3. PICK sig \in sigs : p = <<content, sig>>
    BY <2>2
  <2>4. o.reconciliation[1] = r
    BY <2>1, BlockMembers
  <2>5. verify(content, sig)
    BY <2>1, <2>3, <2>4 DEF GoodReconciliation, Signed
  <2>6. p[1] = content /\ p[2] = sig
    BY <2>3
  <2> QED BY <2>5, <2>6
<1>2. CASE o.type = "Node"
  <2>1. PICK n : o = nodeBlock(n) /\ GoodNode(n)
    BY <1>2, BlockOfType
  <2> DEFINE content == Node_toContent(o.node[1])
             sigs == {o.node[1].signature} \cup {v.signature : v \in Range(o.node[1].votes)}
  <2>2. p \in {<<content, sig>> : sig \in sigs}
    BY <1>2 DEF Signatures
  <2>3. PICK sig \in sigs : p = <<content, sig>>
    BY <2>2
  <2>4. o.node[1] = n
    BY <2>1, BlockMembers
  <2>5. n.transactions = <<>>
    BY <1>2, <2>4 DEF HoldsTransactions
  <2>6. verify(content, sig)
    BY <2>1, <2>3, <2>4, <2>5 DEF GoodNode, Signed
  <2>7. p[1] = content /\ p[2] = sig
    BY <2>3
  <2> QED BY <2>6, <2>7
<1>3. CASE o.type # "Reconciliation" /\ o.type # "Node"
  BY <1>3 DEF Signatures
<1> QED
  BY <1>1, <1>2, <1>3

\* The same for the owners of a mine action.
LEMMA MineActionVerifies ==
    ASSUME NEW o, GoodMineAction(o), NEW p \in Signatures("MineAction", o)
    PROVE  verify(p[1], p[2])
<1>1. ASSUME NEW content, NEW sigs, p \in {<<content, sig>> : sig \in sigs},
             \A sig \in sigs : verify(content, sig)
      PROVE  verify(p[1], p[2])
  <2>1. PICK sig \in sigs : p = <<content, sig>>
    BY <1>1
  <2>2. p[1] = content /\ p[2] = sig
    BY <2>1
  <2> QED BY <1>1, <2>2
<1>2. CASE o = MineAction_new
  <2>1. o.action = "None"
    BY <1>2 DEF MineAction_new
  <2> QED BY <2>1 DEF Signatures
<1>3. ASSUME NEW r, o = registerAction(r), GoodRegister(r) PROVE verify(p[1], p[2])
  <2>1. o.action = "Register" /\ o.tregister[1] = r
    BY <1>3, MineActionMembers
  <2> DEFINE content == Register_toContent(r)
             sigs == {r.stakeSignature, r.authSignature}
  <2>2. p \in {<<content, sig>> : sig \in sigs}
    BY <2>1 DEF Signatures
  <2>3. \A sig \in sigs : verify(content, sig)
    BY <1>3 DEF GoodRegister
  <2> HIDE DEF content, sigs
  <2> QED BY <1>1, <2>2, <2>3
<1>4. ASSUME NEW u, o = unregisterAction(u), GoodUnregister(u) PROVE verify(p[1], p[2])
  <2>1. o.action = "Unregister" /\ o.unregister[1] = u
    BY <1>4, MineActionMembers
  <2> DEFINE content == Unregister_toContent(u)
             sigs == {u.authSignature}
  <2>2. p \in {<<content, sig>> : sig \in sigs}
    BY <2>1 DEF Signatures
  <2>3. \A sig \in sigs : verify(content, sig)
    BY <1>4 DEF GoodUnregister
  <2> HIDE DEF content, sigs
  <2> QED BY <1>1, <2>2, <2>3
<1>5. ASSUME NEW k, o = credentialChangeAction(k), GoodCredentialChange(k)
      PROVE  verify(p[1], p[2])
  <2>1. o.action = "CredentialChange" /\ o.credentialChange[1] = k
    BY <1>5, MineActionMembers
  <2> DEFINE content == CredentialChange_toContent(k)
             sigs == {k.authSignature, k.newAuthSignature, k.stakeSignature}
  <2>2. p \in {<<content, sig>> : sig \in sigs}
    BY <2>1 DEF Signatures
  <2>3. \A sig \in sigs : verify(content, sig)
    BY <1>5 DEF GoodCredentialChange
  <2> HIDE DEF content, sigs
  <2> QED BY <1>1, <2>2, <2>3
<1> QED
  BY <1>2, <1>3, <1>4, <1>5 DEF GoodMineAction

\* SignaturesVerify: every signature verifies against the object at hand,
\* whichever way it went and whoever voted on which copy of it.
THEOREM SignaturesAlwaysVerify ==
    Spec => []SignaturesVerify
<1>1. ObjectsInv => SignaturesVerify
  <2> SUFFICES ASSUME ObjectsInv, NEW s \in Slots, ~HoldsTransactions(class, slot[s]),
                      NEW p \in Signatures(class, slot[s])
               PROVE  verify(p[1], p[2])
    BY DEF SignaturesVerify
  <2>1. class \in Classes /\ Good(class, slot[s])
    BY DEF ObjectsInv
  <2>2. CASE class = "Block"
    BY <2>1, <2>2, BlockVerifies DEF Good
  <2>3. CASE class = "Transaction"
    BY <2>3 DEF Signatures
  <2>4. CASE class = "MineAction"
    BY <2>1, <2>4, MineActionVerifies DEF Good
  <2> QED BY <2>1, <2>2, <2>3, <2>4 DEF Classes
<1> QED
  BY <1>1, ObjectsInvariant, PTL

\* Lists of the same votes, written and put in the order of a SET OF.
LEMMA SameSetOf ==
    ASSUME NEW u, List(u), NEW v, List(v), Range(u) = Range(v)
    PROVE  SetOf(toStack(Validation_toAsn1, u)) = SetOf(toStack(Validation_toAsn1, v))
<1>1. ASSUME NEW w, List(w)
      PROVE  Range([i \in 1 .. Len(w) |-> Validation_toAsn1(w[i])]) =
                 {Validation_toAsn1(x) : x \in Range(w)}
  <2> DEFINE t == [i \in 1 .. Len(w) |-> Validation_toAsn1(w[i])]
  <2>1. DOMAIN w = 1 .. Len(w)
    BY <1>1, ListIs
  <2>2. DOMAIN t = 1 .. Len(w) /\ \A i \in 1 .. Len(w) : t[i] = Validation_toAsn1(w[i])
    OBVIOUS
  <2> HIDE DEF t
  <2>3. ASSUME NEW y \in Range(t) PROVE y \in {Validation_toAsn1(x) : x \in Range(w)}
    BY <2>1, <2>2, <2>3 DEF Range
  <2>4. ASSUME NEW x \in Range(w) PROVE Validation_toAsn1(x) \in Range(t)
    <3>1. PICK i \in 1 .. Len(w) : x = w[i]
      BY <2>1, <2>4 DEF Range
    <3> QED BY <2>2, <3>1 DEF Range
  <2>5. Range(t) = {Validation_toAsn1(x) : x \in Range(w)}
    BY <2>3, <2>4
  <2> QED BY <2>5 DEF t
<1> DEFINE s == [i \in 1 .. Len(u) |-> Validation_toAsn1(u[i])]
           t == [i \in 1 .. Len(v) |-> Validation_toAsn1(v[i])]
<1>2. Range(s) = Range(t)
  <2>1. Range(s) = {Validation_toAsn1(x) : x \in Range(u)}
    BY <1>1
  <2>2. Range(t) = {Validation_toAsn1(x) : x \in Range(v)}
    BY <1>1
  <2> HIDE DEF s, t
  <2> QED BY <2>1, <2>2
<1> HIDE DEF s, t
<1>3. SetOf(s) = SetOf(t)
  BY <1>2, SetOfRange
<1> QED
  BY <1>3 DEF s, t, toStack

\* The alternatives of SameType, by the type of the block.
LEMMA SameNodes ==
    ASSUME NEW o, GoodBlock(o), NEW b, GoodBlock(b), SameBlock(o, b), b.type = "Node"
    PROVE  \E n, q : o = nodeBlock(n) /\ b = nodeBlock(q) /\ GoodNode(n) /\ SameNode(n, q)
<1>1. b # Block_new
  <2>1. Block_new.type = "None"
    BY DEF Block_new
  <2> QED BY <2>1
<1>2. \A x : b # genesisBlock(x) /\ b # reconciliationBlock(x)
  BY BlockMembers
<1>3. CASE o = b /\ o = Block_new
  BY <1>1, <1>3
<1>4. CASE \E g : o = b /\ o = genesisBlock(g)
  BY <1>2, <1>4
<1>5. CASE \E r, q : /\ o = reconciliationBlock(r) /\ b = reconciliationBlock(q)
                     /\ GoodReconciliation(r) /\ SameReconciliation(r, q)
  BY <1>2, <1>5
<1>6. CASE \E n, q : /\ o = nodeBlock(n) /\ b = nodeBlock(q)
                     /\ GoodNode(n) /\ GoodNode(q) /\ SameNode(n, q)
  BY ONLY <1>6, Zenon
<1> QED
  BY ONLY <1>3, <1>4, <1>5, <1>6, SameType, GoodBlock(o), GoodBlock(b), SameBlock(o, b), Zenon

\* The same for the other types.
LEMMA SameOthers ==
    ASSUME NEW o, GoodBlock(o), NEW b, GoodBlock(b), SameBlock(o, b), b.type # "Node"
    PROVE  /\ b.type = "Reconciliation" =>
                  \E r, q : /\ o = reconciliationBlock(r) /\ b = reconciliationBlock(q)
                            /\ GoodReconciliation(r) /\ SameReconciliation(r, q)
           /\ b.type # "Reconciliation" => o = b
<1>1. b = Block_new => b.type = "None"
  <2>1. Block_new.type = "None"
    BY DEF Block_new
  <2> QED BY <2>1
<1>2. \A x : b # nodeBlock(x)
  BY BlockMembers
<1>3. \A x : /\ b = genesisBlock(x) => b.type = "Genesis"
             /\ b = reconciliationBlock(x) => b.type = "Reconciliation"
  BY BlockMembers
<1>4. CASE o = b /\ o = Block_new
  BY <1>1, <1>4
<1>5. CASE \E g : o = b /\ o = genesisBlock(g)
  BY <1>3, <1>5
<1>6. CASE \E r, q : /\ o = reconciliationBlock(r) /\ b = reconciliationBlock(q)
                     /\ GoodReconciliation(r) /\ SameReconciliation(r, q)
  BY <1>3, <1>6
<1>7. CASE \E n, q : /\ o = nodeBlock(n) /\ b = nodeBlock(q)
                     /\ GoodNode(n) /\ GoodNode(q) /\ SameNode(n, q)
  BY <1>2, <1>7
<1> QED
  BY ONLY <1>4, <1>5, <1>6, <1>7, SameType, GoodBlock(o), GoodBlock(b), SameBlock(o, b), Zenon

\* Two copies of one block that hold the same votes.
LEMMA CopiesEncode ==
    ASSUME NEW b, GoodBlock(b), NEW o, GoodBlock(o), SameBlock(o, b),
           NEW p, GoodBlock(p), SameBlock(p, b), VotesOf(o) = VotesOf(p),
           ~HoldsTransactions("Block", o)
    PROVE  Block_encode(o) = Block_encode(p)
<1>1. CASE b.type = "Reconciliation"
  <2>1. PICK r, q : /\ o = reconciliationBlock(r) /\ b = reconciliationBlock(q)
                    /\ GoodReconciliation(r) /\ SameReconciliation(r, q)
    BY <1>1, SameOthers
  <2>2. PICK x, y : /\ p = reconciliationBlock(x) /\ b = reconciliationBlock(y)
                    /\ GoodReconciliation(x) /\ SameReconciliation(x, y)
    BY <1>1, SameOthers
  <2>3. q = y
    <3>1. b.reconciliation[1] = q /\ b.reconciliation[1] = y
      BY <2>1, <2>2, BlockMembers
    <3> QED BY <3>1
  <2>4. Range(r.votes) = Range(x.votes)
    <3>1. /\ o.type = "Reconciliation" /\ o.reconciliation[1] = r
          /\ p.type = "Reconciliation" /\ p.reconciliation[1] = x
      BY <2>1, <2>2, BlockMembers
    <3>2. VotesOf(o) = Range(r.votes) /\ VotesOf(p) = Range(x.votes)
      BY <3>1 DEF VotesOf
    <3> QED BY <3>2
  <2>5. SetOf(toStack(Validation_toAsn1, r.votes)) = SetOf(toStack(Validation_toAsn1, x.votes))
    BY <2>1, <2>2, <2>4, SameSetOf DEF GoodReconciliation, Reconciliation_type, toStack
  <2>6. Reconciliation_content(r) = Reconciliation_content(x) /\ r.signature = x.signature
    BY <2>1, <2>2, <2>3 DEF SameReconciliation, Reconciliation_content, toStack
  <2>7. reconciliationWire(r) = reconciliationWire(x)
    BY <2>5, <2>6 DEF reconciliationWire, toStack
  <2> QED BY <2>1, <2>2, <2>7, BlockEncodes
<1>2. CASE b.type = "Node"
  <2>1. PICK n, q : /\ o = nodeBlock(n) /\ b = nodeBlock(q)
                    /\ GoodNode(n) /\ SameNode(n, q)
    BY <1>2, SameNodes
  <2>2. PICK x, y : /\ p = nodeBlock(x) /\ b = nodeBlock(y)
                    /\ GoodNode(x) /\ SameNode(x, y)
    BY <1>2, SameNodes
  <2>3. q = y
    <3>1. b.node[1] = q /\ b.node[1] = y
      BY <2>1, <2>2, BlockMembers
    <3> QED BY <3>1
  <2>4. o.type = "Node" /\ o.node[1] = n /\ p.type = "Node" /\ p.node[1] = x
    BY <2>1, <2>2, BlockMembers
  <2>5. Range(n.votes) = Range(x.votes)
    <3>1. VotesOf(o) = Range(n.votes) /\ VotesOf(p) = Range(x.votes)
      BY <2>4 DEF VotesOf
    <3> QED BY <3>1
  <2>6. SetOf(toStack(Validation_toAsn1, n.votes)) = SetOf(toStack(Validation_toAsn1, x.votes))
    BY <2>1, <2>2, <2>5, SameSetOf DEF GoodNode, Node_type, toStack
  <2>7. n.transactions = <<>> /\ x.transactions = <<>>
    <3>1. n.transactions = <<>>
      BY <2>4 DEF HoldsTransactions
    <3>2. q.transactions = <<>>
      BY <2>1, <3>1 DEF SameNode
    <3> QED BY <2>2, <2>3, <3>1, <3>2 DEF SameNode
  <2>8. Node_content(n) = Node_content(x) /\ n.signature = x.signature
    BY <2>1, <2>2, <2>3, <2>7 DEF SameNode, Node_content, toStack
  <2>9. nodeWire(n) = nodeWire(x)
    BY <2>6, <2>8 DEF nodeWire, toStack
  <2> QED BY <2>1, <2>2, <2>9, BlockEncodes
<1>3. CASE b.type # "Reconciliation" /\ b.type # "Node"
  <2>1. o = b /\ p = b
    BY <1>3, SameOthers
  <2> QED BY <2>1
<1> QED
  BY <1>1, <1>2, <1>3

\* EncodingCanonical: copies of a block with the same votes encode to the same
\* bytes, in whatever order the votes came in.
THEOREM EncodingAlwaysCanonical ==
    Spec => []EncodingCanonical
<1>1. ObjectsInv => EncodingCanonical
  <2> SUFFICES ASSUME ObjectsInv, class = "Block", NEW s \in Slots, NEW r \in Slots,
                      origin[s] # <<>>, origin[s] = origin[r],
                      VotesOf(slot[s]) = VotesOf(slot[r]), ~HoldsTransactions(class, slot[s])
               PROVE  Block_encode(slot[s]) = Block_encode(slot[r])
    BY DEF EncodingCanonical
  <2>1. /\ Good(class, slot[s]) /\ From(class, origin[s], slot[s])
        /\ Good(class, slot[r]) /\ From(class, origin[r], slot[r])
    BY DEF ObjectsInv
  <2>2. PICK b : origin[s] = <<b>> /\ Good(class, b) /\ Same(class, slot[s], b)
    BY <2>1 DEF From
  <2>3. PICK c : origin[r] = <<c>> /\ Same(class, slot[r], c)
    BY <2>1 DEF From
  <2>4. b = c
    <3>1. origin[s][1] = b /\ origin[s][1] = c
      BY <2>2, <2>3, Pointers
    <3> QED BY <3>1
  <2>5. /\ GoodBlock(b) /\ GoodBlock(slot[s]) /\ SameBlock(slot[s], b)
        /\ GoodBlock(slot[r]) /\ SameBlock(slot[r], b)
    BY <2>1, <2>2, <2>3, <2>4 DEF Good, Same
  <2> QED BY <2>5, CopiesEncode
<1> QED
  BY <1>1, ObjectsInvariant, PTL

=============================================================================
