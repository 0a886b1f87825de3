---------------------------- MODULE BlockObjects ----------------------------
(***************************************************************************)
(* Programs that use the classes of src/block: they build and sign blocks, *)
(* collect votes on them, copy and move the objects, and exchange their    *)
(* encodings.  An object lives in a slot (a variable of the program); wire *)
(* is the last encoding that was sent or stored, which may be damaged on   *)
(* the way.  The same machine runs over the two other classes that are a   *)
(* CHOICE, Transaction and MineAction: a behavior is about the objects of  *)
(* one class.                                                              *)
(***************************************************************************)
EXTENDS Blocks

CONSTANTS
    Slots,              \* the variables of the programs
    Validators,         \* their addresses, as numbers
    Verdicts,           \* the verdicts Verdicts[a] that validator a may vote
    Genesises,          \* the unsigned objects that programs build
    Reconciliations,
    Nodes,
    Transactions,
    MineActionObjects

\* The setters take and keep any value of their type.  Integers above LONG_MAX
\* come back from an encoding as something else (toUInt64), and votes are cast
\* on blocks their leader has signed.
ASSUME BuiltAssumption ==
    /\ Validators \subseteq Nat
    /\ \A a \in Validators : Verdicts[a] \subseteq BOOLEAN
    /\ \A g \in Genesises : Genesis_type(g) /\ Genesis_long(g)
    /\ \A r \in Reconciliations : Reconciliation_type(r) /\ r.votes = <<>>
    /\ \A n \in Nodes : Node_type(n) /\ Node_long(n) /\ n.votes = <<>>
    /\ \A t \in Transactions : Transaction_type(t) /\ Transaction_long(t)
    /\ \A r \in MineActionObjects.register : Register_type(r) /\ Register_long(r)
    /\ \A u \in MineActionObjects.unregister : Unregister_type(u)
    /\ \A c \in MineActionObjects.credentialChange : CredentialChange_type(c)

VARIABLES
    class,      \* the class of all objects
    slot,       \* slot[s] is the object in s
    origin,     \* <<o>>: o is the object that slot[s] is a copy of, as built
    wire,       \* the bytes of the last encoding
    wireOrigin  \* the object they were made from, as built

vars == <<class, slot, origin, wire, wireOrigin>>

Classes == {"Block", "Transaction", "MineAction"}

new(c) ==
    CASE c = "Block" -> Block_new
      [] c = "Transaction" -> Transaction_new
      [] c = "MineAction" -> MineAction_new

encode(c, o) ==
    CASE c = "Block" -> Block_encode(o)
      [] c = "Transaction" -> i2d("30", Transaction_toAsn1(o))
      [] c = "MineAction" -> i2d("choice", MineAction_toAsn1(o))

decode(c, data, o) ==
    CASE c = "Block" -> decode_Block(data, o)
      [] c = "Transaction" ->
            IF Len(data) = 2 THEN Transaction_fromAsn1(data[2]) ELSE o
      [] c = "MineAction" ->
            IF Len(data) = 2 THEN MineAction_fromAsn1(data[2]) ELSE o

move(c, lhs, rhs) ==
    CASE c = "Block" -> Block_move(lhs, rhs)
      [] c = "Transaction" -> Transaction_move(lhs, rhs)
      [] c = "MineAction" -> MineAction_move(lhs, rhs)

\* Mutant: the move empties the pointers of rhs but does not reset its type.
movedFromNoReset(c, rhs) ==
    CASE c = "Block" -> [Block_new EXCEPT !.type = rhs.type]
      [] c = "Transaction" -> [rhs EXCEPT !.transfer = <<>>]
      [] c = "MineAction" -> [MineAction_new EXCEPT !.action = rhs.action]

\* What the move leaves of the object it takes from.
movedFrom(c, rhs) ==
    CASE c = "Block" -> Block_resetChoice(rhs)
      [] c = "Transaction" -> Transaction_resetChoice(rhs)
      [] c = "MineAction" -> MineAction_resetChoice(rhs)

\* Curve25519::sign, with the key whose address is a.
sign(a, content) == <<"signature", a, content>>


signReconciliation(r) ==
    [r EXCEPT !.signature = sign(r.leader, Reconciliation_toContent(r))]

signNode(n) == [n EXCEPT !.signature = sign(n.leader, Node_toContent(n))]

signTransaction(t) == [t EXCEPT !.signature = sign(t.signer, Transaction_toContent(t))]

signRegister(r) ==
    [r EXCEPT !.stakeSignature = sign(r.stakeAddress, Register_toContent(r)),
              !.authSignature = sign(r.authAddress, Register_toContent(r))]

signUnregister(u) ==
    [u EXCEPT !.authSignature = sign(u.authAddress, Unregister_toContent(u))]

signCredentialChange(c) ==
    [c EXCEPT !.authSignature = sign(c.authAddress, CredentialChange_toContent(c)),
              !.newAuthSignature = sign(c.newAuthAddress, CredentialChange_toContent(c)),
              !.stakeSignature = sign(c.stakeAddress, CredentialChange_toContent(c))]

\* A vote on content by the validator with address a.
vote(a, verified, content) ==
    [verified |-> verified, address |-> <<a>>, signature |-> sign(<<a>>, content)]

-----------------------------------------------------------------------------
Init ==
    /\ class \in Classes
    /\ slot = [s \in Slots |-> new(class)]
    /\ origin = [s \in Slots |-> <<>>]
    /\ wire = <<>>
    /\ wireOrigin = <<>>

Store(s, o) ==
    /\ slot' = [slot EXCEPT ![s] = o]
    /\ origin' = [origin EXCEPT ![s] = <<o>>]
    /\ UNCHANGED <<class, wire, wireOrigin>>

BuildGenesis(s) ==
    /\ class = "Block"
    /\ \E g \in Genesises : Store(s, Block_setGenesis(slot[s], g))

BuildReconciliation(s) ==
    /\ class = "Block"
    /\ \E r \in Reconciliations :
            Store(s, Block_setReconciliation(slot[s], signReconciliation(r)))

BuildNode(s) ==
    /\ class = "Block"
    /\ \E n \in Nodes : Store(s, Block_setNode(slot[s], signNode(n)))

\* The setters of a Transaction leave no member of the old one.
BuildTransaction(s) ==
    /\ class = "Transaction"
    /\ \E t \in Transactions : Store(s, signTransaction(t))

BuildRegister(s) ==
    /\ class = "MineAction"
    /\ \E r \in MineActionObjects.register :
            Store(s, MineAction_setRegister(slot[s], signRegister(r)))

BuildUnregister(s) ==
    /\ class = "MineAction"
    /\ \E u \in MineActionObjects.unregister :
            Store(s, MineAction_setUnregister(slot[s], signUnregister(u)))

BuildCredentialChange(s) ==
    /\ class = "MineAction"
    /\ \E c \in MineActionObjects.credentialChange :
            Store(s, MineAction_setCredentialChange(slot[s], signCredentialChange(c)))

Voters(votes) == {v.address : v \in Range(votes)}

\* A validator adds its vote to a reconciliation or node it holds.
Vote(s, a, verified) ==
    /\ class = "Block"
    /\ \/ /\ slot[s].type = "Reconciliation"
          /\ LET r == slot[s].reconciliation[1] IN
             /\ <<a>> \notin Voters(r.votes)
             /\ slot' = [slot EXCEPT ![s].reconciliation[1].votes =
                            Append(@, vote(a, verified, Reconciliation_toContent(r)))]
       \/ /\ slot[s].type = "Node"
          /\ LET n == slot[s].node[1] IN
             /\ <<a>> \notin Voters(n.votes)
             /\ slot' = [slot EXCEPT ![s].node[1].votes =
                            Append(@, vote(a, verified, Node_toContent(n)))]
    /\ UNCHANGED <<class, origin, wire, wireOrigin>>

Encode(s) ==
    /\ wire' = encode(class, slot[s])
    /\ wireOrigin' = origin[s]
    /\ UNCHANGED <<class, slot, origin>>

\* The bytes arrive damaged, or are not those of an object at all.
Damage ==
    /\ wire # <<>>
    /\ wire' = <<"garbage">>
    /\ wireOrigin' = <<>>
    /\ UNCHANGED <<class, slot, origin>>

Decode(s) ==
    /\ wire # <<>>
    /\ slot' = [slot EXCEPT ![s] = decode(class, wire, slot[s])]
    /\ origin' = IF Len(wire) = 2 THEN [origin EXCEPT ![s] = wireOrigin] ELSE origin
    /\ UNCHANGED <<class, wire, wireOrigin>>

\* Only Block can be copied; to itself it is left alone.
Copy(s, r) ==
    /\ class = "Block"
    /\ slot' = IF s = r THEN slot ELSE [slot EXCEPT ![s] = Block_copy(slot[r])]
    /\ origin' = [origin EXCEPT ![s] = origin[r]]
    /\ UNCHANGED <<class, wire, wireOrigin>>

Move(s, r) ==
    /\ IF s = r
       THEN UNCHANGED <<slot, origin>>
       ELSE /\ slot' = [slot EXCEPT ![s] = move(class, slot[s], slot[r]),
                                    ![r] = movedFrom(class, slot[r])]
            /\ origin' = [origin EXCEPT ![s] = origin[r], ![r] = <<>>]
    /\ UNCHANGED <<class, wire, wireOrigin>>

Next ==
    \/ \E s \in Slots :
        \/ BuildGenesis(s) \/ BuildReconciliation(s) \/ BuildNode(s)
        \/ BuildTransaction(s)
        \/ BuildRegister(s) \/ BuildUnregister(s) \/ BuildCredentialChange(s)
        \/ \E a \in Validators : \E verified \in Verdicts[a] : Vote(s, a, verified)
        \/ Encode(s) \/ Decode(s)
        \/ \E r \in Slots : Copy(s, r) \/ Move(s, r)
    \/ Damage

Spec == Init /\ [][Next]_vars

-----------------------------------------------------------------------------
\* What every route keeps of an object: the hash that DbIntegrator records for
\* a genesis or reconciliation block, a node's content with its transactions
\* cut down to their action, a transaction's action, a mine action as it is.
Action(t) == Transaction_move(Transaction_new, t)

KeptOfBlock(o) ==
    CASE o.type = "None" -> Block_new
      [] o.type = "Genesis" -> Hash_of(Genesis_encode(o.genesis[1]))
      [] o.type = "Reconciliation" ->
            Hash_of(Reconciliation_toContent(o.reconciliation[1]))
      [] o.type = "Node" ->
            Node_toContent([o.node[1] EXCEPT !.transactions = toStack(Action, @)])

Kept(c, o) ==
    CASE c = "Block" -> KeptOfBlock(o)
      [] c = "Transaction" -> Action(o)
      [] c = "MineAction" -> o

\* The objects are well formed: integers within their width, and of the
\* pointers of a CHOICE exactly the one its type names is set, so that toAsn1
\* never reads a null pointer (Block.cpp:171, MineAction.cpp:147).
ObjectsOK ==
    \A s \in Slots :
        CASE class = "Block" -> Block_type(slot[s])
          [] class = "Transaction" -> Transaction_type(slot[s])
          [] class = "MineAction" -> MineAction_type(slot[s])

\* However often a block is encoded, stored, decoded, copied and moved, in
\* between votes and damaged encodings, it keeps its type, and the hash the
\* curator records for it is the hash of the block as it was built.
ContentSurvives ==
    \A s \in Slots : origin[s] # <<>> =>
        /\ class = "Block" => slot[s].type = origin[s][1].type
        /\ Kept(class, slot[s]) = Kept(class, origin[s][1])

\* The signatures an object carries, each with the content it should be over.
Signatures(c, o) ==
    LET With(content, sigs) == {<<content, sig>> : sig \in sigs}
        Cast(votes) == {v.signature : v \in Range(votes)}
    IN  CASE c = "Block" /\ o.type = "Reconciliation" ->
                LET r == o.reconciliation[1]
                IN  With(Reconciliation_toContent(r), {r.signature} \cup Cast(r.votes))
          [] c = "Block" /\ o.type = "Node" ->
                LET n == o.node[1]
                IN  With(Node_toContent(n), {n.signature} \cup Cast(n.votes))
          [] c = "MineAction" /\ o.action = "Register" ->
                LET r == o.tregister[1]
                IN  With(Register_toContent(r), {r.stakeSignature, r.authSignature})
          [] c = "MineAction" /\ o.action = "Unregister" ->
                LET u == o.unregister[1]
                IN  With(Unregister_toContent(u), {u.authSignature})
          [] c = "MineAction" /\ o.action = "CredentialChange" ->
                LET k == o.credentialChange[1]
                IN  With(CredentialChange_toContent(k),
                         {k.authSignature, k.newAuthSignature, k.stakeSignature})
          [] OTHER -> {}

\* Curve25519::verify.
verify(content, sig) == Len(sig) = 3 /\ sig[3] = content

\* Nodes that hold transactions: decoding moves each transaction into the
\* list, which drops its time, signer, keys and signature.
HoldsTransactions(c, o) ==
    c = "Block" /\ o.type = "Node" /\ o.node[1].transactions # <<>>

\* Every signature of a block or mine action still verifies against what
\* toContent gives for the object at hand, whichever way the object went and
\* whoever voted on which copy of it: the leader's, the owners' and the votes.
SignaturesVerify ==
    \A s \in Slots : ~HoldsTransactions(class, slot[s]) =>
        \A p \in Signatures(class, slot[s]) : verify(p[1], p[2])

VotesOf(o) ==
    CASE o.type = "Reconciliation" -> Range(o.reconciliation[1].votes)
      [] o.type = "Node" -> Range(o.node[1].votes)
      [] OTHER -> {}

\* Two copies of a block with the same votes encode to the same bytes, in
\* whatever order the votes came in and whichever copies, moves and decodes
\* the two went through.
EncodingCanonical ==
    class = "Block" =>
        \A s, r \in Slots :
            /\ origin[s] # <<>> /\ origin[s] = origin[r]
            /\ VotesOf(slot[s]) = VotesOf(slot[r])
            /\ ~HoldsTransactions(class, slot[s])
            => Block_encode(slot[s]) = Block_encode(slot[r])

=============================================================================
