--------------------------- MODULE ObjectsProofs ---------------------------
(***************************************************************************)
(* What copying, encoding, signing and voting do to one object of          *)
(* src/block, for any objects whose 64 bit integers fit in a long: the     *)
(* copy has what was signed, so the signatures and the votes stay valid,   *)
(* and the votes of an encoded block come back as the same set of votes.   *)
(* The invariant of BlockObjectsProofs rests on these lemmas.              *)
(***************************************************************************)
EXTENDS BlockObjects, BlocksProofs, FiniteSetTheorems, WellFoundedInduction

\* Leaves that name no prover are left to Zenon.
USE Zenon

-----------------------------------------------------------------------------
(* The SET OF the votes of an encoded block. *)

\* Votes as ASN.1 values, each with a BOOLEAN that was set and an address that
\* is one number: what DerLess compares.
Comparable(S) == \A v \in S : v.verified \in {0, 1} /\ v.authAddress.data[1] \in Nat

\* s lists the elements of S in the order of their bytes.
Sorted(s, S) ==
    /\ Range(s) = S
    /\ \A i, j \in DOMAIN s : i < j => ~DerLess(s[j], s[i])

\* The order of the bytes has a first vote.
LEMMA FirstVote ==
    ASSUME NEW S, Comparable(S), S # {}
    PROVE  \E m \in S : \A v \in S : ~DerLess(v, m)
<1> DEFINE Z == {v \in S : v.verified = 0}
           T == IF Z # {} THEN Z ELSE S
           N == {v.authAddress.data[1] : v \in T}
<1>1. T # {} /\ T \subseteq S
  OBVIOUS
<1>2. N \subseteq Nat /\ N # {}
  BY <1>1 DEF Comparable
<1>3. PICK n \in N : \A k \in N : ~(<<k, n>> \in OpToRel(<, Nat))
  <2> HIDE DEF N
  <2> QED BY <1>2, WFMin, NatLessThanWellFounded
<1>4. \A k \in N : ~(k < n)
  BY <1>2, <1>3 DEF OpToRel
<1>5. PICK m \in T : n = m.authAddress.data[1]
  OBVIOUS
<1>6. \A v \in T : ~(v.authAddress.data[1] < m.authAddress.data[1])
  BY <1>4, <1>5
<1>7. m.verified \in {0, 1} /\ \A v \in S : v.verified \in {0, 1}
  BY <1>1, <1>5 DEF Comparable
<1>8. ASSUME NEW v \in S, DerLess(v, m) PROVE FALSE
  <2>1. CASE Z # {}
    <3>1. m.verified = 0 /\ \A x \in S : x.verified = 0 => x \in T
      BY <1>5, <2>1
    <3>2. ~(v.verified < m.verified)
      BY <1>7, <3>1, SMT
    <3> QED BY <1>6, <1>8, <3>1, <3>2 DEF DerLess
  <2>2. CASE Z = {}
    <3>1. T = S /\ m.verified = 1 /\ v.verified = 1
      BY <1>1, <1>5, <1>7, <2>2
    <3>2. ~(v.verified < m.verified)
      BY <3>1, SMT
    <3> QED BY <1>6, <1>8, <3>1, <3>2 DEF DerLess
  <2> QED BY <2>1, <2>2
<1> QED
  BY <1>1, <1>5, <1>8

\* A vote that comes first goes before the others.
LEMMA SortedCons ==
    ASSUME NEW n \in Nat, NEW S, NEW m \in S, \A v \in S : ~DerLess(v, m),
           NEW s \in [1 .. n -> S \ {m}], Sorted(s, S \ {m})
    PROVE  \E r \in [1 .. n + 1 -> S] : Sorted(r, S)
<1> DEFINE r == [i \in 1 .. n + 1 |-> IF i = 1 THEN m ELSE s[i - 1]]
<1>1. /\ r[1] = m /\ \A i \in 1 .. n + 1 : i # 1 => i - 1 \in 1 .. n /\ r[i] = s[i - 1]
  BY SMT
<1>2. r \in [1 .. n + 1 -> S]
  BY SMT
<1>3. DOMAIN r = 1 .. n + 1 /\ DOMAIN s = 1 .. n
  OBVIOUS
<1> HIDE DEF r
<1>4. Range(s) = {s[i] : i \in 1 .. n} /\ Range(r) = {r[i] : i \in 1 .. n + 1}
  BY <1>3 DEF Range
<1>5. Range(r) = S
  <2>1. \A x \in Range(r) : x \in S
    BY <1>2, <1>4
  <2>2. ASSUME NEW x \in S PROVE x \in Range(r)
    <3>1. CASE x = m
      <4>1. 1 \in 1 .. n + 1
        BY SMT
      <4> QED BY <1>1, <1>4, <3>1, <4>1
    <3>2. CASE x # m
      <4>1. PICK i \in 1 .. n : x = s[i]
        BY <1>4, <3>2 DEF Sorted
      <4>2. i + 1 \in 1 .. n + 1 /\ i + 1 # 1 /\ (i + 1) - 1 = i
        BY SMT
      <4>3. r[i + 1] = x
        BY <1>1, <4>1, <4>2
      <4> QED BY <1>4, <4>2, <4>3
    <3> QED BY <3>1, <3>2
  <2> QED BY <2>1, <2>2
<1>6. ASSUME NEW i \in 1 .. n + 1, NEW j \in 1 .. n + 1, i < j
      PROVE  ~DerLess(r[j], r[i])
  <2>1. CASE i = 1
    BY <1>1, <1>2, <2>1
  <2>2. CASE i # 1
    <3>1. j # 1 /\ i - 1 < j - 1
      BY <1>6, <2>2, SMT
    <3> QED BY <1>1, <1>3, <2>2, <3>1 DEF Sorted
  <2> QED BY <2>1, <2>2
<1> QED
  BY <1>2, <1>3, <1>5, <1>6 DEF Sorted

\* Votes can be put in the order of their bytes, so SetOf chooses such an order.
LEMMA SortedExists ==
    ASSUME NEW S, IsFiniteSet(S), Comparable(S)
    PROVE  \E s \in [1 .. Cardinality(S) -> S] : Sorted(s, S)
<1> DEFINE Q(T) == \E s \in [1 .. Cardinality(T) -> T] : Sorted(s, T)
           Bad == {T \in SUBSET S : ~Q(T)}
           N == {Cardinality(T) : T \in Bad}
<1> HIDE DEF Q
<1>1. SUFFICES ASSUME ~Q(S) PROVE FALSE
  BY DEF Q
<1>2. \A T \in SUBSET S : IsFiniteSet(T) /\ Cardinality(T) \in Nat
  BY FS_Subset, FS_CardinalityType
<1>3. N \subseteq Nat /\ N # {}
  BY <1>1, <1>2
<1>4. PICK n \in N : \A k \in N : ~(<<k, n>> \in OpToRel(<, Nat))
  <2> HIDE DEF N
  <2> QED BY <1>3, WFMin, NatLessThanWellFounded
<1>5. n \in Nat /\ \A k \in N : ~(k < n)
  BY <1>3, <1>4 DEF OpToRel
<1>6. PICK T \in Bad : n = Cardinality(T)
  OBVIOUS
<1>7. T # {}
  <2> SUFFICES ASSUME T = {} PROVE FALSE
    OBVIOUS
  <2>1. Cardinality(T) = 0
    BY FS_EmptySet
  <2>2. <<>> \in [1 .. 0 -> {}] /\ Range(<<>>) = {} /\ DOMAIN <<>> = {}
    BY SMT DEF Range
  <2>3. Sorted(<<>>, {})
    BY <2>2 DEF Sorted
  <2> QED BY <1>6, <2>1, <2>2, <2>3 DEF Q
<1>8. PICK m \in T : \A v \in T : ~DerLess(v, m)
  <2>1. Comparable(T)
    BY DEF Comparable
  <2> QED BY <1>7, <2>1, FirstVote
<1> DEFINE U == T \ {m}
<1>9. U \in SUBSET S /\ Cardinality(U) \in Nat /\ Cardinality(U) + 1 = n
  <2>1. IsFiniteSet(T) /\ Cardinality(T) \in Nat
    BY <1>2
  <2>2. Cardinality(U) = Cardinality(T) - 1
    BY <2>1, FS_RemoveElement
  <2>3. U \in SUBSET S
    OBVIOUS
  <2>4. Cardinality(U) \in Nat
    BY <1>2, <2>3
  <2> HIDE DEF U
  <2>5. Cardinality(U) + 1 = n
    BY <1>5, <1>6, <2>2, <2>4, SMT
  <2> QED BY <2>3, <2>4, <2>5
<1>10. Q(U)
  <2> HIDE DEF U
  <2>1. Cardinality(U) < n
    BY <1>5, <1>9, SMT
  <2> QED BY <1>5, <1>9, <2>1
<1>11. PICK s \in [1 .. Cardinality(U) -> U] : Sorted(s, U)
  BY <1>10 DEF Q
<1>12. \E r \in [1 .. Cardinality(U) + 1 -> T] : Sorted(r, T)
  BY <1>8, <1>9, <1>11, SortedCons
<1>13. Q(T)
  <2> HIDE DEF U
  <2> QED BY <1>6, <1>9, <1>12 DEF Q
<1> QED
  BY <1>6, <1>13

\* What SetOf gives is a list of exactly the votes.
LEMMA SetOfVotes ==
    ASSUME NEW votes, List(votes), Comparable(Range(votes))
    PROVE  List(SetOf(votes)) /\ Range(SetOf(votes)) = Range(votes)
<1> DEFINE S == Range(votes)
           W == SetOf(votes)
<1>1. IsFiniteSet(S)
  <2>1. votes \in Seq(S) /\ Len(votes) \in Nat /\ DOMAIN votes = 1 .. Len(votes)
    BY ListIs DEF List
  <2>2. \A x \in S : \E i \in 1 .. Len(votes) : votes[i] = x
    BY <2>1 DEF Range
  <2> HIDE DEF S
  <2> QED BY <2>1, <2>2 DEF IsFiniteSet
<1>2. \E s \in [1 .. Cardinality(S) -> S] : Sorted(s, S)
  <2> HIDE DEF S
  <2> QED BY <1>1, SortedExists DEF S
<1>3. W \in [1 .. Cardinality(S) -> S] /\ Sorted(W, S)
  BY <1>2 DEF SetOf, Sorted
<1>4. Cardinality(S) \in Nat
  BY <1>1, FS_CardinalityType
<1> HIDE DEF S, W
<1>5. W = [i \in 1 .. Cardinality(S) |-> W[i]]
  BY <1>3
<1> QED
  BY <1>3, <1>4, <1>5, FunctionIsList DEF Sorted, S, W

\* The votes of an encoded block come back as the same votes, in some order.
LEMMA VotesSurvive ==
    ASSUME NEW v, List(v),
           \A i \in DOMAIN v : Validation_type(v[i]) /\ v[i].address[1] \in Nat
    PROVE  LET d == fromStack(Validation_fromAsn1, SetOf(toStack(Validation_toAsn1, v)))
           IN  List(d) /\ Range(d) = Range(v)
<1> DEFINE t == [i \in 1 .. Len(v) |-> Validation_toAsn1(v[i])]
           W == SetOf(t)
           d == [i \in 1 .. Len(W) |-> Validation_fromAsn1(W[i])]
<1>1. Len(v) \in Nat /\ DOMAIN v = 1 .. Len(v)
  BY ListIs
<1>2. Range(t) = {Validation_toAsn1(x) : x \in Range(v)}
  BY <1>1 DEF Range
<1>3. \A x \in Range(v) : Validation_type(x) /\ x.address[1] \in Nat
  BY DEF Range
<1>4. ASSUME NEW x, Validation_type(x), x.address[1] \in Nat
      PROVE  /\ Validation_toAsn1(x).verified \in {0, 1}
             /\ Validation_toAsn1(x).authAddress.data[1] \in Nat
  <2> DEFINE flag == IF x.verified THEN 1 ELSE 0
             y == Validation_toAsn1(x)
  <2>1. y = [asn1_Validation EXCEPT
                !.verified = flag, !.authAddress = Address_toAsn1(x.address),
                !.signature = Signature_toAsn1(x.signature)]
    BY DEF Validation_toAsn1
  <2>2. flag \in {0, 1}
    OBVIOUS
  <2> HIDE DEF y, flag
  <2>3. y.verified = flag /\ y.authAddress = Address_toAsn1(x.address)
    BY <2>1 DEF asn1_Validation
  <2>4. Address_toAsn1(x.address).data = x.address
    BY DEF Address_toAsn1, fromBin, ASN1_OCTET_STRING_new
  <2> QED BY <1>4, <2>2, <2>3, <2>4 DEF y
<1>5. Comparable(Range(t))
  <2> HIDE DEF t
  <2> QED BY <1>2, <1>3, <1>4 DEF Comparable
<1>6. List(t)
  <2>1. t = [i \in 1 .. Len(v) |-> t[i]]
    OBVIOUS
  <2> HIDE DEF t
  <2> QED BY <1>1, <2>1, FunctionIsList
<1> HIDE DEF t
<1>7. List(W) /\ Range(W) = Range(t)
  BY <1>5, <1>6, SetOfVotes
<1> HIDE DEF W
<1>8. Len(W) \in Nat /\ DOMAIN W = 1 .. Len(W)
  BY <1>7, ListIs
<1>9. List(d) /\ DOMAIN d = 1 .. Len(W)
  <2>1. d = [i \in 1 .. Len(W) |-> d[i]]
    OBVIOUS
  <2> HIDE DEF d
  <2> QED BY <1>8, <2>1, FunctionIsList
<1>10. Range(d) = {Validation_fromAsn1(y) : y \in Range(W)}
  BY <1>8, <1>9 DEF Range
<1>11. \A x \in Range(v) : Validation_fromAsn1(Validation_toAsn1(x)) = x
  BY <1>3, ValidationReads DEF Validation_type
<1> HIDE DEF d
<1>12. Range(d) = Range(v)
  <2>1. ASSUME NEW x \in Range(d) PROVE x \in Range(v)
    <3>1. PICK y \in Range(W) : x = Validation_fromAsn1(y)
      BY <1>10
    <3>2. PICK z \in Range(v) : y = Validation_toAsn1(z)
      BY <1>2, <1>7
    <3> QED BY <1>11, <3>1, <3>2
  <2>2. ASSUME NEW x \in Range(v) PROVE x \in Range(d)
    <3>1. Validation_toAsn1(x) \in Range(W)
      BY <1>2, <1>7
    <3> QED BY <1>10, <1>11, <3>1
  <2> QED BY <2>1, <2>2
<1> QED
  BY <1>9, <1>12 DEF d, W, t, toStack, fromStack

-----------------------------------------------------------------------------
(* Objects as the invariant has them. *)

\* The signature of the leader and those of the votes are over the content.
Signed(content, o) ==
    /\ verify(content, o.signature)
    /\ \A v \in Range(o.votes) : verify(content, v.signature)

\* The address of a validator is one number.
Numbered(votes) == \A v \in Range(votes) : v.address[1] \in Nat

GoodGenesis(g) == Genesis_type(g) /\ Genesis_long(g)

GoodReconciliation(r) ==
    /\ Reconciliation_type(r) /\ Numbered(r.votes)
    /\ Signed(Reconciliation_toContent(r), r)

GoodNode(n) ==
    /\ Node_type(n) /\ Node_long(n) /\ Numbered(n.votes)
    /\ n.transactions = <<>> => Signed(Node_toContent(n), n)

GoodBlock(o) ==
    \/ o = Block_new
    \/ \E g : o = genesisBlock(g) /\ GoodGenesis(g)
    \/ \E r : o = reconciliationBlock(r) /\ GoodReconciliation(r)
    \/ \E n : o = nodeBlock(n) /\ GoodNode(n)

GoodTransaction(t) == Transaction_type(t) /\ Transaction_long(t)

\* The two are copies of one object.
SameReconciliation(r, q) ==
    /\ r.protocol = q.protocol /\ r.chainId = q.chainId /\ r.shardInfo = q.shardInfo
    /\ r.leader = q.leader /\ r.signature = q.signature

Actions(transactions) == [i \in 1 .. Len(transactions) |-> Action(transactions[i])]

SameNode(n, q) ==
    /\ n.chainId = q.chainId /\ n.shardId = q.shardId /\ n.index = q.index
    /\ n.prevHash = q.prevHash /\ n.nonce = q.nonce /\ n.leader = q.leader
    /\ n.newAddress = q.newAddress /\ n.signature = q.signature
    /\ Actions(n.transactions) = Actions(q.transactions)
    /\ n.transactions = <<>> <=> q.transactions = <<>>

SameBlock(o, b) ==
    \/ o = b
    \/ \E r, q : /\ o = reconciliationBlock(r) /\ b = reconciliationBlock(q)
                 /\ SameReconciliation(r, q)
    \/ \E n, q : o = nodeBlock(n) /\ b = nodeBlock(q) /\ SameNode(n, q)

-----------------------------------------------------------------------------
(* Reconciliations and nodes that are read back. *)

\* What is signed of a reconciliation does not depend on its votes.
LEMMA ReconciliationContent ==
    ASSUME NEW r, NEW q, SameReconciliation(r, q)
    PROVE  Reconciliation_toContent(r) = Reconciliation_toContent(q)
<1>1. Reconciliation_content(r) = Reconciliation_content(q)
  BY DEF Reconciliation_content, SameReconciliation, toStack
<1> QED
  BY <1>1, ReconciliationWrites

\* A list of the same votes is one of typed votes by validators.
LEMMA SameVotes ==
    ASSUME NEW v, NEW w, List(w), Range(w) = Range(v), Numbered(v),
           \A i \in DOMAIN v : Validation_type(v[i])
    PROVE  Numbered(w) /\ \A i \in DOMAIN w : Validation_type(w[i])
<1>1. Numbered(w)
  BY DEF Numbered
<1>2. \A x \in Range(v) : Validation_type(x)
  BY DEF Range
<1>3. \A i \in DOMAIN w : w[i] \in Range(w)
  BY DEF Range
<1> QED
  BY <1>1, <1>2, <1>3

\* A reconciliation with its votes in another order.
LEMMA ReconciliationKept ==
    ASSUME NEW r, GoodReconciliation(r), NEW w, List(w), Range(w) = Range(r.votes),
           NEW d, d = [protocol |-> r.protocol, chainId |-> r.chainId,
                       shardInfo |-> r.shardInfo, leader |-> r.leader,
                       signature |-> r.signature, votes |-> w]
    PROVE  GoodReconciliation(d) /\ SameReconciliation(d, r)
<1>1. /\ d.protocol = r.protocol /\ d.chainId = r.chainId /\ d.shardInfo = r.shardInfo
      /\ d.leader = r.leader /\ d.signature = r.signature /\ d.votes = w
  OBVIOUS
<1>2. SameReconciliation(d, r)
  BY <1>1 DEF SameReconciliation
<1>3. Reconciliation_toContent(d) = Reconciliation_toContent(r)
  BY <1>2, ReconciliationContent
<1>4. Signed(Reconciliation_toContent(d), d)
  BY <1>1, <1>3 DEF GoodReconciliation, Signed
<1>5. Numbered(d.votes) /\ \A i \in DOMAIN d.votes : Validation_type(d.votes[i])
  BY <1>1, SameVotes DEF GoodReconciliation, Reconciliation_type
<1>6. Members(d, Reconciliation_new)
  BY DEF Members, Reconciliation_new
<1>7. Reconciliation_type(d)
  BY <1>1, <1>5, <1>6 DEF GoodReconciliation, Reconciliation_type
<1> QED
  BY <1>2, <1>4, <1>5, <1>7 DEF GoodReconciliation

\* A reconciliation that was copied.
LEMMA ReconciliationCopied ==
    ASSUME NEW r, GoodReconciliation(r)
    PROVE  LET d == Reconciliation_fromAsn1(Reconciliation_toAsn1(r))
           IN  GoodReconciliation(d) /\ SameReconciliation(d, r)
<1> DEFINE t == toStack(Validation_toAsn1, r.votes)
           w == fromStack(Validation_fromAsn1, t)
           d == Reconciliation_fromAsn1(Reconciliation_toAsn1(r))
<1>1. Reconciliation_toAsn1(r) =
          [content |-> Reconciliation_content(r),
           signature |-> Signature_toAsn1(r.signature), votes |-> t]
  BY ReconciliationWrites DEF toStack
<1>2. w = r.votes
  BY ValidationsRead DEF GoodReconciliation, Reconciliation_type, Validation_type,
                         toStack, fromStack
<1> HIDE DEF t
<1>3. d = [protocol |-> r.protocol, chainId |-> r.chainId, shardInfo |-> r.shardInfo,
           leader |-> r.leader, signature |-> r.signature, votes |-> w]
  BY <1>1, ReconciliationReads DEF GoodReconciliation, Reconciliation_type, fromStack
<1> HIDE DEF d, w
<1>4. List(w) /\ Range(w) = Range(r.votes)
  BY <1>2 DEF GoodReconciliation, Reconciliation_type
<1> QED
  BY <1>3, <1>4, ReconciliationKept DEF d

\* A reconciliation that was encoded and decoded.
LEMMA ReconciliationDecoded ==
    ASSUME NEW r, GoodReconciliation(r)
    PROVE  LET d == Reconciliation_fromAsn1(reconciliationWire(r))
           IN  GoodReconciliation(d) /\ SameReconciliation(d, r)
<1> DEFINE t == SetOf(toStack(Validation_toAsn1, r.votes))
           w == fromStack(Validation_fromAsn1, t)
           d == Reconciliation_fromAsn1(reconciliationWire(r))
<1>1. reconciliationWire(r) =
          [content |-> Reconciliation_content(r),
           signature |-> Signature_toAsn1(r.signature), votes |-> t]
  BY DEF reconciliationWire, toStack
<1>2. List(w) /\ Range(w) = Range(r.votes)
  <2>1. \A i \in DOMAIN r.votes : Validation_type(r.votes[i]) /\ r.votes[i].address[1] \in Nat
    BY DEF GoodReconciliation, Reconciliation_type, Numbered, Range
  <2> QED BY <2>1, VotesSurvive DEF GoodReconciliation, Reconciliation_type, toStack, fromStack
<1> HIDE DEF t
<1>3. d = [protocol |-> r.protocol, chainId |-> r.chainId, shardInfo |-> r.shardInfo,
           leader |-> r.leader, signature |-> r.signature, votes |-> w]
  BY <1>1, ReconciliationReads DEF GoodReconciliation, Reconciliation_type, fromStack
<1> HIDE DEF d, w
<1> QED
  BY <1>2, <1>3, ReconciliationKept DEF d

\* What the move into a list leaves of a transaction.
LEMMA ActionIs ==
    ASSUME NEW t
    PROVE  Action(t) = [type |-> t.type, transfer |-> t.transfer, time |-> 0, signer |-> <<>>,
                        signerKey |-> <<>>, newAddress |-> <<>>, signature |-> <<>>]
<1> DEFINE e == [Transaction_new EXCEPT !.type = "None", !.transfer = <<>>]
           a == Action(t)
<1>1. e = [Transaction_new EXCEPT !.type = "None", !.transfer = <<>>]
  OBVIOUS
<1>2. a = [e EXCEPT !.type = t.type, !.transfer = t.transfer]
  BY DEF Action, Transaction_move, Transaction_resetChoice
<1> HIDE DEF e, a
<1>3. e = [type |-> "None", transfer |-> <<>>, time |-> 0, signer |-> <<>>,
           signerKey |-> <<>>, newAddress |-> <<>>, signature |-> <<>>]
  BY <1>1 DEF Transaction_new, Time_new
<1>4. a = [type |-> t.type, transfer |-> t.transfer, time |-> 0, signer |-> <<>>,
           signerKey |-> <<>>, newAddress |-> <<>>, signature |-> <<>>]
  BY <1>2, <1>3
<1> QED
  BY <1>4 DEF a

\* Two transactions have the same action when their choices are the same.
LEMMA ActionEquals ==
    ASSUME NEW t, NEW u, t.type = u.type, t.transfer = u.transfer
    PROVE  Action(t) = Action(u)
  BY ActionIs

\* The action of a transaction is a transaction, with that action.
LEMMA ActionGood ==
    ASSUME NEW t, GoodTransaction(t)
    PROVE  GoodTransaction(Action(t)) /\ Action(Action(t)) = Action(t)
<1> DEFINE a == Action(t)
<1>1. a = [type |-> t.type, transfer |-> t.transfer, time |-> 0, signer |-> <<>>,
           signerKey |-> <<>>, newAddress |-> <<>>, signature |-> <<>>]
  BY ActionIs
<1> HIDE DEF a
<1>2. /\ a.type = t.type /\ a.transfer = t.transfer /\ a.time = 0 /\ a.signer = <<>>
      /\ a.signerKey = <<>> /\ a.newAddress = <<>> /\ a.signature = <<>>
  BY <1>1
<1>3. Members(a, Transaction_new)
  BY <1>1 DEF Members, Transaction_new
<1>4. 0 \in UInt64 /\ 0 <= LongMax
  BY WidthAssumption, SMT DEF UInt64, UInt64Max
<1>5. GoodTransaction(a)
  BY <1>2, <1>3, <1>4, ShortBytes
  DEF GoodTransaction, Transaction_type, Transaction_long, Time_type
<1>6. Action(a) = Action(t)
  BY <1>2, ActionEquals
<1> QED
  BY <1>5, <1>6 DEF a

\* The same for the list of a node.
LEMMA ActionsGood ==
    ASSUME NEW s, List(s), \A i \in DOMAIN s : GoodTransaction(s[i])
    PROVE  /\ List(Actions(s)) /\ \A i \in DOMAIN Actions(s) : GoodTransaction(Actions(s)[i])
           /\ Actions(Actions(s)) = Actions(s)
           /\ Actions(s) = <<>> <=> s = <<>>
<1> DEFINE a == Actions(s)
<1>1. Len(s) \in Nat /\ DOMAIN s = 1 .. Len(s)
  BY ListIs
<1>2. a = [i \in 1 .. Len(s) |-> Action(s[i])]
  BY DEF Actions
<1> HIDE DEF a
<1>3. List(a) /\ Len(a) = Len(s) /\ DOMAIN a = 1 .. Len(s)
  <2>1. a = [i \in 1 .. Len(s) |-> a[i]]
    BY <1>2
  <2> QED BY <1>1, <2>1, FunctionIsList
<1>4. \A i \in 1 .. Len(s) : GoodTransaction(a[i]) /\ Action(a[i]) = a[i]
  BY <1>1, <1>2, ActionGood
<1>5. Actions(a) = a
  <2>1. Actions(a) = [i \in 1 .. Len(s) |-> Action(a[i])]
    BY <1>3 DEF Actions
  <2>2. Actions(a) = [i \in 1 .. Len(s) |-> a[i]]
    BY <1>4, <2>1
  <2>3. a = [i \in 1 .. Len(s) |-> a[i]]
    BY <1>2
  <2> QED BY <2>2, <2>3
<1>6. a = <<>> <=> s = <<>>
  <2>1. ASSUME a = <<>> PROVE s = <<>>
    BY <1>3, <2>1, ShortLists, Pointers
  <2>2. ASSUME s = <<>> PROVE a = <<>>
    BY <1>3, <2>2, ShortLists, Pointers
  <2> QED BY <2>1, <2>2
<1> QED
  BY <1>3, <1>4, <1>5, <1>6 DEF a

\* What is signed of a node does not depend on its votes.
LEMMA NodeContent ==
    ASSUME NEW n, NEW q, SameNode(n, q), n.transactions = q.transactions
    PROVE  Node_toContent(n) = Node_toContent(q)
<1>1. Node_content(n) = Node_content(q)
  BY DEF Node_content, SameNode, toStack
<1> QED
  BY <1>1, NodeWrites

\* A node with its votes in another order and its transactions cut down.
LEMMA NodeKept ==
    ASSUME NEW n, GoodNode(n), NEW w, List(w), Range(w) = Range(n.votes),
           NEW d, d = [chainId |-> n.chainId, shardId |-> n.shardId, index |-> n.index,
                       prevHash |-> n.prevHash, transactions |-> Actions(n.transactions),
                       nonce |-> n.nonce, leader |-> n.leader, newAddress |-> n.newAddress,
                       signature |-> n.signature, votes |-> w]
    PROVE  GoodNode(d) /\ SameNode(d, n)
<1> DEFINE a == Actions(n.transactions)
<1>1. /\ List(a) /\ \A i \in DOMAIN a : GoodTransaction(a[i])
      /\ Actions(a) = a
      /\ a = <<>> <=> n.transactions = <<>>
  BY ActionsGood DEF GoodNode, Node_type, Node_long, GoodTransaction
<1>2. d = [chainId |-> n.chainId, shardId |-> n.shardId, index |-> n.index,
           prevHash |-> n.prevHash, transactions |-> a,
           nonce |-> n.nonce, leader |-> n.leader, newAddress |-> n.newAddress,
           signature |-> n.signature, votes |-> w]
  OBVIOUS
<1>3. a = Actions(n.transactions)
  OBVIOUS
<1> HIDE DEF a
<1>4. /\ d.chainId = n.chainId /\ d.shardId = n.shardId /\ d.index = n.index
      /\ d.prevHash = n.prevHash /\ d.transactions = a /\ d.nonce = n.nonce
      /\ d.leader = n.leader /\ d.newAddress = n.newAddress
      /\ d.signature = n.signature /\ d.votes = w
  BY ONLY <1>2, Zenon
<1>5. SameNode(d, n)
  BY <1>1, <1>3, <1>4 DEF SameNode
<1>6. ASSUME d.transactions = <<>> PROVE Signed(Node_toContent(d), d)
  <2>1. n.transactions = <<>>
    BY <1>1, <1>4, <1>6
  <2>2. Node_toContent(d) = Node_toContent(n)
    BY <1>5, <1>6, <2>1, NodeContent
  <2> QED BY <1>4, <2>1, <2>2 DEF GoodNode, Signed
<1>7. Numbered(d.votes) /\ \A i \in DOMAIN d.votes : Validation_type(d.votes[i])
  BY <1>4, SameVotes DEF GoodNode, Node_type
<1>8. Members(d, Node_new)
  BY <1>2 DEF Members, Node_new
<1>9. \A f \in {"nonce", "leader", "newAddress", "signature"} : d[f] = n[f]
  BY <1>4
<1>10. Node_type(d)
  BY <1>1, <1>4, <1>7, <1>8, <1>9 DEF GoodNode, Node_type, GoodTransaction
<1>11. Node_long(d)
  BY <1>1, <1>4 DEF GoodNode, Node_long, GoodTransaction
<1> QED
  BY <1>5, <1>6, <1>7, <1>10, <1>11 DEF GoodNode

\* A node that was copied.
LEMMA NodeCopied ==
    ASSUME NEW n, GoodNode(n)
    PROVE  LET d == Node_fromAsn1(Node_toAsn1(n)) IN GoodNode(d) /\ SameNode(d, n)
<1> DEFINE t == toStack(Validation_toAsn1, n.votes)
           w == fromStack(Validation_fromAsn1, t)
           d == Node_fromAsn1(Node_toAsn1(n))
<1>1. Node_toAsn1(n) = [content |-> Node_content(n),
                        signature |-> Signature_toAsn1(n.signature), votes |-> t]
  BY NodeWrites DEF toStack
<1>2. w = n.votes
  BY ValidationsRead DEF GoodNode, Node_type, Validation_type, toStack, fromStack
<1> HIDE DEF t
<1>3. d = [chainId |-> n.chainId, shardId |-> n.shardId, index |-> n.index,
           prevHash |-> n.prevHash, transactions |-> Actions(n.transactions),
           nonce |-> n.nonce, leader |-> n.leader, newAddress |-> n.newAddress,
           signature |-> n.signature, votes |-> w]
  BY <1>1, NodeReads DEF GoodNode, Actions, Action, fromStack
<1> HIDE DEF d, w
<1>4. List(w) /\ Range(w) = Range(n.votes)
  BY <1>2 DEF GoodNode, Node_type
<1> QED
  BY <1>3, <1>4, NodeKept DEF d

\* A node that was encoded and decoded.
LEMMA NodeDecoded ==
    ASSUME NEW n, GoodNode(n)
    PROVE  LET d == Node_fromAsn1(nodeWire(n)) IN GoodNode(d) /\ SameNode(d, n)
<1> DEFINE t == SetOf(toStack(Validation_toAsn1, n.votes))
           w == fromStack(Validation_fromAsn1, t)
           d == Node_fromAsn1(nodeWire(n))
<1>1. nodeWire(n) = [content |-> Node_content(n),
                     signature |-> Signature_toAsn1(n.signature), votes |-> t]
  BY DEF nodeWire, toStack
<1>2. List(w) /\ Range(w) = Range(n.votes)
  <2>1. \A i \in DOMAIN n.votes : Validation_type(n.votes[i]) /\ n.votes[i].address[1] \in Nat
    BY DEF GoodNode, Node_type, Numbered, Range
  <2> QED BY <2>1, VotesSurvive DEF GoodNode, Node_type, toStack, fromStack
<1> HIDE DEF t
<1>3. d = [chainId |-> n.chainId, shardId |-> n.shardId, index |-> n.index,
           prevHash |-> n.prevHash, transactions |-> Actions(n.transactions),
           nonce |-> n.nonce, leader |-> n.leader, newAddress |-> n.newAddress,
           signature |-> n.signature, votes |-> w]
  BY <1>1, NodeReads DEF GoodNode, Actions, Action, fromStack
<1> HIDE DEF d, w
<1> QED
  BY <1>2, <1>3, NodeKept DEF d

-----------------------------------------------------------------------------
(* Blocks. *)

\* SameBlock is transitive, along the copies of copies.
LEMMA SameBlockTransitive ==
    ASSUME NEW o, NEW p, NEW b, SameBlock(o, p), SameBlock(p, b)
    PROVE  SameBlock(o, b)
<1>1. CASE o = p \/ p = b
  BY <1>1
<1>2. ASSUME NEW r, NEW q, o = reconciliationBlock(r), p = reconciliationBlock(q),
             SameReconciliation(r, q), p # b
      PROVE  SameBlock(o, b)
  <2>1. PICK x, y : /\ p = reconciliationBlock(x) /\ b = reconciliationBlock(y)
                    /\ SameReconciliation(x, y)
    <3>1. p.type = "Reconciliation"
      BY <1>2, BlockMembers
    <3>2. \A n : p # nodeBlock(n)
      BY <3>1, BlockMembers
    <3> QED BY <1>2, <3>2 DEF SameBlock
  <2>2. q = x
    <3>1. q = p.reconciliation[1] /\ x = p.reconciliation[1]
      BY <1>2, <2>1, BlockMembers
    <3> QED BY <3>1
  <2>3. SameReconciliation(r, y)
    BY <1>2, <2>1, <2>2 DEF SameReconciliation
  <2> QED BY <1>2, <2>1, <2>3 DEF SameBlock
<1>3. ASSUME NEW n, NEW q, o = nodeBlock(n), p = nodeBlock(q), SameNode(n, q), p # b
      PROVE  SameBlock(o, b)
  <2>1. PICK x, y : p = nodeBlock(x) /\ b = nodeBlock(y) /\ SameNode(x, y)
    <3>1. p.type = "Node"
      BY <1>3, BlockMembers
    <3>2. \A r : p # reconciliationBlock(r)
      BY <3>1, BlockMembers
    <3> QED BY <1>3, <3>2 DEF SameBlock
  <2>2. q = x
    <3>1. q = p.node[1] /\ x = p.node[1]
      BY <1>3, <2>1, BlockMembers
    <3> QED BY <3>1
  <2>3. SameNode(n, y)
    BY <1>3, <2>1, <2>2 DEF SameNode
  <2> QED BY <1>3, <2>1, <2>3 DEF SameBlock
<1> QED
  BY <1>1, <1>2, <1>3 DEF SameBlock

\* A genesis block is read as it was written.
LEMMA GenesisKept ==
    ASSUME NEW g, GoodGenesis(g)
    PROVE  Genesis_fromAsn1(Genesis_toAsn1(g)) = g
<1>1. Specie_fromAsn1(Specie_toAsn1(g.greed)) = g.greed
  BY SpecieReads DEF GoodGenesis, Genesis_type, Genesis_long
<1>2. g = [protocol |-> g.protocol, name |-> g.name, version |-> g.version,
           creation |-> g.creation, creator |-> g.creator, validatorKey |-> g.validatorKey,
           stakeAddress |-> g.stakeAddress, greed |-> g.greed, seed |-> g.seed]
  BY DEF GoodGenesis, Genesis_type, Members, Genesis_new
<1>3. Genesis_fromAsn1(Genesis_toAsn1(g)) =
          [protocol |-> g.protocol, name |-> g.name, version |-> g.version,
           creation |-> g.creation, creator |-> g.creator, validatorKey |-> g.validatorKey,
           stakeAddress |-> g.stakeAddress, greed |-> g.greed, seed |-> g.seed]
  BY <1>1, GenesisReads DEF GoodGenesis, Genesis_type, Genesis_long
<1> QED
  BY <1>2, <1>3

\* operator=(const Block &) makes a copy.
LEMMA CopyKept ==
    ASSUME NEW o, GoodBlock(o)
    PROVE  GoodBlock(Block_copy(o)) /\ SameBlock(Block_copy(o), o)
<1>1. CASE o = Block_new
  BY <1>1, BlockCopies DEF GoodBlock, SameBlock
<1>2. ASSUME NEW g, o = genesisBlock(g), GoodGenesis(g)
      PROVE  GoodBlock(Block_copy(o)) /\ SameBlock(Block_copy(o), o)
  <2>1. Block_copy(o) = o
    BY <1>2, BlockCopies, GenesisKept
  <2> QED BY <2>1 DEF SameBlock
<1>3. ASSUME NEW r, o = reconciliationBlock(r), GoodReconciliation(r)
      PROVE  GoodBlock(Block_copy(o)) /\ SameBlock(Block_copy(o), o)
  BY <1>3, BlockCopies, ReconciliationCopied DEF GoodBlock, SameBlock
<1>4. ASSUME NEW n, o = nodeBlock(n), GoodNode(n)
      PROVE  GoodBlock(Block_copy(o)) /\ SameBlock(Block_copy(o), o)
  BY <1>4, BlockCopies, NodeCopied DEF GoodBlock, SameBlock
<1> QED
  BY <1>1, <1>2, <1>3, <1>4 DEF GoodBlock

\* decode of an encoded block makes a copy, whatever the object was before.
LEMMA DecodeKept ==
    ASSUME NEW o, GoodBlock(o), NEW hash
    PROVE  LET d == decode_Block(Block_encode(o), hash) IN GoodBlock(d) /\ SameBlock(d, o)
<1> DEFINE d == decode_Block(Block_encode(o), hash)
<1>1. CASE o = Block_new
  BY <1>1, BlockDecodes DEF GoodBlock, SameBlock
<1>2. ASSUME NEW g, o = genesisBlock(g), GoodGenesis(g)
      PROVE  GoodBlock(d) /\ SameBlock(d, o)
  <2>1. d = o
    BY <1>2, BlockDecodes, GenesisKept
  <2> QED BY <2>1 DEF SameBlock
<1>3. ASSUME NEW r, o = reconciliationBlock(r), GoodReconciliation(r)
      PROVE  GoodBlock(d) /\ SameBlock(d, o)
  BY <1>3, BlockDecodes, ReconciliationDecoded DEF GoodBlock, SameBlock
<1>4. ASSUME NEW n, o = nodeBlock(n), GoodNode(n)
      PROVE  GoodBlock(d) /\ SameBlock(d, o)
  BY <1>4, BlockDecodes, NodeDecoded DEF GoodBlock, SameBlock
<1> QED
  BY <1>1, <1>2, <1>3, <1>4 DEF GoodBlock

\* A good block is well typed: its type names the pointer that is set.
LEMMA GoodBlockTyped ==
    ASSUME NEW o, GoodBlock(o)
    PROVE  Block_type(o)
<1>1. CASE o = Block_new
  <2>1. /\ o.type = "None" /\ o.genesis = <<>> /\ o.reconciliation = <<>> /\ o.node = <<>>
        /\ Members(o, Block_new)
    BY <1>1 DEF Block_new, Members
  <2>2. Len(<<>>) = 0 /\ DOMAIN <<>> = {}
    BY SMT
  <2>3. /\ Len(o.genesis) = IF o.type = "Genesis" THEN 1 ELSE 0
        /\ Len(o.reconciliation) = IF o.type = "Reconciliation" THEN 1 ELSE 0
        /\ Len(o.node) = IF o.type = "Node" THEN 1 ELSE 0
    BY ONLY <2>1, <2>2, SMT
  <2>4. /\ \A i \in DOMAIN o.genesis : Genesis_type(o.genesis[i])
        /\ \A i \in DOMAIN o.reconciliation : Reconciliation_type(o.reconciliation[i])
        /\ \A i \in DOMAIN o.node : Node_type(o.node[i])
    BY <2>1, <2>2
  <2> QED BY <2>1, <2>3, <2>4 DEF Block_type, BlockTypes
<1>2. ASSUME NEW g, o = genesisBlock(g), GoodGenesis(g) PROVE Block_type(o)
  <2>1. /\ o.type = "Genesis" /\ o.genesis = <<g>> /\ o.reconciliation = <<>> /\ o.node = <<>>
        /\ Members(o, Block_new)
    BY <1>2 DEF genesisBlock, Block_new, Members
  <2>2. /\ Len(<<>>) = 0 /\ DOMAIN <<>> = {} /\ Len(<<g>>) = 1 /\ \A i \in DOMAIN <<g>> : <<g>>[i] = g
    BY SMT
  <2>3. /\ Len(o.genesis) = IF o.type = "Genesis" THEN 1 ELSE 0
        /\ Len(o.reconciliation) = IF o.type = "Reconciliation" THEN 1 ELSE 0
        /\ Len(o.node) = IF o.type = "Node" THEN 1 ELSE 0
    BY ONLY <2>1, <2>2, SMT
  <2>4. /\ \A i \in DOMAIN o.genesis : Genesis_type(o.genesis[i])
        /\ \A i \in DOMAIN o.reconciliation : Reconciliation_type(o.reconciliation[i])
        /\ \A i \in DOMAIN o.node : Node_type(o.node[i])
    BY <1>2, <2>1, <2>2 DEF GoodGenesis
  <2> QED BY <2>1, <2>3, <2>4 DEF Block_type, BlockTypes
<1>3. ASSUME NEW r, o = reconciliationBlock(r), GoodReconciliation(r) PROVE Block_type(o)
  <2>1. /\ o.type = "Reconciliation" /\ o.genesis = <<>> /\ o.reconciliation = <<r>>
        /\ o.node = <<>> /\ Members(o, Block_new)
    BY <1>3 DEF reconciliationBlock, Block_new, Members
  <2>2. /\ Len(<<>>) = 0 /\ DOMAIN <<>> = {} /\ Len(<<r>>) = 1 /\ \A i \in DOMAIN <<r>> : <<r>>[i] = r
    BY SMT
  <2>3. /\ Len(o.genesis) = IF o.type = "Genesis" THEN 1 ELSE 0
        /\ Len(o.reconciliation) = IF o.type = "Reconciliation" THEN 1 ELSE 0
        /\ Len(o.node) = IF o.type = "Node" THEN 1 ELSE 0
    BY ONLY <2>1, <2>2, SMT
  <2>4. /\ \A i \in DOMAIN o.genesis : Genesis_type(o.genesis[i])
        /\ \A i \in DOMAIN o.reconciliation : Reconciliation_type(o.reconciliation[i])
        /\ \A i \in DOMAIN o.node : Node_type(o.node[i])
    BY <1>3, <2>1, <2>2 DEF GoodReconciliation
  <2> QED BY <2>1, <2>3, <2>4 DEF Block_type, BlockTypes
<1>4. ASSUME NEW n, o = nodeBlock(n), GoodNode(n) PROVE Block_type(o)
  <2>1. /\ o.type = "Node" /\ o.genesis = <<>> /\ o.reconciliation = <<>> /\ o.node = <<n>>
        /\ Members(o, Block_new)
    BY <1>4 DEF nodeBlock, Block_new, Members
  <2>2. /\ Len(<<>>) = 0 /\ DOMAIN <<>> = {} /\ Len(<<n>>) = 1 /\ \A i \in DOMAIN <<n>> : <<n>>[i] = n
    BY SMT
  <2>3. /\ Len(o.genesis) = IF o.type = "Genesis" THEN 1 ELSE 0
        /\ Len(o.reconciliation) = IF o.type = "Reconciliation" THEN 1 ELSE 0
        /\ Len(o.node) = IF o.type = "Node" THEN 1 ELSE 0
    BY ONLY <2>1, <2>2, SMT
  <2>4. /\ \A i \in DOMAIN o.genesis : Genesis_type(o.genesis[i])
        /\ \A i \in DOMAIN o.reconciliation : Reconciliation_type(o.reconciliation[i])
        /\ \A i \in DOMAIN o.node : Node_type(o.node[i])
    BY <1>4, <2>1, <2>2 DEF GoodNode
  <2> QED BY <2>1, <2>3, <2>4 DEF Block_type, BlockTypes
<1> QED
  BY <1>1, <1>2, <1>3, <1>4 DEF GoodBlock

-----------------------------------------------------------------------------
(* Mine actions. *)

registerAction(r) ==
    [action |-> "Register", tregister |-> <<r>>, unregister |-> <<>>, credentialChange |-> <<>>]
unregisterAction(u) ==
    [action |-> "Unregister", tregister |-> <<>>, unregister |-> <<u>>, credentialChange |-> <<>>]
credentialChangeAction(c) ==
    [action |-> "CredentialChange", tregister |-> <<>>, unregister |-> <<>>, credentialChange |-> <<c>>]

\* Owners and validators have signed what they ask for.
GoodRegister(r) ==
    /\ Register_type(r) /\ Register_long(r)
    /\ verify(Register_toContent(r), r.stakeSignature)
    /\ verify(Register_toContent(r), r.authSignature)

GoodUnregister(u) ==
    Unregister_type(u) /\ verify(Unregister_toContent(u), u.authSignature)

GoodCredentialChange(c) ==
    /\ CredentialChange_type(c)
    /\ verify(CredentialChange_toContent(c), c.authSignature)
    /\ verify(CredentialChange_toContent(c), c.newAuthSignature)
    /\ verify(CredentialChange_toContent(c), c.stakeSignature)

GoodMineAction(m) ==
    \/ m = MineAction_new
    \/ \E r : m = registerAction(r) /\ GoodRegister(r)
    \/ \E u : m = unregisterAction(u) /\ GoodUnregister(u)
    \/ \E c : m = credentialChangeAction(c) /\ GoodCredentialChange(c)

\* The setters leave nothing of the action that was there.
LEMMA MineActionSetters ==
    ASSUME NEW m, NEW x
    PROVE  /\ MineAction_setRegister(m, x) = registerAction(x)
           /\ MineAction_setUnregister(m, x) = unregisterAction(x)
           /\ MineAction_setCredentialChange(m, x) = credentialChangeAction(x)
<1> DEFINE p == <<x>>
           r == MineAction_setRegister(m, x)
           u == MineAction_setUnregister(m, x)
           c == MineAction_setCredentialChange(m, x)
<1>1. /\ r = [MineAction_new EXCEPT !.action = "Register", !.tregister = p]
      /\ u = [MineAction_new EXCEPT !.action = "Unregister", !.unregister = p]
      /\ c = [MineAction_new EXCEPT !.action = "CredentialChange", !.credentialChange = p]
  BY DEF MineAction_setRegister, MineAction_setUnregister, MineAction_setCredentialChange,
         MineAction_resetChoice
<1> HIDE DEF p, r, u, c
<1>2. r = [action |-> "Register", tregister |-> p, unregister |-> <<>>, credentialChange |-> <<>>]
  BY <1>1 DEF MineAction_new
<1>3. u = [action |-> "Unregister", tregister |-> <<>>, unregister |-> p, credentialChange |-> <<>>]
  BY <1>1 DEF MineAction_new
<1>4. c = [action |-> "CredentialChange", tregister |-> <<>>, unregister |-> <<>>,
           credentialChange |-> p]
  BY <1>1 DEF MineAction_new
<1> QED
  BY <1>2, <1>3, <1>4 DEF r, u, c, p, registerAction, unregisterAction, credentialChangeAction

\* The pointers of a mine action.
LEMMA MineActionMembers ==
    \A x : /\ registerAction(x).action = "Register" /\ registerAction(x).tregister = <<x>>
           /\ registerAction(x).tregister[1] = x
           /\ unregisterAction(x).action = "Unregister"
           /\ unregisterAction(x).unregister = <<x>> /\ unregisterAction(x).unregister[1] = x
           /\ credentialChangeAction(x).action = "CredentialChange"
           /\ credentialChangeAction(x).credentialChange = <<x>>
           /\ credentialChangeAction(x).credentialChange[1] = x
<1>1. \A x : /\ registerAction(x).action = "Register" /\ registerAction(x).tregister = <<x>>
             /\ unregisterAction(x).action = "Unregister"
             /\ unregisterAction(x).unregister = <<x>>
             /\ credentialChangeAction(x).action = "CredentialChange"
             /\ credentialChangeAction(x).credentialChange = <<x>>
  BY DEF registerAction, unregisterAction, credentialChangeAction
<1> QED
  BY <1>1, Pointers

\* A move takes all there is of a mine action.
LEMMA MineActionMoved ==
    ASSUME NEW l, NEW m, GoodMineAction(m)
    PROVE  MineAction_move(l, m) = m
<1> DEFINE d == MineAction_move(l, m)
<1>1. d = [MineAction_new EXCEPT
              !.action = m.action, !.tregister = m.tregister,
              !.unregister = m.unregister, !.credentialChange = m.credentialChange]
  BY DEF MineAction_move, MineAction_resetChoice
<1> HIDE DEF d
<1>2. d = [action |-> m.action, tregister |-> m.tregister, unregister |-> m.unregister,
           credentialChange |-> m.credentialChange]
  BY <1>1 DEF MineAction_new
<1>3. m = [action |-> m.action, tregister |-> m.tregister, unregister |-> m.unregister,
           credentialChange |-> m.credentialChange]
  <2>1. CASE m = MineAction_new
    BY <2>1 DEF MineAction_new
  <2>2. ASSUME NEW x, m = registerAction(x) \/ m = unregisterAction(x) \/ m = credentialChangeAction(x)
        PROVE  m = [action |-> m.action, tregister |-> m.tregister, unregister |-> m.unregister,
                    credentialChange |-> m.credentialChange]
    BY <2>2 DEF registerAction, unregisterAction, credentialChangeAction
  <2> QED BY <2>1, <2>2 DEF GoodMineAction
<1> QED
  BY <1>2, <1>3 DEF d

\* A stack of one.
LEMMA OneElement ==
    ASSUME NEW x
    PROVE  /\ [i \in 1 .. Len(<<x>>) |-> Register_toAsn1(<<x>>[i])] = <<Register_toAsn1(x)>>
           /\ [i \in 1 .. Len(<<x>>) |-> Unregister_toAsn1(<<x>>[i])] = <<Unregister_toAsn1(x)>>
           /\ [i \in 1 .. Len(<<x>>) |-> CredentialChange_toAsn1(<<x>>[i])] =
                  <<CredentialChange_toAsn1(x)>>
  BY SMT

\* MineAction::toAsn1 sets the alternative that the action names.
LEMMA MineActionToAsn1 ==
    /\ MineAction_toAsn1(MineAction_new) = [type |-> "None", u |-> <<>>]
    /\ \A x : /\ MineAction_toAsn1(registerAction(x)) =
                     [type |-> "Register", u |-> <<Register_toAsn1(x)>>]
              /\ MineAction_toAsn1(unregisterAction(x)) =
                     [type |-> "Unregister", u |-> <<Unregister_toAsn1(x)>>]
              /\ MineAction_toAsn1(credentialChangeAction(x)) =
                     [type |-> "CredentialChange", u |-> <<CredentialChange_toAsn1(x)>>]
<1> DEFINE R(s) == [i \in 1 .. Len(s) |-> Register_toAsn1(s[i])]
           N(s) == [i \in 1 .. Len(s) |-> Unregister_toAsn1(s[i])]
           K(s) == [i \in 1 .. Len(s) |-> CredentialChange_toAsn1(s[i])]
           u(o) == CASE o.action = "None" -> <<>>
                     [] o.action = "Register" -> R(o.tregister)
                     [] o.action = "Unregister" -> N(o.unregister)
                     [] o.action = "CredentialChange" -> K(o.credentialChange)
<1>0. \A x : /\ R(<<x>>) = <<Register_toAsn1(x)>> /\ N(<<x>>) = <<Unregister_toAsn1(x)>>
             /\ K(<<x>>) = <<CredentialChange_toAsn1(x)>>
  BY OneElement
<1>1. \A o : MineAction_toAsn1(o) = [asn1_MineAction EXCEPT !.type = o.action, !.u = u(o)]
  BY DEF MineAction_toAsn1, toStack
<1> HIDE DEF R, N, K
<1>2. u(MineAction_new) = <<>> /\ MineAction_new.action = "None"
  BY DEF MineAction_new
<1>3. ASSUME NEW x PROVE u(registerAction(x)) = <<Register_toAsn1(x)>>
  BY <1>0, MineActionMembers
<1>4. ASSUME NEW x PROVE u(unregisterAction(x)) = <<Unregister_toAsn1(x)>>
  BY <1>0, MineActionMembers
<1>5. ASSUME NEW x PROVE u(credentialChangeAction(x)) = <<CredentialChange_toAsn1(x)>>
  BY <1>0, MineActionMembers
<1> HIDE DEF u
<1>6. \A o : MineAction_toAsn1(o) = [type |-> o.action, u |-> u(o)]
  BY <1>1 DEF asn1_MineAction, ASN1_CHOICE_new
<1> QED
  BY <1>2, <1>3, <1>4, <1>5, <1>6, MineActionMembers

\* MineAction::fromAsn1 reads the alternative back.
LEMMA MineActionKept ==
    ASSUME NEW m, GoodMineAction(m)
    PROVE  MineAction_fromAsn1(MineAction_toAsn1(m)) = m
<1>1. CASE m = MineAction_new
  <2> DEFINE t == MineAction_toAsn1(m)
  <2>1. t = [type |-> "None", u |-> <<>>]
    BY <1>1, MineActionToAsn1
  <2> HIDE DEF t
  <2>2. t.type = "None"
    BY <2>1
  <2>3. MineAction_fromAsn1(t) = MineAction_new
    BY <2>2 DEF MineAction_fromAsn1
  <2> QED BY <1>1, <2>3 DEF t
<1>2. ASSUME NEW t, NEW y, t.u = <<y>>
      PROVE  /\ t.type = "Register" =>
                    MineAction_fromAsn1(t) = registerAction(Register_fromAsn1(y))
             /\ t.type = "Unregister" =>
                    MineAction_fromAsn1(t) = unregisterAction(Unregister_fromAsn1(y))
             /\ t.type = "CredentialChange" =>
                    MineAction_fromAsn1(t) = credentialChangeAction(CredentialChange_fromAsn1(y))
  <2>1. t.u[1] = y
    BY <1>2, Pointers
  <2> QED BY <2>1, MineActionSetters DEF MineAction_fromAsn1
<1>3. ASSUME NEW x, m = registerAction(x), GoodRegister(x)
      PROVE  MineAction_fromAsn1(MineAction_toAsn1(m)) = m
  <2> DEFINE t == MineAction_toAsn1(m)
  <2>0. t = [type |-> "Register", u |-> <<Register_toAsn1(x)>>]
    BY <1>3, MineActionToAsn1
  <2> HIDE DEF t
  <2>1. t.type = "Register" /\ t.u = <<Register_toAsn1(x)>>
    BY <2>0
  <2>2. Register_fromAsn1(Register_toAsn1(x)) = x
    BY <1>3, RegisterReads DEF GoodRegister
  <2> QED BY <1>2, <1>3, <2>1, <2>2 DEF t
<1>4. ASSUME NEW x, m = unregisterAction(x), GoodUnregister(x)
      PROVE  MineAction_fromAsn1(MineAction_toAsn1(m)) = m
  <2> DEFINE t == MineAction_toAsn1(m)
  <2>0. t = [type |-> "Unregister", u |-> <<Unregister_toAsn1(x)>>]
    BY <1>4, MineActionToAsn1
  <2> HIDE DEF t
  <2>1. t.type = "Unregister" /\ t.u = <<Unregister_toAsn1(x)>>
    BY <2>0
  <2>2. Unregister_fromAsn1(Unregister_toAsn1(x)) = x
    BY <1>4, UnregisterReads DEF GoodUnregister
  <2> QED BY <1>2, <1>4, <2>1, <2>2 DEF t
<1>5. ASSUME NEW x, m = credentialChangeAction(x), GoodCredentialChange(x)
      PROVE  MineAction_fromAsn1(MineAction_toAsn1(m)) = m
  <2> DEFINE t == MineAction_toAsn1(m)
  <2>0. t = [type |-> "CredentialChange", u |-> <<CredentialChange_toAsn1(x)>>]
    BY <1>5, MineActionToAsn1
  <2> HIDE DEF t
  <2>1. t.type = "CredentialChange" /\ t.u = <<CredentialChange_toAsn1(x)>>
    BY <2>0
  <2>2. CredentialChange_fromAsn1(CredentialChange_toAsn1(x)) = x
    BY <1>5, CredentialChangeReads DEF GoodCredentialChange
  <2> QED BY <1>2, <1>5, <2>1, <2>2 DEF t
<1> QED
  BY <1>1, <1>3, <1>4, <1>5 DEF GoodMineAction

\* A good mine action is well typed: its action names the pointer that is set.
LEMMA GoodMineActionTyped ==
    ASSUME NEW o, GoodMineAction(o)
    PROVE  MineAction_type(o)
<1>1. CASE o = MineAction_new
  <2>1. /\ o.action = "None" /\ o.tregister = <<>> /\ o.unregister = <<>> /\ o.credentialChange = <<>>
        /\ Members(o, MineAction_new)
    BY <1>1 DEF MineAction_new, Members
  <2>2. Len(<<>>) = 0 /\ DOMAIN <<>> = {}
    BY SMT
  <2>3. /\ Len(o.tregister) = IF o.action = "Register" THEN 1 ELSE 0
        /\ Len(o.unregister) = IF o.action = "Unregister" THEN 1 ELSE 0
        /\ Len(o.credentialChange) = IF o.action = "CredentialChange" THEN 1 ELSE 0
    BY ONLY <2>1, <2>2, SMT
  <2>4. /\ \A i \in DOMAIN o.tregister : Register_type(o.tregister[i])
        /\ \A i \in DOMAIN o.unregister : Unregister_type(o.unregister[i])
        /\ \A i \in DOMAIN o.credentialChange : CredentialChange_type(o.credentialChange[i])
    BY <1>1, <2>1, <2>2
  <2> QED BY <2>1, <2>3, <2>4 DEF MineAction_type, MineActions
<1>2. ASSUME NEW r, o = registerAction(r), GoodRegister(r) PROVE MineAction_type(o)
  <2>1. /\ o.action = "Register" /\ o.tregister = <<r>> /\ o.unregister = <<>> /\ o.credentialChange = <<>>
        /\ Members(o, MineAction_new)
    BY <1>2 DEF registerAction, MineAction_new, Members
  <2>2. Len(<<>>) = 0 /\ DOMAIN <<>> = {} /\ Len(<<r>>) = 1 /\ \A i \in DOMAIN <<r>> : <<r>>[i] = r
    BY SMT
  <2>3. /\ Len(o.tregister) = IF o.action = "Register" THEN 1 ELSE 0
        /\ Len(o.unregister) = IF o.action = "Unregister" THEN 1 ELSE 0
        /\ Len(o.credentialChange) = IF o.action = "CredentialChange" THEN 1 ELSE 0
    BY ONLY <2>1, <2>2, SMT
  <2>4. /\ \A i \in DOMAIN o.tregister : Register_type(o.tregister[i])
        /\ \A i \in DOMAIN o.unregister : Unregister_type(o.unregister[i])
        /\ \A i \in DOMAIN o.credentialChange : CredentialChange_type(o.credentialChange[i])
    BY <1>2, <2>1, <2>2 DEF GoodRegister
  <2> QED BY <2>1, <2>3, <2>4 DEF MineAction_type, MineActions
<1>3. ASSUME NEW u, o = unregisterAction(u), GoodUnregister(u) PROVE MineAction_type(o)
  <2>1. /\ o.action = "Unregister" /\ o.tregister = <<>> /\ o.unregister = <<u>> /\ o.credentialChange = <<>>
        /\ Members(o, MineAction_new)
    BY <1>3 DEF unregisterAction, MineAction_new, Members
  <2>2. Len(<<>>) = 0 /\ DOMAIN <<>> = {} /\ Len(<<u>>) = 1 /\ \A i \in DOMAIN <<u>> : <<u>>[i] = u
    BY SMT
  <2>3. /\ Len(o.tregister) = IF o.action = "Register" THEN 1 ELSE 0
        /\ Len(o.unregister) = IF o.action = "Unregister" THEN 1 ELSE 0
        /\ Len(o.credentialChange) = IF o.action = "CredentialChange" THEN 1 ELSE 0
    BY ONLY <2>1, <2>2, SMT
  <2>4. /\ \A i \in DOMAIN o.tregister : Register_type(o.tregister[i])
        /\ \A i \in DOMAIN o.unregister : Unregister_type(o.unregister[i])
        /\ \A i \in DOMAIN o.credentialChange : CredentialChange_type(o.credentialChange[i])
    BY <1>3, <2>1, <2>2 DEF GoodUnregister
  <2> QED BY <2>1, <2>3, <2>4 DEF MineAction_type, MineActions
<1>4. ASSUME NEW c, o = credentialChangeAction(c), GoodCredentialChange(c) PROVE MineAction_type(o)
  <2>1. /\ o.action = "CredentialChange" /\ o.tregister = <<>> /\ o.unregister = <<>> /\ o.credentialChange = <<c>>
        /\ Members(o, MineAction_new)
    BY <1>4 DEF credentialChangeAction, MineAction_new, Members
  <2>2. Len(<<>>) = 0 /\ DOMAIN <<>> = {} /\ Len(<<c>>) = 1 /\ \A i \in DOMAIN <<c>> : <<c>>[i] = c
    BY SMT
  <2>3. /\ Len(o.tregister) = IF o.action = "Register" THEN 1 ELSE 0
        /\ Len(o.unregister) = IF o.action = "Unregister" THEN 1 ELSE 0
        /\ Len(o.credentialChange) = IF o.action = "CredentialChange" THEN 1 ELSE 0
    BY ONLY <2>1, <2>2, SMT
  <2>4. /\ \A i \in DOMAIN o.tregister : Register_type(o.tregister[i])
        /\ \A i \in DOMAIN o.unregister : Unregister_type(o.unregister[i])
        /\ \A i \in DOMAIN o.credentialChange : CredentialChange_type(o.credentialChange[i])
    BY <1>4, <2>1, <2>2 DEF GoodCredentialChange
  <2> QED BY <2>1, <2>3, <2>4 DEF MineAction_type, MineActions
<1> QED
  BY <1>1, <1>2, <1>3, <1>4 DEF GoodMineAction

-----------------------------------------------------------------------------
(* Signing and voting. *)

\* A signature is one over what was signed.
LEMMA SignVerifies ==
    \A a, content : verify(content, sign(a, content)) /\ BinData(sign(a, content))
  BY SMT DEF verify, sign, BinData

\* A list of no votes.
LEMMA NoVotes ==
    Range(<<>>) = {}
  BY SMT DEF Range

\* A reconciliation its leader has signed, with no votes yet.
LEMMA ReconciliationSigned ==
    ASSUME NEW r, Reconciliation_type(r), r.votes = <<>>
    PROVE  GoodReconciliation(signReconciliation(r))
<1> DEFINE content == Reconciliation_toContent(r)
           signature == sign(r.leader, content)
           q == signReconciliation(r)
<1>1. q = [r EXCEPT !.signature = signature]
  BY DEF signReconciliation
<1>2. r = [protocol |-> r.protocol, chainId |-> r.chainId, shardInfo |-> r.shardInfo,
           leader |-> r.leader, signature |-> r.signature, votes |-> r.votes]
  BY DEF Reconciliation_type, Members, Reconciliation_new
<1>3. /\ verify(content, signature) /\ BinData(signature)
  BY SignVerifies
<1> HIDE DEF q, content, signature
<1>4. q = [protocol |-> r.protocol, chainId |-> r.chainId, shardInfo |-> r.shardInfo,
           leader |-> r.leader, signature |-> signature, votes |-> r.votes]
  BY <1>1, <1>2
<1>5. /\ q.protocol = r.protocol /\ q.chainId = r.chainId /\ q.shardInfo = r.shardInfo
      /\ q.leader = r.leader /\ q.signature = signature /\ q.votes = r.votes
  BY <1>4
<1>6. Members(q, Reconciliation_new)
  BY <1>4 DEF Members, Reconciliation_new
<1>7. Reconciliation_toContent(q) = content
  <2>1. Reconciliation_content(q) = Reconciliation_content(r)
    BY <1>5 DEF Reconciliation_content, toStack
  <2> QED BY <2>1, ReconciliationWrites DEF content
<1>9. Reconciliation_type(q)
  BY <1>3, <1>5, <1>6 DEF Reconciliation_type
<1>10. Numbered(q.votes) /\ Signed(content, q)
  BY <1>3, <1>5, NoVotes DEF Numbered, Signed
<1> QED
  BY <1>7, <1>9, <1>10 DEF q, GoodReconciliation

\* A node its leader has signed, with no votes yet.
LEMMA NodeSigned ==
    ASSUME NEW r, Node_type(r), Node_long(r), r.votes = <<>>
    PROVE  GoodNode(signNode(r))
<1> DEFINE content == Node_toContent(r)
           signature == sign(r.leader, content)
           q == signNode(r)
<1>1. q = [r EXCEPT !.signature = signature]
  BY DEF signNode
<1>2. r = [chainId |-> r.chainId, shardId |-> r.shardId, index |-> r.index,
           prevHash |-> r.prevHash, transactions |-> r.transactions, nonce |-> r.nonce,
           leader |-> r.leader, newAddress |-> r.newAddress, signature |-> r.signature,
           votes |-> r.votes]
  BY DEF Node_type, Members, Node_new
<1>3. /\ verify(content, signature) /\ BinData(signature)
  BY SignVerifies
<1> HIDE DEF q, content, signature
<1>4. q = [chainId |-> r.chainId, shardId |-> r.shardId, index |-> r.index,
           prevHash |-> r.prevHash, transactions |-> r.transactions, nonce |-> r.nonce,
           leader |-> r.leader, newAddress |-> r.newAddress, signature |-> signature,
           votes |-> r.votes]
  BY <1>1, <1>2
<1>5. /\ q.chainId = r.chainId /\ q.shardId = r.shardId /\ q.index = r.index
      /\ q.prevHash = r.prevHash /\ q.transactions = r.transactions /\ q.nonce = r.nonce
      /\ q.leader = r.leader /\ q.newAddress = r.newAddress /\ q.signature = signature
      /\ q.votes = r.votes
  BY <1>4
<1>6. Members(q, Node_new)
  BY <1>4 DEF Members, Node_new
<1>7. Node_toContent(q) = content
  <2>1. Node_content(q) = Node_content(r)
    BY <1>5 DEF Node_content, toStack
  <2> QED BY <2>1, NodeWrites DEF content
<1>8. \A f \in {"nonce", "leader", "newAddress", "signature"} : BinData(q[f])
  <2>1. BinData(r.nonce) /\ BinData(r.leader) /\ BinData(r.newAddress)
    BY DEF Node_type
  <2> QED BY <1>3, <1>5, <2>1
<1>9. Node_type(q) /\ Node_long(q)
  BY <1>3, <1>5, <1>6, <1>8 DEF Node_type, Node_long
<1>10. Numbered(q.votes) /\ Signed(content, q)
  BY <1>3, <1>5, NoVotes DEF Numbered, Signed
<1> QED
  BY <1>7, <1>9, <1>10 DEF q, GoodNode

\* A transaction that is signed.
LEMMA TransactionSigned ==
    ASSUME NEW r, Transaction_type(r), Transaction_long(r)
    PROVE  GoodTransaction(signTransaction(r))
<1> DEFINE content == Transaction_toContent(r)
           signature == sign(r.signer, content)
           q == signTransaction(r)
<1>1. q = [r EXCEPT !.signature = signature]
  BY DEF signTransaction
<1>2. r = [type |-> r.type, transfer |-> r.transfer, time |-> r.time,
           signer |-> r.signer, signerKey |-> r.signerKey, newAddress |-> r.newAddress,
           signature |-> r.signature]
  BY DEF Transaction_type, Members, Transaction_new
<1>3. /\ verify(content, signature) /\ BinData(signature)
  BY SignVerifies
<1> HIDE DEF q, content, signature
<1>4. q = [type |-> r.type, transfer |-> r.transfer, time |-> r.time,
           signer |-> r.signer, signerKey |-> r.signerKey, newAddress |-> r.newAddress,
           signature |-> signature]
  BY <1>1, <1>2
<1>5. /\ q.type = r.type /\ q.transfer = r.transfer /\ q.time = r.time
      /\ q.signer = r.signer /\ q.signerKey = r.signerKey /\ q.newAddress = r.newAddress
      /\ q.signature = signature
  BY <1>4
<1>6. Members(q, Transaction_new)
  BY <1>4 DEF Members, Transaction_new
<1>9. Transaction_type(q) /\ Transaction_long(q)
  BY <1>3, <1>5, <1>6 DEF Transaction_type, Transaction_long
<1> QED
  BY <1>9 DEF q, GoodTransaction

\* A registration signed by owner and validator.
LEMMA RegisterSigned ==
    ASSUME NEW r, Register_type(r), Register_long(r)
    PROVE  GoodRegister(signRegister(r))
<1> DEFINE content == Register_toContent(r)
           stakeSignature == sign(r.stakeAddress, content)
           authSignature == sign(r.authAddress, content)
           q == signRegister(r)
<1>1. q = [r EXCEPT !.stakeSignature = stakeSignature, !.authSignature = authSignature]
  BY DEF signRegister
<1>2. r = [stakeAmount |-> r.stakeAmount, stakeAddress |-> r.stakeAddress,
           stakeKey |-> r.stakeKey, newAddress |-> r.newAddress,
           authAddress |-> r.authAddress, authKey |-> r.authKey,
           stakeSignature |-> r.stakeSignature, authSignature |-> r.authSignature]
  BY DEF Register_type, Members, Register_new
<1>3. /\ verify(content, stakeSignature) /\ BinData(stakeSignature)
      /\ verify(content, authSignature) /\ BinData(authSignature)
  BY SignVerifies
<1> HIDE DEF q, content, stakeSignature, authSignature
<1>4. q = [stakeAmount |-> r.stakeAmount, stakeAddress |-> r.stakeAddress,
           stakeKey |-> r.stakeKey, newAddress |-> r.newAddress,
           authAddress |-> r.authAddress, authKey |-> r.authKey,
           stakeSignature |-> stakeSignature, authSignature |-> authSignature]
  BY <1>1, <1>2
<1>5. /\ q.stakeAmount = r.stakeAmount /\ q.stakeAddress = r.stakeAddress /\ q.stakeKey = r.stakeKey
      /\ q.newAddress = r.newAddress /\ q.authAddress = r.authAddress /\ q.authKey = r.authKey
      /\ q.stakeSignature = stakeSignature /\ q.authSignature = authSignature
  BY <1>4
<1>6. Members(q, Register_new)
  BY <1>4 DEF Members, Register_new
<1>7. Register_toContent(q) = content
  <2>1. Register_content(q) = Register_content(r)
    BY <1>5 DEF Register_content
  <2> QED BY <2>1, RegisterWrites DEF content
<1>8. \A f \in DOMAIN Register_new \ {"stakeAmount"} : BinData(q[f])
  <2>1. \A f \in DOMAIN Register_new \ {"stakeAmount"} : f \in {"stakeAddress", "stakeKey", "newAddress", "authAddress", "authKey",
          "stakeSignature", "authSignature"}
    BY DEF Register_new
  <2>2. /\ BinData(r.stakeAddress) /\ BinData(r.stakeKey) /\ BinData(r.newAddress)
        /\ BinData(r.authAddress) /\ BinData(r.authKey)
    BY DEF Register_type, Register_new
  <2> QED BY <1>3, <1>5, <2>1, <2>2
<1>9. Register_type(q) /\ Register_long(q)
  BY <1>3, <1>5, <1>6, <1>8 DEF Register_type, Register_long
<1> QED
  BY <1>3, <1>5, <1>7, <1>9 DEF q, GoodRegister

\* A validator that signs off.
LEMMA UnregisterSigned ==
    ASSUME NEW r, Unregister_type(r)
    PROVE  GoodUnregister(signUnregister(r))
<1> DEFINE content == Unregister_toContent(r)
           authSignature == sign(r.authAddress, content)
           q == signUnregister(r)
<1>1. q = [r EXCEPT !.authSignature = authSignature]
  BY DEF signUnregister
<1>2. r = [authAddress |-> r.authAddress, authSignature |-> r.authSignature]
  BY DEF Unregister_type, Members, Unregister_new
<1>3. /\ verify(content, authSignature) /\ BinData(authSignature)
  BY SignVerifies
<1> HIDE DEF q, content, authSignature
<1>4. q = [authAddress |-> r.authAddress, authSignature |-> authSignature]
  BY <1>1, <1>2
<1>5. /\ q.authAddress = r.authAddress /\ q.authSignature = authSignature
  BY <1>4
<1>6. Members(q, Unregister_new)
  BY <1>4 DEF Members, Unregister_new
<1>7. Unregister_toContent(q) = content
  BY <1>5 DEF content, Unregister_toContent
<1>9. Unregister_type(q)
  BY <1>3, <1>5, <1>6 DEF Unregister_type
<1> QED
  BY <1>3, <1>5, <1>7, <1>9 DEF q, GoodUnregister

\* A change of credentials with its three signatures.
LEMMA CredentialChangeSigned ==
    ASSUME NEW r, CredentialChange_type(r)
    PROVE  GoodCredentialChange(signCredentialChange(r))
<1> DEFINE content == CredentialChange_toContent(r)
           authSignature == sign(r.authAddress, content)
           newAuthSignature == sign(r.newAuthAddress, content)
           stakeSignature == sign(r.stakeAddress, content)
           q == signCredentialChange(r)
<1>1. q = [r EXCEPT !.authSignature = authSignature, !.newAuthSignature = newAuthSignature, !.stakeSignature = stakeSignature]
  BY DEF signCredentialChange
<1>2. r = [authAddress |-> r.authAddress, newAuthAddress |-> r.newAuthAddress,
           newAuthKey |-> r.newAuthKey, stakeAddress |-> r.stakeAddress,
           stakeKey |-> r.stakeKey, newStakeAddress |-> r.newStakeAddress,
           authSignature |-> r.authSignature, newAuthSignature |-> r.newAuthSignature,
           stakeSignature |-> r.stakeSignature]
  BY DEF CredentialChange_type, Members, CredentialChange_new
<1>3. /\ verify(content, authSignature) /\ BinData(authSignature)
      /\ verify(content, newAuthSignature) /\ BinData(newAuthSignature)
      /\ verify(content, stakeSignature) /\ BinData(stakeSignature)
  BY SignVerifies
<1> HIDE DEF q, content, authSignature, newAuthSignature, stakeSignature
<1>4. q = [authAddress |-> r.authAddress, newAuthAddress |-> r.newAuthAddress,
           newAuthKey |-> r.newAuthKey, stakeAddress |-> r.stakeAddress,
           stakeKey |-> r.stakeKey, newStakeAddress |-> r.newStakeAddress,
           authSignature |-> authSignature, newAuthSignature |-> newAuthSignature,
           stakeSignature |-> stakeSignature]
  BY <1>1, <1>2
<1>5. /\ q.authAddress = r.authAddress /\ q.newAuthAddress = r.newAuthAddress /\ q.newAuthKey = r.newAuthKey
      /\ q.stakeAddress = r.stakeAddress /\ q.stakeKey = r.stakeKey /\ q.newStakeAddress = r.newStakeAddress
      /\ q.authSignature = authSignature /\ q.newAuthSignature = newAuthSignature /\ q.stakeSignature = stakeSignature
  BY <1>4
<1>6. Members(q, CredentialChange_new)
  BY <1>4 DEF Members, CredentialChange_new
<1>7. CredentialChange_toContent(q) = content
  <2>1. CredentialChange_content(q) = CredentialChange_content(r)
    BY <1>5 DEF CredentialChange_content
  <2> QED BY <2>1, CredentialChangeWrites DEF content
<1>8. \A f \in DOMAIN CredentialChange_new : BinData(q[f])
  <2>1. \A f \in DOMAIN CredentialChange_new : f \in {"authAddress", "newAuthAddress", "newAuthKey", "stakeAddress", "stakeKey",
          "newStakeAddress", "authSignature", "newAuthSignature", "stakeSignature"}
    BY DEF CredentialChange_new
  <2>2. /\ BinData(r.authAddress) /\ BinData(r.newAuthAddress) /\ BinData(r.newAuthKey)
        /\ BinData(r.stakeAddress) /\ BinData(r.stakeKey) /\ BinData(r.newStakeAddress)
    BY DEF CredentialChange_type, CredentialChange_new
  <2> QED BY <1>3, <1>5, <2>1, <2>2
<1>9. CredentialChange_type(q)
  BY <1>3, <1>5, <1>6, <1>8 DEF CredentialChange_type
<1> QED
  BY <1>3, <1>5, <1>7, <1>9 DEF q, GoodCredentialChange

\* The vote of a validator.
LEMMA VoteGood ==
    ASSUME NEW a \in Validators, NEW verified \in Verdicts[a], NEW content
    PROVE  LET v == vote(a, verified, content)
           IN  /\ Validation_type(v) /\ v.address[1] \in Nat /\ verify(content, v.signature)
<1> DEFINE v == vote(a, verified, content)
           sig == sign(<<a>>, content)
<1>1. verify(content, sig) /\ BinData(sig)
  BY SignVerifies
<1>2. v = [verified |-> verified, address |-> <<a>>, signature |-> sig]
  BY DEF vote
<1> HIDE DEF v, sig
<1>3. v.verified = verified /\ v.address = <<a>> /\ v.signature = sig
  BY <1>2
<1>4. Members(v, Validation_new)
  BY <1>2 DEF Members, Validation_new
<1>5. verified \in BOOLEAN /\ a \in Nat
  BY BuiltAssumption
<1>6. v.address[1] \in Nat
  BY <1>3, <1>5, Pointers
<1>7. BinData(v.address)
  BY <1>3, ShortBytes
<1> QED
  BY <1>1, <1>3, <1>4, <1>5, <1>6, <1>7 DEF v, Validation_type

\* A list with a vote more.
LEMMA VotesAppended ==
    ASSUME NEW votes, List(votes), NEW v
    PROVE  LET w == Append(votes, v)
           IN  /\ List(w) /\ Range(w) = Range(votes) \cup {v}
               /\ \A i \in DOMAIN w : w[i] \in Range(votes) \cup {v}
<1> DEFINE w == Append(votes, v)
<1>1. Len(votes) \in Nat /\ DOMAIN votes = 1 .. Len(votes) /\ votes \in Seq(Range(votes))
  BY ListIs DEF List
<1> DEFINE S == Range(votes) \cup {v}
<1>2. votes \in Seq(S) /\ v \in S
  BY <1>1, SMT
<1> HIDE DEF S
<1>3. /\ w \in Seq(S) /\ Len(w) = Len(votes) + 1 /\ w[Len(votes) + 1] = v
      /\ \A i \in 1 .. Len(votes) : w[i] = votes[i]
  BY <1>2, <1>1, SMT
<1> HIDE DEF w
<1>4. /\ DOMAIN w = 1 .. Len(votes) + 1 /\ Len(w) = Len(votes) + 1 /\ w[Len(votes) + 1] = v
      /\ \A i \in 1 .. Len(votes) : w[i] = votes[i]
      /\ w = [i \in 1 .. Len(votes) + 1 |-> w[i]]
  BY <1>3, <1>1, SMT
<1>5. Len(votes) + 1 \in Nat /\ Len(votes) + 1 \in 1 .. Len(votes) + 1
  BY <1>1, SMT
<1>6. List(w)
  BY <1>4, <1>5, FunctionIsList
<1>7. \A i : i \in 1 .. Len(votes) + 1 <=> i \in 1 .. Len(votes) \/ i = Len(votes) + 1
  BY <1>1, SMT
<1>8. \A i \in DOMAIN w : w[i] \in Range(votes) \cup {v}
  BY <1>1, <1>4, <1>7 DEF Range
<1>9. Range(w) = Range(votes) \cup {v}
  <2>1. ASSUME NEW x \in Range(w) PROVE x \in Range(votes) \cup {v}
    BY <1>8, <2>1 DEF Range
  <2>2. ASSUME NEW x \in Range(votes) PROVE x \in Range(w)
    BY <1>1, <1>4, <1>7, <2>2 DEF Range
  <2>3. v \in Range(w)
    BY <1>4, <1>5 DEF Range
  <2> QED BY <2>1, <2>2, <2>3
<1> QED
  BY <1>6, <1>8, <1>9 DEF w

\* A reconciliation with a vote more is still a good copy of what it was.
LEMMA ReconciliationVoted ==
    ASSUME NEW r, GoodReconciliation(r), NEW a \in Validators, NEW verified \in Verdicts[a], NEW d,
           d = [r EXCEPT !.votes = Append(r.votes, vote(a, verified, Reconciliation_toContent(r)))]
    PROVE  GoodReconciliation(d) /\ SameReconciliation(d, r)
<1> DEFINE content == Reconciliation_toContent(r)
           v == vote(a, verified, content)
           w == Append(r.votes, v)
<1>1. d = [r EXCEPT !.votes = w]
  OBVIOUS
<1>2. Validation_type(v) /\ v.address[1] \in Nat /\ verify(content, v.signature)
  BY VoteGood
<1> HIDE DEF v
<1>3. /\ List(w) /\ Range(w) = Range(r.votes) \cup {v}
      /\ \A i \in DOMAIN w : w[i] \in Range(r.votes) \cup {v}
  BY VotesAppended DEF GoodReconciliation, Reconciliation_type
<1> HIDE DEF w
<1>4. r = [protocol |-> r.protocol, chainId |-> r.chainId, shardInfo |-> r.shardInfo,
           leader |-> r.leader, signature |-> r.signature, votes |-> r.votes]
  BY DEF GoodReconciliation, Reconciliation_type, Members, Reconciliation_new
<1>5. d = [protocol |-> r.protocol, chainId |-> r.chainId, shardInfo |-> r.shardInfo,
           leader |-> r.leader, signature |-> r.signature, votes |-> w]
  BY <1>1, <1>4
<1>6. /\ d.protocol = r.protocol /\ d.chainId = r.chainId /\ d.shardInfo = r.shardInfo
      /\ d.leader = r.leader /\ d.signature = r.signature /\ d.votes = w
  BY ONLY <1>5, Zenon
<1>7. Members(d, Reconciliation_new)
  BY <1>5 DEF Members, Reconciliation_new
<1>8. SameReconciliation(d, r)
  BY <1>6 DEF SameReconciliation
<1>9. Reconciliation_toContent(d) = content
  BY <1>6, <1>8, ReconciliationContent
<1>10. \A x \in Range(r.votes) : Validation_type(x)
  BY DEF GoodReconciliation, Reconciliation_type, Range
<1>11. \A i \in DOMAIN w : Validation_type(w[i])
  BY <1>2, <1>3, <1>10
<1>12. Numbered(d.votes)
  BY <1>2, <1>3, <1>6 DEF GoodReconciliation, Numbered
<1>13. Signed(content, d)
  BY <1>2, <1>3, <1>6 DEF GoodReconciliation, Signed, content
<1>14. Reconciliation_type(d)
  BY <1>3, <1>6, <1>7, <1>11 DEF GoodReconciliation, Reconciliation_type
<1> QED
  BY <1>8, <1>9, <1>12, <1>13, <1>14 DEF GoodReconciliation

\* A node with a vote more is still a good copy of what it was.
LEMMA NodeVoted ==
    ASSUME NEW r, GoodNode(r), NEW a \in Validators, NEW verified \in Verdicts[a], NEW d,
           d = [r EXCEPT !.votes = Append(r.votes, vote(a, verified, Node_toContent(r)))]
    PROVE  GoodNode(d) /\ SameNode(d, r)
<1> DEFINE content == Node_toContent(r)
           v == vote(a, verified, content)
           w == Append(r.votes, v)
<1>1. d = [r EXCEPT !.votes = w]
  OBVIOUS
<1>2. Validation_type(v) /\ v.address[1] \in Nat /\ verify(content, v.signature)
  BY VoteGood
<1> HIDE DEF v
<1>3. /\ List(w) /\ Range(w) = Range(r.votes) \cup {v}
      /\ \A i \in DOMAIN w : w[i] \in Range(r.votes) \cup {v}
  BY VotesAppended DEF GoodNode, Node_type
<1> HIDE DEF w
<1>4. r = [chainId |-> r.chainId, shardId |-> r.shardId, index |-> r.index,
           prevHash |-> r.prevHash, transactions |-> r.transactions, nonce |-> r.nonce,
           leader |-> r.leader, newAddress |-> r.newAddress, signature |-> r.signature,
           votes |-> r.votes]
  BY DEF GoodNode, Node_type, Members, Node_new
<1>5. d = [chainId |-> r.chainId, shardId |-> r.shardId, index |-> r.index,
           prevHash |-> r.prevHash, transactions |-> r.transactions, nonce |-> r.nonce,
           leader |-> r.leader, newAddress |-> r.newAddress, signature |-> r.signature,
           votes |-> w]
  BY <1>1, <1>4
<1>6. /\ d.chainId = r.chainId /\ d.shardId = r.shardId /\ d.index = r.index
      /\ d.prevHash = r.prevHash /\ d.transactions = r.transactions /\ d.nonce = r.nonce
      /\ d.leader = r.leader /\ d.newAddress = r.newAddress /\ d.signature = r.signature
      /\ d.votes = w
  BY ONLY <1>5, Zenon
<1>7. Members(d, Node_new)
  BY <1>5 DEF Members, Node_new
<1>8. SameNode(d, r)
  BY ONLY <1>6, Zenon DEF SameNode, Actions
<1>9. Node_toContent(d) = content
  BY <1>6, <1>8, NodeContent
<1>10. \A x \in Range(r.votes) : Validation_type(x)
  BY DEF GoodNode, Node_type, Range
<1>11. \A i \in DOMAIN w : Validation_type(w[i])
  BY <1>2, <1>3, <1>10
<1>12. Numbered(d.votes)
  BY <1>2, <1>3, <1>6 DEF GoodNode, Numbered
<1>13. d.transactions = <<>> => Signed(content, d)
  BY <1>2, <1>3, <1>6 DEF GoodNode, Signed, content
<1>14. \A f \in {"nonce", "leader", "newAddress", "signature"} : BinData(d[f])
  BY <1>6 DEF GoodNode, Node_type
<1>15. Node_type(d) /\ Node_long(d)
  BY <1>3, <1>6, <1>7, <1>11, <1>14 DEF GoodNode, Node_type, Node_long
<1> QED
  BY <1>8, <1>9, <1>12, <1>13, <1>15 DEF GoodNode

=============================================================================
