--------------------------- MODULE CuratorProofs ---------------------------
(***************************************************************************)
(* Proofs about Curator, for every set of directories, blocks and indices, *)
(* every choice of faults and every number of restarts.  The curator       *)
(* drives DbIntegrator within its specification, so what is proved of that *)
(* component holds of the service; on it rest the proofs of what           *)
(* BlockIntegrator keeps and of what is imported in the end.               *)
(***************************************************************************)
EXTENDS Curator, TLAPS

\* Leaves that name no prover are left to Zenon.
USE Zenon

-----------------------------------------------------------------------------
(* The loops over shard infos. *)

\* What sets of at most one element have for their number of elements.
LEMMA SmallCardinality ==
    ASSUME NEW v
    PROVE  Cardinality({}) = 0 /\ Cardinality({v}) = 1
<1>1. ASSUME NEW S, S \subseteq {v}
      PROVE  Cardinality(S) = IF S = {} THEN 0 ELSE 1
  <2> DEFINE Step(CS, T) == IF T = {} THEN 0 ELSE 1 + CS[T \ {CHOOSE x : x \in T}]
             Count == CHOOSE CS : CS = [T \in SUBSET S |-> Step(CS, T)]
             count == [T \in SUBSET S |-> IF T = {} THEN 0 ELSE 1]
  <2>1. \A T \in SUBSET S : T = {} \/ (T = S /\ T \ {CHOOSE x : x \in T} = {})
    BY <1>1
  <2>2. count = [T \in SUBSET S |-> Step(count, T)]
    BY <2>1, SMT
  <2>3. Count = [T \in SUBSET S |-> Step(Count, T)]
    BY <2>2
  <2>4. Cardinality(S) = Count[S]
    BY DEF Cardinality
  <2> HIDE DEF Count
  <2>5. Count[{}] = 0
    BY <2>3
  <2> QED
    BY <2>1, <2>3, <2>4, <2>5, SMT
<1> QED
  BY <1>1

\* A reconciliation of one shard info that the loop of integrate lets through
\* is one whose shard info it accepts.
LEMMA ShardAccepted ==
    ASSUME NEW infos, Len(infos) = 1, FirstRefusal(infos, ShardVerdict) = "Success"
    PROVE  ShardVerdict(infos[1], 0) = "Success"
<1> DEFINE refused == {i \in 1..Len(infos) : ShardVerdict(infos[i], i - 1) # "Success"}
           first == CHOOSE i \in refused : \A j \in refused : i <= j
<1>1. SUFFICES ASSUME refused # {} PROVE FALSE
  BY SMT
<1>2. refused = {1}
  BY <1>1, SMT
<1>3. first = 1
  BY <1>2, SMT
<1>4. FirstRefusal(infos, ShardVerdict) = ShardVerdict(infos[first], first - 1)
  BY <1>1 DEF FirstRefusal
<1> QED
  BY <1>2, <1>3, <1>4

\* A sequence of length one is its entry.
LEMMA SingleEntry ==
    ASSUME NEW S, NEW q \in Seq(S), Len(q) = 1
    PROVE  q[1] \in S /\ q = <<q[1]>>
<1>1. q[1] \in S
  BY SMT
<1>2. <<q[1]>> \in Seq(S) /\ Len(<<q[1]>>) = 1
  BY <1>1, SMT
<1> QED
  BY <1>1, <1>2, SMT

\* DOMAIN lastImports has no shard but 0, so a reconciliation of the right
\* size has one shard info.
LEMMA ImportsCardinality ==
    ASSUME DOMAIN lastImports \subseteq {0}
    PROVE  /\ 0 \in DOMAIN lastImports => Cardinality(DOMAIN lastImports) = 1
           /\ 0 \notin DOMAIN lastImports => Cardinality(DOMAIN lastImports) = 0
<1>1. CASE 0 \in DOMAIN lastImports
  <2>1. DOMAIN lastImports = {0}
    BY <1>1
  <2> QED BY <1>1, <2>1, SmallCardinality
<1>2. CASE 0 \notin DOMAIN lastImports
  <2>1. DOMAIN lastImports = {}
    BY <1>2
  <2> QED BY <1>2, <2>1, SmallCardinality
<1> QED BY <1>1, <1>2

\* Shard 0 is known at block 0, so the loop of integrate accepts for it one
\* block count and one hash.
LEMMA AcceptedInfo ==
    ASSUME NEW info \in [blocks : Nat, hash : Hashes],
           0 \in DOMAIN lastImports, lastImports[0].block = 0,
           ShardVerdict(info, 0) = "Success"
    PROVE  info.blocks = 0 /\ info.hash = lastImports[0].hash
<1>1. ImportedBlock(0) = 0 /\ info.blocks \in Nat
  BY DEF ImportedBlock
<1> QED
  BY <1>1, SMT DEF ShardVerdict

\* The block that integrate accepts: the genesis of an empty chain, the
\* reconciliation that names the tip, or a node block.
LEMMA AcceptedBlock ==
    ASSUME TypeOK, CacheShape, pc \in {"new_session", "select"},
           Verdict(call) = "Success"
    PROVE  \/ /\ FirstStatement(call) = "validator_joins"
              /\ currentRecon = 0
              /\ call.data.type = "Genesis"
           \/ /\ FirstStatement(call) = "truncate"
              /\ currentRecon # 0
              /\ call.data.type = "Reconciliation"
              /\ call.data.chainId = currentRecon
              /\ call.data.shardInfo = <<[blocks |-> 0, hash |-> lastImports[0].hash]>>
           \/ /\ FirstStatement(call) = "commit_node"
              /\ currentRecon # 0
<1> USE DEF TypeOK, CacheShape
<1>0. /\ call \in Calls
      /\ call.recon \in Nat /\ call.data \in Blocks /\ currentRecon \in Nat
      /\ call.recon = currentRecon
  <2>1. call \in Calls /\ currentRecon \in Nat
    OBVIOUS
  <2>2. call.recon \in Nat /\ call.data \in Blocks
    BY <2>1, IndexAssumption DEF Calls
  <2>3. call.recon = currentRecon
    BY <2>1, <2>2, SMT DEF Verdict
  <2> QED BY <2>1, <2>2, <2>3
<1>1. CASE currentRecon = 0
  <2>1. GenesisVerdict(call) = "Success"
    BY <1>0, <1>1 DEF Verdict
  <2>2. call.data.type = "Genesis"
    BY <2>1 DEF GenesisVerdict
  <2> QED BY <1>1, <2>2 DEF FirstStatement
<1>2. CASE currentRecon # 0 /\ call.data.type = "Reconciliation"
  <2> DEFINE infos == call.data.shardInfo
  <2>0. infos \in Seq([blocks : Nat, hash : Hashes])
    BY <1>0, <1>2, BlocksAssumption
  <2>1. ReconVerdict(call.data) = "Success"
    BY <1>0, <1>2 DEF Verdict
  <2>2. /\ FirstRefusal(infos, ShardVerdict) = "Success"
        /\ IntegrateReconVerdict(call.data) = "Success"
    BY <2>1 DEF ReconVerdict
  <2>3. /\ call.data.chainId = currentRecon
        /\ Len(infos) = Cardinality(DOMAIN lastImports)
    BY <2>2 DEF IntegrateReconVerdict
  <2>4. DOMAIN lastImports = {0} /\ lastImports[0] \in Import
    BY <1>2
  <2>5. Len(infos) = 1
    BY <2>3, <2>4, ImportsCardinality
  <2>6. ShardVerdict(infos[1], 0) = "Success"
    BY <2>2, <2>5, ShardAccepted
  <2>6a. infos[1] \in [blocks : Nat, hash : Hashes] /\ infos = <<infos[1]>>
    <3> HIDE DEF infos
    <3> QED BY <2>0, <2>5, SingleEntry
  <2>7. infos[1].blocks = 0 /\ infos[1].hash = lastImports[0].hash
    BY <2>4, <2>6, <2>6a, AcceptedInfo
  <2>8. infos[1] = [blocks |-> 0, hash |-> lastImports[0].hash]
    BY <2>7, <2>6a
  <2> QED BY <1>2, <2>3, <2>6a, <2>8 DEF FirstStatement
<1>3. CASE currentRecon # 0 /\ call.data.type # "Reconciliation"
  <2>1. call.data.type = "Node"
    BY <1>0, <1>3 DEF Verdict
  <2> QED BY <1>3, <2>1 DEF FirstStatement
<1> QED BY <1>1, <1>2, <1>3

\* integrate answers with a result.
LEMMA VerdictType ==
    ASSUME TypeOK, CacheShape, pc \in {"new_session", "select"}
    PROVE  Verdict(call) \in Results
<1>1. \A info, s : ShardVerdict(info, s) \in Results
  BY DEF ShardVerdict, Results
<1>2. \A info, s : ImportVerdict(info, s) \in Results
  BY DEF ImportVerdict, Results
<1>3. \A b : ReconVerdict(b) \in Results
  <2>1. \A infos : FirstRefusal(infos, ShardVerdict) \in Results
    BY <1>1 DEF FirstRefusal, Results
  <2>2. \A infos : FirstRefusal(infos, ImportVerdict) \in Results
    BY <1>2 DEF FirstRefusal, Results
  <2> QED
    BY <2>1, <2>2 DEF ReconVerdict, IntegrateReconVerdict, Results
<1>4. GenesisVerdict(call) \in Results /\ NodeVerdict(call) \in Results
  BY DEF GenesisVerdict, NodeVerdict, Results
<1>5. call.recon \in Nat /\ currentRecon \in Nat
  BY IndexAssumption DEF TypeOK, Calls
<1> QED
  BY <1>3, <1>4, <1>5, SMT DEF Verdict, Results
-----------------------------------------------------------------------------
(* The inductive invariant. *)

\* The empty database and the fresh integrator satisfy the invariant.
LEMMA InitIInv == Init => IInv
<1> SUFFICES ASSUME Init PROVE IInv
  OBVIOUS
<1> USE DEF Init, FreshCache, EmptyTables, NoImports
<1>1. TypeOK
  <2>1. db \in Tables
    BY DEF Tables
  <2>2. rows \in Seq(Row)
    BY SMT
  <2>3. DOMAIN lastImports = {}
    OBVIOUS
  <2>4. crashes \in 0..MaxCrashes
    BY FaultsAssumption, SMT
  <2>5. initialized \in BOOLEAN /\ currentRecon \in Nat
    OBVIOUS
  <2> HIDE DEF Init, FreshCache, EmptyTables, NoImports
  <2>6. pc = "idle" /\ result = "None"
    BY DEF Init
  <2> QED BY <2>1, <2>2, <2>3, <2>4, <2>5, <2>6 DEF TypeOK, Places, Results
<1>2. TablesShape
  BY DEF TablesShape, ImportIsAtomic
<1>3. CacheShape
  BY DEF CacheShape
<1>4. CacheCoversDatabase
  BY DEF CacheCoversDatabase
<1>5. AcceptedShape
  BY DEF AcceptedShape, GenesisPlaces, ReconPlaces
<1>6. SessionShape
  BY DEF SessionShape
<1> QED
  BY <1>1, <1>2, <1>3, <1>4, <1>5, <1>6 DEF IInv

\* A call that returns without a commit leaves nothing behind but its result.
LEMMA ReturnIInv ==
    ASSUME IInv, NEW r \in Results, Return(r), pc # "init_row",
           UNCHANGED <<db, initialized, currentRecon, lastImports, crashes>>
    PROVE  IInv'
<1> USE DEF IInv, Return
<1>1. TypeOK'
  BY SMT DEF TypeOK, Places
<1>2. TablesShape'
  BY DEF TablesShape, ImportIsAtomic
<1>3. CacheShape'
  BY DEF CacheShape
<1>4. CacheCoversDatabase'
  BY DEF CacheCoversDatabase
<1>5. AcceptedShape'
  BY DEF AcceptedShape, GenesisPlaces, ReconPlaces
<1>6. SessionShape'
  BY DEF SessionShape
<1> QED
  BY <1>1, <1>2, <1>3, <1>4, <1>5, <1>6 DEF IInv

\* An accepted block goes to its first statement, a refused one is answered.
LEMMA ProceedIInv ==
    ASSUME IInv, pc \in {"new_session", "select"}, Proceed(db),
           initialized', pc = "new_session" => initialized,
           \A r \in db.imported_blocks : r.reconciliation < currentRecon,
           UNCHANGED <<db, currentRecon, lastImports, crashes>>
    PROVE  IInv'
<1> USE DEF IInv
<1>0. TypeOK /\ CacheShape /\ Verdict(call) \in Results
  BY VerdictType
<1>1. CASE Verdict(call) = "Success"
  <2> USE <1>1 DEF Proceed
  <2>0. \/ /\ pc' = "validator_joins"
           /\ currentRecon = 0
           /\ call.data.type = "Genesis"
        \/ /\ pc' = "truncate"
           /\ currentRecon # 0
           /\ call.data.type = "Reconciliation"
           /\ call.data.chainId = currentRecon
           /\ call.data.shardInfo = <<[blocks |-> 0, hash |-> lastImports[0].hash]>>
        \/ /\ pc' = "commit_node"
           /\ currentRecon # 0
    BY <1>0, AcceptedBlock
  <2>1. TypeOK'
    <3>1. rows' \in Seq(Row)
      BY SMT
    <3> QED BY <2>0, <3>1 DEF TypeOK, Places, Statements, Commits
  <2>2. TablesShape'
    BY DEF TablesShape, ImportIsAtomic
  <2>3. CacheShape'
    BY <2>0 DEF CacheShape
  <2>4. CacheCoversDatabase'
    BY DEF CacheCoversDatabase
  <2>5. AcceptedShape'
    BY <2>0 DEF AcceptedShape, GenesisPlaces, ReconPlaces
  <2>6. SessionShape'
    BY <2>0 DEF SessionShape
  <2> QED
    BY <2>1, <2>2, <2>3, <2>4, <2>5, <2>6 DEF IInv
<1>2. CASE Verdict(call) # "Success"
  <2> USE <1>2 DEF Proceed, Return
  <2>1. TypeOK'
    <3>1. rows' \in Seq(Row)
      BY SMT
    <3> QED BY <1>0, <3>1 DEF TypeOK, Places
  <2>2. TablesShape'
    BY DEF TablesShape, ImportIsAtomic
  <2>3. CacheShape'
    BY DEF CacheShape
  <2>4. CacheCoversDatabase'
    BY DEF CacheCoversDatabase
  <2>5. AcceptedShape'
    BY DEF AcceptedShape, GenesisPlaces, ReconPlaces
  <2>6. SessionShape'
    BY DEF SessionShape
  <2> QED
    BY <2>1, <2>2, <2>3, <2>4, <2>5, <2>6 DEF IInv
<1> QED BY <1>1, <1>2

\* A statement fails, or runs inside the transaction.
LEMMA GenesisStatementsIInv ==
    ASSUME IInv,
           \/ InsertValidatorJoin \/ InsertWallet \/ InsertWalletAddress
           \/ InsertImportedGenesis
    PROVE  IInv'
<1> USE DEF IInv
<1>0. /\ pc \in GenesisPlaces \ {"commit_genesis"}
      /\ currentRecon = 0 /\ initialized /\ call \in Calls
      /\ call.data \in Blocks /\ call.data.hash \in Hashes
      /\ UNCHANGED <<db, initialized, currentRecon, lastImports, crashes>>
  <2>1. /\ pc \in GenesisPlaces \ {"commit_genesis"}
        /\ UNCHANGED <<db, initialized, currentRecon, lastImports, crashes>>
    BY DEF InsertValidatorJoin, InsertWallet, InsertWalletAddress,
           InsertImportedGenesis, Statement, GenesisPlaces
  <2>2. call \in Calls
    BY <2>1 DEF TypeOK, GenesisPlaces
  <2>3. call.data \in Blocks /\ call.data.hash \in Hashes
    BY <2>2 DEF Calls, Hashes
  <2> QED BY <2>1, <2>2, <2>3 DEF AcceptedShape, CacheShape, GenesisPlaces
<1>1. CASE Return("DatabaseError")
  BY <1>0, <1>1, ReturnIInv DEF GenesisPlaces, Results
<1>2. CASE ~Return("DatabaseError")
  <2> DEFINE h == call.data.hash
  <2>0. /\ db.imported_blocks = {} /\ db.wallets = {} /\ db.validator_joins = {}
        /\ db.wallet_addresses = {}
    <3>1. \A r \in db.imported_blocks : r.reconciliation \in Nat /\ r.reconciliation < 0
      BY <1>0 DEF TypeOK, Tables, Row, CacheCoversDatabase
    <3>2. db.imported_blocks = {}
      BY <3>1, SMT
    <3> QED BY <3>2 DEF TablesShape, ImportIsAtomic
  <2>1. UNCHANGED <<rows, call, result>>
    BY <1>2 DEF InsertValidatorJoin, InsertWallet, InsertWalletAddress,
           InsertImportedGenesis, Statement
  <2>2. db \in Tables
    BY DEF TypeOK
  <2>2a. db = TablesOf({}, {}, {}, {})
    BY <2>0, <2>2 DEF Tables, TablesOf
  <2>3. \/ pc' = "wallets" /\ session' = TablesOf({}, {h}, {}, {})
        \/ pc' = "wallet_addresses" /\ session' = TablesOf({}, {h}, {h}, {})
        \/ pc' = "imported_genesis" /\ session' = TablesOf({}, {h}, {h}, {h})
        \/ pc' = "commit_genesis" /\ session' = TablesOf({ImportedRow(0)}, {h}, {h}, {h})
    <3>1. CASE InsertValidatorJoin
      <4>1. pc = "validator_joins" /\ session = TablesOf({}, {}, {}, {})
        BY <3>1, <2>2a DEF InsertValidatorJoin, Statement, SessionShape
      <4> QED BY <1>2, <3>1, <4>1, SMT DEF InsertValidatorJoin, Statement, TablesOf
    <3>2. CASE InsertWallet
      <4>1. pc = "wallets" /\ session = TablesOf({}, {h}, {}, {})
        BY <3>2 DEF InsertWallet, Statement, SessionShape
      <4> QED BY <1>2, <3>2, <4>1, SMT DEF InsertWallet, Statement, TablesOf
    <3>3. CASE InsertWalletAddress
      <4>1. pc = "wallet_addresses" /\ session = TablesOf({}, {h}, {h}, {})
        BY <3>3 DEF InsertWalletAddress, Statement, SessionShape
      <4> QED BY <1>2, <3>3, <4>1, SMT DEF InsertWalletAddress, Statement, TablesOf
    <3>4. CASE InsertImportedGenesis
      <4>1. pc = "imported_genesis" /\ session = TablesOf({}, {h}, {h}, {h})
        BY <3>4 DEF InsertImportedGenesis, Statement, SessionShape
      <4> QED BY <1>2, <3>4, <4>1, SMT DEF InsertImportedGenesis, Statement, TablesOf
    <3> QED BY <3>1, <3>2, <3>3, <3>4
  <2>4. TypeOK'
    <3>1. ImportedRow(0) \in Row
      BY <1>0 DEF ImportedRow, Row
    <3>2. session' \in Tables
      <4>1. h \in Hashes
        BY <1>0
      <4> HIDE DEF h
      <4> QED BY <2>3, <3>1, <4>1, SMT DEF Tables, TablesOf
    <3> QED BY <1>0, <2>1, <2>3, <3>2 DEF TypeOK, Places, Statements, Commits
  <2>5. TablesShape'
    BY <1>0 DEF TablesShape, ImportIsAtomic
  <2>6. CacheShape'
    BY <1>0, <2>1, <2>3 DEF CacheShape
  <2>7. CacheCoversDatabase'
    BY <1>0 DEF CacheCoversDatabase
  <2>8. AcceptedShape'
    BY <1>0, <2>1, <2>3 DEF AcceptedShape, GenesisPlaces, ReconPlaces
  <2>9. SessionShape'
    BY <1>0, <2>1, <2>3 DEF SessionShape, ImportedRow
  <2> QED
    BY <2>4, <2>5, <2>6, <2>7, <2>8, <2>9 DEF IInv
<1> QED BY <1>1, <1>2

\* The same for the two statements of a reconciliation.
LEMMA ReconStatementsIInv ==
    ASSUME IInv, TruncateImported \/ InsertImportedRecon
    PROVE  IInv'
<1> USE DEF IInv
<1>0. /\ pc \in {"truncate", "imported_recon"}
      /\ initialized /\ call \in Calls /\ currentRecon \in Nat
      /\ call.data \in Blocks /\ call.data.hash \in Hashes
      /\ UNCHANGED <<db, initialized, currentRecon, lastImports, crashes>>
  <2>1. /\ pc \in {"truncate", "imported_recon"}
        /\ UNCHANGED <<db, initialized, currentRecon, lastImports, crashes>>
    BY DEF TruncateImported, InsertImportedRecon, Statement
  <2>2. call \in Calls /\ currentRecon \in Nat
    BY <2>1 DEF TypeOK
  <2>3. call.data \in Blocks /\ call.data.hash \in Hashes
    BY <2>2 DEF Calls, Hashes
  <2> QED BY <2>1, <2>2, <2>3 DEF CacheShape
<1>1. CASE Return("DatabaseError")
  BY <1>0, <1>1, ReturnIInv DEF Results
<1>2. CASE ~Return("DatabaseError")
  <2>1. UNCHANGED <<rows, call, result>>
    BY <1>2 DEF TruncateImported, InsertImportedRecon, Statement
  <2>2. db \in Tables
    BY DEF TypeOK
  <2>3. \/ /\ pc' = "imported_recon"
           /\ session' = [db EXCEPT !.imported_blocks = {}]
        \/ /\ pc' = "commit_recon"
           /\ session' = [db EXCEPT !.imported_blocks = {ImportedRow(currentRecon)}]
    <3>1. CASE TruncateImported
      <4>1. pc = "truncate" /\ session = db
        BY <3>1 DEF TruncateImported, Statement, SessionShape
      <4> QED BY <1>2, <3>1, <4>1 DEF TruncateImported, Statement
    <3>2. CASE InsertImportedRecon
      <4>1. pc = "imported_recon" /\ session = [db EXCEPT !.imported_blocks = {}]
        BY <3>2 DEF InsertImportedRecon, Statement, SessionShape
      <4> QED BY <1>2, <2>2, <3>2, <4>1 DEF InsertImportedRecon, Statement, Tables
    <3> QED BY <3>1, <3>2
  <2>4. TypeOK'
    <3>1. ImportedRow(currentRecon) \in Row
      BY <1>0 DEF ImportedRow, Row
    <3>2. session' \in Tables
      BY <2>2, <2>3, <3>1 DEF Tables
    <3> QED BY <1>0, <2>1, <2>3, <3>2 DEF TypeOK, Places, Statements, Commits
  <2>5. TablesShape'
    BY <1>0 DEF TablesShape, ImportIsAtomic
  <2>6. CacheShape'
    BY <1>0, <2>1, <2>3 DEF CacheShape
  <2>7. CacheCoversDatabase'
    BY <1>0 DEF CacheCoversDatabase
  <2>8. AcceptedShape'
    BY <1>0, <2>1, <2>3 DEF AcceptedShape, GenesisPlaces, ReconPlaces
  <2>9. SessionShape'
    BY <1>0, <2>1, <2>3 DEF SessionShape, ImportedRow
  <2> QED
    BY <2>4, <2>5, <2>6, <2>7, <2>8, <2>9 DEF IInv
<1> QED BY <1>1, <1>2

\* Committing a genesis, whatever becomes of the commit.
LEMMA CommitGenesisIInv ==
    ASSUME IInv, CommitGenesis
    PROVE  IInv'
<1> USE DEF IInv
<1> DEFINE h == call.data.hash
<1>0. /\ pc = "commit_genesis" /\ currentRecon = 0 /\ initialized
      /\ lastImports = NoImports /\ h \in Hashes
      /\ session = TablesOf({ImportedRow(0)}, {h}, {h}, {h})
      /\ ImportedRow(0) \in Row
  <2>1. pc = "commit_genesis"
    BY DEF CommitGenesis
  <2>2. call \in Calls
    BY <2>1 DEF TypeOK
  <2>3. h \in Hashes
    BY <2>2 DEF Calls, Hashes
  <2>4. ImportedRow(0) \in Row
    BY <2>3 DEF ImportedRow, Row
  <2>5. currentRecon = 0 /\ initialized /\ lastImports = NoImports
    BY <2>1 DEF AcceptedShape, CacheShape, GenesisPlaces
  <2> QED BY <2>1, <2>3, <2>4, <2>5 DEF SessionShape
<1>1. /\ currentRecon' = 1
      /\ DOMAIN lastImports' = {0}
      /\ lastImports'[0] = [block |-> 0, hash |-> h]
  BY <1>0 DEF CommitGenesis, NoImports
<1>2. pc' = "idle" /\ UNCHANGED <<initialized, crashes>>
  BY DEF CommitGenesis, Return
<1>3. db' = session \/ db' = db
  BY DEF CommitGenesis, Commit
<1>4. TypeOK'
  <2>1. db' \in Tables
    BY <1>0, <1>3 DEF TypeOK
  <2>2. rows' \in Seq(Row) /\ result' \in Results
    BY SMT DEF CommitGenesis, Return, Results
  <2>3. lastImports'[0] \in Import
    BY <1>0, <1>1, SMT DEF Import
  <2> QED BY <1>1, <1>2, <2>1, <2>2, <2>3, SMT DEF TypeOK, Places
<1>5. TablesShape'
  BY <1>0, <1>3, SMT DEF TablesShape, ImportIsAtomic, TablesOf, ImportedRow
<1>6. CacheShape'
  BY <1>0, <1>1, <1>2, SMT DEF CacheShape
<1>7. CacheCoversDatabase'
  <2>1. CASE db' = session
    BY <1>0, <1>1, <2>1, SMT DEF CacheCoversDatabase, TablesOf, ImportedRow
  <2>2. CASE db' = db
    <3>1. \A r \in db.imported_blocks : r.reconciliation \in Nat /\ r.reconciliation < 0
      BY <1>0 DEF TypeOK, Tables, Row, CacheCoversDatabase
    <3> QED BY <2>2, <3>1, SMT DEF CacheCoversDatabase
  <2> QED BY <1>3, <2>1, <2>2
<1>8. AcceptedShape'
  BY <1>2 DEF AcceptedShape, GenesisPlaces, ReconPlaces
<1>9. SessionShape'
  BY <1>2 DEF SessionShape
<1> QED
  BY <1>4, <1>5, <1>6, <1>7, <1>8, <1>9 DEF IInv

\* Committing a reconciliation, whatever becomes of the commit.
LEMMA CommitReconIInv ==
    ASSUME IInv, CommitRecon
    PROVE  IInv'
<1> USE DEF IInv
<1> DEFINE h == call.data.hash
<1>0. /\ pc = "commit_recon" /\ currentRecon \in Nat /\ currentRecon # 0
      /\ initialized /\ h \in Hashes
      /\ session = [db EXCEPT !.imported_blocks = {ImportedRow(currentRecon)}]
      /\ db \in Tables /\ session \in Tables
  <2>1. pc = "commit_recon"
    BY DEF CommitRecon
  <2>2. call \in Calls /\ db \in Tables /\ session \in Tables /\ currentRecon \in Nat
    BY <2>1 DEF TypeOK
  <2>3. h \in Hashes
    BY <2>2 DEF Calls, Hashes
  <2>4. currentRecon # 0 /\ initialized
    BY <2>1 DEF AcceptedShape, CacheShape, ReconPlaces
  <2> QED BY <2>1, <2>2, <2>3, <2>4 DEF SessionShape
<1>1. /\ currentRecon' = currentRecon + 1
      /\ DOMAIN lastImports' = {0}
      /\ lastImports'[0] = [block |-> 0, hash |-> h]
  BY DEF CommitRecon
<1>2. pc' = "idle" /\ UNCHANGED <<initialized, crashes>>
  BY DEF CommitRecon, Return
<1>3. db' = session \/ db' = db
  BY DEF CommitRecon, Commit
<1>4. TypeOK'
  <2>1. db' \in Tables
    BY <1>0, <1>3
  <2>2. rows' \in Seq(Row) /\ result' \in Results
    BY SMT DEF CommitRecon, Return, Results
  <2>3. lastImports'[0] \in Import
    BY <1>0, <1>1, SMT DEF Import
  <2> QED BY <1>0, <1>1, <1>2, <2>1, <2>2, <2>3, SMT DEF TypeOK, Places
<1>5. session.imported_blocks = {ImportedRow(currentRecon)}
      /\ session.wallets = db.wallets
      /\ session.validator_joins = db.validator_joins
      /\ session.wallet_addresses = db.wallet_addresses
  BY <1>0 DEF Tables
<1>6. TablesShape'
  <2>1. CASE db' = session
    <3>1. \A r \in db'.imported_blocks : r = ImportedRow(currentRecon)
      BY <1>5, <2>1
    <3>2. db'.imported_blocks # {}
      BY <1>5, <2>1
    <3>3. /\ db'.wallets = db.wallets
          /\ db'.validator_joins = db.validator_joins
          /\ db'.wallet_addresses = db.wallet_addresses
      BY <1>5, <2>1
    <3>4. ImportIsAtomic'
      BY <3>1, <3>3 DEF TablesShape, ImportIsAtomic
    <3>5. \A r \in db'.imported_blocks : r.shard = 0 /\ r.block = 0
      BY <3>1, SMT DEF ImportedRow
    <3> QED BY <3>2, <3>4, <3>5 DEF TablesShape
  <2>2. CASE db' = db
    BY <2>2 DEF TablesShape, ImportIsAtomic
  <2> QED BY <1>3, <2>1, <2>2
<1>7. CacheShape'
  BY <1>0, <1>1, <1>2, SMT DEF CacheShape
<1>8. CacheCoversDatabase'
  <2>1. CASE db' = session
    BY <1>0, <1>1, <1>5, <2>1, SMT DEF CacheCoversDatabase, ImportedRow
  <2>2. CASE db' = db
    <3>1. \A r \in db.imported_blocks :
              r.reconciliation \in Nat /\ r.reconciliation < currentRecon
      BY <1>0 DEF Tables, Row, CacheCoversDatabase
    <3> QED BY <1>0, <1>1, <2>2, <3>1, SMT DEF CacheCoversDatabase
  <2> QED BY <1>3, <2>1, <2>2
<1>9. AcceptedShape'
  BY <1>2 DEF AcceptedShape, GenesisPlaces, ReconPlaces
<1>10. SessionShape'
  BY <1>2 DEF SessionShape
<1> QED
  BY <1>4, <1>6, <1>7, <1>8, <1>9, <1>10 DEF IInv

\* A node block's commit changes no table.
LEMMA CommitNodeIInv ==
    ASSUME IInv, CommitNode
    PROVE  IInv'
<1>1. pc = "commit_node" /\ session = db
  BY DEF IInv, CommitNode, SessionShape
<1>2. UNCHANGED <<db, initialized, currentRecon, lastImports, crashes>>
  BY <1>1 DEF CommitNode, Commit
<1>3. Return("Success")
  BY DEF CommitNode
<1> QED
  BY <1>1, <1>2, <1>3, ReturnIInv DEF Results

\* init reads what was imported.
LEMMA InitIntegratorIInv ==
    ASSUME IInv, InitSelect \/ InitRow
    PROVE  IInv'
<1> USE DEF IInv
<1>1. CASE InitSelect /\ session.imported_blocks = {} /\ Proceed(session)
            /\ initialized' /\ UNCHANGED <<currentRecon, lastImports>>
  <2>1. pc = "select" /\ session = db /\ UNCHANGED <<db, crashes>>
    BY <1>1 DEF InitSelect, SessionShape
  <2>2. Proceed(db) /\ \A r \in db.imported_blocks : r.reconciliation < currentRecon
    BY <1>1, <2>1
  <2> QED BY <1>1, <2>1, <2>2, ProceedIInv
<1>2. CASE InitSelect /\ Return("DatabaseError") /\ UNCHANGED cache
  <2>1. pc = "select" /\ UNCHANGED <<db, initialized, currentRecon, lastImports, crashes>>
    BY <1>2 DEF InitSelect, cache
  <2> QED BY <1>2, <2>1, ReturnIInv DEF Results
<1>3. CASE /\ InitSelect
           /\ session.imported_blocks # {}
           /\ pc' = "init_row"
           /\ \E r \in [1..Cardinality(session.imported_blocks)
                           -> session.imported_blocks] :
                /\ {r[i] : i \in DOMAIN r} = session.imported_blocks
                /\ rows' = r
           /\ currentRecon' = 0
           /\ lastImports' = NoImports
           /\ UNCHANGED <<session, call, result, initialized>>
  <2>1. /\ pc = "select" /\ session = db /\ UNCHANGED <<db, crashes>>
        /\ ~initialized /\ db \in Tables
    BY <1>3 DEF InitSelect, SessionShape, CacheShape, TypeOK
  <2> DEFINE I == session.imported_blocks
             n == Cardinality(I)
  <2>2. I \subseteq Row /\ \A r \in I : r.shard = 0 /\ r.block = 0
    BY <2>1 DEF Tables, TablesShape
  <2>3. n = 1
    <3>1. PICK r \in I : TRUE
      BY <1>3
    <3>2. I = {r}
      BY <2>1, <3>1 DEF TablesShape, ImportIsAtomic
    <3> QED BY <3>2, SmallCardinality
  <2>4. PICK r \in [1..n -> I] : {r[i] : i \in DOMAIN r} = I /\ rows' = r
    BY <1>3
  <2>4a. n \in Nat
    BY <2>3, SMT
  <2>5. rows' \in Seq(Row) /\ Len(rows') = n
    <3>1. rows' \in [1..n -> Row]
      BY <2>2, <2>4
    <3> HIDE DEF n, I
    <3> QED BY <2>4a, <3>1, SMT
  <2>6. rows' # <<>>
    <3>1. Len(rows') = 1 /\ Len(<<>>) = 0
      BY <2>3, <2>5
    <3> QED BY <3>1, SMT
  <2>7. \A i \in 1..Len(rows') : rows'[i].shard = 0 /\ rows'[i].block = 0
    <3>1. \A i \in 1..n : rows'[i] \in I
      BY <2>4
    <3> HIDE DEF I, n
    <3> QED BY <2>2, <2>5, <3>1
  <2>8. DOMAIN lastImports' = {}
    BY <1>3 DEF NoImports
  <2> HIDE DEF I, n
  <2>9. TypeOK'
    BY <1>3, <2>1, <2>5, <2>8 DEF TypeOK, Places
  <2>10. TablesShape'
    BY <2>1 DEF TablesShape, ImportIsAtomic
  <2>11. CacheShape'
    BY <1>3, <2>1, <2>6, <2>7, <2>8 DEF CacheShape
  <2>12. CacheCoversDatabase'
    BY <1>3, <2>1 DEF CacheCoversDatabase
  <2>13. AcceptedShape'
    BY <1>3 DEF AcceptedShape, GenesisPlaces, ReconPlaces
  <2>14. SessionShape'
    BY <1>3, <2>1 DEF SessionShape
  <2> QED
    BY <2>9, <2>10, <2>11, <2>12, <2>13, <2>14 DEF IInv
<1>4. CASE InitRow
  <2>1. /\ pc = "init_row" /\ ~initialized /\ rows' = rows /\ rows # <<>>
        /\ UNCHANGED <<db, session, initialized, call, pc, result, crashes>>
    BY <1>4 DEF InitRow, DataResultNext, CacheShape
  <2> DEFINE row == Head(rows)
  <2>2. row \in Row /\ row.shard = 0 /\ row.block = 0
    <3>1. rows \in Seq(Row)
      BY DEF TypeOK
    <3>2. Len(rows) \in Nat /\ Len(rows) # 0
      BY <2>1, <3>1, SMT
    <3>3. row = rows[1] /\ row \in Row
      BY <2>1, <3>1, SMT
    <3>4. 1 \in 1..Len(rows)
      BY <3>2, SMT
    <3> QED BY <2>1, <3>3, <3>4 DEF CacheShape
  <2>3. /\ currentRecon' = row.reconciliation
        /\ lastImports' = [s \in DOMAIN lastImports \cup {row.shard} |->
               IF s = row.shard THEN [block |-> row.block, hash |-> row.hash]
               ELSE lastImports[s]]
    BY <1>4, <2>1 DEF InitRow
  <2> HIDE DEF row
  <2>4. /\ currentRecon' \in Nat
        /\ DOMAIN lastImports' = {0}
        /\ lastImports'[0] = [block |-> 0, hash |-> row.hash]
        /\ row.hash \in Hashes
    BY <2>2, <2>3 DEF CacheShape, Row
  <2>5. TypeOK'
    <3>1. lastImports'[0] \in Import
      BY <2>4, SMT DEF Import
    <3> QED BY <2>1, <2>4, <3>1, SMT DEF TypeOK
  <2>6. TablesShape'
    BY <2>1 DEF TablesShape, ImportIsAtomic
  <2>7. CacheShape'
    BY <2>1, <2>4, SMT DEF CacheShape
  <2>8. CacheCoversDatabase'
    BY <2>1 DEF CacheCoversDatabase
  <2>9. AcceptedShape'
    BY <2>1 DEF AcceptedShape, GenesisPlaces, ReconPlaces
  <2>10. SessionShape'
    BY <2>1 DEF SessionShape
  <2> QED
    BY <2>5, <2>6, <2>7, <2>8, <2>9, <2>10 DEF IInv
<1> QED
  BY <1>1, <1>2, <1>3, <1>4 DEF InitSelect

\* A call begins, or gets its session, or the process dies.
LEMMA CallIInv ==
    ASSUME IInv, Integrate \/ NewSession \/ Crash
    PROVE  IInv'
<1> USE DEF IInv
<1>1. CASE Integrate
  <2> USE <1>1 DEF Integrate
  <2>1. TypeOK'
    BY DEF TypeOK, Places
  <2>2. TablesShape'
    BY DEF TablesShape, ImportIsAtomic
  <2>3. CacheShape'
    BY DEF CacheShape
  <2>4. CacheCoversDatabase'
    BY DEF CacheCoversDatabase
  <2>5. AcceptedShape' /\ SessionShape'
    BY DEF AcceptedShape, SessionShape, GenesisPlaces, ReconPlaces
  <2> QED BY <2>1, <2>2, <2>3, <2>4, <2>5 DEF IInv
<1>2. CASE NewSession
  <2>1. /\ pc = "new_session"
        /\ UNCHANGED <<db, initialized, currentRecon, lastImports, crashes>>
    BY <1>2 DEF NewSession
  <2>2. CASE Return("NoDatabase")
    BY <2>1, <2>2, ReturnIInv DEF Results
  <2>3. CASE initialized /\ Proceed(db)
    <3>1. \A r \in db.imported_blocks : r.reconciliation < currentRecon
      BY <2>3 DEF CacheCoversDatabase
    <3> QED BY <2>1, <2>3, <3>1, ProceedIInv
  <2>4. CASE /\ ~initialized /\ pc' = "select" /\ session' = db
             /\ UNCHANGED <<rows, call, result>>
    <3> USE <2>1, <2>4
    <3>1. TypeOK'
      BY DEF TypeOK, Places
    <3>2. TablesShape'
      BY DEF TablesShape, ImportIsAtomic
    <3>3. CacheShape'
      BY DEF CacheShape
    <3>4. CacheCoversDatabase'
      BY DEF CacheCoversDatabase
    <3>5. AcceptedShape' /\ SessionShape'
      BY DEF AcceptedShape, SessionShape, GenesisPlaces, ReconPlaces
    <3> QED BY <3>1, <3>2, <3>3, <3>4, <3>5 DEF IInv
  <2> QED BY <1>2, <2>2, <2>3, <2>4 DEF NewSession
<1>3. CASE Crash
  <2> USE <1>3 DEF Crash
  <2>1. TypeOK'
    <3>1. rows' \in Seq(Row) /\ result' \in Results
      BY SMT DEF Results
    <3>2. crashes' \in 0..MaxCrashes
      BY FaultsAssumption, SMT DEF TypeOK
    <3>3. DOMAIN lastImports' = {}
      BY DEF NoImports
    <3> QED BY <3>1, <3>2, <3>3 DEF TypeOK, Places
  <2>2. TablesShape'
    BY DEF TablesShape, ImportIsAtomic
  <2>3. CacheShape'
    BY DEF CacheShape, NoImports
  <2>4. CacheCoversDatabase'
    BY DEF CacheCoversDatabase
  <2>5. AcceptedShape' /\ SessionShape'
    BY DEF AcceptedShape, SessionShape, GenesisPlaces, ReconPlaces
  <2> QED BY <2>1, <2>2, <2>3, <2>4, <2>5 DEF IInv
<1> QED BY <1>1, <1>2, <1>3

\* Every step of the integrator keeps the invariant.
LEMMA NextIInv == IInv /\ [Next]_vars => IInv'
<1> SUFFICES ASSUME IInv, [Next]_vars PROVE IInv'
  OBVIOUS
<1>1. CASE Integrate \/ NewSession \/ Crash
  BY <1>1, CallIInv
<1>2. CASE InitSelect \/ InitRow
  BY <1>2, InitIntegratorIInv
<1>3. CASE InsertValidatorJoin \/ InsertWallet \/ InsertWalletAddress
           \/ InsertImportedGenesis
  BY <1>3, GenesisStatementsIInv
<1>4. CASE TruncateImported \/ InsertImportedRecon
  BY <1>4, ReconStatementsIInv
<1>5. CASE CommitGenesis
  BY <1>5, CommitGenesisIInv
<1>6. CASE CommitRecon
  BY <1>6, CommitReconIInv
<1>7. CASE CommitNode
  BY <1>7, CommitNodeIInv
<1>8. CASE UNCHANGED vars
  <2> USE <1>8 DEF vars, IInv
  <2>1. TypeOK'
    BY DEF TypeOK
  <2>2. TablesShape' /\ CacheCoversDatabase'
    BY DEF TablesShape, ImportIsAtomic, CacheCoversDatabase
  <2>3. CacheShape' /\ AcceptedShape'
    BY DEF CacheShape, AcceptedShape
  <2>4. SessionShape'
    BY DEF SessionShape, ImportedRow
  <2> QED BY <2>1, <2>2, <2>3, <2>4 DEF IInv
<1> QED
  BY <1>1, <1>2, <1>3, <1>4, <1>5, <1>6, <1>7, <1>8 DEF Next, Work
-----------------------------------------------------------------------------
(* The theorems. *)

\* The invariant holds in every reachable state.
THEOREM Inductive == Spec => []IInv
<1>1. Init => IInv
  BY InitIInv
<1>2. IInv /\ [Next]_vars => IInv'
  BY NextIInv
<1> QED
  BY <1>1, <1>2, PTL DEF Spec

\* Every variable of the integrator keeps its type.
THEOREM TypeCorrect == Spec => []TypeOK
<1>1. IInv => TypeOK
  BY DEF IInv
<1> QED
  BY <1>1, Inductive, PTL

\* An import is in the database whole or not at all, whatever call fails and
\* wherever the process dies.
THEOREM Atomicity == Spec => []ImportIsAtomic
<1>1. IInv => ImportIsAtomic
  BY DEF IInv, TablesShape
<1> QED
  BY <1>1, Inductive, PTL

\* The cache of a working integrator is ahead of the database, also after
\* commits that failed unnoticed.
THEOREM CacheAhead == Spec => []CacheCoversDatabase
<1>1. IInv => CacheCoversDatabase
  BY DEF IInv
<1> QED
  BY <1>1, Inductive, PTL

\* The second pass over the shard infos never refuses, for any block.
THEOREM SecondCheck == Spec => []SecondCheckRedundant
<1>1. IInv => SecondCheckRedundant
  <2> SUFFICES ASSUME IInv, NEW b \in Blocks, b.type = "Reconciliation",
                      FirstRefusal(b.shardInfo, ShardVerdict) = "Success",
                      Len(b.shardInfo) = Cardinality(DOMAIN lastImports)
               PROVE  FirstRefusal(b.shardInfo, ImportVerdict) = "Success"
    BY DEF SecondCheckRedundant
  <2> DEFINE infos == b.shardInfo
  <2>1. infos \in Seq([blocks : Nat, hash : Hashes])
    BY BlocksAssumption
  <2>2. /\ DOMAIN lastImports \subseteq {0}
        /\ 0 \in DOMAIN lastImports => lastImports[0].block = 0
    BY DEF IInv, CacheShape
  <2>3. SUFFICES \A i \in 1..Len(infos) : ImportVerdict(infos[i], i - 1) = "Success"
    BY DEF FirstRefusal
  <2>4. CASE 0 \notin DOMAIN lastImports
    BY <2>2, <2>4, ImportsCardinality, SMT
  <2>5. CASE 0 \in DOMAIN lastImports
    <3>1. Len(infos) = 1
      BY <2>2, <2>5, ImportsCardinality
    <3>2. ShardVerdict(infos[1], 0) = "Success"
      BY <3>1, ShardAccepted
    <3>3. infos[1] \in [blocks : Nat, hash : Hashes]
      <4> HIDE DEF infos
      <4> QED BY <2>1, <3>1, SingleEntry
    <3>4. infos[1].blocks = 0 /\ infos[1].hash = lastImports[0].hash
      BY <2>2, <2>5, <3>2, <3>3, AcceptedInfo
    <3>5. ImportVerdict(infos[1], 0) = "Success"
      BY <2>2, <2>5, <3>4 DEF ImportVerdict
    <3> QED BY <3>1, <3>5, SMT
  <2> QED BY <2>4, <2>5
<1> QED
  BY <1>1, Inductive, PTL

\* The only steps that change the committed tables are the commits of a
\* genesis and of a reconciliation.
LEMMA DbStep ==
    ASSUME IInv, [Next]_vars
    PROVE  \/ db' = db
           \/ /\ CommitGenesis
              /\ db = TablesOf({}, {}, {}, {})
              /\ call.data \in Blocks /\ call.data.type = "Genesis"
              /\ db' = TablesOf({ImportedRow(0)}, {call.data.hash},
                                {call.data.hash}, {call.data.hash})
           \/ /\ CommitRecon
              /\ currentRecon \in Nat \ {0}
              /\ call.data \in Blocks /\ call.data.type = "Reconciliation"
              /\ call.data.chainId = currentRecon
              /\ call.data.shardInfo = <<[blocks |-> 0, hash |-> lastImports[0].hash]>>
              /\ \A r \in db.imported_blocks :
                    r.reconciliation \in Nat /\ r.reconciliation < currentRecon
              /\ db'.imported_blocks = {ImportedRow(currentRecon)}
              /\ db'.wallets = db.wallets
<1> USE DEF IInv
<1>1. CASE CommitGenesis
  <2>1. pc = "commit_genesis" /\ (db' = session \/ db' = db)
    BY <1>1 DEF CommitGenesis, Commit
  <2>2. call \in Calls /\ db \in Tables
    BY <2>1 DEF TypeOK
  <2>3. call.data \in Blocks /\ call.data.type = "Genesis" /\ currentRecon = 0
    BY <2>1, <2>2 DEF Calls, AcceptedShape, GenesisPlaces
  <2>4. db.imported_blocks = {}
    <3>1. initialized
      BY <2>1 DEF CacheShape
    <3>2. \A r \in db.imported_blocks : r.reconciliation \in Nat /\ r.reconciliation < 0
      BY <2>2, <2>3, <3>1 DEF Tables, Row, CacheCoversDatabase
    <3> QED BY <3>2, SMT
  <2>5. db = TablesOf({}, {}, {}, {})
    BY <2>2, <2>4 DEF TablesShape, ImportIsAtomic, Tables, TablesOf
  <2> QED BY <1>1, <2>1, <2>3, <2>5 DEF SessionShape
<1>2. CASE CommitRecon
  <2>1. pc = "commit_recon" /\ (db' = session \/ db' = db)
    BY <1>2 DEF CommitRecon, Commit
  <2>2. call \in Calls /\ db \in Tables /\ currentRecon \in Nat
    BY <2>1 DEF TypeOK
  <2>3. /\ call.data \in Blocks /\ call.data.type = "Reconciliation"
        /\ call.data.chainId = currentRecon /\ currentRecon # 0
        /\ call.data.shardInfo = <<[blocks |-> 0, hash |-> lastImports[0].hash]>>
    BY <2>1, <2>2 DEF Calls, AcceptedShape, ReconPlaces
  <2>4. \A r \in db.imported_blocks :
            r.reconciliation \in Nat /\ r.reconciliation < currentRecon
    <3>1. initialized
      BY <2>1 DEF CacheShape
    <3> QED BY <2>2, <3>1 DEF Tables, Row, CacheCoversDatabase
  <2>5. session = [db EXCEPT !.imported_blocks = {ImportedRow(currentRecon)}]
    BY <2>1 DEF SessionShape
  <2>6. /\ session.imported_blocks = {ImportedRow(currentRecon)}
        /\ session.wallets = db.wallets
    BY <2>2, <2>5 DEF Tables
  <2> QED BY <1>2, <2>1, <2>2, <2>3, <2>4, <2>6
<1>3. CASE CommitNode
  BY <1>3 DEF CommitNode, Commit, SessionShape
<1>4. CASE ~CommitGenesis /\ ~CommitRecon /\ ~CommitNode
  BY <1>4 DEF Next, Work, Integrate, NewSession, InitSelect, InitRow, Statement,
       InsertValidatorJoin, InsertWallet, InsertWalletAddress,
       InsertImportedGenesis, TruncateImported, InsertImportedRecon, Crash, vars
<1> QED BY <1>1, <1>2, <1>3, <1>4

\* The recorded import position never moves back, repeats or vanishes.
THEOREM Forward == Spec => PositionMovesForward
<1>1. IInv /\ [Next]_vars =>
        [/\ db.imported_blocks # {} => db.imported_blocks' # {}
         /\ \A old \in db.imported_blocks, new \in db.imported_blocks' :
              old # new => new.reconciliation > old.reconciliation]_vars
  <2> SUFFICES ASSUME IInv, [Next]_vars
               PROVE  /\ db.imported_blocks # {} => db.imported_blocks' # {}
                      /\ \A old \in db.imported_blocks, new \in db.imported_blocks' :
                           old # new => new.reconciliation > old.reconciliation
    OBVIOUS
  <2>1. CASE db' = db
    BY <2>1 DEF IInv, TablesShape, ImportIsAtomic
  <2>2. CASE db = TablesOf({}, {}, {}, {})
    BY <2>2 DEF TablesOf
  <2>3. CASE /\ currentRecon \in Nat \ {0}
             /\ \A r \in db.imported_blocks :
                   r.reconciliation \in Nat /\ r.reconciliation < currentRecon
             /\ db'.imported_blocks = {ImportedRow(currentRecon)}
    BY <2>3, SMT DEF ImportedRow
  <2> QED BY <2>1, <2>2, <2>3, DbStep
<1> QED
  BY <1>1, Inductive, PTL DEF Spec, PositionMovesForward
-----------------------------------------------------------------------------
(* What reliable commits add. *)

\* As long as commits do not fail, every step keeps the cache exact.
LEMMA NextExact ==
    ASSUME "commit" \notin Faults, IInv, ExactInv, [Next]_vars
    PROVE  ExactInv'
<1> USE DEF IInv
<1> DEFINE h == call.data.hash
<1>1. CASE CommitGenesis
  <2>1. /\ pc = "commit_genesis" /\ db' = session /\ currentRecon' = 1
        /\ lastImports = NoImports
    BY <1>1 DEF CommitGenesis, Commit, CacheShape, AcceptedShape, GenesisPlaces
  <2>2. lastImports'[0] = [block |-> 0, hash |-> h]
    BY <1>1, <2>1 DEF CommitGenesis, NoImports
  <2>3. db' = TablesOf({ImportedRow(0)}, {h}, {h}, {h})
    BY <2>1 DEF SessionShape
  <2>4. /\ db'.imported_blocks = {ImportedRow(currentRecon' - 1)}
        /\ db'.wallets # {}
    BY <2>1, <2>3, SMT DEF TablesOf
  <2> QED BY <2>1, <2>2, <2>4, SMT DEF ExactInv, WholePreviousImported, ImportedRow
<1>2. CASE CommitRecon
  <2>1. /\ pc = "commit_recon" /\ db' = session
        /\ currentRecon' = currentRecon + 1
        /\ lastImports'[0] = [block |-> 0, hash |-> h]
    BY <1>2 DEF CommitRecon, Commit
  <2>2. db \in Tables /\ currentRecon \in Nat /\ currentRecon # 0 /\ initialized
    BY <2>1 DEF TypeOK, CacheShape, AcceptedShape, ReconPlaces
  <2>3. db' = [db EXCEPT !.imported_blocks = {ImportedRow(currentRecon)}]
    BY <2>1 DEF SessionShape
  <2>4. /\ db'.imported_blocks = {ImportedRow(currentRecon' - 1)}
        /\ db'.wallets = db.wallets
    BY <2>1, <2>2, <2>3, SMT DEF Tables
  <2>5. db.wallets # {}
    BY <2>2 DEF ExactInv, WholePreviousImported
  <2> QED BY <2>1, <2>2, <2>4, <2>5, SMT DEF ExactInv, WholePreviousImported, ImportedRow
<1>3. CASE InitSelect \/ InitRow \/ Crash
  <2>1. db' = db
    BY <1>3 DEF InitSelect, InitRow, Crash
  <2>2. WholePreviousImported'
    BY <2>1 DEF ExactInv, WholePreviousImported
  <2>3. \/ ~initialized'
        \/ currentRecon' = 0 /\ db.imported_blocks = {}
    <3>1. CASE InitSelect
      <4>1. pc = "select" /\ ~initialized /\ currentRecon = 0 /\ session = db
        BY <3>1 DEF InitSelect, CacheShape, SessionShape
      <4> QED BY <3>1, <4>1 DEF InitSelect, cache
    <3>2. CASE InitRow
      BY <3>2 DEF InitRow, CacheShape
    <3>3. CASE Crash
      BY <3>3 DEF Crash
    <3> QED BY <1>3, <3>1, <3>2, <3>3
  <2> QED BY <2>1, <2>2, <2>3 DEF ExactInv
<1>4. CASE CommitNode
  <2>1. db' = db
    BY <1>4 DEF CommitNode, Commit, SessionShape
  <2>2. UNCHANGED <<initialized, currentRecon, lastImports>>
    BY <1>4 DEF CommitNode
  <2> QED BY <2>1, <2>2 DEF ExactInv, WholePreviousImported
<1>5. CASE /\ ~CommitGenesis /\ ~CommitRecon /\ ~CommitNode
           /\ ~InitSelect /\ ~InitRow /\ ~Crash
  <2>1. UNCHANGED <<db, initialized, currentRecon, lastImports>>
    BY <1>5 DEF Next, Work, Integrate, NewSession, Statement,
       InsertValidatorJoin, InsertWallet, InsertWalletAddress,
       InsertImportedGenesis, TruncateImported, InsertImportedRecon, vars
  <2> QED BY <2>1 DEF ExactInv, WholePreviousImported
<1> QED BY <1>1, <1>2, <1>3, <1>4, <1>5

\* As long as commits do not fail, the cache is exact.
THEOREM Exact ==
    ASSUME "commit" \notin Faults
    PROVE  Spec => [](IInv /\ ExactInv)
<1>1. Init => ExactInv
  BY SMT DEF Init, FreshCache, EmptyTables, ExactInv, WholePreviousImported
<1>2. IInv /\ ExactInv /\ [Next]_vars => ExactInv'
  BY NextExact
<1> QED
  BY <1>1, <1>2, Inductive, PTL DEF Spec

\* As long as commits do not fail, the cache between calls is what the
\* database records.
THEOREM CacheExact ==
    ASSUME "commit" \notin Faults
    PROVE  Spec => []CacheMatchesDatabase
<1>1. IInv /\ ExactInv => CacheMatchesDatabase
  BY DEF IInv, ExactInv, CacheShape, CacheMatchesDatabase
<1> QED
  BY <1>1, Exact, PTL

\* As long as commits do not fail, a reconciliation is recorded only over a
\* genesis that is there.
THEOREM WholePrevious ==
    ASSUME "commit" \notin Faults
    PROVE  Spec => []WholePreviousImported
<1>1. IInv /\ ExactInv => WholePreviousImported
  BY DEF ExactInv
<1> QED
  BY <1>1, Exact, PTL

\* A table with one row has that position and tip.
LEMMA PositionOfRow ==
    ASSUME NEW row
    PROVE  /\ db.imported_blocks = {row} =>
                 Position = row.reconciliation /\ Tip = row.hash
           /\ db'.imported_blocks = {row} =>
                 Position' = row.reconciliation /\ Tip' = row.hash
<1>1. (CHOOSE r \in {row} : TRUE) = row /\ {row} # {}
  OBVIOUS
<1>2. ASSUME db.imported_blocks = {row}
      PROVE  Position = row.reconciliation /\ Tip = row.hash
  BY <1>1, <1>2 DEF Position, Tip
<1>3. ASSUME db'.imported_blocks = {row}
      PROVE  Position' = row.reconciliation /\ Tip' = row.hash
  BY <1>1, <1>3 DEF Position, Tip
<1> QED BY <1>2, <1>3

\* As long as commits do not fail, the integrator implements the abstract
\* chain: each step is the import of the genesis, the import of the next
\* reconciliation over the recorded hash, or leaves the chain alone.
THEOREM Refinement ==
    ASSUME "commit" \notin Faults
    PROVE  Spec => ImplementsChain
<1>1. Init => Chain!AInit
  BY SMT DEF Init, EmptyTables, Chain!AInit, Position, Tip
<1>2. IInv /\ ExactInv /\ [Next]_vars => [Chain!ANext]_(Chain!avars)
  <2> SUFFICES ASSUME IInv, ExactInv, [Next]_vars
               PROVE  [Chain!ANext]_(Chain!avars)
    OBVIOUS
  <2>1. CASE db' = db
    BY <2>1, SMT DEF Chain!avars, Position, Tip
  <2>2. CASE /\ db = TablesOf({}, {}, {}, {})
             /\ call.data \in Blocks /\ call.data.type = "Genesis"
             /\ db' = TablesOf({ImportedRow(0)}, {call.data.hash},
                               {call.data.hash}, {call.data.hash})
    <3>1. Position = -1
      BY <2>2 DEF Position, TablesOf
    <3>2. Position' = 0 /\ Tip' = call.data.hash
      <4>1. db'.imported_blocks = {ImportedRow(0)}
        BY <2>2 DEF TablesOf
      <4>2. Position' = ImportedRow(0).reconciliation /\ Tip' = ImportedRow(0).hash
        BY <4>1, PositionOfRow
      <4> QED BY <4>2 DEF ImportedRow
    <3>3. db'.wallets = {call.data.hash}
      BY <2>2 DEF TablesOf
    <3> QED BY <2>2, <3>1, <3>2, <3>3 DEF Chain!ANext, Chain!AImportGenesis
  <2>3. CASE /\ CommitRecon
             /\ currentRecon \in Nat \ {0}
             /\ call.data \in Blocks /\ call.data.type = "Reconciliation"
             /\ call.data.chainId = currentRecon
             /\ call.data.shardInfo = <<[blocks |-> 0, hash |-> lastImports[0].hash]>>
             /\ db'.imported_blocks = {ImportedRow(currentRecon)}
             /\ db'.wallets = db.wallets
    <3>1. initialized
      BY <2>3 DEF CommitRecon, IInv, CacheShape
    <3>2. Position = currentRecon - 1 /\ Tip = lastImports[0].hash
      <4> DEFINE row == [reconciliation |-> currentRecon - 1, shard |-> 0,
                         block |-> 0, hash |-> lastImports[0].hash]
      <4>1. db.imported_blocks = {row}
        BY <2>3, <3>1 DEF ExactInv
      <4>2. row.reconciliation = currentRecon - 1 /\ row.hash = lastImports[0].hash
        OBVIOUS
      <4> HIDE DEF row
      <4> QED BY <4>1, <4>2, PositionOfRow
    <3>3. Position' = currentRecon /\ Tip' = call.data.hash
      <4>1. /\ Position' = ImportedRow(currentRecon).reconciliation
            /\ Tip' = ImportedRow(currentRecon).hash
        BY <2>3, PositionOfRow
      <4> QED BY <4>1 DEF ImportedRow
    <3>4. Position >= 0 /\ currentRecon = Position + 1
      BY <2>3, <3>2, SMT
    <3> QED BY <2>3, <3>2, <3>3, <3>4 DEF Chain!ANext, Chain!AImportReconciliation
  <2> QED BY <2>1, <2>2, <2>3, DbStep
<1> QED
  BY <1>1, <1>2, Exact, PTL DEF Spec, ImplementsChain, Chain!ASpec


-----------------------------------------------------------------------------
(* What the loader and BlockIntegrator hold. *)

\* Pending blocks are the decoded contents of files that were added, and the
\* cursor never leaves shard 0.
PendingShape ==
    /\ directory \in Directories
    /\ files \subseteq DOMAIN directory
    /\ loader \in {"listing", "loading", "trying", "integrating", "done"}
    /\ DOMAIN pending \subseteq added
    /\ added \subseteq DOMAIN directory
    /\ \A k \in added : directory[k] # Undecodable /\ directory[k] \in Blocks
    /\ \A k \in DOMAIN pending : pending[k] = directory[k]
    /\ shardCursor = 0

\* integrate runs on behalf of tryNext alone, with the block tryNext found.
CallShape ==
    /\ loader # "integrating" => pc = "idle"
    /\ loader = "integrating" => trying \in DOMAIN pending
    /\ pc # "idle" => call = [data |-> directory[trying], recon |-> trying[1],
                              shard |-> trying[2], block |-> trying[3]]

\* Where the block of a call in progress is filed.
FiledShape ==
    /\ pc \in GenesisPlaces =>
          call.recon = 0 /\ call.shard = 0 /\ call.block = 0
    /\ pc \in ReconPlaces => call.recon = currentRecon
    /\ pc = "commit_node" =>
          /\ call.recon = currentRecon /\ currentRecon # 0
          /\ call.block # 0

\* The chain of the directory up to n is the only one that can be imported.
Secure(n) ==
    n \in OnChain(directory) /\ \A m \in 0..n : ~Rivalled(directory, m)

\* An integrator that expects the successor of n holds the hash of n's file.
TipKnown ==
    \A n \in Recons :
        Secure(n) /\ initialized /\ currentRecon = n + 1 =>
            lastImports[0].hash = directory[<<n, 0, 0>>].hash

Removes(r) == isSuccess(r) \/ isBadBlock(r)

\* A chain block is given up only once the integrator is beyond it.
AnswerShape ==
    loader = "integrating" /\ pc = "idle" /\ Removes(result) =>
        /\ initialized
        /\ \A n \in OnChain(directory) :
              /\ \A m \in 0..(n - 1) : ~Rivalled(directory, m)
              /\ trying = <<n, 0, 0>>
              => currentRecon > n

\* Nothing is given up before init has read the database.
KeptShape == ~initialized => added \subseteq DOMAIN pending

KeptInv ==
    FiledShape /\ TipKnown /\ AnswerShape /\ KeptShape /\ NeededBlockKept

\* A pending block that is not for now: it is filed under a later
\* reconciliation, or does not extend the chain.
Parked(k) ==
    \/ k[1] > currentRecon
    \/ k[1] = currentRecon /\ currentRecon > 0 /\ currentRecon \notin OnChain(directory)

\* Only the chain of the directory is imported.
OnlyChain ==
    /\ \A r \in db.imported_blocks : r.reconciliation \in OnChain(directory)
    /\ initialized /\ currentRecon > 0 => currentRecon - 1 \in OnChain(directory)

\* Every file that decodes is added, and tryIntegrate ends when what is left
\* pending is parked; meanwhile at most one block is not.
Loads ==
    /\ loader # "listing" =>
          \A k \in DOMAIN directory :
              k \in files \/ k \in added \/ directory[k] = Undecodable
    /\ loader = "done" => files = {}
    /\ loader \in {"listing", "loading", "done"} => \A k \in DOMAIN pending : Parked(k)
    /\ loader = "trying" =>
          \A j, k \in DOMAIN pending : ~Parked(j) /\ ~Parked(k) => j = k
    /\ loader = "integrating" =>
          /\ \/ pc \notin {"idle", "init_row"}
             \/ pc = "idle" /\ result # "Success"
             =>
                \A k \in DOMAIN pending : k = trying \/ Parked(k)
          /\ pc = "idle" /\ result # "Success" => Removes(result) \/ Parked(trying)
          /\ pc = "idle" /\ result = "Success" =>
                /\ currentRecon > 0
                /\ \A k \in DOMAIN pending : k = trying \/ k[1] >= currentRecon

LoadInv == FiledAlone(directory) => OnlyChain /\ Loads

\* A file's index is a triple of numbers.
LEMMA Indices ==
    ASSUME PendingShape, NEW k \in DOMAIN directory
    PROVE  /\ k \in Recons \X Shards \X Numbers
           /\ k[1] \in Nat /\ k[2] \in Nat /\ k[3] \in Nat
           /\ k = <<k[1], k[2], k[3]>>
           /\ directory[k] # Undecodable => directory[k] \in Blocks
<1>1. k \in Recons \X Shards \X Numbers
  BY DirectoriesAssumption DEF PendingShape
<1>2. directory[k] # Undecodable => directory[k] \in Blocks
  BY DirectoriesAssumption DEF PendingShape
<1>3. \E r \in Recons, s \in Shards, b \in Numbers : k = <<r, s, b>>
  BY <1>1, SMT
<1>4. PICK r \in Recons, s \in Shards, b \in Numbers : k = <<r, s, b>>
  BY <1>3
<1>5. k[1] = r /\ k[2] = s /\ k[3] = b
  BY <1>4
<1>6. r \in Nat /\ s \in Nat /\ b \in Nat
  BY IndexAssumption
<1> QED
  BY <1>1, <1>2, <1>4, <1>5, <1>6

\* The curator's steps keep the shape of its state.
LEMMA NextShape ==
    ASSUME PendingShape, CallShape, [CNext]_allvars
    PROVE  PendingShape' /\ CallShape'
<1>1. CASE ListFiles
  BY <1>1 DEF ListFiles, PendingShape, CallShape, vars
<1>2. CASE LoadFile
  <2>1. PICK k \in files :
          /\ files' = files \ {k}
          /\ \/ UNCHANGED <<loader, pending, shardCursor, added>>
             \/ /\ directory[k] # Undecodable
                /\ pending' = Emplace(k, directory[k])
                /\ shardCursor' = IF shardCursor > k[2] THEN k[2] ELSE shardCursor
                /\ added' = added \cup {k}
                /\ loader' = "trying"
    BY <1>2 DEF LoadFile
  <2>2. loader = "loading" /\ pc = "idle" /\ pc' = "idle" /\ directory' = directory
        /\ UNCHANGED trying
    BY <1>2 DEF LoadFile, CallShape, vars
  <2>3. k \in DOMAIN directory /\ k[2] \in Nat
    BY Indices DEF PendingShape
  <2>4. directory[k] # Undecodable => directory[k] \in Blocks
    BY <2>3, Indices
  <2>5. PendingShape'
    BY <2>1, <2>2, <2>3, <2>4, SMT DEF PendingShape, Emplace
  <2> QED BY <2>1, <2>2, <2>5 DEF CallShape
<1>3. CASE LoadDone
  BY <1>3 DEF LoadDone, PendingShape, CallShape, vars
<1>4. CASE TryNext
  <2>1. CASE Candidates = {} /\ loader' = "loading" /\ UNCHANGED <<trying, call, pc>>
    BY <1>4, <2>1 DEF TryNext, PendingShape, CallShape
  <2>2. CASE \E k \in Candidates :
                /\ trying' = k
                /\ call' = [data |-> pending[k], recon |-> k[1],
                            shard |-> k[2], block |-> k[3]]
                /\ pc' = "new_session"
                /\ loader' = "integrating"
    <3>1. PICK k \in Candidates :
                /\ trying' = k
                /\ call' = [data |-> pending[k], recon |-> k[1],
                            shard |-> k[2], block |-> k[3]]
                /\ pc' = "new_session"
                /\ loader' = "integrating"
      BY <2>2
    <3>2. k \in DOMAIN pending /\ pending[k] = directory[k]
      BY <3>1 DEF Candidates, PendingShape
    <3>3. UNCHANGED <<directory, files, pending, shardCursor, added>>
      BY <1>4 DEF TryNext
    <3> QED BY <3>1, <3>2, <3>3 DEF PendingShape, CallShape
  <2> QED BY <1>4, <2>1, <2>2 DEF TryNext
<1>5. CASE IntegrateStep
  <2>1. UNCHANGED <<directory, files, loader, pending, shardCursor, trying, added>>
        /\ loader = "integrating"
    BY <1>5 DEF IntegrateStep, cvars
  <2>2. pc # "idle" /\ (pc' # "idle" => call' = call)
    BY <1>5 DEF IntegrateStep, Work, NewSession, InitSelect, InitRow, Proceed,
       Return, InsertValidatorJoin, InsertWallet, InsertWalletAddress,
       InsertImportedGenesis, TruncateImported, InsertImportedRecon, Statement,
       CommitGenesis, CommitRecon, CommitNode
  <2>3. PendingShape'
    BY <2>1 DEF PendingShape
  <2>4. CallShape'
    BY <2>1, <2>2 DEF CallShape
  <2> QED BY <2>3, <2>4
<1>6. CASE TriedNext
  <2>1. /\ loader = "integrating" /\ pc = "idle" /\ pc' = pc
        /\ UNCHANGED <<directory, files, shardCursor, trying, added>>
        /\ loader' \in {"trying", "loading"}
    BY <1>6 DEF TriedNext, vars
  <2>2. \/ pending' = pending
        \/ /\ DOMAIN pending' = DOMAIN pending \ {trying}
           /\ \A k \in DOMAIN pending' : pending'[k] = pending[k]
    BY <1>6 DEF TriedNext, removeBlock
  <2> QED BY <2>1, <2>2 DEF PendingShape, CallShape
<1>7. CASE Restart
  BY <1>7 DEF Restart, Crash, PendingShape, CallShape, NoPending
<1>8. CASE UNCHANGED allvars
  BY <1>8 DEF allvars, vars, cvars, PendingShape, CallShape
<1> QED
  BY <1>1, <1>2, <1>3, <1>4, <1>5, <1>6, <1>7, <1>8 DEF CNext, CWork

\* Every step of the curator is one of the integrator, or leaves it alone:
\* the block that tryNext offers is one integrate can be called with.
LEMMA NextIntegrates ==
    ASSUME PendingShape, CallShape, [CNext]_allvars
    PROVE  [Next]_vars
<1>1. CASE TryNext
  <2>1. CASE UNCHANGED <<call, pc>>
    BY <1>1, <2>1 DEF TryNext, vars
  <2>2. CASE \E k \in Candidates :
                /\ call' = [data |-> pending[k], recon |-> k[1],
                            shard |-> k[2], block |-> k[3]]
                /\ pc' = "new_session"
    <3>1. PICK k \in Candidates :
                /\ call' = [data |-> pending[k], recon |-> k[1],
                            shard |-> k[2], block |-> k[3]]
                /\ pc' = "new_session"
      BY <2>2
    <3>2. k \in DOMAIN pending /\ k \in DOMAIN directory
          /\ pending[k] = directory[k] /\ directory[k] \in Blocks
      BY <3>1 DEF Candidates, PendingShape
    <3>3. k \in Recons \X Shards \X Numbers
      BY <3>2, Indices
    <3>4. call' \in Calls
      BY <3>1, <3>2, <3>3 DEF Calls
    <3>5. pc = "idle"
      BY <1>1 DEF TryNext, CallShape
    <3>6. Integrate
      BY <1>1, <3>1, <3>4, <3>5 DEF TryNext, Integrate
    <3> QED BY <3>6 DEF Next
  <2> QED BY <1>1, <2>1, <2>2 DEF TryNext
<1>2. CASE ListFiles \/ LoadFile \/ LoadDone \/ TriedNext
  BY <1>2 DEF ListFiles, LoadFile, LoadDone, TriedNext
<1>3. CASE IntegrateStep
  BY <1>3 DEF IntegrateStep, Next
<1>4. CASE Restart
  BY <1>4 DEF Restart, Next
<1>5. CASE UNCHANGED allvars
  BY <1>5 DEF allvars
<1> QED
  BY <1>1, <1>2, <1>3, <1>4, <1>5 DEF CNext, CWork

\* The state of the curator keeps its shape.
LEMMA Shapes == CSpec => [](PendingShape /\ CallShape)
<1>1. CInit => PendingShape /\ CallShape
  BY DEF CInit, Init, PendingShape, CallShape, NoPending
<1>2. PendingShape /\ CallShape /\ [CNext]_allvars => (PendingShape /\ CallShape)'
  BY NextShape
<1> QED
  BY <1>1, <1>2, PTL DEF CSpec

\* The curator, with its files, its pending blocks and its restarts, is one
\* of the callers that the specification of the integrator allows for: what
\* is proved of Spec holds of the service.
THEOREM DrivesIntegrator == CSpec => Spec
<1>1. CInit => Init
  BY DEF CInit
<1>2. PendingShape /\ CallShape /\ [CNext]_allvars => [Next]_vars
  BY NextIntegrates
<1> QED
  BY <1>1, <1>2, Shapes, PTL DEF CSpec, Spec

\* The state of the integrator inside the curator is within the inductive
\* invariant of DbIntegrator.
LEMMA IntegratorInv == CSpec => []IInv
  BY DrivesIntegrator, Inductive, PTL

\* Every variable of the curator keeps its type.
THEOREM CuratorTypes == CSpec => []CTypeOK
<1>1. PendingShape /\ IInv => CTypeOK
  BY SMT DEF PendingShape, IInv, CTypeOK
<1> QED
  BY <1>1, Shapes, IntegratorInv, PTL

\* An import of the curator is in the database whole or not at all.
THEOREM CuratorAtomicity == CSpec => []ImportIsAtomic
  BY DrivesIntegrator, Atomicity, PTL

\* The curator's integrator stays ahead of the database, also after commits
\* that failed unnoticed.
THEOREM CuratorCacheAhead == CSpec => []CacheCoversDatabase
  BY DrivesIntegrator, CacheAhead, PTL

\* Whatever the order of the files, and however often the service restarts,
\* the curator's position in the database only moves forward.
THEOREM CuratorForward == CSpec => PositionMovesForward
  BY DrivesIntegrator, Forward, PTL DEF PositionMovesForward
-----------------------------------------------------------------------------
(* What integrate answers. *)

\* The chain of the directory, one block at a time.
LEMMA ChainFacts ==
    ASSUME PendingShape, NEW n \in OnChain(directory)
    PROVE  /\ n \in Nat
           /\ \A m \in 0..n : m \in OnChain(directory)
           /\ <<n, 0, 0>> \in DOMAIN directory
           /\ directory[<<n, 0, 0>>] # Undecodable
           /\ directory[<<n, 0, 0>>] \in Blocks
           /\ n = 0 => directory[<<n, 0, 0>>].type = "Genesis"
           /\ n > 0 =>
                /\ n - 1 \in OnChain(directory)
                /\ directory[<<n, 0, 0>>].type = "Reconciliation"
                /\ directory[<<n, 0, 0>>].chainId = n
                /\ directory[<<n, 0, 0>>].shardInfo =
                      <<[blocks |-> 0, hash |-> directory[<<n - 1, 0, 0>>].hash]>>
<1>1. n \in Nat /\ \A m \in 0..n : Links(directory, m)
  BY IndexAssumption DEF OnChain
<1>2. \A m \in 0..n : m \in Recons
  <2> SUFFICES ASSUME NEW m \in 0..n PROVE m \in Recons
    OBVIOUS
  <2>1. <<m, 0, 0>> \in DOMAIN directory
    BY <1>1 DEF Links
  <2> QED BY <2>1, Indices
<1>3. \A m \in 0..n : m \in OnChain(directory)
  <2> SUFFICES ASSUME NEW m \in 0..n PROVE m \in OnChain(directory)
    OBVIOUS
  <2>1. \A j \in 0..m : j \in 0..n
    BY <1>1, SMT
  <2> QED BY <1>1, <1>2, <2>1 DEF OnChain
<1>4. Links(directory, n)
  BY <1>1, SMT
<1>5. <<n, 0, 0>> \in DOMAIN directory /\ directory[<<n, 0, 0>>] # Undecodable
  BY <1>4 DEF Links
<1>6. directory[<<n, 0, 0>>] \in Blocks
  BY <1>5, Indices
<1>7. n > 0 => n - 1 \in OnChain(directory)
  BY <1>1, <1>3, SMT
<1> QED
  BY <1>1, <1>3, <1>4, <1>5, <1>6, <1>7 DEF Links

\* The chain's next block is accepted.
LEMMA ChainVerdict ==
    ASSUME TypeOK, CacheShape, PendingShape, pc \in {"new_session", "select"},
           NEW n \in OnChain(directory),
           call = [data |-> directory[<<n, 0, 0>>], recon |-> n,
                   shard |-> 0, block |-> 0],
           currentRecon = n,
           n > 0 => lastImports[0].hash = directory[<<n - 1, 0, 0>>].hash
    PROVE  Verdict(call) = "Success"
<1> DEFINE b == directory[<<n, 0, 0>>]
<1>0. n \in Nat
  BY ChainFacts
<1>1. CASE n = 0
  <2>1. b.type = "Genesis"
    BY <1>1, ChainFacts
  <2> HIDE DEF b
  <2>2. GenesisVerdict(call) = "Success"
    BY <2>1 DEF GenesisVerdict, b
  <2> QED BY <1>1, <2>2, SMT DEF Verdict
<1>2. CASE n > 0
  <2> DEFINE h == directory[<<n - 1, 0, 0>>].hash
             info == [blocks |-> 0, hash |-> h]
  <2>1. b.type = "Reconciliation" /\ b.chainId = n /\ b.shardInfo = <<info>>
    BY <1>2, ChainFacts
  <2>2. /\ DOMAIN lastImports = {0} /\ lastImports[0].hash = h
        /\ lastImports[0].block = 0
    BY <1>0, <1>2, SMT DEF CacheShape
  <2>3. Cardinality(DOMAIN lastImports) = 1
    BY <2>2, ImportsCardinality
  <2>4. info.blocks = 0 /\ info.hash = h
    OBVIOUS
  <2>4a. Len(<<info>>) = 1 /\ <<info>>[1] = info
    OBVIOUS
  <2> HIDE DEF info, h, b
  <2>5. ShardVerdict(info, 0) = "Success"
    BY <2>2, <2>4, SMT DEF ShardVerdict, ImportedBlock
  <2>6. ImportVerdict(info, 0) = "Success"
    BY <2>2, <2>4 DEF ImportVerdict
  <2>7. FirstRefusal(<<info>>, ShardVerdict) = "Success"
    <3>1. {i \in 1..Len(<<info>>) : ShardVerdict(<<info>>[i], i - 1) # "Success"} = {}
      <4>1. \A i \in 1..1 : i = 1 /\ i - 1 = 0
        BY SMT
      <4> QED BY <2>4a, <2>5, <4>1
    <3> QED BY <3>1 DEF FirstRefusal
  <2>8. FirstRefusal(<<info>>, ImportVerdict) = "Success"
    <3>1. {i \in 1..Len(<<info>>) : ImportVerdict(<<info>>[i], i - 1) # "Success"} = {}
      <4>1. \A i \in 1..1 : i = 1 /\ i - 1 = 0
        BY SMT
      <4> QED BY <2>4a, <2>6, <4>1
    <3> QED BY <3>1 DEF FirstRefusal
  <2>9. IntegrateReconVerdict(b) = "Success"
    BY <2>1, <2>3, <2>4a, <2>8 DEF IntegrateReconVerdict
  <2>10. ReconVerdict(b) = "Success"
    BY <2>1, <2>7, <2>9 DEF ReconVerdict
  <2>11. call.data = b /\ call.recon = n
    BY DEF b
  <2> QED BY <1>0, <1>2, <2>1, <2>10, <2>11, SMT DEF Verdict
<1> QED BY <1>0, <1>1, <1>2, SMT

\* Where an accepted block is filed.
LEMMA AcceptedFiled ==
    ASSUME TypeOK, CacheShape, pc \in {"new_session", "select"},
           Verdict(call) = "Success"
    PROVE  /\ call.recon = currentRecon
           /\ currentRecon = 0 => call.shard = 0 /\ call.block = 0
           /\ FirstStatement(call) \in {"validator_joins", "truncate", "commit_node"}
           /\ FirstStatement(call) = "validator_joins" => currentRecon = 0
           /\ FirstStatement(call) = "commit_node" =>
                 currentRecon # 0 /\ call.block # 0
<1>1. /\ call \in Calls /\ currentRecon \in Nat
      /\ call.recon \in Nat /\ call.data \in Blocks
      /\ call.block \in Nat /\ call.shard \in Nat
  <2>1. call \in Calls /\ currentRecon \in Nat
    BY DEF TypeOK
  <2> QED BY <2>1, IndexAssumption DEF Calls
<1>2. call.recon = currentRecon
  BY <1>1, SMT DEF Verdict
<1>3. currentRecon = 0 =>
        call.shard = 0 /\ call.block = 0 /\ call.data.type = "Genesis"
  <2>1. currentRecon = 0 => GenesisVerdict(call) = "Success"
    BY <1>1, <1>2 DEF Verdict
  <2> QED BY <2>1 DEF GenesisVerdict
<1>4. currentRecon # 0 => call.data.type \in {"Reconciliation", "Node"}
  BY <1>1, <1>2 DEF Verdict
<1>5. currentRecon # 0 /\ call.data.type = "Node" => call.block # 0
  <2>1. currentRecon # 0 /\ call.data.type = "Node" => NodeVerdict(call) = "Success"
    BY <1>1, <1>2 DEF Verdict
  <2>2. ImportedBlock(call.shard) = 0
    BY DEF CacheShape, ImportedBlock
  <2> QED BY <1>1, <2>1, <2>2, SMT DEF NodeVerdict
<1> QED
  BY <1>2, <1>3, <1>4, <1>5 DEF FirstStatement

\* The steps of a call, by what they mean to its caller.
Fails ==
    /\ Faults # {}
    /\ pc' = "idle" /\ result' \in {"NoDatabase", "DatabaseError"}
    /\ UNCHANGED <<initialized, currentRecon, lastImports>>

Refuses ==
    /\ pc \in {"new_session", "select"} /\ pc' = "idle"
    /\ result' = Verdict(call) /\ Verdict(call) # "Success"
    /\ initialized' = TRUE
    /\ UNCHANGED <<currentRecon, lastImports>>

Accepts ==
    /\ pc \in {"new_session", "select"} /\ pc' = FirstStatement(call)
    /\ Verdict(call) = "Success"
    /\ initialized' = TRUE
    /\ UNCHANGED <<call, currentRecon, lastImports>>

Reads ==
    /\ pc' \in {"select", "init_row"}
    /\ ~initialized
    /\ UNCHANGED <<call, initialized>>
    /\ pc' = "select" => UNCHANGED <<currentRecon, lastImports>>

GoesOn ==
    /\ \/ pc \in GenesisPlaces /\ pc' \in GenesisPlaces
       \/ pc \in ReconPlaces /\ pc' \in ReconPlaces
    /\ UNCHANGED <<call, initialized, currentRecon, lastImports>>

Imports ==
    /\ pc' = "idle" /\ result' = "Success" /\ initialized /\ initialized'
    /\ \/ pc = "commit_genesis" /\ currentRecon = 0
       \/ pc = "commit_recon"
    /\ currentRecon' = currentRecon + 1
    /\ lastImports' = [s \in {0} |-> [block |-> 0, hash |-> call.data.hash]]

EndsNode ==
    /\ pc = "commit_node" /\ pc' = "idle" /\ result' = "Success"
    /\ initialized
    /\ UNCHANGED <<initialized, currentRecon, lastImports>>

\* Each step of a call is one of those; without a fault no statement fails,
\* since the tables never hold a row with the key.
LEMMA WorkStep ==
    ASSUME IInv, Work
    PROVE  Fails \/ Refuses \/ Accepts \/ Reads \/ GoesOn \/ Imports \/ EndsNode
<1>1. CASE NewSession
  <2>1. CASE "session" \in Faults /\ Return("NoDatabase")
    BY <1>1, <2>1 DEF NewSession, Return, Fails
  <2>2. CASE initialized /\ Proceed(db)
    <3>1. initialized = TRUE
      BY <2>2 DEF IInv, TypeOK
    <3> QED BY <1>1, <2>2, <3>1 DEF NewSession, Proceed, Return, Refuses, Accepts
  <2>3. CASE ~initialized /\ pc' = "select" /\ UNCHANGED <<rows, call, result>>
    BY <1>1, <2>3 DEF NewSession, Reads
  <2> QED BY <1>1, <2>1, <2>2, <2>3 DEF NewSession
<1>2. CASE InitSelect
  <2>0. ~initialized
    BY <1>2 DEF InitSelect, IInv, CacheShape
  <2>1. CASE "query" \in Faults /\ Return("DatabaseError") /\ UNCHANGED cache
    BY <2>1 DEF Return, cache, Fails
  <2>2. CASE initialized' = TRUE /\ Proceed(session) /\ UNCHANGED <<currentRecon, lastImports>>
    BY <1>2, <2>2 DEF InitSelect, Proceed, Return, Refuses, Accepts
  <2>3. CASE pc' = "init_row" /\ UNCHANGED <<session, call, result, initialized>>
    BY <2>0, <2>3 DEF Reads
  <2> QED BY <1>2, <2>1, <2>2, <2>3 DEF InitSelect
<1>3. CASE InitRow
  BY <1>3 DEF InitRow, IInv, CacheShape, Reads
<1>4. CASE \/ InsertValidatorJoin \/ InsertWallet \/ InsertWalletAddress
           \/ InsertImportedGenesis \/ TruncateImported \/ InsertImportedRecon
  <2>0. pc \in GenesisPlaces => db = TablesOf({}, {}, {}, {})
    <3> SUFFICES ASSUME pc \in GenesisPlaces PROVE db = TablesOf({}, {}, {}, {})
      OBVIOUS
    <3>1. currentRecon = 0 /\ initialized /\ db \in Tables
      BY DEF IInv, AcceptedShape, CacheShape, TypeOK, GenesisPlaces
    <3>2. \A r \in db.imported_blocks : r.reconciliation \in Nat /\ r.reconciliation < 0
      BY <3>1 DEF IInv, CacheCoversDatabase, Tables, Row
    <3>3. db.imported_blocks = {}
      BY <3>2, SMT
    <3> QED BY <3>1, <3>3 DEF IInv, TablesShape, ImportIsAtomic, Tables, TablesOf
  <2>1. /\ pc = "validator_joins" => session.validator_joins = {}
        /\ pc = "wallets" => session.wallets = {}
        /\ pc = "wallet_addresses" => session.wallet_addresses = {}
        /\ pc = "imported_genesis" => session.imported_blocks = {}
        /\ pc = "imported_recon" => session.imported_blocks = {}
    <3>1. db \in Tables
      BY DEF IInv, TypeOK
    <3> QED BY <2>0, <3>1, SMT DEF IInv, SessionShape, TablesOf, GenesisPlaces, Tables
  <2>2. CASE pc' = "idle"
    BY <1>4, <2>1, <2>2 DEF InsertValidatorJoin, InsertWallet, InsertWalletAddress,
       InsertImportedGenesis, TruncateImported, InsertImportedRecon, Statement,
       Return, Fails, KeyTaken
  <2>3. CASE pc' # "idle"
    BY <1>4, <2>3 DEF InsertValidatorJoin, InsertWallet, InsertWalletAddress,
       InsertImportedGenesis, TruncateImported, InsertImportedRecon, Statement,
       Return, GoesOn, GenesisPlaces, ReconPlaces
  <2> QED BY <2>2, <2>3
<1>5. CASE CommitGenesis
  <2>1. pc = "commit_genesis" /\ currentRecon = 0 /\ initialized /\ lastImports = NoImports
    BY <1>5 DEF CommitGenesis, IInv, AcceptedShape, CacheShape, GenesisPlaces
  <2>2. lastImports' = [s \in {0} |-> [block |-> 0, hash |-> call.data.hash]]
    BY <1>5, <2>1 DEF CommitGenesis, NoImports
  <2>3. pc' = "idle" /\ result' = "Success" /\ currentRecon' = 1 /\ initialized' = initialized
    BY <1>5 DEF CommitGenesis, Return
  <2> QED BY <2>1, <2>2, <2>3, SMT DEF Imports
<1>6. CASE CommitRecon
  BY <1>6 DEF CommitRecon, Return, Imports, IInv, CacheShape
<1>7. CASE CommitNode
  BY <1>7 DEF CommitNode, Return, EndsNode, IInv, CacheShape
<1> QED
  BY <1>1, <1>2, <1>3, <1>4, <1>5, <1>6, <1>7 DEF Work
-----------------------------------------------------------------------------
(* What BlockIntegrator keeps. *)

\* A step of integrate keeps the chain's blocks: the chain's next block is
\* not refused, one that comes too early is answered with NotReady, and only
\* the file of a reconciliation can take its place.
LEMMA WorkKept ==
    ASSUME IInv, PendingShape, CallShape, KeptInv, IntegrateStep
    PROVE  KeptInv'
<1>0. /\ loader = "integrating" /\ pc # "idle" /\ Work
      /\ UNCHANGED <<directory, files, loader, pending, shardCursor, trying, added>>
      /\ currentRecon \in Nat
  BY DEF IntegrateStep, cvars, Work, NewSession, InitSelect, InitRow,
     InsertValidatorJoin, InsertWallet, InsertWalletAddress,
     InsertImportedGenesis, TruncateImported, InsertImportedRecon, Statement,
     CommitGenesis, CommitRecon, CommitNode, IInv, TypeOK
<1>1. /\ trying \in DOMAIN directory
      /\ trying = <<trying[1], trying[2], trying[3]>>
      /\ call.data = directory[trying] /\ call.recon = trying[1]
      /\ call.shard = trying[2] /\ call.block = trying[3]
  <2>1. trying \in DOMAIN directory
    BY <1>0 DEF CallShape, PendingShape
  <2>2. trying = <<trying[1], trying[2], trying[3]>>
    BY <2>1, Indices
  <2> QED BY <1>0, <2>1, <2>2, SMT DEF CallShape
<1>2. ~initialized /\ pc # "init_row" => currentRecon = 0
  BY DEF IInv, CacheShape
<1>3. \A n \in OnChain(directory) : n \in Nat /\ n \in Recons
  BY IndexAssumption DEF OnChain
<1>4. CASE Fails
  <2>1. ~Removes(result')
    BY <1>4 DEF Fails, Removes, isSuccess, isBadBlock
  <2>2. FiledShape'
    BY <1>4 DEF Fails, FiledShape, GenesisPlaces, ReconPlaces
  <2>3. TipKnown' /\ KeptShape' /\ NeededBlockKept'
    BY <1>0, <1>4 DEF Fails, KeptInv, TipKnown, Secure, KeptShape, NeededBlockKept
  <2>4. AnswerShape'
    BY <2>1 DEF AnswerShape
  <2> QED BY <2>2, <2>3, <2>4 DEF KeptInv
<1>5. CASE Refuses \/ Accepts
  <2>1. /\ pc \in {"new_session", "select"} /\ initialized' = TRUE
        /\ UNCHANGED <<currentRecon, lastImports>>
    BY <1>5 DEF Refuses, Accepts
  <2>2. TipKnown'
    <3> SUFFICES ASSUME NEW n \in Recons, Secure(n), currentRecon = n + 1
                 PROVE  lastImports[0].hash = directory[<<n, 0, 0>>].hash
      BY <1>0, <2>1 DEF TipKnown, Secure
    <3>1. initialized
      BY <1>2, <2>1, IndexAssumption, SMT
    <3> QED BY <3>1 DEF KeptInv, TipKnown
  <2>3. KeptShape' /\ NeededBlockKept'
    BY <1>0, <2>1 DEF KeptInv, KeptShape, NeededBlockKept
  <2>4. CASE Accepts
    <3>1. pc' = FirstStatement(call) /\ Verdict(call) = "Success" /\ call' = call
      BY <2>4 DEF Accepts
    <3>2. FiledShape'
      BY <2>1, <3>1, AcceptedFiled DEF IInv, FiledShape, GenesisPlaces, ReconPlaces
    <3>3. pc' # "idle"
      BY <2>1, <3>1, AcceptedFiled DEF IInv
    <3> QED BY <2>2, <2>3, <3>2, <3>3 DEF KeptInv, AnswerShape
  <2>5. CASE Refuses
    <3>1. pc' = "idle" /\ result' = Verdict(call) /\ Verdict(call) # "Success"
      BY <2>5 DEF Refuses
    <3>2. FiledShape'
      BY <3>1 DEF FiledShape, GenesisPlaces, ReconPlaces
    <3>3. AnswerShape'
      <4> SUFFICES ASSUME Removes(Verdict(call)),
                          NEW n \in OnChain(directory),
                          \A m \in 0..(n - 1) : ~Rivalled(directory, m),
                          trying = <<n, 0, 0>>
                   PROVE  currentRecon > n
        BY <1>0, <2>1, <3>1 DEF AnswerShape
      <4>1. n \in Nat /\ call.recon = n
        BY <1>1, <1>3
      <4>2. CASE currentRecon < n
        <5>1. Verdict(call) = "NotReady"
          BY <1>0, <4>1, <4>2, SMT DEF Verdict
        <5> QED BY <5>1 DEF Removes, isSuccess, isBadBlock
      <4>3. CASE currentRecon = n
        <5>1. n > 0 => lastImports[0].hash = directory[<<n - 1, 0, 0>>].hash
          <6> SUFFICES ASSUME n > 0
                       PROVE  lastImports[0].hash = directory[<<n - 1, 0, 0>>].hash
            OBVIOUS
          <6>1. n - 1 \in OnChain(directory) /\ n - 1 \in Recons
            BY <1>3, ChainFacts
          <6>2. Secure(n - 1)
            BY <6>1 DEF Secure
          <6>3. initialized
            BY <1>2, <2>1, <4>3, SMT
          <6> QED BY <4>1, <4>3, <6>1, <6>2, <6>3, SMT DEF KeptInv, TipKnown
        <5>2. call = [data |-> directory[<<n, 0, 0>>], recon |-> n,
                      shard |-> 0, block |-> 0]
          BY <1>0 DEF CallShape
        <5> QED BY <2>1, <3>1, <4>3, <5>1, <5>2, ChainVerdict DEF IInv
      <4> QED BY <1>0, <4>1, <4>2, <4>3, SMT
    <3> QED BY <2>2, <2>3, <3>2, <3>3 DEF KeptInv
  <2> QED BY <1>5, <2>4, <2>5
<1>6. CASE Reads
  <2>1. pc' \in {"select", "init_row"} /\ ~initialized /\ initialized' = initialized
    BY <1>6 DEF Reads
  <2>2. FiledShape' /\ AnswerShape' /\ TipKnown'
    BY <2>1 DEF FiledShape, AnswerShape, TipKnown, GenesisPlaces, ReconPlaces
  <2>3. KeptShape' /\ added' \subseteq DOMAIN pending'
    BY <1>0, <2>1 DEF KeptInv, KeptShape
  <2>4. NeededBlockKept'
    BY <2>3 DEF NeededBlockKept
  <2> QED BY <2>2, <2>3, <2>4 DEF KeptInv
<1>7. CASE GoesOn
  <2>1. FiledShape' /\ AnswerShape'
    BY <1>0, <1>7 DEF GoesOn, KeptInv, FiledShape, AnswerShape, GenesisPlaces, ReconPlaces
  <2>2. TipKnown' /\ KeptShape' /\ NeededBlockKept'
    BY <1>0, <1>7 DEF GoesOn, KeptInv, TipKnown, Secure, KeptShape, NeededBlockKept
  <2> QED BY <2>1, <2>2 DEF KeptInv
<1>8. CASE Imports
  <2>1. /\ pc' = "idle" /\ initialized /\ initialized'
        /\ currentRecon' = currentRecon + 1
        /\ lastImports'[0].hash = directory[trying].hash
        /\ pc \in {"commit_genesis", "commit_recon"}
    BY <1>1, <1>8 DEF Imports
  <2>2. trying[1] = currentRecon
    BY <1>1, <1>8 DEF Imports, KeptInv, FiledShape, GenesisPlaces, ReconPlaces
  <2>3. FiledShape' /\ KeptShape'
    BY <2>1 DEF FiledShape, KeptShape, GenesisPlaces, ReconPlaces
  <2>4. AnswerShape'
    BY <1>0, <1>3, <2>1, <2>2, SMT DEF AnswerShape
  <2>5. NeededBlockKept'
    BY <1>0, <1>3, <2>1, SMT DEF KeptInv, NeededBlockKept
  <2>6. TipKnown'
    <3> SUFFICES ASSUME NEW n \in Recons, Secure(n), currentRecon = n
                 PROVE  directory[trying].hash = directory[<<n, 0, 0>>].hash
      BY <1>0, <2>1, IndexAssumption, SMT DEF TipKnown, Secure
    <3>1. n \in OnChain(directory) /\ n \in Nat
      BY <1>3 DEF Secure
    <3>2. CASE pc = "commit_genesis"
      BY <1>1, <2>2, <3>2 DEF KeptInv, FiledShape, GenesisPlaces
    <3>3. CASE pc = "commit_recon"
      <4>1. /\ n > 0 /\ directory[trying].type = "Reconciliation"
            /\ directory[trying].chainId = n
            /\ directory[trying].shardInfo =
                  <<[blocks |-> 0, hash |-> lastImports[0].hash]>>
        BY <1>1, <3>1, <3>3, SMT DEF IInv, AcceptedShape, ReconPlaces
      <4>2. n - 1 \in OnChain(directory) /\ n - 1 \in Recons
        BY <1>3, <3>1, <4>1, ChainFacts
      <4>3. Secure(n - 1)
        <5>1. \A m \in 0..(n - 1) : m \in 0..n
          BY <3>1, SMT
        <5> QED BY <4>2, <5>1 DEF Secure
      <4>4. lastImports[0].hash = directory[<<n - 1, 0, 0>>].hash
        BY <2>1, <3>1, <4>2, <4>3, SMT DEF KeptInv, TipKnown
      <4>5. directory[trying].shardInfo = directory[<<n, 0, 0>>].shardInfo
        BY <3>1, <4>1, <4>4, ChainFacts
      <4>6. directory[trying] # Undecodable
        BY <1>0 DEF CallShape, PendingShape
      <4>7. n \in 0..n /\ ~Rivalled(directory, n)
        BY <3>1, SMT DEF Secure
      <4> QED BY <1>1, <2>2, <4>1, <4>5, <4>6, <4>7 DEF Rivalled
    <3> QED BY <2>1, <3>2, <3>3
  <2> QED BY <2>3, <2>4, <2>5, <2>6 DEF KeptInv
<1>9. CASE EndsNode
  <2>1. trying[3] # 0
    BY <1>1, <1>9 DEF EndsNode, KeptInv, FiledShape
  <2>2. FiledShape'
    BY <1>9 DEF EndsNode, FiledShape, GenesisPlaces, ReconPlaces
  <2>3. AnswerShape'
    BY <1>0, <1>9, <2>1, SMT DEF EndsNode, AnswerShape
  <2>4. TipKnown' /\ KeptShape' /\ NeededBlockKept'
    BY <1>0, <1>9 DEF EndsNode, KeptInv, TipKnown, Secure, KeptShape, NeededBlockKept
  <2> QED BY <2>2, <2>3, <2>4 DEF KeptInv
<1> QED
  BY <1>0, <1>4, <1>5, <1>6, <1>7, <1>8, <1>9, WorkStep

\* So does every step of the curator: a block is removed only after an
\* answer that is final.
LEMMA NextKept ==
    ASSUME IInv, PendingShape, CallShape, KeptInv, [CNext]_allvars
    PROVE  KeptInv'
<1> USE DEF KeptInv
<1>1. CASE ListFiles \/ LoadDone
  <2>1. /\ UNCHANGED <<vars, directory, pending, trying, added>>
        /\ loader' # "integrating"
    BY <1>1 DEF ListFiles, LoadDone
  <2> QED
    BY <2>1 DEF vars, FiledShape, TipKnown, Secure, AnswerShape, KeptShape,
                NeededBlockKept
<1>2. CASE LoadFile
  <2>1. /\ UNCHANGED <<vars, directory, trying>> /\ loader' # "integrating"
        /\ DOMAIN pending \subseteq DOMAIN pending'
        /\ added \subseteq added'
        /\ added' \ added \subseteq DOMAIN pending'
    BY <1>2 DEF LoadFile, Emplace
  <2>2. FiledShape' /\ TipKnown' /\ AnswerShape' /\ KeptShape'
    BY <2>1 DEF vars, FiledShape, TipKnown, Secure, AnswerShape, KeptShape
  <2>3. NeededBlockKept'
    BY <2>1 DEF vars, NeededBlockKept
  <2> QED BY <2>2, <2>3
<1>3. CASE TryNext
  <2>1. /\ UNCHANGED <<initialized, currentRecon, lastImports, directory, pending, added>>
        /\ \/ loader' = "loading" /\ UNCHANGED <<trying, call, pc>>
           \/ pc' = "new_session"
        /\ pc = "idle"
    BY <1>3 DEF TryNext, CallShape
  <2>2. FiledShape' /\ AnswerShape'
    BY <2>1 DEF FiledShape, AnswerShape, GenesisPlaces, ReconPlaces
  <2>3. TipKnown' /\ KeptShape' /\ NeededBlockKept'
    BY <2>1 DEF TipKnown, Secure, KeptShape, NeededBlockKept
  <2> QED BY <2>2, <2>3
<1>4. CASE IntegrateStep
  BY <1>4, WorkKept
<1>5. CASE TriedNext
  <2>1. /\ loader = "integrating" /\ pc = "idle" /\ loader' # "integrating"
        /\ UNCHANGED <<vars, directory, trying, added>>
    BY <1>5 DEF TriedNext
  <2>2. FiledShape' /\ TipKnown' /\ AnswerShape'
    BY <2>1 DEF vars, FiledShape, TipKnown, Secure, AnswerShape
  <2>3. CASE Removes(result)
    <3>1. DOMAIN pending' = DOMAIN pending \ {trying}
      BY <1>5, <2>3 DEF TriedNext, removeBlock, Removes
    <3>2. initialized
      BY <2>1, <2>3 DEF AnswerShape
    <3>3. \A n \in OnChain(directory) : n \in Nat
      BY IndexAssumption DEF OnChain
    <3>4. currentRecon \in Nat
      BY DEF IInv, TypeOK
    <3>5. NeededBlockKept'
      <4> SUFFICES ASSUME NEW n \in OnChain(directory),
                          \A m \in 0..(n - 1) : ~Rivalled(directory, m),
                          <<n, 0, 0>> \in added, currentRecon <= n
                   PROVE  <<n, 0, 0>> \in DOMAIN pending'
        BY <2>1 DEF vars, NeededBlockKept
      <4>1. <<n, 0, 0>> \in DOMAIN pending
        BY DEF NeededBlockKept
      <4>2. trying # <<n, 0, 0>>
        BY <2>1, <2>3, <3>3, <3>4, SMT DEF AnswerShape
      <4> QED BY <3>1, <4>1, <4>2
    <3> QED BY <2>1, <2>2, <3>2, <3>5 DEF vars, KeptShape
  <2>4. CASE ~Removes(result)
    <3>1. pending' = pending
      BY <1>5, <2>4 DEF TriedNext, Removes
    <3> QED BY <2>1, <2>2, <3>1 DEF vars, KeptShape, NeededBlockKept
  <2> QED BY <2>3, <2>4
<1>6. CASE Restart
  <2>1. pc' = "idle" /\ ~initialized' /\ added' = {} /\ loader' # "integrating"
    BY <1>6 DEF Restart, Crash
  <2> QED
    BY <2>1 DEF FiledShape, TipKnown, AnswerShape, KeptShape, NeededBlockKept,
                GenesisPlaces, ReconPlaces
<1>7. CASE UNCHANGED allvars
  BY <1>7 DEF allvars, vars, cvars, FiledShape, TipKnown, Secure, AnswerShape,
              KeptShape, NeededBlockKept
<1> QED
  BY <1>1, <1>2, <1>3, <1>4, <1>5, <1>6, <1>7 DEF CNext, CWork

\* The invariant behind the theorem below.
LEMMA Kept == CSpec => []KeptInv
<1>1. CInit => KeptInv
  BY DEF CInit, Init, FreshCache, KeptInv, FiledShape, TipKnown, AnswerShape,
         KeptShape, NeededBlockKept, GenesisPlaces, ReconPlaces
<1>2. IInv /\ PendingShape /\ CallShape /\ KeptInv /\ [CNext]_allvars => KeptInv'
  BY NextKept
<1> QED
  BY <1>1, <1>2, Shapes, IntegratorInv, PTL DEF CSpec

\* A block of the chain that addBlock took is pending until the integrator
\* is beyond it, for every directory, whatever calls fail and in whatever
\* order the files come.
THEOREM NeededKept == CSpec => []NeededBlockKept
<1>1. KeptInv => NeededBlockKept
  BY DEF KeptInv
<1> QED
  BY <1>1, Kept, PTL
-----------------------------------------------------------------------------
(* What is imported in the end. *)

\* In a directory with one file for each reconciliation no block has a rival,
\* and two files of a reconciliation are the same.
LEMMA AloneFacts ==
    ASSUME PendingShape, FiledAlone(directory)
    PROVE  /\ \A n : ~Rivalled(directory, n)
           /\ \A k \in DOMAIN directory : k[1] # 0 => k = <<k[1], 0, 0>>
<1>1. \A k \in DOMAIN directory : k[1] # 0 => k = <<k[1], 0, 0>>
  <2> SUFFICES ASSUME NEW k \in DOMAIN directory, k[1] # 0
               PROVE  k = <<k[1], 0, 0>>
    OBVIOUS
  <2>1. k = <<k[1], k[2], k[3]>>
    BY Indices
  <2>2. k[2] = 0 /\ k[3] = 0
    BY DEF FiledAlone
  <2> QED BY <2>1, <2>2
<1>2. \A n : ~Rivalled(directory, n)
  <2> SUFFICES ASSUME NEW n, NEW k \in DOMAIN directory \ {<<n, 0, 0>>},
                      n > 0, k[1] = n
               PROVE  FALSE
    BY DEF Rivalled
  <2>1. n \in Nat /\ n # 0
    BY Indices, SMT
  <2> QED BY <1>1, <2>1
<1> QED BY <1>1, <1>2

\* The file that the integrator imports extends the chain of the directory.
LEMMA ImportsChain ==
    ASSUME IInv, PendingShape, CallShape, KeptInv, FiledAlone(directory),
           OnlyChain, pc \in {"commit_genesis", "commit_recon"}
    PROVE  currentRecon \in OnChain(directory) /\ trying = <<currentRecon, 0, 0>>
<1>1. /\ trying \in DOMAIN directory
      /\ trying = <<trying[1], trying[2], trying[3]>>
      /\ call.data = directory[trying] /\ call.recon = trying[1]
      /\ call.shard = trying[2] /\ call.block = trying[3]
      /\ directory[trying] # Undecodable
      /\ trying[1] \in Recons
  <2>1. loader = "integrating" /\ trying \in DOMAIN pending
    BY DEF CallShape
  <2>2. trying \in DOMAIN directory /\ directory[trying] # Undecodable
    BY <2>1 DEF PendingShape
  <2>3. trying = <<trying[1], trying[2], trying[3]>> /\ trying[1] \in Recons
    BY <2>2, Indices
  <2> QED BY <2>2, <2>3, SMT DEF CallShape
<1>2. trying[1] = currentRecon /\ currentRecon \in Nat
  BY <1>1 DEF KeptInv, FiledShape, AcceptedShape, IInv, TypeOK, GenesisPlaces, ReconPlaces
<1>3. CASE pc = "commit_genesis"
  <2>1. currentRecon = 0 /\ directory[trying].type = "Genesis" /\ trying = <<0, 0, 0>>
    BY <1>1, <1>3 DEF IInv, AcceptedShape, KeptInv, FiledShape, GenesisPlaces
  <2>2. Links(directory, 0)
    BY <1>1, <2>1, SMT DEF Links
  <2>3. 0..0 = {0}
    BY SMT
  <2> QED BY <1>1, <1>2, <2>1, <2>2, <2>3 DEF OnChain
<1>4. CASE pc = "commit_recon"
  <2> DEFINE n == currentRecon
  <2>1. /\ n # 0 /\ directory[trying].type = "Reconciliation"
        /\ directory[trying].chainId = n
        /\ directory[trying].shardInfo =
              <<[blocks |-> 0, hash |-> lastImports[0].hash]>>
        /\ initialized
    BY <1>1, <1>4 DEF IInv, AcceptedShape, CacheShape, ReconPlaces
  <2>2. trying = <<n, 0, 0>>
    BY <1>1, <1>2, <2>1, AloneFacts
  <2>3. n - 1 \in OnChain(directory)
    BY <1>2, <2>1, SMT DEF OnlyChain
  <2>4. n - 1 \in Recons /\ n - 1 \in Nat
    BY <1>2, <2>1, <2>3, SMT DEF OnChain
  <2>5. Secure(n - 1)
    BY <2>3, AloneFacts DEF Secure
  <2>6. lastImports[0].hash = directory[<<n - 1, 0, 0>>].hash
    BY <1>2, <2>1, <2>4, <2>5, SMT DEF KeptInv, TipKnown
  <2>7. <<n - 1, 0, 0>> \in DOMAIN directory /\ directory[<<n - 1, 0, 0>>] # Undecodable
    BY <2>3, ChainFacts
  <2>8. Links(directory, n)
    BY <1>1, <1>2, <2>1, <2>2, <2>6, <2>7 DEF Links
  <2>9. \A m \in 0..(n - 1) : Links(directory, m)
    BY <2>3 DEF OnChain
  <2>10. \A m \in 0..n : m \in 0..(n - 1) \/ m = n
    BY <1>2, SMT
  <2>11. \A m \in 0..n : Links(directory, m)
    BY <2>8, <2>9, <2>10
  <2> QED BY <1>1, <1>2, <2>2, <2>11 DEF OnChain
<1> QED BY <1>3, <1>4

\* Only the chain of the directory is imported.
LEMMA NextOnlyChain ==
    ASSUME IInv, PendingShape, CallShape, KeptInv, FiledAlone(directory),
           OnlyChain, [CNext]_allvars
    PROVE  OnlyChain'
<1>0. directory' = directory /\ [Next]_vars /\ currentRecon \in Nat
  <2>1. directory' = directory
    BY DEF CNext, CWork, ListFiles, LoadFile, LoadDone, TryNext, IntegrateStep,
           TriedNext, Restart, allvars, cvars
  <2> QED BY <2>1, NextIntegrates DEF IInv, TypeOK
<1>1. \A r \in db'.imported_blocks : r.reconciliation \in OnChain(directory)
  <2>1. CASE db' = db
    BY <2>1 DEF OnlyChain
  <2>2. CASE /\ CommitGenesis
             /\ db' = TablesOf({ImportedRow(0)}, {call.data.hash},
                               {call.data.hash}, {call.data.hash})
    <3>1. pc = "commit_genesis" /\ currentRecon = 0
      BY <2>2 DEF CommitGenesis, IInv, AcceptedShape, GenesisPlaces
    <3>2. 0 \in OnChain(directory)
      BY <3>1, ImportsChain
    <3> QED BY <2>2, <3>2, SMT DEF TablesOf, ImportedRow
  <2>3. CASE CommitRecon /\ db'.imported_blocks = {ImportedRow(currentRecon)}
    <3>1. pc = "commit_recon"
      BY <2>3 DEF CommitRecon
    <3>2. currentRecon \in OnChain(directory)
      BY <3>1, ImportsChain
    <3> QED BY <2>3, <3>2, SMT DEF ImportedRow
  <2> QED BY <1>0, <2>1, <2>2, <2>3, DbStep
<1>2. initialized' /\ currentRecon' > 0 => currentRecon' - 1 \in OnChain(directory)
  <2> SUFFICES ASSUME initialized', currentRecon' > 0
               PROVE  currentRecon' - 1 \in OnChain(directory)
    OBVIOUS
  <2>1. CASE UNCHANGED <<initialized, currentRecon>>
    BY <2>1 DEF OnlyChain
  <2>2. CASE IntegrateStep
    <3>0. Work
      BY <2>2 DEF IntegrateStep
    <3>1. CASE Imports
      <4>1. pc \in {"commit_genesis", "commit_recon"} /\ currentRecon' = currentRecon + 1
        BY <3>1 DEF Imports
      <4>2. currentRecon \in OnChain(directory)
        BY <4>1, ImportsChain
      <4> QED BY <1>0, <4>1, <4>2, SMT
    <3>2. CASE Refuses \/ Accepts
      <4>1. currentRecon' = currentRecon /\ pc # "init_row"
        BY <3>2 DEF Refuses, Accepts
      <4>2. initialized
        BY <1>0, <4>1, SMT DEF IInv, CacheShape
      <4> QED BY <4>1, <4>2 DEF OnlyChain
    <3>3. CASE Fails \/ GoesOn \/ EndsNode
      BY <3>3 DEF Fails, GoesOn, EndsNode, OnlyChain
    <3>4. CASE Reads
      BY <3>4 DEF Reads
    <3> QED BY <3>0, <3>1, <3>2, <3>3, <3>4, WorkStep
  <2>3. CASE Restart
    BY <2>3 DEF Restart, Crash
  <2>4. CASE ~IntegrateStep /\ ~Restart
    BY <2>1, <2>4 DEF CNext, CWork, ListFiles, LoadFile, LoadDone, TryNext,
                      TriedNext, allvars, vars
  <2> QED BY <2>2, <2>3, <2>4
<1> QED BY <1>0, <1>1, <1>2 DEF OnlyChain

\* A refused block is removed, or is parked: the chain's next block is not
\* refused.
LEMMA RefusedParked ==
    ASSUME IInv, PendingShape, CallShape, KeptInv, FiledAlone(directory),
           OnlyChain, pc \in {"new_session", "select"}, Verdict(call) # "Success"
    PROVE  Removes(Verdict(call)) \/ Parked(trying)
<1> DEFINE n == trying[1]
<1>1. /\ trying \in DOMAIN directory /\ n \in Nat /\ currentRecon \in Nat
      /\ call = [data |-> directory[trying], recon |-> n,
                 shard |-> trying[2], block |-> trying[3]]
  <2>1. trying \in DOMAIN directory
    BY DEF CallShape, PendingShape
  <2> QED BY <2>1, Indices DEF CallShape, IInv, TypeOK
<1>2. CASE n > currentRecon
  BY <1>2 DEF Parked
<1>3. CASE n < currentRecon
  <2>1. Verdict(call) = "AlreadyDone"
    BY <1>1, <1>3, SMT DEF Verdict
  <2> QED BY <2>1 DEF Removes, isBadBlock
<1>4. CASE n = currentRecon /\ currentRecon = 0
  <2>1. Verdict(call) = GenesisVerdict(call)
    BY <1>1, <1>4, SMT DEF Verdict
  <2> QED BY <2>1 DEF GenesisVerdict, Removes, isBadBlock
<1>5. CASE n = currentRecon /\ currentRecon > 0
  <2> SUFFICES ASSUME currentRecon \in OnChain(directory) PROVE FALSE
    BY <1>5 DEF Parked
  <2>1. trying = <<n, 0, 0>>
    BY <1>1, <1>5, AloneFacts, SMT
  <2>2. call = [data |-> directory[<<n, 0, 0>>], recon |-> n, shard |-> 0, block |-> 0]
    BY <1>1, <2>1, SMT
  <2>3. n - 1 \in OnChain(directory) /\ n - 1 \in Recons
    BY <1>5, ChainFacts DEF OnChain
  <2>4. Secure(n - 1)
    BY <2>3, AloneFacts DEF Secure
  <2>5. initialized
    BY <1>5, SMT DEF IInv, CacheShape
  <2>6. lastImports[0].hash = directory[<<n - 1, 0, 0>>].hash
    BY <1>1, <1>5, <2>3, <2>4, <2>5, SMT DEF KeptInv, TipKnown
  <2> QED BY <1>5, <2>2, <2>6, ChainVerdict DEF IInv
<1> QED BY <1>1, <1>2, <1>3, <1>4, <1>5, SMT

\* A step of integrate, with a database that does not fail.
LEMMA WorkLoads ==
    ASSUME Faults = {}, IInv, PendingShape, CallShape, KeptInv,
           FiledAlone(directory), OnlyChain, Loads, IntegrateStep
    PROVE  Loads'
<1>0. /\ loader = "integrating" /\ loader' = "integrating" /\ Work /\ pc # "idle"
      /\ UNCHANGED <<directory, files, pending, trying, added>>
      /\ currentRecon \in Nat
  BY DEF IntegrateStep, cvars, Work, NewSession, InitSelect, InitRow,
     InsertValidatorJoin, InsertWallet, InsertWalletAddress,
     InsertImportedGenesis, TruncateImported, InsertImportedRecon, Statement,
     CommitGenesis, CommitRecon, CommitNode, IInv, TypeOK
<1>1. \A k \in DOMAIN directory' :
          k \in files' \/ k \in added' \/ directory'[k] = Undecodable
  BY <1>0 DEF Loads
<1>2. pc # "init_row" => \A k \in DOMAIN pending : k = trying \/ Parked(k)
  BY <1>0 DEF Loads
<1>3. CASE Refuses
  <2>1. /\ pc' = "idle" /\ result' = Verdict(call) /\ Verdict(call) # "Success"
        /\ pc \in {"new_session", "select"} /\ currentRecon' = currentRecon
    BY <1>3 DEF Refuses
  <2>2. Removes(Verdict(call)) \/ Parked(trying)
    BY <2>1, RefusedParked
  <2>3. \A k : Parked(k)' <=> Parked(k)
    BY <1>0, <2>1 DEF Parked
  <2> QED BY <1>0, <1>1, <1>2, <2>1, <2>2, <2>3 DEF Loads, Parked, Removes
<1>4. CASE Accepts \/ GoesOn
  <2>1. pc' # "idle" /\ currentRecon' = currentRecon /\ pc # "init_row"
    <3>1. CASE Accepts
      <4>1. pc' = FirstStatement(call) /\ pc \in {"new_session", "select"}
            /\ Verdict(call) = "Success" /\ currentRecon' = currentRecon
        BY <3>1 DEF Accepts
      <4>2. TypeOK /\ CacheShape
        BY DEF IInv
      <4> QED BY <4>1, <4>2, AcceptedFiled
    <3>2. CASE GoesOn
      BY <3>2 DEF GoesOn, GenesisPlaces, ReconPlaces
    <3> QED BY <1>4, <3>1, <3>2
  <2> QED BY <1>0, <1>1, <1>2, <2>1 DEF Loads, Parked
<1>5. CASE Reads
  <2>1. CASE pc' = "init_row"
    BY <1>0, <1>1, <2>1 DEF Loads
  <2>2. CASE pc' = "select"
    <3>1. currentRecon' = currentRecon
      BY <1>5, <2>2 DEF Reads
    <3>2. pc # "init_row"
      BY <1>0, <2>2 DEF Work, NewSession, InitSelect, InitRow,
         InsertValidatorJoin, InsertWallet, InsertWalletAddress,
         InsertImportedGenesis, TruncateImported, InsertImportedRecon, Statement,
         CommitGenesis, CommitRecon, CommitNode
    <3> QED BY <1>0, <1>1, <1>2, <2>2, <3>1, <3>2 DEF Loads, Parked
  <2> QED BY <1>5, <2>1, <2>2 DEF Reads
<1>6. CASE Imports
  <2>1. /\ pc' = "idle" /\ result' = "Success" /\ currentRecon' = currentRecon + 1
        /\ pc \in {"commit_genesis", "commit_recon"}
    BY <1>6 DEF Imports
  <2>2. currentRecon \in OnChain(directory)
    BY <2>1, ImportsChain
  <2>3. \A k \in DOMAIN pending : k = trying \/ k[1] >= currentRecon + 1
    <3> SUFFICES ASSUME NEW k \in DOMAIN pending, k # trying
                 PROVE  k[1] >= currentRecon + 1
      OBVIOUS
    <3>1. Parked(k)
      BY <1>2, <2>1
    <3>2. k[1] \in Nat
      BY Indices DEF PendingShape
    <3> QED BY <1>0, <2>2, <3>1, <3>2, SMT DEF Parked
  <2> QED BY <1>0, <1>1, <2>1, <2>3, SMT DEF Loads
<1>7. CASE EndsNode
  <2>1. call.recon = currentRecon /\ currentRecon # 0 /\ call.block # 0
    BY <1>7 DEF EndsNode, KeptInv, FiledShape
  <2>2. trying[1] = currentRecon /\ trying[3] # 0 /\ trying \in DOMAIN directory
    BY <1>0, <2>1, SMT DEF CallShape, PendingShape
  <2> QED BY <2>1, <2>2 DEF FiledAlone
<1>8. ~Fails
  BY DEF Fails
<1> QED
  BY <1>0, <1>3, <1>4, <1>5, <1>6, <1>7, <1>8, WorkStep

\* A step of tryNext before the call: the first block it finds is the one
\* that is not parked, if there is one.
LEMMA TryLoads ==
    ASSUME IInv, PendingShape, CallShape, FiledAlone(directory), Loads, TryNext
    PROVE  Loads'
<1>0. /\ loader = "trying" /\ currentRecon \in Nat
      /\ UNCHANGED <<directory, files, pending, added, currentRecon>>
      /\ \A j, k \in DOMAIN pending : ~Parked(j) /\ ~Parked(k) => j = k
  BY DEF TryNext, Loads, IInv, TypeOK
<1>1. \A k \in DOMAIN directory' :
          k \in files' \/ k \in added' \/ directory'[k] = Undecodable
  BY <1>0 DEF Loads
<1>2. \A k : Parked(k)' <=> Parked(k)
  BY <1>0 DEF Parked
<1>3. \A k \in DOMAIN pending : k[1] \in Nat /\ k[2] \in Nat /\ k \in DOMAIN directory
  BY Indices DEF PendingShape
<1>4. CASE Candidates = {} /\ loader' = "loading"
  <2>1. \A k \in DOMAIN pending : Parked(k)
    <3> SUFFICES ASSUME NEW u \in DOMAIN pending, ~Parked(u) PROVE FALSE
      OBVIOUS
    <3>1. u[2] >= shardCursor
      BY <1>3, SMT DEF PendingShape
    <3>2. PICK j \in DOMAIN pending : ~(u[1] <= j[1])
      BY <1>4, <3>1 DEF Candidates
    <3>3. u[1] <= currentRecon
      BY <1>0, <1>3, SMT DEF Parked
    <3>4. ~Parked(j)
      BY <1>0, <1>3, <3>2, <3>3, SMT DEF Parked
    <3>5. j = u
      BY <1>0, <3>4
    <3> QED BY <1>3, <3>2, <3>5, SMT
  <2> QED BY <1>0, <1>1, <1>2, <1>4, <2>1 DEF Loads
<1>5. CASE \E k \in Candidates :
              trying' = k /\ pc' = "new_session" /\ loader' = "integrating"
  <2>1. PICK k \in Candidates :
              trying' = k /\ pc' = "new_session" /\ loader' = "integrating"
    BY <1>5
  <2>2. k \in DOMAIN pending /\ \A j \in DOMAIN pending : k[1] <= j[1]
    BY DEF Candidates
  <2>3. \A j \in DOMAIN pending : j = k \/ Parked(j)
    <3> SUFFICES ASSUME NEW j \in DOMAIN pending, ~Parked(j), j # k PROVE FALSE
      OBVIOUS
    <3>1. Parked(k)
      BY <1>0, <2>2
    <3>2. j[1] <= currentRecon /\ k[1] <= j[1]
      BY <1>0, <1>3, <2>2, SMT DEF Parked
    <3>3. k[1] = currentRecon /\ currentRecon > 0
      BY <1>0, <1>3, <2>2, <3>1, <3>2, SMT DEF Parked
    <3>4. j[1] = currentRecon
      BY <1>0, <1>3, <3>2, <3>3, SMT
    <3>5. j = <<currentRecon, 0, 0>> /\ k = <<currentRecon, 0, 0>>
      BY <1>3, <2>2, <3>3, <3>4, AloneFacts, SMT
    <3> QED BY <3>5
  <2> QED BY <1>0, <1>1, <1>2, <2>1, <2>3 DEF Loads
<1> QED
  BY <1>4, <1>5 DEF TryNext

\* Every step of the curator, with a database and a file system that do not
\* fail.
LEMMA NextLoads ==
    ASSUME Faults = {}, FileFaults = {}, IInv, PendingShape, CallShape, KeptInv,
           LoadInv, [CNext]_allvars
    PROVE  LoadInv'
<1>0. directory' = directory
  BY DEF CNext, CWork, ListFiles, LoadFile, LoadDone, TryNext, IntegrateStep,
         TriedNext, Restart, allvars, cvars
<1> SUFFICES ASSUME FiledAlone(directory) PROVE OnlyChain' /\ Loads'
  BY <1>0 DEF LoadInv
<1>1. OnlyChain /\ Loads
  BY DEF LoadInv
<1>2. OnlyChain'
  BY <1>1, NextOnlyChain
<1> SUFFICES Loads'
  BY <1>2
<1>3. CASE ListFiles
  <2>1. /\ loader = "listing" /\ loader' = "loading" /\ files' = DOMAIN directory
        /\ UNCHANGED <<currentRecon, pending>>
    BY <1>3 DEF ListFiles, vars
  <2> QED BY <1>0, <1>1, <2>1 DEF Loads, Parked
<1>4. CASE LoadFile
  <2>1. PICK k \in files :
          /\ files' = files \ {k}
          /\ \/ /\ "read" \in FileFaults \/ directory[k] = Undecodable
                /\ UNCHANGED <<loader, pending, shardCursor, added>>
             \/ /\ directory[k] # Undecodable
                /\ pending' = Emplace(k, directory[k])
                /\ shardCursor' = IF shardCursor > k[2] THEN k[2] ELSE shardCursor
                /\ added' = added \cup {k}
                /\ loader' = "trying"
    BY <1>4 DEF LoadFile
  <2>2. loader = "loading" /\ currentRecon' = currentRecon
    BY <1>4 DEF LoadFile, vars
  <2>3. \A j : Parked(j)' <=> Parked(j)
    BY <1>0, <2>2 DEF Parked
  <2>4. \A j \in DOMAIN pending : Parked(j)
    BY <1>1, <2>2 DEF Loads
  <2>5. \A j \in DOMAIN directory :
            j \in files \/ j \in added \/ directory[j] = Undecodable
    BY <1>1, <2>2 DEF Loads
  <2>6. CASE UNCHANGED <<loader, pending, added>> /\ directory[k] = Undecodable
    BY <1>0, <2>1, <2>2, <2>3, <2>4, <2>5, <2>6 DEF Loads
  <2>7. CASE /\ pending' = Emplace(k, directory[k])
             /\ added' = added \cup {k} /\ loader' = "trying"
    <3>1. \A j \in DOMAIN pending' : j = k \/ Parked(j)'
      BY <2>3, <2>4, <2>7 DEF Emplace
    <3> QED BY <1>0, <2>1, <2>5, <2>7, <3>1 DEF Loads
  <2> QED BY <2>1, <2>6, <2>7
<1>5. CASE LoadDone
  <2>1. /\ loader = "loading" /\ loader' = "done" /\ files = {} /\ files' = files
        /\ UNCHANGED <<currentRecon, pending, added>>
    BY <1>5 DEF LoadDone, vars
  <2> QED BY <1>0, <1>1, <2>1 DEF Loads, Parked
<1>6. CASE TryNext
  BY <1>1, <1>6, TryLoads
<1>7. CASE IntegrateStep
  BY <1>1, <1>7, WorkLoads
<1>8. CASE TriedNext
  <2>1. /\ loader = "integrating" /\ pc = "idle" /\ currentRecon \in Nat
        /\ UNCHANGED <<files, added, currentRecon>>
        /\ \A k \in DOMAIN directory :
              k \in files \/ k \in added \/ directory[k] = Undecodable
    BY <1>1, <1>8 DEF TriedNext, vars, Loads, IInv, TypeOK
  <2>2. \A k : Parked(k)' <=> Parked(k)
    BY <1>0, <2>1 DEF Parked
  <2>3. Removes(result) => DOMAIN pending' = DOMAIN pending \ {trying}
    BY <1>8 DEF TriedNext, Removes, removeBlock
  <2>4. ~Removes(result) => pending' = pending
    BY <1>8 DEF TriedNext, Removes
  <2>5. CASE result = "Success"
    <3>1. loader' = "trying" /\ Removes(result)
      BY <1>8, <2>5 DEF TriedNext, isSuccess, Removes
    <3>2. currentRecon > 0 /\ \A k \in DOMAIN pending' : k[1] >= currentRecon
      BY <1>1, <2>1, <2>3, <2>5, <3>1 DEF Loads
    <3>3. \A k \in DOMAIN pending' : k \in DOMAIN directory /\ k[1] \in Nat
      BY <2>3, <3>1, Indices DEF PendingShape
    <3>4. \A k \in DOMAIN pending' : ~Parked(k) => k = <<currentRecon, 0, 0>>
      <4> SUFFICES ASSUME NEW k \in DOMAIN pending', ~Parked(k)
                   PROVE  k = <<currentRecon, 0, 0>>
        OBVIOUS
      <4>1. k[1] = currentRecon /\ k[1] # 0
        BY <2>1, <3>2, <3>3, SMT DEF Parked
      <4> QED BY <3>3, <4>1, AloneFacts
    <3> QED BY <1>0, <2>1, <2>2, <3>1, <3>4 DEF Loads
  <2>6. CASE result # "Success"
    <3>1. loader' = "loading"
      BY <1>8, <2>6 DEF TriedNext, isSuccess
    <3>2. \A k \in DOMAIN pending' : Parked(k)
      BY <1>1, <2>1, <2>3, <2>4, <2>6 DEF Loads
    <3> QED BY <1>0, <2>1, <2>2, <3>1, <3>2 DEF Loads
  <2> QED BY <2>5, <2>6
<1>9. CASE Restart
  BY <1>9 DEF Restart, NoPending, Loads
<1>10. CASE UNCHANGED allvars
  BY <1>1, <1>10 DEF allvars, vars, cvars, Loads, Parked
<1> QED
  BY <1>3, <1>4, <1>5, <1>6, <1>7, <1>8, <1>9, <1>10 DEF CNext, CWork

\* The invariant behind the theorem below.
LEMMA LoadsInv ==
    ASSUME Faults = {}, FileFaults = {}
    PROVE  CSpec => []LoadInv
<1>1. CInit => LoadInv
  BY SMT DEF CInit, Init, EmptyTables, FreshCache, NoPending, LoadInv, OnlyChain, Loads
<1>2. IInv /\ PendingShape /\ CallShape /\ KeptInv /\ LoadInv /\ [CNext]_allvars
        => LoadInv'
  BY NextLoads
<1> QED
  BY <1>1, <1>2, Shapes, IntegratorInv, Kept, PTL DEF CSpec

\* With a database and files that answer, and whatever the order of the
\* files and the restarts, a loader that is done has imported the chain of
\* the directory and nothing else.
THEOREM LoadedWhole ==
    ASSUME Faults = {}, FileFaults = {}
    PROVE  CSpec => []LoadedInAnyOrder
<1>1. IInv /\ ExactInv /\ PendingShape /\ CallShape /\ KeptInv /\ LoadInv
        => LoadedInAnyOrder
  <2> SUFFICES ASSUME IInv, ExactInv, PendingShape, CallShape, KeptInv, LoadInv,
                      loader = "done", FiledAlone(directory), NEW n \in Recons
               PROVE  n \in OnChain(directory) <=> Position >= n
    BY DEF LoadedInAnyOrder
  <2>0. /\ OnlyChain /\ Loads /\ n \in Nat /\ currentRecon \in Nat
        /\ pc = "idle" /\ db \in Tables
    BY IndexAssumption DEF LoadInv, IInv, TypeOK, CallShape
  <2>1. ASSUME Position >= n PROVE n \in OnChain(directory)
    <3> DEFINE r == CHOOSE r \in db.imported_blocks : TRUE
    <3>1. db.imported_blocks # {}
      BY <2>0, <2>1, SMT DEF Position
    <3>2. r \in db.imported_blocks /\ Position = r.reconciliation
      BY <3>1 DEF Position
    <3> HIDE DEF r
    <3>3. r.reconciliation \in OnChain(directory)
      BY <2>0, <3>2 DEF OnlyChain
    <3>4. r.reconciliation \in Nat
      BY <3>3, ChainFacts
    <3>5. n \in 0..r.reconciliation
      BY <2>0, <2>1, <3>2, <3>4, SMT
    <3> QED BY <3>3, <3>5, ChainFacts
  <2>2. ASSUME n \in OnChain(directory) PROVE Position >= n
    <3>1. currentRecon > n
      <4> SUFFICES ASSUME currentRecon <= n PROVE FALSE
        BY <2>0, SMT
      <4> DEFINE m == currentRecon
      <4>1. m \in OnChain(directory)
        <5>1. m \in 0..n
          BY <2>0, SMT
        <5> QED BY <2>2, <5>1, ChainFacts
      <4>2. <<m, 0, 0>> \in DOMAIN directory /\ directory[<<m, 0, 0>>] # Undecodable
        BY <4>1, ChainFacts
      <4>3. <<m, 0, 0>> \in added
        BY <2>0, <4>2 DEF Loads
      <4>4. <<m, 0, 0>> \in DOMAIN pending
        BY <2>0, <4>1, <4>3, AloneFacts, SMT DEF KeptInv, NeededBlockKept
      <4>5. Parked(<<m, 0, 0>>)
        BY <2>0, <4>4 DEF Loads
      <4> QED BY <2>0, <4>1, <4>5, SMT DEF Parked
    <3>2. initialized /\ currentRecon # 0
      BY <2>0, <3>1, SMT DEF IInv, CacheShape
    <3>3. db.imported_blocks =
              {[reconciliation |-> currentRecon - 1, shard |-> 0, block |-> 0,
                hash |-> lastImports[0].hash]}
      BY <3>2 DEF ExactInv
    <3>4. Position = currentRecon - 1
      <4> DEFINE row == [reconciliation |-> currentRecon - 1, shard |-> 0,
                         block |-> 0, hash |-> lastImports[0].hash]
      <4>1. db.imported_blocks = {row} /\ row.reconciliation = currentRecon - 1
        BY <3>3
      <4> HIDE DEF row
      <4> QED BY <4>1, PositionOfRow
    <3> QED BY <2>0, <3>1, <3>4, SMT
  <2> QED BY <2>1, <2>2
<1>2. CSpec => [](IInv /\ ExactInv)
  <2>1. "commit" \notin Faults
    OBVIOUS
  <2> QED BY <2>1, DrivesIntegrator, Exact, PTL
<1> QED
  BY <1>1, <1>2, Shapes, Kept, LoadsInv, PTL
=============================================================================
