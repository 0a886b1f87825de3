---------------------------- MODULE DbIntegrator ----------------------------
(***************************************************************************)
(* curator::DbIntegrator: takes blocks one at a time and writes them to    *)
(* the database (src/services/curator/core/DbIntegrator.cpp), over one     *)
(* database session per call (src/db).  Every co_await is a step of its    *)
(* own, so a fault or a crash can fall between any two statements.         *)
(*                                                                         *)
(* The three tables of the creator's account (validator_joins, wallets,    *)
(* wallet_addresses) keep one row each; a row is named by the hash of the  *)
(* genesis that produced it.  A block is a record with its type, the hash  *)
(* of its content, and for a reconciliation its chain ID and shard infos.  *)
(* Reconciliation numbers are unbounded; the code's wrap at 2^32.          *)
(***************************************************************************)
EXTENDS Integers, Sequences, FiniteSets

CONSTANTS
    Blocks,         \* decoded blocks that may be offered
    NullHash,       \* block::Hash() of nothing
    Recons,         \* reconciliation numbers a block may be filed under
    Shards,         \* shard numbers
    Numbers,        \* block numbers inside a shard
    Faults,         \* which database calls may fail: session, query, commit
    MaxCrashes,     \* bound on the number of process crashes
    NoSession,      \* no session is open
    NoCall          \* integrate is not running

BlockTypes == {"None", "Genesis", "Reconciliation", "Node"}
Hashes == {b.hash : b \in Blocks} \cup {NullHash}

ASSUME BlocksAssumption ==
    \A b \in Blocks :
        /\ b.type \in BlockTypes
        /\ b.type = "Reconciliation" =>
              /\ b.chainId \in Nat
              /\ b.shardInfo \in Seq([blocks : Nat, hash : Hashes])

ASSUME IndexAssumption ==
    Recons \subseteq Nat /\ Shards \subseteq Nat /\ Numbers \subseteq Nat

ASSUME FaultsAssumption ==
    Faults \subseteq {"session", "query", "commit"} /\ MaxCrashes \in Nat

VARIABLES
    db,             \* the committed tables
    session,        \* the tables as the open transaction sees them
    rows,           \* the result of the SELECT in init, not yet consumed
    initialized,    \* DbIntegrator::initialized
    currentRecon,   \* DbIntegrator::currentRecon
    lastImports,    \* DbIntegrator::lastImports, shard -> [block, hash]
    call,           \* the arguments of the integrate call in progress
    pc,             \* where that call waits, "idle" when there is none
    result,         \* what the last integrate call returned
    crashes         \* how many times the process died

cache == <<initialized, currentRecon, lastImports>>
vars == <<db, session, rows, initialized, currentRecon, lastImports,
          call, pc, result, crashes>>
-----------------------------------------------------------------------------
(* State. *)

Results == {"None", "Success", "NoDatabase", "DatabaseError", "InvalidState",
            "InvalidIndex", "Duplicate", "BadBlock", "NoMatch", "NotReady",
            "AlreadyDone"}

Row == [reconciliation : Nat, shard : Nat, block : Nat, hash : Hashes]

Tables == [imported_blocks : SUBSET Row, validator_joins : SUBSET Hashes,
           wallets : SUBSET Hashes, wallet_addresses : SUBSET Hashes]

EmptyTables == [imported_blocks |-> {}, validator_joins |-> {},
                wallets |-> {}, wallet_addresses |-> {}]

Import == [block : Nat, hash : Hashes]

NoImports == [s \in {} |-> 0]

Calls == [data : Blocks, recon : Recons, shard : Shards, block : Numbers]

Statements == {"validator_joins", "wallets", "wallet_addresses",
               "imported_genesis", "truncate", "imported_recon"}

Commits == {"commit_genesis", "commit_recon", "commit_node"}

Places == {"idle", "new_session", "select", "init_row"}
              \cup Statements \cup Commits

\* What the constructor leaves.
FreshCache ==
    /\ initialized = FALSE
    /\ currentRecon = 0
    /\ lastImports = NoImports

Init ==
    /\ db = EmptyTables
    /\ session = NoSession
    /\ rows = <<>>
    /\ FreshCache
    /\ call = NoCall
    /\ pc = "idle"
    /\ result = "None"
    /\ crashes = 0
-----------------------------------------------------------------------------
(* What integrate decides from the cache, without touching the database. *)

ImportedBlock(s) == IF s \in DOMAIN lastImports THEN lastImports[s].block ELSE 0

GenesisVerdict(c) ==
    CASE c.shard # 0 -> "InvalidIndex"
      [] c.shard = 0 /\ c.block # 0 -> "BadBlock"
      [] c.shard = 0 /\ c.block = 0 /\ c.data.type # "Genesis" -> "BadBlock"
      [] OTHER -> "Success"

\* A defect: block counts are compared and hashes are not.
ShardVerdictCountsOnly(info, s) ==
    CASE ImportedBlock(s) < info.blocks -> "NotReady"
      [] ImportedBlock(s) > info.blocks -> "BadBlock"
      [] OTHER -> "Success"

\* One turn of the loop over the shard infos of a reconciliation.
ShardVerdict(info, s) ==
    CASE ImportedBlock(s) < info.blocks -> "NotReady"
      [] ImportedBlock(s) > info.blocks -> "BadBlock"
      [] /\ ImportedBlock(s) = info.blocks
         /\ info.hash # (IF s \in DOMAIN lastImports
                         THEN lastImports[s].hash ELSE NullHash) -> "BadBlock"
      [] OTHER -> "Success"

\* One turn of the second loop, inside integrateRecon.
ImportVerdict(info, s) ==
    CASE s \notin DOMAIN lastImports -> "NoMatch"
      [] s \in DOMAIN lastImports /\ lastImports[s].block # info.blocks
            -> "NotReady"
      [] /\ s \in DOMAIN lastImports
         /\ lastImports[s].block = info.blocks
         /\ lastImports[s].hash # info.hash -> "BadBlock"
      [] OTHER -> "Success"

\* A loop over the shard infos returns at the first shard that is refused;
\* shard s is entry s + 1 of the sequence.
FirstRefusal(infos, V(_, _)) ==
    LET refused == {i \in 1..Len(infos) : V(infos[i], i - 1) # "Success"}
    IN  IF refused = {} THEN "Success"
        ELSE LET i == CHOOSE i \in refused : \A j \in refused : i <= j
             IN  V(infos[i], i - 1)

\* A defect: the number of shard infos is not compared.
IntegrateReconVerdictNoSize(b) ==
    IF b.chainId # currentRecon THEN "BadBlock"
    ELSE FirstRefusal(b.shardInfo, ImportVerdict)

\* integrateRecon up to its first statement.
IntegrateReconVerdict(b) ==
    CASE b.chainId # currentRecon -> "BadBlock"
      [] /\ b.chainId = currentRecon
         /\ Len(b.shardInfo) # Cardinality(DOMAIN lastImports) -> "BadBlock"
      [] OTHER -> FirstRefusal(b.shardInfo, ImportVerdict)

ReconVerdict(b) ==
    LET first == FirstRefusal(b.shardInfo, ShardVerdict)
    IN  IF first # "Success" THEN first ELSE IntegrateReconVerdict(b)

\* integrateNode up to its commit.
NodeVerdict(c) ==
    CASE ImportedBlock(c.shard) >= c.block -> "AlreadyDone"
      [] ImportedBlock(c.shard) + 1 < c.block -> "NotReady"
      [] OTHER -> "Success"

Verdict(c) ==
    CASE c.recon > currentRecon -> "NotReady"
      [] c.recon < currentRecon -> "AlreadyDone"
      [] c.recon = currentRecon /\ currentRecon = 0 -> GenesisVerdict(c)
      [] c.recon = currentRecon /\ currentRecon # 0 ->
            CASE c.data.type = "Reconciliation" -> ReconVerdict(c.data)
              [] c.data.type = "Node" -> NodeVerdict(c)
              [] OTHER -> "BadBlock"

\* The statement an accepted block starts with.
FirstStatement(c) ==
    CASE c.data.type = "Genesis" -> "validator_joins"
      [] c.data.type = "Reconciliation" -> "truncate"
      [] OTHER -> "commit_node"
-----------------------------------------------------------------------------
(* Steps. *)

\* integrate returns; the session object dies, and with it a transaction
\* that was not committed.
Return(r) ==
    /\ pc' = "idle"
    /\ result' = r
    /\ session' = NoSession
    /\ rows' = <<>>
    /\ call' = NoCall

\* The caller offers a block filed under recon, shard, block.
Integrate ==
    /\ pc = "idle"
    /\ \E c \in Calls : call' = c
    /\ pc' = "new_session"
    /\ UNCHANGED <<db, session, rows, initialized, currentRecon, lastImports,
                   result, crashes>>

\* With the cache known the block is refused on the spot, or its first
\* statement is next; tbl is what the transaction sees.
Proceed(tbl) ==
    IF Verdict(call) = "Success"
    THEN /\ pc' = FirstStatement(call)
         /\ session' = tbl
         /\ rows' = <<>>
         /\ UNCHANGED <<call, result>>
    ELSE Return(Verdict(call))

NewSession ==
    /\ pc = "new_session"
    /\ \/ /\ "session" \in Faults
          /\ Return("NoDatabase")
       \/ /\ initialized
          /\ Proceed(db)
       \/ /\ ~initialized
          /\ pc' = "select"
          /\ session' = db
          /\ UNCHANGED <<rows, call, result>>
    /\ UNCHANGED <<db, initialized, currentRecon, lastImports, crashes>>

\* init selects what was imported; with no row the genesis is next.
InitSelect ==
    /\ pc = "select"
    /\ \/ /\ "query" \in Faults
          /\ Return("DatabaseError")
          /\ UNCHANGED cache
       \/ /\ session.imported_blocks = {}
          /\ initialized' = TRUE
          /\ Proceed(session)
          /\ UNCHANGED <<currentRecon, lastImports>>
       \/ /\ session.imported_blocks # {}
          /\ pc' = "init_row"
          /\ \E r \in [1..Cardinality(session.imported_blocks)
                          -> session.imported_blocks] :
               /\ {r[i] : i \in DOMAIN r} = session.imported_blocks
               /\ rows' = r
          /\ currentRecon' = 0
          /\ lastImports' = NoImports
          /\ UNCHANGED <<session, call, result, initialized>>
    /\ UNCHANGED <<db, crashes>>

\* DataResult::next hands out the current row and does not move on.
DataResultNext(rs) == rs

\* One turn of the loop of init.  The code after the loop is not modelled:
\* with at least one row the loop has no end.
InitRow ==
    /\ pc = "init_row"
    /\ rows' = DataResultNext(rows)
    /\ rows' # <<>>
    /\ LET row == Head(rows')
       IN  /\ currentRecon' = row.reconciliation
           /\ lastImports' =
                [s \in DOMAIN lastImports \cup {row.shard} |->
                    IF s = row.shard THEN [block |-> row.block, hash |-> row.hash]
                    ELSE lastImports[s]]
    /\ UNCHANGED <<db, session, initialized, call, pc, result, crashes>>

\* A defect: details is not looked at, and the next statement runs.
StatementUnchecked(at, conflict, effect, next) ==
    /\ pc = at
    /\ pc' = next
    /\ \/ ("query" \in Faults \/ conflict) /\ session' = session
       \/ ~conflict /\ session' = effect
    /\ UNCHANGED <<db, rows, initialized, currentRecon, lastImports, call,
                   result, crashes>>

\* A statement of the transaction: its effect on the tables and the place it
\* leads to, or DatabaseError, on a fault or when a row with the key exists.
Statement(at, conflict, effect, next) ==
    /\ pc = at
    /\ \/ /\ "query" \in Faults \/ conflict
          /\ Return("DatabaseError")
       \/ /\ ~conflict
          /\ session' = effect
          /\ pc' = next
          /\ UNCHANGED <<rows, call, result>>
    /\ UNCHANGED <<db, initialized, currentRecon, lastImports, crashes>>

InsertValidatorJoin ==
    Statement("validator_joins", session.validator_joins # {},
              [session EXCEPT !.validator_joins = @ \cup {call.data.hash}],
              "wallets")

InsertWallet ==
    Statement("wallets", session.wallets # {},
              [session EXCEPT !.wallets = @ \cup {call.data.hash}],
              "wallet_addresses")

InsertWalletAddress ==
    Statement("wallet_addresses", call.data.hash \in session.wallet_addresses,
              [session EXCEPT !.wallet_addresses = @ \cup {call.data.hash}],
              "imported_genesis")

ImportedRow(r) ==
    [reconciliation |-> r, shard |-> 0, block |-> 0, hash |-> call.data.hash]

KeyTaken(r) ==
    \E row \in session.imported_blocks : row.reconciliation = r /\ row.shard = 0

InsertImportedGenesis ==
    Statement("imported_genesis", KeyTaken(0),
              [session EXCEPT !.imported_blocks = @ \cup {ImportedRow(0)}],
              "commit_genesis")

\* A defect: TRUNCATE outside the transaction.
TruncateAutocommit ==
    /\ pc = "truncate"
    /\ pc' = "imported_recon"
    /\ session' = [session EXCEPT !.imported_blocks = {}]
    /\ db' = session'
    /\ UNCHANGED <<rows, initialized, currentRecon, lastImports, call, result,
                   crashes>>

TruncateImported ==
    Statement("truncate", FALSE, [session EXCEPT !.imported_blocks = {}],
              "imported_recon")

InsertImportedRecon ==
    Statement("imported_recon", KeyTaken(currentRecon),
              [session EXCEPT !.imported_blocks = @ \cup {ImportedRow(currentRecon)}],
              "commit_recon")

\* Session::commit makes the transaction's tables durable, or fails and
\* leaves the old ones; no caller looks at the outcome.
Commit ==
    \/ db' = session
    \/ "commit" \in Faults /\ db' = db

CommitGenesis ==
    /\ pc = "commit_genesis"
    /\ Commit
    /\ currentRecon' = 1
    /\ lastImports' = [s \in DOMAIN lastImports \cup {0} |->
                          IF s \in DOMAIN lastImports THEN lastImports[s]
                          ELSE [block |-> 0, hash |-> call.data.hash]]
    /\ Return("Success")
    /\ UNCHANGED <<initialized, crashes>>

\* A defect: the position is not advanced.
CommitReconStays ==
    /\ pc = "commit_recon"
    /\ Commit
    /\ lastImports' = [s \in {0} |-> [block |-> 0, hash |-> call.data.hash]]
    /\ Return("Success")
    /\ UNCHANGED <<initialized, currentRecon, crashes>>

\* A defect: emplace without clear, which keeps the entry of shard 0.
CommitReconNoClear ==
    /\ pc = "commit_recon"
    /\ Commit
    /\ currentRecon' = currentRecon + 1
    /\ Return("Success")
    /\ UNCHANGED <<initialized, lastImports, crashes>>

CommitRecon ==
    /\ pc = "commit_recon"
    /\ Commit
    /\ currentRecon' = currentRecon + 1
    /\ lastImports' = [s \in {0} |-> [block |-> 0, hash |-> call.data.hash]]
    /\ Return("Success")
    /\ UNCHANGED <<initialized, crashes>>

\* A node block commits a transaction without a statement and records nothing.
CommitNode ==
    /\ pc = "commit_node"
    /\ Commit
    /\ Return("Success")
    /\ UNCHANGED <<initialized, currentRecon, lastImports, crashes>>

\* The process dies, or restarts its service: the database keeps what was
\* committed, and a new integrator is constructed.
Crash ==
    /\ crashes < MaxCrashes
    /\ crashes' = crashes + 1
    /\ pc' = "idle"
    /\ result' = "None"
    /\ session' = NoSession
    /\ rows' = <<>>
    /\ call' = NoCall
    /\ initialized' = FALSE
    /\ currentRecon' = 0
    /\ lastImports' = NoImports
    /\ UNCHANGED db

\* The steps of a call in progress.
Work ==
    \/ NewSession
    \/ InitSelect
    \/ InitRow
    \/ InsertValidatorJoin
    \/ InsertWallet
    \/ InsertWalletAddress
    \/ InsertImportedGenesis
    \/ TruncateImported
    \/ InsertImportedRecon
    \/ CommitGenesis
    \/ CommitRecon
    \/ CommitNode

Next == Integrate \/ Work \/ Crash

Spec == Init /\ [][Next]_vars

\* The scheduler thread keeps running a coroutine that is not waiting for its
\* caller, and the database answers every call, with a result or an error.
FairSpec == Spec /\ WF_vars(Work)
-----------------------------------------------------------------------------
(* Properties. *)

\* Every variable keeps its type.
TypeOK ==
    /\ db \in Tables
    /\ pc \notin {"idle", "new_session"} => session \in Tables
    /\ rows \in Seq(Row)
    /\ initialized \in BOOLEAN
    /\ currentRecon \in Nat
    /\ DOMAIN lastImports \subseteq Nat
    /\ \A s \in DOMAIN lastImports : lastImports[s] \in Import
    /\ pc # "idle" => call \in Calls
    /\ pc \in Places
    /\ result \in Results
    /\ crashes \in 0..MaxCrashes

\* An import reaches the database whole or not at all: whatever statement
\* fails, and wherever the process dies, the creator's account has its three
\* rows from one genesis or none, and imported_blocks one row at most
\* (integrateGenesis, integrateRecon, and the session's transaction).
ImportIsAtomic ==
    /\ db.validator_joins = db.wallets
    /\ db.wallets = db.wallet_addresses
    /\ \A g, h \in db.wallets : g = h
    /\ \A r, q \in db.imported_blocks : r = q

\* The import position in the database only moves forward: no crash, failed
\* commit or repeated block makes the curator record an earlier
\* reconciliation, the same one twice, or nothing (integrate 102-117).
PositionMovesForward ==
    [][/\ db.imported_blocks # {} => db.imported_blocks' # {}
       /\ \A old \in db.imported_blocks, new \in db.imported_blocks' :
            old # new => new.reconciliation > old.reconciliation]_vars

\* A working integrator expects a reconciliation beyond every one the
\* database records, even when commits failed unnoticed: a recorded block is
\* answered with AlreadyDone and cannot be imported a second time.
CacheCoversDatabase ==
    initialized =>
        \A row \in db.imported_blocks : row.reconciliation < currentRecon

\* The second pass over the shard infos, in integrateRecon, refuses nothing
\* that integrate let through: "This should not be able to happen if we got
\* this far" (DbIntegrator.cpp:321), and "this will end up being redundant".
SecondCheckRedundant ==
    \A b \in Blocks :
        /\ b.type = "Reconciliation"
        /\ FirstRefusal(b.shardInfo, ShardVerdict) = "Success"
        /\ Len(b.shardInfo) = Cardinality(DOMAIN lastImports)
        => FirstRefusal(b.shardInfo, ImportVerdict) = "Success"

\* Between calls a working integrator's cache is what the database records:
\* it waits for the genesis of an empty database, or for the successor of the
\* recorded reconciliation and with its hash (integrateGenesis 283-287,
\* integrateRecon 382-390).
CacheMatchesDatabase ==
    initialized /\ pc = "idle" =>
        \/ currentRecon = 0 /\ db.imported_blocks = {}
        \/ /\ DOMAIN lastImports = {0}
           /\ db.imported_blocks =
                {[reconciliation |-> currentRecon - 1, shard |-> 0, block |-> 0,
                  hash |-> lastImports[0].hash]}

\* The position and the tip of the chain in the committed tables.
Position ==
    IF db.imported_blocks = {} THEN -1
    ELSE (CHOOSE r \in db.imported_blocks : TRUE).reconciliation

Tip ==
    IF db.imported_blocks = {} THEN NullHash
    ELSE (CHOOSE r \in db.imported_blocks : TRUE).hash

Chain == INSTANCE ChainImport
            WITH height <- Position, tip <- Tip, opened <- db.wallets

\* The committed tables go through the states of ChainImport and no other,
\* for every order of calls, every refused block, failing session or
\* statement and every crash, as long as commits do not fail.
ImplementsChain == Chain!ASpec

\* doc/schema.sql:17, "We don't start importing the next reconciliation till
\* the whole previous one is imported": a recorded reconciliation has the
\* genesis below it, whose account rows are in the database.
WholePreviousImported == db.imported_blocks # {} => db.wallets # {}

\* DbIntegrator.cpp:42, "Figure out what the last thing we imported was":
\* once init has rows to read, it finishes.
InitFinishes == pc = "init_row" ~> pc # "init_row"
-----------------------------------------------------------------------------
(* The inductive invariant behind the safety properties. *)

GenesisPlaces == {"validator_joins", "wallets", "wallet_addresses",
                  "imported_genesis", "commit_genesis"}

ReconPlaces == {"truncate", "imported_recon", "commit_recon"}

\* The cache is fresh, or holds the one import of shard 0; only init, which
\* never ends, leaves it otherwise.
CacheShape ==
    /\ ~initialized => pc \in {"idle", "new_session", "select", "init_row"}
    /\ pc = "select" => ~initialized
    /\ pc = "init_row" => /\ ~initialized
                          /\ rows # <<>>
                          /\ \A i \in 1..Len(rows) :
                                rows[i].shard = 0 /\ rows[i].block = 0
    /\ pc # "init_row" =>
        /\ ~initialized => currentRecon = 0 /\ lastImports = NoImports
        /\ currentRecon = 0 => lastImports = NoImports
        /\ currentRecon # 0 => DOMAIN lastImports = {0}
    /\ DOMAIN lastImports \subseteq {0}
    /\ \A s \in DOMAIN lastImports : lastImports[s].block = 0

\* What an accepted block looks like while its statements run.
AcceptedShape ==
    /\ pc \in GenesisPlaces => currentRecon = 0 /\ call.data.type = "Genesis"
    /\ pc \in ReconPlaces =>
        /\ currentRecon # 0
        /\ call.data.type = "Reconciliation"
        /\ call.data.chainId = currentRecon
        /\ call.data.shardInfo = <<[blocks |-> 0, hash |-> lastImports[0].hash]>>

TablesOf(i, j, w, a) ==
    [imported_blocks |-> i, validator_joins |-> j, wallets |-> w,
     wallet_addresses |-> a]

\* The tables the transaction sees are the committed ones and the statements
\* that already ran; a genesis finds them empty.
SessionShape ==
    LET h == call.data.hash
    IN  /\ pc \in {"select", "init_row", "validator_joins", "truncate",
                   "commit_node"} => session = db
        /\ pc = "wallets" => session = TablesOf({}, {h}, {}, {})
        /\ pc = "wallet_addresses" => session = TablesOf({}, {h}, {h}, {})
        /\ pc = "imported_genesis" => session = TablesOf({}, {h}, {h}, {h})
        /\ pc = "commit_genesis" =>
              session = TablesOf({ImportedRow(0)}, {h}, {h}, {h})
        /\ pc = "imported_recon" => session = [db EXCEPT !.imported_blocks = {}]
        /\ pc = "commit_recon" =>
              session = [db EXCEPT !.imported_blocks = {ImportedRow(currentRecon)}]

\* Rows are those of a genesis or a reconciliation, and account rows come
\* with a position.
TablesShape ==
    /\ ImportIsAtomic
    /\ \A r \in db.imported_blocks : r.shard = 0 /\ r.block = 0
    /\ db.imported_blocks = {} => db.wallets = {}

IInv ==
    /\ TypeOK
    /\ TablesShape
    /\ CacheShape
    /\ CacheCoversDatabase
    /\ AcceptedShape
    /\ SessionShape

\* With reliable commits the cache is exact at every step of a call, and a
\* position comes with account rows.
ExactInv ==
    /\ initialized /\ currentRecon = 0 => db.imported_blocks = {}
    /\ initialized /\ currentRecon # 0 =>
          db.imported_blocks =
              {[reconciliation |-> currentRecon - 1, shard |-> 0, block |-> 0,
                hash |-> lastImports[0].hash]}
    /\ WholePreviousImported
=============================================================================
