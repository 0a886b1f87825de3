------------------------------ MODULE Curator ------------------------------
(***************************************************************************)
(* The curator service: LoadFromFs hands every block file of the storage   *)
(* directory to BlockIntegrator, which keeps the blocks that are not yet   *)
(* integrated and offers the first of them to DbIntegrator, over and over  *)
(* while that succeeds (src/services/curator).                             *)
(*                                                                         *)
(* pendingRecons is three nested maps; removeBlock erases a map that       *)
(* becomes empty, so a function on the triples <<recon, shard, block>> is  *)
(* the same thing.  One coroutine loads the files, on the one thread of    *)
(* the scheduler, so the integrator has a single caller.                   *)
(***************************************************************************)
EXTENDS DbIntegrator

CONSTANTS
    Directories,    \* the contents the storage directory may have
    Undecodable,    \* a file that is misnamed or whose data does not decode
    FileFaults      \* which file system calls may fail: list, read

ASSUME DirectoriesAssumption ==
    \A dir \in Directories :
        /\ DOMAIN dir \subseteq Recons \X Shards \X Numbers
        /\ \A k \in DOMAIN dir : dir[k] = Undecodable \/ dir[k] \in Blocks

VARIABLES
    directory,      \* the block files on disk, index -> content
    files,          \* LoadFromFs: the files listed and not yet loaded
    loader,         \* where the loading coroutine is
    pending,        \* BlockIntegrator::pendingRecons
    shardCursor,    \* BlockIntegrator::shardCursor
    trying,         \* tryNext: the index of nextBlock
    added           \* the indices addBlock took since the service started

cvars == <<directory, files, loader, pending, shardCursor, trying, added>>
allvars == <<vars, cvars>>

NoPending == [k \in {} |-> 0]

CInit ==
    /\ Init
    /\ directory \in Directories
    /\ files = {}
    /\ loader = "listing"
    /\ pending = NoPending
    /\ shardCursor = 0
    /\ trying = <<0, 0, 0>>
    /\ added = {}
-----------------------------------------------------------------------------
(* LoadFromFs. *)

\* The files come in the order of the directory, which is unspecified.
ListFiles ==
    /\ loader = "listing"
    /\ \/ "list" \in FileFaults /\ loader' = "done" /\ UNCHANGED files
       \/ loader' = "loading" /\ files' = DOMAIN directory
    /\ UNCHANGED <<vars, directory, pending, shardCursor, trying, added>>

\* std::map::emplace leaves an entry that is already there.
Emplace(k, b) ==
    [i \in DOMAIN pending \cup {k} |-> IF i \in DOMAIN pending THEN pending[i] ELSE b]

\* A defect: addBlock goes on with data that did not decode.
LoadFileUndecoded ==
    /\ loader = "loading"
    /\ \E k \in files :
         /\ files' = files \ {k}
         /\ pending' = Emplace(k, directory[k])
         /\ shardCursor' = IF shardCursor > k[2] THEN k[2] ELSE shardCursor
         /\ added' = added \cup {k}
         /\ loader' = "trying"
    /\ UNCHANGED <<vars, directory, trying>>

\* loadFile and addBlock up to tryIntegrate: the file is skipped, or its
\* block joins the pending ones.
LoadFile ==
    /\ loader = "loading"
    /\ \E k \in files :
         /\ files' = files \ {k}
         /\ \/ /\ "read" \in FileFaults \/ directory[k] = Undecodable
               /\ UNCHANGED <<loader, pending, shardCursor, added>>
            \/ /\ directory[k] # Undecodable
               /\ pending' = Emplace(k, directory[k])
               /\ shardCursor' = IF shardCursor > k[2] THEN k[2] ELSE shardCursor
               /\ added' = added \cup {k}
               /\ loader' = "trying"
    /\ UNCHANGED <<vars, directory, trying>>

LoadDone ==
    /\ loader = "loading"
    /\ files = {}
    /\ loader' = "done"
    /\ UNCHANGED <<vars, directory, files, pending, shardCursor, trying, added>>
-----------------------------------------------------------------------------
(* BlockIntegrator. *)

\* The order of the nested maps.
Before(j, k) ==
    \/ j[1] < k[1]
    \/ j[1] = k[1] /\ j[2] < k[2]
    \/ j[1] = k[1] /\ j[2] = k[2] /\ j[3] <= k[3]

\* The blocks tryNext walks over: those of the lowest pending reconciliation,
\* from the shard cursor on.
Candidates ==
    {k \in DOMAIN pending :
        /\ \A j \in DOMAIN pending : k[1] <= j[1]
        /\ k[2] >= shardCursor}

\* tryNext up to the call of integrate: the first candidate is tried, and
\* with none tryIntegrate ends.
TryNext ==
    /\ loader = "trying"
    /\ \/ /\ Candidates = {}
          /\ loader' = "loading"
          /\ UNCHANGED <<trying, call, pc>>
       \/ \E k \in Candidates :
            /\ \A j \in Candidates : Before(k, j)
            /\ trying' = k
            /\ call' = [data |-> pending[k], recon |-> k[1],
                        shard |-> k[2], block |-> k[3]]
            /\ pc' = "new_session"
            /\ loader' = "integrating"
    /\ UNCHANGED <<db, session, rows, initialized, currentRecon, lastImports,
                   result, crashes, directory, files, pending, shardCursor,
                   added>>

isSuccess(r) == r = "Success"

\* A defect: a block that comes too early counts as bad.
isBadBlockTooEarly(r) ==
    r \in {"InvalidIndex", "Duplicate", "BadBlock", "NoMatch", "NotReady", "AlreadyDone"}

isBadBlock(r) ==
    r \in {"InvalidIndex", "Duplicate", "BadBlock", "NoMatch", "AlreadyDone"}

removeBlock(k) == [i \in DOMAIN pending \ {k} |-> pending[i]]

\* A defect: one block for each file that is added.
TriedNextOnce ==
    /\ loader = "integrating"
    /\ pc = "idle"
    /\ pending' = IF isSuccess(result) \/ isBadBlock(result)
                  THEN removeBlock(trying) ELSE pending
    /\ loader' = "loading"
    /\ UNCHANGED <<vars, directory, files, shardCursor, trying, added>>

\* A defect: tryIntegrate goes on whatever the result was.
TriedNextForever ==
    /\ loader = "integrating"
    /\ pc = "idle"
    /\ pending' = IF isSuccess(result) \/ isBadBlock(result)
                  THEN removeBlock(trying) ELSE pending
    /\ loader' = "trying"
    /\ UNCHANGED <<vars, directory, files, shardCursor, trying, added>>

\* The rest of tryNext: a block that is done with is removed, and only a
\* success makes tryIntegrate try the next one.
TriedNext ==
    /\ loader = "integrating"
    /\ pc = "idle"
    /\ pending' = IF isSuccess(result) \/ isBadBlock(result)
                  THEN removeBlock(trying) ELSE pending
    /\ loader' = IF isSuccess(result) THEN "trying" ELSE "loading"
    /\ UNCHANGED <<vars, directory, files, shardCursor, trying, added>>
-----------------------------------------------------------------------------
\* A step of DbIntegrator on behalf of tryNext.
IntegrateStep ==
    /\ loader = "integrating"
    /\ Work
    /\ UNCHANGED cvars

\* The service dies and starts again; the files stay.
Restart ==
    /\ Crash
    /\ files' = {}
    /\ loader' = "listing"
    /\ pending' = NoPending
    /\ shardCursor' = 0
    /\ trying' = <<0, 0, 0>>
    /\ added' = {}
    /\ UNCHANGED directory

CWork ==
    \/ ListFiles
    \/ LoadFile
    \/ LoadDone
    \/ TryNext
    \/ IntegrateStep
    \/ TriedNext

CNext == CWork \/ Restart

CSpec == CInit /\ [][CNext]_allvars

\* The scheduler thread runs the loading coroutine, and the database answers.
CFairSpec == CSpec /\ WF_allvars(CWork)
-----------------------------------------------------------------------------
(* Properties. *)

\* Every variable of the curator keeps its type.
CTypeOK ==
    /\ TypeOK
    /\ directory \in Directories
    /\ files \subseteq DOMAIN directory
    /\ loader \in {"listing", "loading", "trying", "integrating", "done"}
    /\ DOMAIN pending \subseteq DOMAIN directory
    /\ \A k \in DOMAIN pending : pending[k] \in Blocks
    /\ shardCursor \in Nat
    /\ added \subseteq DOMAIN directory

\* The block file of a reconciliation extends the one before it.
Links(dir, n) ==
    LET at(m) == dir[<<m, 0, 0>>]
        there(m) == <<m, 0, 0>> \in DOMAIN dir /\ at(m) # Undecodable
    IN  /\ there(n)
        /\ n = 0 => at(0).type = "Genesis"
        /\ n > 0 => /\ there(n - 1)
                    /\ at(n).type = "Reconciliation"
                    /\ at(n).chainId = n
                    /\ at(n).shardInfo = <<[blocks |-> 0, hash |-> at(n - 1).hash]>>

\* The reconciliations of the chain that starts in the directory's genesis.
OnChain(dir) == {n \in Recons : \A m \in 0..n : Links(dir, m)}

\* Another file of reconciliation n holds a block that extends the same tip:
\* integrate does not look at the shard and the number a reconciliation is
\* filed under, so either may be imported.
Rivalled(dir, n) ==
    \E k \in DOMAIN dir \ {<<n, 0, 0>>} :
        /\ n > 0
        /\ k[1] = n
        /\ dir[k] # Undecodable
        /\ dir[k].type = "Reconciliation"
        /\ dir[k].chainId = n
        /\ dir[k].shardInfo = dir[<<n, 0, 0>>].shardInfo

\* A block of the chain that addBlock took stays pending until it is
\* imported, whatever sessions, statements or commits fail meanwhile
\* (tryNext 148-151), unless a rival took the place of a block below it.
NeededBlockKept ==
    \A n \in OnChain(directory) :
        /\ \A m \in 0..(n - 1) : ~Rivalled(directory, m)
        /\ <<n, 0, 0>> \in added
        /\ currentRecon <= n
        => <<n, 0, 0>> \in DOMAIN pending

\* A reconciliation has one file; stray ones may only be filed under the
\* genesis.
FiledAlone(dir) == \A k \in DOMAIN dir : k[1] # 0 => k[2] = 0 /\ k[3] = 0

\* Whatever order the files are listed in, the whole chain of the directory
\* is in the database when the loader is done.  A second file of a
\* reconciliation may end tryIntegrate early, since only a success makes it
\* go on.
LoadedInAnyOrder ==
    loader = "done" /\ FiledAlone(directory) =>
        \A n \in Recons : n \in OnChain(directory) <=> Position >= n

\* The loader comes to its end.
LoaderFinishes == <>(loader = "done")
=============================================================================
