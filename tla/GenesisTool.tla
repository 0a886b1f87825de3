---------------------------- MODULE GenesisTool ----------------------------
(***************************************************************************)
(* The genesis tool (cli/genesis.cpp) with the disk it works on, and the   *)
(* start of the p2p service (P2pServiceParams::preInit), which looks for   *)
(* its stake key in the wallet the tool leaves behind.                     *)
(*                                                                         *)
(* The tool is a sequence of steps between which it may be killed; each    *)
(* file operation may fail.  A file is its contents: for the wallet a      *)
(* record with a kind ("absent", "empty", "partial" or "json"), for a      *)
(* block its bytes, <<>> when there are none.  HOME is set, and no path    *)
(* of the working directory is called "~".                                 *)
(***************************************************************************)
EXTENDS Blocks, Wallet

CONSTANTS
    Passwords,          \* what a user may type or pass
    Salts,              \* values of --wallet-salt
    Greeds,             \* values of --greed
    InitialWallets,     \* wallet files that may be there before the first run
    MaxRuns             \* how often the tool is started

GREED_MINIMUM == 2
FIRST_RECON == 1

\* The private key that an encrypted one was made from.
keyIn(priv) == IF priv.format = "fcpbkdf" THEN priv.content.payload.key ELSE priv.key

EntryOK(e) ==
    /\ e.usage \in KeyUsages /\ e.format \in EncFormats
    /\ e.priv.format = e.format
    /\ Address_verify(Address_unprintable(e.address), keyIn(e.priv))

\* An entry as addKey makes it: the address is a printed one.
Entry(e) ==
    /\ e = [usage |-> e.usage, format |-> e.format, address |-> e.address, priv |-> e.priv]
    /\ e.address = Address_printable(Address_unprintable(e.address))
    /\ EntryOK(e)

\* What a wallet file can hold: no file, an empty or a torn one has no keys, and
\* a whole one has entries that Wallet::addKey made, under any passwords.  Its
\* iteration count may be one that no key can be encrypted with.
WalletFile(f) ==
    /\ f = [kind |-> f.kind, iters |-> f.iters,
            defaultFormat |-> f.defaultFormat, keys |-> f.keys]
    /\ f.kind # "json" => f.keys = <<>>
    /\ f.defaultFormat \in EncFormats
    /\ f.keys \in Seq(Range(f.keys))
    /\ \A i \in DOMAIN f.keys : Entry(f.keys[i])

\* readPassword takes an empty password for a cancelled prompt.
ASSUME ToolAssumption ==
    /\ FIRST_RECON <= UInt32Max
    /\ Greeds \subseteq Nat
    /\ NoPassword \notin Passwords
    /\ \A f \in InitialWallets : WalletFile(f)

VARIABLES
    disk,               \* [wallet, dir, genesis, recon]
    pc,                 \* the step main is at, "idle" when the tool is not running
    args,               \* [tilde, prompt, typed, salt, greed] of the current or last run
    main,               \* the local variables of main
    exit,               \* the exit code of the last run, "running" during one
    fresh,              \* the number of the next key and of the next random value
    runs,
    p2p                 \* [state, key]: the p2p service and its StakeKey

vars == <<disk, pc, args, main, exit, fresh, runs, p2p>>

-----------------------------------------------------------------------------
\* StakeKey.
StakeKey_new == [address |-> <<>>, key |-> Null, pub |-> <<>>, priv |-> <<>>]

StakeKey_setKey(address, key) ==
    [address |-> address, key |-> key,
     pub |-> IF key = Null THEN <<>> ELSE toPublic(key[1]),
     priv |-> IF key = Null THEN <<>> ELSE <<toPrivate(key[1])>>]

\* FileTools::exists does not expand "~"; read and write do.
exists(file, tilde) == ~tilde /\ file.kind # "absent"

absent == [emptyString EXCEPT !.kind = "absent"]

\* FileTools::write replaces the file in place.  The results: it cannot be
\* opened, it is cut off by an error, or it is written.
write(file, data, torn) ==
    {[ok |-> FALSE, file |-> file], [ok |-> TRUE, file |-> data]}
        \cup {[ok |-> FALSE, file |-> t] : t \in torn}

\* FileTools::createDir: creating and setting the permissions may each fail.
createDir == {[ok |-> TRUE, dir |-> TRUE], [ok |-> FALSE, dir |-> TRUE],
              [ok |-> FALSE, dir |-> FALSE]}

\* readPassword: what the user types, or nothing when they cancel or, asked
\* for it twice, type two different ones.
readPassword(typed) == {<<typed>>, Null}

tornWallet == {emptyString, [emptyString EXCEPT !.kind = "partial"]}
tornBlock == {<<>>, <<"partial">>}

-----------------------------------------------------------------------------
noLocals ==
    [contents |-> emptyString, password |-> NoPassword, wallet |-> Wallet_new,
     gen |-> Genesis_new, rec |-> Reconciliation_new]

Init ==
    /\ disk \in [wallet : InitialWallets, dir : BOOLEAN, genesis : {<<>>}, recon : {<<>>}]
    /\ pc = "idle"
    /\ args = [tilde |-> FALSE, prompt |-> TRUE, typed |-> NoPassword,
               salt |-> <<>>, greed |-> 0]
    /\ main = noLocals
    /\ exit = "none"
    /\ fresh = 100
    /\ runs = 0
    /\ p2p = [state |-> "down", key |-> StakeKey_new]

\* main returns; its local variables are gone.
Return(code) ==
    /\ pc' = "idle" /\ exit' = code /\ main' = noLocals
    /\ UNCHANGED <<args, fresh, runs, p2p>>

Goto(step) ==
    /\ pc' = step
    /\ UNCHANGED <<args, exit, runs, p2p>>

\* The arguments are parsed; the greed is looked at before anything else.
Start ==
    /\ pc = "idle" /\ runs < MaxRuns
    /\ runs' = runs + 1
    /\ args' \in [tilde : BOOLEAN, prompt : BOOLEAN, typed : Passwords,
                  salt : Salts, greed : Greeds]
    /\ IF args'.greed < GREED_MINIMUM
       THEN pc' = "idle" /\ exit' = "ArgumentInvalid"
       ELSE pc' = "ReadWallet" /\ exit' = "running"
    /\ UNCHANGED <<disk, main, fresh, p2p>>

ReadWallet ==
    /\ pc = "ReadWallet"
    /\ \/ /\ ~exists(disk.wallet, args.tilde)
          /\ Goto("GetPassword")
          /\ UNCHANGED <<main, fresh, disk>>
       \/ /\ exists(disk.wallet, args.tilde)
          /\ main' = [main EXCEPT !.contents = disk.wallet]
          /\ Goto("GetPassword")
          /\ UNCHANGED <<fresh, disk>>
       \/ /\ exists(disk.wallet, args.tilde)
          /\ Return("ReadWallet")
          /\ UNCHANGED disk

\* With --wallet-password the tool reads the argument "wallet-address", which
\* it does not have: the password is empty.  The prompt may be cancelled, or
\* answered with two different passwords.
GetPassword ==
    /\ pc = "GetPassword"
    /\ \E answer \in IF args.prompt THEN readPassword(args.typed) ELSE {<<NoPassword>>} :
          IF answer = Null
          THEN Return("GetPassword") /\ UNCHANGED disk
          ELSE /\ main' = [main EXCEPT !.password = answer[1]]
               /\ Goto("DecryptWallet")
               /\ UNCHANGED <<fresh, disk>>

\* A new wallet is not given the password.
DecryptWallet ==
    /\ pc = "DecryptWallet"
    /\ LET opened == setString(Wallet_new, main.contents, main.password)
       IN  IF main.contents.kind = "empty"
           THEN Goto("MakeKeys") /\ UNCHANGED <<main, fresh, disk>>
           ELSE IF ~opened.ok
           THEN Return("DecryptWallet") /\ UNCHANGED disk
           ELSE /\ main' = [main EXCEPT !.wallet = opened.wallet]
                /\ Goto("MakeKeys")
                /\ UNCHANGED <<fresh, disk>>

\* The salt of an address: the user's, or a random one.
saltOf(salt, random) == IF salt = <<>> THEN random ELSE salt

MakeKeys ==
    /\ pc = "MakeKeys"
    /\ \/ LET v == makeNewKey(main.wallet, "validator", saltOf(args.salt, <<"random", fresh>>),
                              fresh, <<"temporary", fresh>>)
              s == makeNewKey(v, "specie", saltOf(args.salt, <<"random", fresh + 1>>),
                              fresh + 1, <<"temporary", fresh + 1>>)
          IN  /\ main' = [main EXCEPT !.wallet = s]
              /\ fresh' = fresh + 2
              /\ Goto("MakeBlocks")
              /\ UNCHANGED disk
       \/ Return("MakeKey") /\ UNCHANGED disk

genesisOf(w, greed) ==
    [Genesis_new EXCEPT
        !.protocol = 0, !.name = <<"Fluffycoin">>, !.version = 0,
        !.creation = 1,
        !.creator = getLatestAddressBin(w, "specie"),
        !.validatorKey = getLatestPublicKey(w, "validator"),
        !.stakeAddress = getLatestAddressBin(w, "validator"),
        !.greed = [Specie_new EXCEPT !.coins = greed]]

\* Mutant: the hash of the genesis block is taken before its greed is set.
reconciliationOfBare(w, gen) ==
    LET r == [Reconciliation_new EXCEPT
                 !.protocol = 0, !.chainId = FIRST_RECON,
                 !.shardInfo = <<[hash |-> Hash_of(Genesis_encode([gen EXCEPT !.greed = Specie_new])),
                                  blocks |-> 0]>>,
                 !.leader = getLatestAddressBin(w, "validator")]
        signature == sign(getLatestKey(w, "validator")[1], Reconciliation_toContent(r))
    IN  [r EXCEPT
            !.signature = signature,
            !.votes = <<[verified |-> TRUE, address |-> getLatestAddressBin(w, "validator"),
                         signature |-> signature]>>]

\* The first reconciliation block, signed and voted for by its only validator.
reconciliationOf(w, gen) ==
    LET r == [Reconciliation_new EXCEPT
                 !.protocol = 0, !.chainId = FIRST_RECON,
                 !.shardInfo = <<[hash |-> Hash_of(Genesis_encode(gen)), blocks |-> 0]>>,
                 !.leader = getLatestAddressBin(w, "validator")]
        signature == sign(getLatestKey(w, "validator")[1], Reconciliation_toContent(r))
    IN  [r EXCEPT
            !.signature = signature,
            !.votes = <<[verified |-> TRUE, address |-> getLatestAddressBin(w, "validator"),
                         signature |-> signature]>>]

\* Without a validator key the null pointer is dereferenced: the process dies.
MakeBlocks ==
    /\ pc = "MakeBlocks"
    /\ IF getLatestKey(main.wallet, "validator") = Null
       THEN Return("killed") /\ UNCHANGED disk
       ELSE LET gen == genesisOf(main.wallet, args.greed)
            IN  /\ main' = [main EXCEPT !.gen = gen, !.rec = reconciliationOf(main.wallet, gen)]
                /\ Goto("OutputDir")
                /\ UNCHANGED <<fresh, disk>>

OutputDir ==
    /\ pc = "OutputDir"
    /\ \E result \in IF disk.dir THEN {[ok |-> TRUE, dir |-> TRUE]} ELSE createDir :
          /\ disk' = [disk EXCEPT !.dir = result.dir]
          /\ IF result.ok THEN Goto("WriteGenesis") /\ UNCHANGED <<main, fresh>>
             ELSE Return("CreateOutputDir")

WriteGenesis ==
    /\ pc = "WriteGenesis"
    /\ \E result \in write(disk.genesis, Block_encode(Block_setGenesis(Block_new, main.gen)),
                           tornBlock) :
          /\ disk' = [disk EXCEPT !.genesis = result.file]
          /\ IF result.ok THEN Goto("WriteRecon") /\ UNCHANGED <<main, fresh>>
             ELSE Return("WriteBlock")

WriteRecon ==
    /\ pc = "WriteRecon"
    /\ \E result \in write(disk.recon, Block_encode(Block_setReconciliation(Block_new, main.rec)),
                           tornBlock) :
          /\ disk' = [disk EXCEPT !.recon = result.file]
          /\ IF result.ok THEN Goto("WriteWallet") /\ UNCHANGED <<main, fresh>>
             ELSE Return("WriteBlock")

WriteWallet ==
    /\ pc = "WriteWallet"
    /\ LET data == getString(main.wallet, main.password)
       IN  IF data = emptyString
           THEN Return("SerializeWallet") /\ UNCHANGED disk
           ELSE \E result \in write(disk.wallet, data, tornWallet) :
                   /\ disk' = [disk EXCEPT !.wallet = result.file]
                   /\ Return(IF result.ok THEN "Success" ELSE "WriteWallet")

\* The process is killed, maybe in the middle of a write.
Kill ==
    /\ pc # "idle"
    /\ Return("killed")
    /\ \/ UNCHANGED disk
       \/ pc = "WriteGenesis" /\ \E t \in tornBlock : disk' = [disk EXCEPT !.genesis = t]
       \/ pc = "WriteRecon" /\ \E t \in tornBlock : disk' = [disk EXCEPT !.recon = t]
       \/ pc = "WriteWallet" /\ \E t \in tornWallet : disk' = [disk EXCEPT !.wallet = t]

-----------------------------------------------------------------------------
\* Mutant: the newest key whatever it is used for.
stakeKeyOfAny(w, stakeAddress) ==
    IF stakeAddress # <<>>
    THEN StakeKey_setKey(stakeAddress, getKey(w, stakeAddress))
    ELSE IF w.keys = <<>> THEN StakeKey_new
    ELSE StakeKey_setKey(w.keys[1].address,
                         decrypt(w.keys[1].format, w.keys[1].priv, w.password))

\* The key of --stake-address, or else the newest validator key.
stakeKeyOf(w, stakeAddress) ==
    IF stakeAddress # <<>>
    THEN StakeKey_setKey(stakeAddress, getKey(w, stakeAddress))
    ELSE StakeKey_setKey(getLatestAddress(w, "validator"), getLatestKey(w, "validator"))

\* preInit: TRUE at once for a paused service, which needs no key.  A failed
\* preInit ends the process.
preInit(paused, password, stakeAddress) ==
    LET opened == setString(Wallet_new, disk.wallet, password)
        stakeKey == stakeKeyOf(opened.wallet, stakeAddress)
        found == stakeKey.address # <<>> /\ stakeKey.key # Null
    IN  IF paused THEN [state |-> "paused", key |-> StakeKey_new]
        ELSE IF disk.wallet.kind # "absent" /\ opened.ok /\ found
        THEN [state |-> "up", key |-> stakeKey]
        ELSE [state |-> "failed", key |-> StakeKey_new]

\* The addresses an operator can know: those in the wallet file.
Addresses == {disk.wallet.keys[i].address : i \in DOMAIN disk.wallet.keys}

StartP2p(paused, password, stakeAddress) ==
    /\ p2p.state \notin {"up", "paused"}
    /\ p2p' = preInit(paused, password, stakeAddress)
    /\ UNCHANGED <<disk, pc, args, main, exit, fresh, runs>>

StopP2p ==
    /\ p2p.state \in {"up", "paused"}
    /\ p2p' = [state |-> "down", key |-> StakeKey_new]
    /\ UNCHANGED <<disk, pc, args, main, exit, fresh, runs>>

Next ==
    \/ Start \/ ReadWallet \/ GetPassword \/ DecryptWallet \/ MakeKeys \/ MakeBlocks
    \/ OutputDir \/ WriteGenesis \/ WriteRecon \/ WriteWallet \/ Kill
    \/ \E paused \in BOOLEAN, password \in Passwords, address \in {<<>>} \cup Addresses :
          StartP2p(paused, password, address)
    \/ StopP2p

Spec == Init /\ [][Next]_vars

-----------------------------------------------------------------------------
Codes ==
    {"none", "running", "killed", "Success", "ArgumentInvalid", "ReadWallet", "GetPassword",
     "DecryptWallet", "MakeKey", "CreateOutputDir", "WriteBlock", "SerializeWallet",
     "WriteWallet"}

\* Every entry of the wallet, on the disk as in memory, is a key under the
\* format it is labelled with and with the address of that key, which
\* Wallet::addKey, retranslate and setString each have a part in.
GTypeOK ==
    /\ exit \in Codes
    /\ exit = "running" <=> pc # "idle"
    /\ \A i \in DOMAIN disk.wallet.keys : EntryOK(disk.wallet.keys[i])
    /\ \A i \in DOMAIN main.wallet.keys : EntryOK(main.wallet.keys[i])
    /\ p2p.state \in {"down", "up", "paused", "failed"}

genesisOnDisk == decode_Block(disk.genesis, Block_new).genesis
reconOnDisk == decode_Block(disk.recon, Block_new).reconciliation

\* When main returns error::Success, for a greed that a long can hold, the two
\* block files are one chain: the
\* reconciliation block names the hash of the genesis block as an importer
\* computes it from the decoded block, it is led by the staker of the genesis
\* block, and both its signature and its one vote verify under the validator
\* key of the genesis block, whose address the stake address is.
ChainVerifies ==
    exit = "Success" /\ args.greed <= LongMax =>
        /\ Len(genesisOnDisk) = 1 /\ Len(reconOnDisk) = 1
        /\ LET g == genesisOnDisk[1]
               r == reconOnDisk[1]
           IN  /\ g.greed.coins >= GREED_MINIMUM
               /\ Hash_equal(r.shardInfo[1].hash, Hash_of(Genesis_encode(g)))
               /\ r.leader = g.stakeAddress
               /\ verify(g.validatorKey, Reconciliation_toContent(r), r.signature)
               /\ \A i \in DOMAIN r.votes :
                     /\ r.votes[i].verified /\ r.votes[i].address = g.stakeAddress
                     /\ verify(g.validatorKey, Reconciliation_toContent(r), r.votes[i].signature)
               /\ Address_verify(g.stakeAddress, g.validatorKey[2])

\* When main returns error::Success after a prompt, the wallet file opens with
\* the password typed there, and both keys of the genesis block, the creator's
\* and the validator's, can be taken out of it: getString moves the entries
\* from the temporary password of addKey to the user's.  That is so for a wallet
\* whose iteration count the ciphers take; with another one makeNewKey, which
\* does not look at the verdict of addKey, may leave the wallet as it was.
WalletRecovers ==
    exit = "Success" /\ args.prompt /\ itersOK(disk.wallet.iters) =>
        LET opened == setString(Wallet_new, disk.wallet, args.typed)
            g == genesisOnDisk[1]
        IN  /\ opened.ok
            /\ \E key \in {getKey(opened.wallet, Address_printable(g.creator))} :
                  key # Null /\ Address_verify(g.creator, key[1])
            /\ getLatestPublicKey(opened.wallet, "validator") = g.validatorKey

\* A p2p service started on the wallet of a successful run, with the password
\* of its prompt and no --stake-address, comes up with the stake key that the
\* genesis block names: preInit's newest validator key is that one, although
\* the newest entry of the wallet is the creator's.
StakeKeyOwnsChain ==
    [][/\ p2p' # p2p
       /\ exit = "Success" /\ args.prompt
       /\ \E password \in {args.typed} : StartP2p(FALSE, password, <<>>)
       =>
          /\ p2p'.state = "up"
          /\ p2p'.key.pub = genesisOnDisk[1].validatorKey
          /\ Address_unprintable(p2p'.key.address) = genesisOnDisk[1].stakeAddress]_vars

KeysIn(file) == {<<file.keys[i].address, keyIn(file.keys[i].priv)>> : i \in DOMAIN file.keys}

\* The wallet file is only touched by the last write, after both blocks are on
\* the disk.  "File to read and save wallet" (genesis.cpp:123): with a path that
\* exists() and write() understand alike, a whole new wallet file keeps every
\* key the file held before.
WalletKept ==
    [][disk'.wallet # disk.wallet =>
        /\ pc = "WriteWallet"
        /\ Len(genesisOnDisk) = 1 /\ Len(reconOnDisk) = 1
        /\ ~args.tilde /\ disk'.wallet.kind = "json" =>
              KeysIn(disk.wallet) \subseteq KeysIn(disk'.wallet)]_disk

=============================================================================
