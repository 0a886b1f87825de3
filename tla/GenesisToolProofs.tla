------------------------- MODULE GenesisToolProofs -------------------------
(***************************************************************************)
(* Proofs about the genesis tool, for every set of passwords, salts and    *)
(* greeds, every wallet file that may be there before and any number of    *)
(* runs.                                                                   *)
(*                                                                         *)
(* What a successful run promises is about files that it wrote at three    *)
(* different steps from one wallet in memory.  So the invariant follows    *)
(* that wallet: it holds every entry of the file that was read, its first  *)
(* entry opens with the password it has now, its newest validator key is   *)
(* the one that both blocks were made with, and the blocks on the disk are *)
(* the encodings of the two in memory.  The lemmas before it say what      *)
(* Wallet and the codec of the blocks do to one entry and to one block.    *)
(***************************************************************************)
EXTENDS GenesisTool, BlocksProofs, WellFoundedInduction

\* Leaves that name no prover are left to Zenon.
USE Zenon

-----------------------------------------------------------------------------
(* Helpers. *)

\* The first of some positions, which getTopKey and getKey stop at.
LEMMA SmallestIndex ==
    ASSUME NEW S, S \subseteq Nat, S # {}
    PROVE  Min(S) \in S /\ \A i \in S : Min(S) <= i
<1>1. PICK x \in S : \A y \in S : ~(<<y, x>> \in OpToRel(<, Nat))
  BY WFMin, NatLessThanWellFounded
<1>2. \A y \in S : x <= y
  <2> SUFFICES ASSUME NEW y \in S, y < x PROVE FALSE
    BY SMT
  <2>1. <<y, x>> \in OpToRel(<, Nat)
    BY DEF OpToRel
  <2> QED BY <1>1, <2>1
<1> QED
  BY <1>2 DEF Min

-----------------------------------------------------------------------------
(* Encrypted keys and the entries of a wallet. *)

\* e opens with the password.
Opens(e, password) == decrypt(e.format, e.priv, password) # Null

\* What decrypt gives is the key the entry was made from.
LEMMA DecryptsKey ==
    ASSUME NEW format, NEW priv, NEW password, decrypt(format, priv, password) # Null
    PROVE  decrypt(format, priv, password) = <<keyIn(priv)>>
<1>1. CASE format = "clear"
  BY <1>1 DEF decrypt, fromPrivate, keyIn
<1>2. CASE format = "fcpbkdf"
  BY <1>2 DEF decrypt, PbkdfKey_unwrap, keyIn
<1>3. CASE format = "pkcs8"
  BY <1>3 DEF decrypt, Pkcs8Key_unwrap, keyIn
<1>4. CASE format \notin {"clear", "fcpbkdf", "pkcs8"}
  BY <1>4 DEF decrypt
<1> QED
  BY <1>1, <1>2, <1>3, <1>4

\* priv is the key, in the format, and opens with the password.
Enciphers(priv, format, key, password) ==
    /\ priv.format = format
    /\ keyIn(priv) = key
    /\ decrypt(format, priv, password) # Null

\* PbkdfKey::wrap and unwrap.
LEMMA PbkdfWraps ==
    ASSUME NEW key, NEW password, NEW iters
    PROVE  /\ PbkdfKey_wrap(key, password, iters) # Null =>
                  Enciphers(PbkdfKey_wrap(key, password, iters)[1], "fcpbkdf", key, password)
           /\ password # NoPassword /\ itersOK(iters) =>
                  PbkdfKey_wrap(key, password, iters) # Null
<1> DEFINE wrapped == PbkdfKey_wrap(key, password, iters)
           content == [iters |-> iters,
                       payload |-> [dek |-> <<"dek", password, iters>>, key |-> key]]
           data == [format |-> "fcpbkdf", content |-> content,
                    signature |-> <<"cmac", content, <<"mak", password, iters>>>>]
<1>1. wrapped = IF password # NoPassword /\ itersOK(iters) THEN <<data>> ELSE Null
  BY DEF PbkdfKey_wrap, pbkdf, PbkdfKey_sign
<1>2. <<data>> # Null
  BY DEF Null
<1>3. ASSUME password # NoPassword, itersOK(iters)
      PROVE  Enciphers(data, "fcpbkdf", key, password)
  <2>1. data.format = "fcpbkdf" /\ keyIn(data) = key
    BY DEF keyIn
  <2>2. PbkdfKey_unwrap(data, password) = <<key>>
    BY <1>3 DEF PbkdfKey_unwrap, pbkdf, PbkdfKey_sign
  <2>3. decrypt("fcpbkdf", data, password) = <<key>>
    BY <2>2 DEF decrypt
  <2> QED BY <2>1, <2>3, SMT DEF Enciphers, Null
<1> HIDE DEF data
<1> QED
  BY <1>1, <1>2, <1>3, SMT

\* Pkcs8Key::wrap and unwrap.
LEMMA Pkcs8Wraps ==
    ASSUME NEW key, NEW password, NEW iters
    PROVE  /\ Pkcs8Key_wrap(key, password, iters) # Null =>
                  Enciphers(Pkcs8Key_wrap(key, password, iters)[1], "pkcs8", key, password)
           /\ itersOK(iters) => Pkcs8Key_wrap(key, password, iters) # Null
<1> DEFINE data == [format |-> "pkcs8", key |-> key, pass |-> password]
<1>1. Pkcs8Key_wrap(key, password, iters) = IF itersOK(iters) THEN <<data>> ELSE Null
  BY DEF Pkcs8Key_wrap
<1>2. Enciphers(data, "pkcs8", key, password)
  BY DEF Enciphers, keyIn, decrypt, Pkcs8Key_unwrap, Null
<1>3. <<data>> # Null
  BY DEF Null
<1> HIDE DEF data
<1> QED
  BY <1>1, <1>2, <1>3, SMT

\* A key that addKey encrypts can be taken out with the same password, and
\* the iteration count is the only reason for it not to be encrypted.
LEMMA Encrypts ==
    ASSUME NEW format \in {"clear", "fcpbkdf", "pkcs8"}, NEW key, NEW password, NEW iters,
           password # NoPassword
    PROVE  /\ encrypt(format, key, password, iters) # Null =>
                  Enciphers(encrypt(format, key, password, iters)[1], format, key, password)
           /\ itersOK(iters) => encrypt(format, key, password, iters) # Null
<1>1. CASE format = "clear"
  <2>1. encrypt(format, key, password, iters) = <<toPrivate(key)>>
    BY <1>1 DEF encrypt
  <2>2. Enciphers(toPrivate(key), "clear", key, password)
    BY DEF Enciphers, toPrivate, keyIn, decrypt, fromPrivate, Null
  <2> QED BY <1>1, <2>1, <2>2, SMT DEF Null
<1>2. CASE format = "fcpbkdf"
  <2>1. encrypt(format, key, password, iters) = PbkdfKey_wrap(key, password, iters)
    BY <1>2 DEF encrypt
  <2> QED BY <1>2, <2>1, PbkdfWraps
<1>3. CASE format = "pkcs8"
  <2>1. encrypt(format, key, password, iters) = Pkcs8Key_wrap(key, password, iters)
    BY <1>3 DEF encrypt
  <2> QED BY <1>3, <2>1, Pkcs8Wraps
<1> QED
  BY <1>1, <1>2, <1>3

-----------------------------------------------------------------------------
(* Wallets. *)

\* A list of entries, as a wallet or a wallet file holds it.
Entries(keys) == keys \in Seq(Range(keys)) /\ \A i \in DOMAIN keys : Entry(keys[i])

\* A wallet of main.
WalletOK(w) ==
    /\ w = [keys |-> w.keys, password |-> w.password,
            defaultFormat |-> w.defaultFormat, kdfIters |-> w.kdfIters]
    /\ w.defaultFormat \in EncFormats
    /\ Entries(w.keys)

\* The wallet that main declares.
LEMMA NewWalletOK == WalletOK(Wallet_new)
<1>1. <<>> \in Seq(Range(<<>>)) /\ \A i \in DOMAIN <<>> : FALSE
  BY SMT
<1>2. Entries(<<>>)
  BY <1>1 DEF Entries
<1> QED
  BY <1>2 DEF WalletOK, Wallet_new, EncFormats

\* The empty contents that main starts from are a wallet file without keys.
LEMMA EmptyStringOK == WalletFile(emptyString) /\ emptyString.kind # "json"
<1>1. <<>> \in Seq(Range(<<>>)) /\ \A i \in DOMAIN <<>> : FALSE
  BY SMT
<1> QED
  BY <1>1 DEF emptyString, WalletFile, EncFormats

\* keys is old with e in front.
Pushed(keys, e, old) ==
    /\ Len(keys) = Len(old) + 1 /\ DOMAIN keys = 1 .. Len(old) + 1
    /\ keys[1] = e
    /\ \A i \in DOMAIN old : i + 1 \in DOMAIN keys /\ keys[i + 1] = old[i]
    /\ \A i \in DOMAIN keys : i = 1 \/ (i - 1 \in DOMAIN old /\ keys[i] = old[i - 1])

\* std::list::push_front.
LEMMA PushFront ==
    ASSUME NEW old, NEW e, Entries(old), Entry(e)
    PROVE  Pushed(<<e>> \o old, e, old) /\ Entries(<<e>> \o old)
<1> DEFINE S == Range(old) \cup {e}
           keys == <<e>> \o old
<1>1. e \in S /\ old \in Seq(S)
  <2>1. \A i \in DOMAIN old : old[i] \in S
    BY DEF Range
  <2>2. old \in Seq(Range(old))
    BY DEF Entries
  <2> QED BY <2>1, <2>2, SMT
<1>2. <<e>> \in Seq(S) /\ Len(<<e>>) = 1 /\ <<e>>[1] = e
  BY <1>1, SMT
<1> HIDE DEF S
<1>3. /\ keys \in Seq(S) /\ Len(keys) = Len(old) + 1
      /\ keys[1] = e
      /\ \A i \in 1 .. Len(old) : keys[i + 1] = old[i]
  BY <1>1, <1>2, SMT
<1>4. /\ Len(old) \in Nat /\ DOMAIN old = 1 .. Len(old)
      /\ DOMAIN keys = 1 .. Len(keys)
  BY <1>1, <1>3, SMT
<1> HIDE DEF keys
<1>5. Pushed(keys, e, old)
  <2>1. \A i \in DOMAIN old : i + 1 \in DOMAIN keys /\ keys[i + 1] = old[i]
    BY <1>3, <1>4, SMT
  <2>2. ASSUME NEW i \in DOMAIN keys, i # 1
        PROVE  i - 1 \in DOMAIN old /\ keys[i] = old[i - 1]
    <3>1. i - 1 \in DOMAIN old /\ (i - 1) + 1 = i
      BY <1>3, <1>4, <2>2, SMT
    <3> QED BY <2>1, <3>1
  <2> QED BY <1>3, <1>4, <2>1, <2>2 DEF Pushed
<1>6. keys \in Seq(Range(keys))
  <2>1. \A i \in 1 .. Len(keys) : keys[i] \in Range(keys)
    BY <1>4 DEF Range
  <2> QED BY <1>3, <2>1, SMT
<1>7. \A i \in DOMAIN keys : Entry(keys[i])
  BY <1>5 DEF Pushed, Entries
<1> QED
  BY <1>5, <1>6, <1>7 DEF Entries, keys

\* The address of a key, printed and read again, is the address of that key.
LEMMA PrintedAddress ==
    ASSUME NEW key, NEW salt
    PROVE  LET address == Address_printable(Address_generate(key, salt))
           IN  /\ Address_unprintable(address) = Address_generate(key, salt)
               /\ Address_printable(Address_unprintable(address)) = address
               /\ Address_verify(Address_unprintable(address), key)
<1> DEFINE binary == <<salt, <<"hash", salt, toPublic(key)>>>>
           address == <<"base64", salt, "base58", <<"hash", salt, toPublic(key)>>>>
<1>1. Address_generate(key, salt) = binary /\ binary # <<>> /\ binary[1] = salt
      /\ binary[2] = <<"hash", salt, toPublic(key)>>
  BY DEF Address_generate
<1>2. Address_printable(binary) = address
  BY <1>1 DEF Address_printable
<1>3. Address_unprintable(address) = binary
  BY DEF Address_unprintable
<1>4. Address_verify(binary, key)
  BY <1>1 DEF Address_verify
<1> QED
  BY <1>1, <1>2, <1>3, <1>4

\* What makeNewKey makes of the wallet w: an entry for the key in front, unless
\* the iteration count does not allow it.
NewKeyMade(n, w, usage, random) ==
    /\ WalletOK(n)
    /\ n.defaultFormat = w.defaultFormat /\ n.kdfIters = w.kdfIters
    /\ n.password = IF w.password = NoPassword THEN random ELSE w.password
    /\ \/ n.keys = w.keys /\ ~itersOK(w.kdfIters)
       \/ \E e : /\ Pushed(n.keys, e, w.keys)
                 /\ e.usage = usage /\ e.format # "none" /\ Opens(e, n.password)

\* Wallet::addKey with the new key, whose verdict makeNewKey does not look at.
LEMMA MakesNewKey ==
    ASSUME NEW w, NEW usage \in KeyUsages, NEW salt, NEW key, NEW random,
           WalletOK(w), random # NoPassword
    PROVE  NewKeyMade(makeNewKey(w, usage, salt, key, random), w, usage, random)
<1> DEFINE n == makeNewKey(w, usage, salt, key, random)
           address == Address_printable(Address_generate(key, salt))
           pass == IF w.password = NoPassword THEN random ELSE w.password
           format == IF w.defaultFormat = "none" THEN "fcpbkdf" ELSE w.defaultFormat
           priv == encrypt(format, key, pass, w.kdfIters)
           entry == [usage |-> usage, format |-> format, address |-> address, priv |-> priv[1]]
<1>1. /\ Address_printable(Address_unprintable(address)) = address
      /\ Address_verify(Address_unprintable(address), key)
  BY PrintedAddress
<1>2. pass # NoPassword /\ format \in {"clear", "fcpbkdf", "pkcs8"}
  BY DEF WalletOK, EncFormats
<1>3. /\ priv # Null => Enciphers(priv[1], format, key, pass)
      /\ itersOK(w.kdfIters) => priv # Null
  BY <1>2, Encrypts
<1>4. n = IF priv = Null THEN [w EXCEPT !.password = pass]
          ELSE [w EXCEPT !.password = pass, !.keys = <<entry>> \o w.keys]
  BY <1>1 DEF makeNewKey, addKey
<1> HIDE DEF n, address, pass, format, priv
<1>5. CASE priv = Null
  <2>1. n = [keys |-> w.keys, password |-> pass,
             defaultFormat |-> w.defaultFormat, kdfIters |-> w.kdfIters]
    BY <1>4, <1>5 DEF WalletOK
  <2>2. WalletOK(n)
    BY <2>1 DEF WalletOK
  <2>3. ~itersOK(w.kdfIters)
    BY <1>3, <1>5
  <2> QED BY <2>1, <2>2, <2>3, SMT DEF NewKeyMade, pass, n
<1>6. CASE priv # Null
  <2> DEFINE keys == <<entry>> \o w.keys
  <2>1. /\ entry.usage = usage /\ entry.format = format
        /\ entry.address = address /\ entry.priv = priv[1]
    OBVIOUS
  <2>2. Entry(entry)
    <3>1. EntryOK(entry)
      BY <1>1, <1>2, <1>3, <1>6, <2>1 DEF EntryOK, Enciphers, EncFormats
    <3> QED BY <1>1, <2>1, <3>1 DEF Entry
  <2>3. Opens(entry, pass) /\ entry.format # "none"
    BY <1>2, <1>3, <1>6, <2>1 DEF Opens, Enciphers
  <2> HIDE DEF entry
  <2>4. Pushed(keys, entry, w.keys) /\ Entries(keys)
    BY <2>2, PushFront DEF WalletOK
  <2> HIDE DEF keys
  <2>5. n = [keys |-> keys, password |-> pass,
             defaultFormat |-> w.defaultFormat, kdfIters |-> w.kdfIters]
    BY <1>4, <1>6 DEF WalletOK, keys
  <2>6. WalletOK(n)
    BY <2>4, <2>5 DEF WalletOK
  <2>7. NewKeyMade(n, w, usage, random)
    BY <2>1, <2>3, <2>4, <2>5, <2>6 DEF NewKeyMade, pass
  <2> QED BY <2>7 DEF n
<1> QED
  BY <1>5, <1>6

-----------------------------------------------------------------------------
(* Reading and writing wallets. *)

\* The wallet w holds the entries of the file f, which opens with w's password.
Loaded(w, f) ==
    /\ f.kind = "json"
    /\ w.keys = f.keys /\ w.defaultFormat = f.defaultFormat /\ w.kdfIters = f.iters
    /\ \A i \in DOMAIN f.keys : f.keys[i].format # "none"
    /\ 1 \in DOMAIN f.keys => Opens(f.keys[1], w.password)

\* An entry whose format and key are replaced.
LEMMA EntryMembers ==
    ASSUME NEW e, NEW format, NEW priv, Entry(e)
    PROVE  [e EXCEPT !.format = format, !.priv = priv] =
               [usage |-> e.usage, format |-> format, address |-> e.address, priv |-> priv]
<1> DEFINE a == [e EXCEPT !.format = format, !.priv = priv]
<1>1. a = [e EXCEPT !.format = format, !.priv = priv]
  OBVIOUS
<1> HIDE DEF a
<1>2. e = [usage |-> e.usage, format |-> e.format, address |-> e.address, priv |-> e.priv]
  BY DEF Entry
<1>3. a = [usage |-> e.usage, format |-> format, address |-> e.address, priv |-> priv]
  BY <1>1, <1>2
<1> QED
  BY <1>3 DEF a

\* Wallet::setString, when it returns true.
LEMMA SetStringLoads ==
    ASSUME NEW f, NEW password, WalletFile(f), setString(Wallet_new, f, password).ok
    PROVE  /\ Loaded(setString(Wallet_new, f, password).wallet, f)
           /\ setString(Wallet_new, f, password).wallet.password = password
           /\ WalletOK(setString(Wallet_new, f, password).wallet)
<1> DEFINE cleared == [keys |-> <<>>, password |-> password,
                       defaultFormat |-> "fcpbkdf", kdfIters |-> KDF_ITERS_DEFAULT]
           unreadable ==
               {i \in DOMAIN f.keys :
                   \/ f.keys[i].format = "none"
                   \/ i = 1 /\ decrypt(f.keys[i].format, f.keys[i].priv, password) = Null}
           read == IF unreadable = {} THEN f.keys
                   ELSE SubSeq(f.keys, 1, Min(unreadable) - 1)
           w == [keys |-> read, password |-> password,
                 defaultFormat |-> f.defaultFormat, kdfIters |-> f.iters]
<1>1. [Wallet_new EXCEPT !.keys = <<>>, !.password = password] = cleared
  <2> DEFINE a == [Wallet_new EXCEPT !.keys = <<>>, !.password = password]
  <2>1. a = [Wallet_new EXCEPT !.keys = <<>>, !.password = password]
    OBVIOUS
  <2> HIDE DEF a
  <2>2. a = cleared
    BY <2>1 DEF Wallet_new
  <2> QED BY <2>2 DEF a
<1>2. [cleared EXCEPT !.kdfIters = f.iters, !.defaultFormat = f.defaultFormat, !.keys = read] = w
  <2> DEFINE a == [cleared EXCEPT !.kdfIters = f.iters, !.defaultFormat = f.defaultFormat,
                                  !.keys = read]
  <2>1. a = [cleared EXCEPT !.kdfIters = f.iters, !.defaultFormat = f.defaultFormat,
                            !.keys = read]
    OBVIOUS
  <2> HIDE DEF a, read
  <2>2. a = w
    BY <2>1
  <2> QED BY <2>2 DEF a
<1>3. setString(Wallet_new, f, password) =
        IF f.kind # "json" THEN [ok |-> FALSE, wallet |-> cleared]
        ELSE [ok |-> unreadable = {}, wallet |-> w]
  BY <1>1, <1>2 DEF setString
<1>4. f.kind = "json" /\ unreadable = {}
  <2> HIDE DEF cleared, unreadable, w
  <2>1. f.kind = "json"
    BY <1>3, SMT
  <2>2. setString(Wallet_new, f, password) = [ok |-> unreadable = {}, wallet |-> w]
    BY <1>3, <2>1
  <2>3. PICK b : b = (unreadable = {})
    OBVIOUS
  <2>4. setString(Wallet_new, f, password) = [ok |-> b, wallet |-> w]
    BY <2>2, <2>3
  <2>5. setString(Wallet_new, f, password).ok = b
    BY <2>4, SMT
  <2>6. b
    BY <2>5
  <2> QED BY <2>1, <2>3, <2>6
<1>5. setString(Wallet_new, f, password).wallet = w /\ read = f.keys
  <2>1. setString(Wallet_new, f, password) = [ok |-> unreadable = {}, wallet |-> w]
    BY <1>3, <1>4
  <2> HIDE DEF unreadable, w
  <2> QED BY <1>4, <2>1, SMT
<1> HIDE DEF read
<1>6. WalletOK(w)
  BY <1>5 DEF WalletOK, WalletFile, Entries
<1>7. Loaded(w, f) /\ w.password = password
  BY <1>4, <1>5 DEF Loaded, Opens
<1> QED
  BY <1>5, <1>6, <1>7

\* A file with readable entries of which the first opens is read.
LEMMA SetStringReads ==
    ASSUME NEW f, NEW password, f.kind = "json",
           \A i \in DOMAIN f.keys : f.keys[i].format # "none",
           1 \in DOMAIN f.keys => Opens(f.keys[1], password)
    PROVE  setString(Wallet_new, f, password).ok
<1> DEFINE unreadable ==
               {i \in DOMAIN f.keys :
                   \/ f.keys[i].format = "none"
                   \/ i = 1 /\ decrypt(f.keys[i].format, f.keys[i].priv, password) = Null}
<1>1. unreadable = {}
  BY DEF Opens
<1> HIDE DEF unreadable
<1>2. setString(Wallet_new, f, password).ok = (unreadable = {})
  BY DEF setString, unreadable
<1> QED
  BY <1>1, <1>2

\* d is the entry e of a wallet with password, written under newPassword.
Written(d, e, password, newPassword) ==
    /\ Entry(d)
    /\ d.usage = e.usage /\ d.address = e.address /\ keyIn(d.priv) = keyIn(e.priv)
    /\ e.format # "none" => d.format # "none"
    /\ newPassword # NoPassword /\ Opens(e, password) => Opens(d, newPassword)

\* retranslate, when it returns true: the same key under the new password.
LEMMA Retranslates ==
    ASSUME NEW e, NEW w, NEW newPassword, Entry(e), retranslate(e, w, newPassword) # Null
    PROVE  Written(retranslate(e, w, newPassword)[1], e, w.password, newPassword)
<1> DEFINE key == decrypt(e.format, e.priv, w.password)
           new == CASE w.defaultFormat = "fcpbkdf" ->
                           PbkdfKey_wrap(key[1], newPassword, w.kdfIters)
                    [] w.defaultFormat = "pkcs8" ->
                           Pkcs8Key_wrap(key[1], newPassword, w.kdfIters)
                    [] OTHER -> Null
           d == [usage |-> e.usage, format |-> w.defaultFormat,
                 address |-> e.address, priv |-> new[1]]
<1>1. [e EXCEPT !.format = w.defaultFormat, !.priv = new[1]] = d
  <2> HIDE DEF new
  <2> QED BY EntryMembers
<1>2. retranslate(e, w, newPassword) = IF key = Null \/ new = Null THEN Null ELSE <<d>>
  BY <1>1 DEF retranslate
<1> HIDE DEF d
<1>3. key # Null /\ new # Null /\ retranslate(e, w, newPassword)[1] = d
  <2> HIDE DEF key, new
  <2> QED BY <1>2, SMT
<1>4. key[1] = keyIn(e.priv)
  <2>1. key = <<keyIn(e.priv)>>
    BY <1>3, DecryptsKey
  <2> HIDE DEF key
  <2> QED BY <2>1
<1> HIDE DEF key
<1>5. /\ w.defaultFormat \in {"fcpbkdf", "pkcs8"}
      /\ Enciphers(new[1], w.defaultFormat, keyIn(e.priv), newPassword)
  BY <1>3, <1>4, PbkdfWraps, Pkcs8Wraps
<1> HIDE DEF new
<1>6. /\ d.usage = e.usage /\ d.format = w.defaultFormat
      /\ d.address = e.address /\ d.priv = new[1]
      /\ d = [usage |-> d.usage, format |-> d.format, address |-> d.address, priv |-> d.priv]
  BY DEF d
<1>7. Entry(d)
  BY <1>5, <1>6 DEF Entry, EntryOK, Enciphers, EncFormats
<1>8. Written(d, e, w.password, newPassword)
  BY <1>5, <1>6, <1>7 DEF Written, Enciphers, Opens
<1> QED
  BY <1>3, <1>8

\* f is the wallet w written under newPassword.
WrittenFile(f, w, newPassword) ==
    /\ WalletFile(f) /\ f.kind = "json" /\ f.iters = w.kdfIters
    /\ DOMAIN f.keys = DOMAIN w.keys
    /\ \A i \in DOMAIN w.keys : Written(f.keys[i], w.keys[i], w.password, newPassword)

\* Wallet::getString, unless it returns the empty string.
LEMMA GetStringWrites ==
    ASSUME NEW w, NEW password, WalletOK(w), getString(w, password) # emptyString
    PROVE  WrittenFile(getString(w, password), w, password)
<1> DEFINE same == password = NoPassword \/ password = w.password
           keys == [i \in DOMAIN w.keys |->
                       IF same THEN w.keys[i] ELSE retranslate(w.keys[i], w, password)[1]]
           json == [kind |-> "json", iters |-> w.kdfIters,
                    defaultFormat |-> w.defaultFormat, keys |-> keys]
<1>1. /\ getString(w, password) = json
      /\ ~same => \A i \in DOMAIN w.keys : retranslate(w.keys[i], w, password) # Null
  <2>1. getString(w, password) =
          IF ~same /\ \E i \in DOMAIN w.keys : retranslate(w.keys[i], w, password) = Null
          THEN emptyString ELSE json
    BY DEF getString
  <2> HIDE DEF same, json
  <2> QED BY <2>1
<1>2. ASSUME NEW i \in DOMAIN w.keys
      PROVE  Written(keys[i], w.keys[i], w.password, password)
  <2>1. Entry(w.keys[i])
    BY DEF WalletOK, Entries
  <2>2. CASE same
    <3>1. keys[i] = w.keys[i]
      BY <2>2
    <3>2. Written(w.keys[i], w.keys[i], w.password, password)
      BY <2>1, <2>2 DEF Written
    <3> QED BY <3>1, <3>2
  <2>3. CASE ~same
    <3>1. keys[i] = retranslate(w.keys[i], w, password)[1]
      BY <2>3
    <3>2. retranslate(w.keys[i], w, password) # Null
      BY <1>1, <2>3
    <3> HIDE DEF keys, same
    <3> QED BY <2>1, <3>1, <3>2, Retranslates
  <2> QED BY <2>2, <2>3
<1>3. DOMAIN keys = DOMAIN w.keys
  OBVIOUS
<1> HIDE DEF same
<1>4. keys \in Seq(Range(keys))
  <2>1. DOMAIN w.keys = 1 .. Len(w.keys) /\ Len(w.keys) \in Nat
    BY SMT DEF WalletOK, Entries
  <2>2. \A i \in 1 .. Len(w.keys) : keys[i] \in Range(keys)
    BY <1>3, <2>1 DEF Range
  <2>3. keys \in [1 .. Len(w.keys) -> Range(keys)]
    BY <2>1, <2>2
  <2> HIDE DEF keys
  <2> QED BY <2>1, <2>3, SMT
<1> HIDE DEF keys
<1>5. /\ json.kind = "json" /\ json.iters = w.kdfIters /\ json.keys = keys
      /\ json.defaultFormat = w.defaultFormat
      /\ json = [kind |-> json.kind, iters |-> json.iters,
                 defaultFormat |-> json.defaultFormat, keys |-> json.keys]
  OBVIOUS
<1> HIDE DEF json
<1>6. WalletFile(json)
  BY <1>2, <1>3, <1>4, <1>5 DEF WalletFile, WalletOK, Written
<1>7. WrittenFile(json, w, password)
  BY <1>2, <1>3, <1>5, <1>6 DEF WrittenFile
<1> QED
  BY <1>1, <1>7

-----------------------------------------------------------------------------
(* Looking up keys. *)

\* The newest entry with the usage is the one at m.
LatestAt(keys, usage, m) ==
    /\ m \in DOMAIN keys /\ keys[m].usage = usage
    /\ \A i \in DOMAIN keys : keys[i].usage = usage => m <= i

\* getTopKey finds the newest entry with the usage, if there is one.
LEMMA TopKey ==
    ASSUME NEW keys, NEW usage, Entries(keys)
    PROVE  /\ getTopKey(keys, usage) # <<>> => \E m : LatestAt(keys, usage, m)
           /\ \A m : LatestAt(keys, usage, m) => getTopKey(keys, usage) = <<keys[m]>>
<1> DEFINE found == {i \in DOMAIN keys : keys[i].usage = usage}
<1>1. found \subseteq Nat
  BY SMT DEF Entries
<1>2. getTopKey(keys, usage) = IF found = {} THEN <<>> ELSE <<keys[Min(found)]>>
  BY DEF getTopKey
<1>3. found # {} => LatestAt(keys, usage, Min(found))
  <2>1. found # {} => Min(found) \in found /\ \A i \in found : Min(found) <= i
    BY <1>1, SmallestIndex
  <2> QED BY <2>1 DEF LatestAt
<1>4. ASSUME NEW m, LatestAt(keys, usage, m)
      PROVE  getTopKey(keys, usage) = <<keys[m]>>
  <2>1. m \in found /\ \A i \in found : m <= i
    BY <1>4 DEF LatestAt
  <2>2. Min(found) \in found /\ Min(found) <= m /\ m <= Min(found)
    BY <1>1, <2>1, SmallestIndex
  <2>3. m \in Nat /\ Min(found) \in Nat
    BY <1>1, <2>1, <2>2
  <2> HIDE DEF found
  <2>4. m = Min(found)
    BY <2>2, <2>3, SMT
  <2> QED BY <1>2, <2>1, <2>4
<1> HIDE DEF found
<1> QED
  BY <1>2, <1>3, <1>4

\* getLatestKey, getLatestAddress and getLatestPublicKey are about that entry.
LEMMA LatestEntry ==
    ASSUME NEW w, NEW usage, NEW m, WalletOK(w), LatestAt(w.keys, usage, m)
    PROVE  /\ getLatestAddress(w, usage) = w.keys[m].address
           /\ getLatestKey(w, usage) # Null <=> Opens(w.keys[m], w.password)
           /\ Opens(w.keys[m], w.password) =>
                  /\ getLatestKey(w, usage) = <<keyIn(w.keys[m].priv)>>
                  /\ getLatestPublicKey(w, usage) = toPublic(keyIn(w.keys[m].priv))
<1>1. getTopKey(w.keys, usage) = <<w.keys[m]>>
  BY TopKey DEF WalletOK
<1> DEFINE e == w.keys[m]
<1>2. getLatestAddress(w, usage) = e.address
  BY <1>1, SMT DEF getLatestAddress
<1>3. getLatestKey(w, usage) = decrypt(e.format, e.priv, w.password)
  BY <1>1, SMT DEF getLatestKey
<1> HIDE DEF e
<1>4. Opens(e, w.password) => getLatestKey(w, usage) = <<keyIn(e.priv)>>
  BY <1>3, DecryptsKey DEF Opens
<1>5. Opens(e, w.password) => getLatestPublicKey(w, usage) = toPublic(keyIn(e.priv))
  <2> SUFFICES ASSUME Opens(e, w.password)
               PROVE  getLatestPublicKey(w, usage) = toPublic(keyIn(e.priv))
    OBVIOUS
  <2>1. getLatestKey(w, usage) = <<keyIn(e.priv)>>
    BY <1>4
  <2>2. getLatestKey(w, usage) # Null /\ getLatestKey(w, usage)[1] = keyIn(e.priv)
    BY <2>1, SMT DEF Null
  <2> QED BY <2>2 DEF getLatestPublicKey
<1> QED
  BY <1>2, <1>3, <1>4, <1>5 DEF Opens, e

\* When getLatestKey finds a key, the newest entry of the usage opens.
LEMMA LatestKeyAt ==
    ASSUME NEW w, NEW usage, WalletOK(w), getLatestKey(w, usage) # Null
    PROVE  \E m : LatestAt(w.keys, usage, m) /\ Opens(w.keys[m], w.password)
<1>1. getTopKey(w.keys, usage) # <<>>
  <2> SUFFICES ASSUME getTopKey(w.keys, usage) = <<>> PROVE FALSE
    OBVIOUS
  <2>1. getLatestKey(w, usage) = Null
    BY DEF getLatestKey
  <2> QED BY <2>1
<1>2. PICK m : LatestAt(w.keys, usage, m)
  BY <1>1, TopKey DEF WalletOK
<1> QED
  BY <1>2, LatestEntry

\* The newest validator key that a process finds in the file f.
StakeRecovers(f, password, pub, address) ==
    LET opened == setString(Wallet_new, f, password)
    IN  /\ opened.ok
        /\ getLatestKey(opened.wallet, "validator") # Null
        /\ getLatestPublicKey(opened.wallet, "validator") = pub
        /\ getLatestAddressBin(opened.wallet, "validator") = address
        /\ getLatestAddress(opened.wallet, "validator") # <<>>

\* The key of an address that a process finds in the file f.
CreatorRecovers(f, password, address) ==
    LET opened == setString(Wallet_new, f, password)
        key == getKey(opened.wallet, Address_printable(address))
    IN  key # Null /\ Address_verify(address, key[1])

\* The wallet w can be written for the password and read again.
Readable(w) ==
    /\ WalletOK(w)
    /\ \A i \in DOMAIN w.keys : w.keys[i].format # "none"
    /\ 1 \in DOMAIN w.keys => Opens(w.keys[1], w.password)

\* A file that getString wrote for a password opens with it and has the same entries.
LEMMA WrittenLoads ==
    ASSUME NEW w, NEW f, NEW password,
           Readable(w), WrittenFile(f, w, password), password # NoPassword
    PROVE  LET opened == setString(Wallet_new, f, password)
           IN  /\ opened.ok /\ WalletOK(opened.wallet)
               /\ opened.wallet.keys = f.keys /\ opened.wallet.password = password
<1>1. setString(Wallet_new, f, password).ok
  <2>1. f.kind = "json" /\ DOMAIN f.keys = DOMAIN w.keys
    BY DEF WrittenFile
  <2>2. \A i \in DOMAIN f.keys : f.keys[i].format # "none"
    BY DEF WrittenFile, Written, Readable
  <2>3. 1 \in DOMAIN f.keys => Opens(f.keys[1], password)
    BY DEF WrittenFile, Written, Readable
  <2> QED BY <2>1, <2>2, <2>3, SetStringReads
<1>2. WalletFile(f)
  BY DEF WrittenFile
<1>3. /\ Loaded(setString(Wallet_new, f, password).wallet, f)
      /\ setString(Wallet_new, f, password).wallet.password = password
      /\ WalletOK(setString(Wallet_new, f, password).wallet)
  BY <1>1, <1>2, SetStringLoads
<1> QED
  BY <1>1, <1>3 DEF Loaded

\* The newest validator key of a wallet is the newest one of its file.
LEMMA WrittenStake ==
    ASSUME NEW w, NEW f, NEW password,
           Readable(w), WrittenFile(f, w, password), password # NoPassword,
           getLatestKey(w, "validator") # Null
    PROVE  StakeRecovers(f, password, getLatestPublicKey(w, "validator"),
                         getLatestAddressBin(w, "validator"))
<1> DEFINE opened == setString(Wallet_new, f, password)
           o == opened.wallet
<1>1. opened.ok /\ WalletOK(o) /\ o.keys = f.keys /\ o.password = password
  BY WrittenLoads, SMT
<1>2. WalletOK(w)
  BY DEF Readable
<1>3. PICK m : LatestAt(w.keys, "validator", m) /\ Opens(w.keys[m], w.password)
  BY <1>2, LatestKeyAt
<1> HIDE DEF o
<1>4. /\ m \in DOMAIN w.keys /\ DOMAIN f.keys = DOMAIN w.keys
      /\ \A i \in DOMAIN w.keys : Written(f.keys[i], w.keys[i], w.password, password)
  BY <1>3 DEF LatestAt, WrittenFile
<1>5. LatestAt(o.keys, "validator", m)
  BY <1>1, <1>3, <1>4 DEF LatestAt, Written
<1>6. /\ Opens(o.keys[m], o.password)
      /\ o.keys[m].address = w.keys[m].address
      /\ keyIn(o.keys[m].priv) = keyIn(w.keys[m].priv)
  BY <1>1, <1>3, <1>4 DEF Written
<1>7. /\ getLatestAddress(o, "validator") = o.keys[m].address
      /\ getLatestKey(o, "validator") # Null
      /\ getLatestPublicKey(o, "validator") = toPublic(keyIn(o.keys[m].priv))
  BY <1>1, <1>5, <1>6, LatestEntry, ZenonT(30)
<1>8. /\ getLatestAddress(w, "validator") = w.keys[m].address
      /\ getLatestPublicKey(w, "validator") = toPublic(keyIn(w.keys[m].priv))
  BY <1>2, <1>3, LatestEntry
<1>9. o.keys[m].address # <<>>
  <2>1. Entry(w.keys[m])
    BY <1>2, <1>4 DEF WalletOK, Entries
  <2>2. Len(Address_unprintable(w.keys[m].address)) = 2
    BY <2>1 DEF Entry, EntryOK, Address_verify
  <2>3. w.keys[m].address # <<>>
    BY <2>2, SMT DEF Address_unprintable
  <2> QED BY <1>6, <2>3
<1> QED
  BY <1>1, <1>6, <1>7, <1>8, <1>9 DEF StakeRecovers, getLatestAddressBin, o

\* The key of the newest entry of a wallet, the creator's, is in its file.
LEMMA WrittenCreator ==
    ASSUME NEW w, NEW f, NEW password,
           Readable(w), WrittenFile(f, w, password), password # NoPassword,
           1 \in DOMAIN w.keys, w.keys[1].usage = "specie"
    PROVE  CreatorRecovers(f, password, getLatestAddressBin(w, "specie"))
<1> DEFINE opened == setString(Wallet_new, f, password)
           o == opened.wallet
<1>1. opened.ok /\ WalletOK(o) /\ o.keys = f.keys /\ o.password = password
  BY WrittenLoads, SMT
<1>2. WalletOK(w) /\ Entry(w.keys[1]) /\ DOMAIN w.keys \subseteq Nat \ {0}
  BY SMT DEF Readable, WalletOK, Entries
<1> HIDE DEF o
<1>3. /\ 1 \in DOMAIN o.keys /\ DOMAIN o.keys \subseteq Nat \ {0}
      /\ Written(o.keys[1], w.keys[1], w.password, password)
  BY <1>1, <1>2 DEF WrittenFile
<1>4. LatestAt(w.keys, "specie", 1)
  BY <1>2, SMT DEF LatestAt
<1>5. getLatestAddress(w, "specie") = w.keys[1].address
  BY <1>2, <1>4, LatestEntry
<1> DEFINE creator == getLatestAddressBin(w, "specie")
           found == {i \in DOMAIN o.keys : o.keys[i].address = Address_printable(creator)}
           e == o.keys[1]
<1>6. creator = Address_unprintable(w.keys[1].address)
  BY <1>5 DEF getLatestAddressBin
<1>7. Address_printable(creator) = w.keys[1].address
  BY <1>2, <1>6 DEF Entry
<1>8. Address_verify(creator, keyIn(e.priv))
  BY <1>2, <1>3, <1>6 DEF Entry, EntryOK, Written
<1> HIDE DEF creator
<1>9. 1 \in found /\ found \subseteq Nat \ {0}
  BY <1>3, <1>7 DEF Written
<1>10. Min(found) = 1
  <2>1. Min(found) \in found /\ Min(found) <= 1
    BY <1>9, SmallestIndex
  <2>2. PICK k : k = Min(found)
    OBVIOUS
  <2>3. k \in Nat \ {0} /\ k <= 1
    BY <1>9, <2>1, <2>2
  <2>4. k = 1
    BY <2>3, SMT
  <2> QED BY <2>2, <2>4
<1>11. getKey(o, Address_printable(creator)) = decrypt(e.format, e.priv, o.password)
  <2>1. getKey(o, Address_printable(creator)) =
          IF found = {} THEN Null
          ELSE decrypt(o.keys[Min(found)].format, o.keys[Min(found)].priv, o.password)
    BY DEF getKey
  <2>2. found # {}
    BY <1>9
  <2> HIDE DEF found
  <2>3. getKey(o, Address_printable(creator)) =
          decrypt(o.keys[Min(found)].format, o.keys[Min(found)].priv, o.password)
    BY <2>1, <2>2
  <2> QED BY <1>10, <2>3 DEF e
<1>12. Opens(e, o.password)
  BY <1>1, <1>3 DEF Written, Readable
<1>13. getKey(o, Address_printable(creator)) = <<keyIn(e.priv)>>
  BY <1>11, <1>12, DecryptsKey DEF Opens
<1>14. /\ getKey(o, Address_printable(creator)) # Null
       /\ getKey(o, Address_printable(creator))[1] = keyIn(e.priv)
  BY <1>13, SMT DEF Null
<1> QED
  BY <1>8, <1>14 DEF CreatorRecovers, o, creator

-----------------------------------------------------------------------------
(* The two blocks, encoded and decoded. *)

\* The greed of the genesis block.
greedOf(n) == [coins |-> n, fluffs |-> 0]

\* Specie::toAsn1 and fromAsn1 keep a greed that a long can hold.
LEMMA GreedReads ==
    ASSUME NEW n \in 0 .. LongMax
    PROVE  Specie_fromAsn1(Specie_toAsn1(greedOf(n))) = greedOf(n)
<1> DEFINE g == greedOf(n)
<1>1. g.coins = n /\ g.fluffs = 0 /\ Members(g, Specie_new)
  BY DEF greedOf, Members, Specie_new
<1>2. n \in UInt64 /\ n <= LongMax /\ 0 \in UInt32
  BY WidthAssumption, SMT DEF UInt64, UInt64Max, UInt32
<1> HIDE DEF g
<1>3. Specie_type(g) /\ Specie_long(g)
  BY <1>1, <1>2 DEF Specie_type, Specie_long
<1> QED
  BY <1>3, SpecieReads DEF g

\* A genesis block as a record.
genesisRecord(creator, validatorKey, stakeAddress, greed) ==
    [protocol |-> 0, name |-> <<"Fluffycoin">>, version |-> 0, creation |-> 1,
     creator |-> creator, validatorKey |-> validatorKey, stakeAddress |-> stakeAddress,
     greed |-> greed, seed |-> <<>>]

\* What main puts into the genesis block.
LEMMA GenesisIs ==
    ASSUME NEW w, NEW greed
    PROVE  genesisOf(w, greed) =
               genesisRecord(getLatestAddressBin(w, "specie"),
                             getLatestPublicKey(w, "validator"),
                             getLatestAddressBin(w, "validator"), greedOf(greed))
<1> DEFINE s == [Specie_new EXCEPT !.coins = greed]
           name == <<"Fluffycoin">>
           g == genesisOf(w, greed)
<1>1. s = greedOf(greed)
  BY SMT DEF Specie_new, greedOf
<1>2. g = [Genesis_new EXCEPT
              !.protocol = 0, !.name = name, !.version = 0,
              !.creation = 1,
              !.creator = getLatestAddressBin(w, "specie"),
              !.validatorKey = getLatestPublicKey(w, "validator"),
              !.stakeAddress = getLatestAddressBin(w, "validator"),
              !.greed = s]
  BY DEF genesisOf
<1> HIDE DEF g, s, name
<1>3. g = [protocol |-> 0, name |-> name, version |-> 0, creation |-> 1,
           creator |-> getLatestAddressBin(w, "specie"),
           validatorKey |-> getLatestPublicKey(w, "validator"),
           stakeAddress |-> getLatestAddressBin(w, "validator"),
           greed |-> s, seed |-> <<>>]
  BY <1>2 DEF Genesis_new
<1> QED
  BY <1>1, <1>3 DEF genesisRecord, g, name

\* Genesis::toAsn1 and fromAsn1.
LEMMA GenesisRecordReads ==
    ASSUME NEW creator, NEW validatorKey, NEW stakeAddress, NEW greed
    PROVE  Genesis_fromAsn1(Genesis_toAsn1(
               genesisRecord(creator, validatorKey, stakeAddress, greed))) =
           genesisRecord(creator, validatorKey, stakeAddress,
                         Specie_fromAsn1(Specie_toAsn1(greed)))
<1> DEFINE g == genesisRecord(creator, validatorKey, stakeAddress, greed)
           name == <<"Fluffycoin">>
<1>1. /\ g.protocol = 0 /\ g.name = name /\ g.version = 0 /\ g.creation = 1
      /\ g.creator = creator /\ g.validatorKey = validatorKey
      /\ g.stakeAddress = stakeAddress /\ g.greed = greed /\ g.seed = <<>>
  BY DEF genesisRecord
<1>2. 0 \in UInt32 /\ 1 \in UInt64 /\ 1 <= LongMax
  BY WidthAssumption, ToolAssumption, SMT DEF FIRST_RECON, UInt32, UInt64, UInt64Max
<1> HIDE DEF g, name
<1>3. Genesis_fromAsn1(Genesis_toAsn1(g)) =
      [protocol |-> g.protocol, name |-> g.name, version |-> g.version,
       creation |-> g.creation, creator |-> g.creator, validatorKey |-> g.validatorKey,
       stakeAddress |-> g.stakeAddress, greed |-> Specie_fromAsn1(Specie_toAsn1(g.greed)),
       seed |-> g.seed]
  BY <1>1, <1>2, GenesisReads DEF Time_type
<1> QED
  BY <1>1, <1>3 DEF genesisRecord, g, name

\* decode of what Block::encode made of a genesis block.
LEMMA GenesisDecodes ==
    ASSUME NEW g
    PROVE  decode_Block(Block_encode(Block_setGenesis(Block_new, g)), Block_new).genesis =
               <<Genesis_fromAsn1(Genesis_toAsn1(g))>>
<1>1. Block_setGenesis(Block_new, g) = genesisBlock(g)
  BY BlockSetters
<1>2. decode_Block(Block_encode(genesisBlock(g)), Block_new) =
          genesisBlock(Genesis_fromAsn1(Genesis_toAsn1(g)))
  BY BlockDecodes
<1> QED
  BY <1>1, <1>2, BlockMembers

\* A reconciliation block of one shard with one vote, as a record.
reconRecord(hash, leader, signature, votes) ==
    [protocol |-> 0, chainId |-> FIRST_RECON,
     shardInfo |-> <<[hash |-> hash, blocks |-> 0]>>, leader |-> leader,
     signature |-> signature, votes |-> votes]

voteOf(address, signature) ==
    [verified |-> TRUE, address |-> address, signature |-> signature]

\* The content of that block, which its leader signs.
reconContent(hash, leader) ==
    [protocol |-> fromUInt32(0), time |-> ASN1_INTEGER_new, chainId |-> fromUInt32(FIRST_RECON),
     shardInfo |-> toStack(ShardInfo_toAsn1, <<[hash |-> hash, blocks |-> 0]>>),
     leader |-> Address_toAsn1(leader)]

\* Reconciliation::toContent leaves out the signature and the votes.
LEMMA ReconSigned ==
    ASSUME NEW hash, NEW leader, NEW signature, NEW votes
    PROVE  Reconciliation_toContent(reconRecord(hash, leader, signature, votes)) =
               i2d("30", reconContent(hash, leader))
<1> DEFINE infos == <<[hash |-> hash, blocks |-> 0]>>
           r == reconRecord(hash, leader, signature, votes)
<1> HIDE DEF infos
<1>1. r.protocol = 0 /\ r.chainId = FIRST_RECON /\ r.shardInfo = infos /\ r.leader = leader
  BY DEF reconRecord, infos
<1> HIDE DEF r
<1>2. Reconciliation_content(r) = reconContent(hash, leader)
  BY <1>1 DEF Reconciliation_content, reconContent, infos, toStack
<1> QED
  BY <1>2, ReconciliationWrites DEF r

\* The signature of the first reconciliation block.
signatureOf(w, gen) ==
    sign(getLatestKey(w, "validator")[1],
         i2d("30", reconContent(Hash_of(Genesis_encode(gen)), getLatestAddressBin(w, "validator"))))

\* What main puts into the first reconciliation block.
LEMMA ReconIs ==
    ASSUME NEW w, NEW gen
    PROVE  reconciliationOf(w, gen) =
               reconRecord(Hash_of(Genesis_encode(gen)), getLatestAddressBin(w, "validator"),
                           signatureOf(w, gen),
                           <<voteOf(getLatestAddressBin(w, "validator"), signatureOf(w, gen))>>)
<1> DEFINE leader == getLatestAddressBin(w, "validator")
           hash == Hash_of(Genesis_encode(gen))
           infos == <<[hash |-> hash, blocks |-> 0]>>
           r == [Reconciliation_new EXCEPT
                    !.protocol = 0, !.chainId = FIRST_RECON, !.shardInfo = infos,
                    !.leader = leader]
           key == getLatestKey(w, "validator")[1]
           signature == sign(key, Reconciliation_toContent(r))
           votes == <<voteOf(leader, signature)>>
           n == reconciliationOf(w, gen)
<1>1. r = [Reconciliation_new EXCEPT
              !.protocol = 0, !.chainId = FIRST_RECON, !.shardInfo = infos, !.leader = leader]
  OBVIOUS
<1>2. n = [r EXCEPT !.signature = signature, !.votes = votes]
  BY DEF reconciliationOf, voteOf
<1> HIDE DEF leader, infos, key, r, signature, votes, n
<1>3. r = [protocol |-> 0, chainId |-> FIRST_RECON, shardInfo |-> infos, leader |-> leader,
           signature |-> <<>>, votes |-> <<>>]
  BY <1>1 DEF Reconciliation_new
<1>4. r = reconRecord(hash, leader, <<>>, <<>>)
  BY <1>3 DEF reconRecord, infos
<1> HIDE DEF hash
<1>5. Reconciliation_toContent(r) = i2d("30", reconContent(hash, leader))
  BY <1>4, ReconSigned
<1>6. signature = signatureOf(w, gen)
  BY <1>5 DEF signature, signatureOf, key, hash, leader
<1>7. n = [protocol |-> 0, chainId |-> FIRST_RECON, shardInfo |-> infos, leader |-> leader,
           signature |-> signature, votes |-> votes]
  BY <1>2, <1>3
<1>8. n = reconRecord(hash, leader, signature, votes)
  BY <1>7 DEF reconRecord, infos
<1>9. votes = <<voteOf(leader, signature)>>
  BY DEF votes
<1> QED
  BY <1>6, <1>8, <1>9 DEF n, hash, leader

\* decode of what Block::encode made of the reconciliation block: the same block.
LEMMA ReconDecodes ==
    ASSUME NEW value, NEW leader, NEW signature
    PROVE  LET r == reconRecord(Hash_of(value), leader, signature, <<voteOf(leader, signature)>>)
           IN  decode_Block(Block_encode(Block_setReconciliation(Block_new, r)),
                            Block_new).reconciliation = <<r>>
<1> DEFINE hash == Hash_of(value)
           info == [hash |-> hash, blocks |-> 0]
           vote == voteOf(leader, signature)
           votes == <<vote>>
           r == reconRecord(hash, leader, signature, votes)
           t == toStack(Validation_toAsn1, votes)
           w == reconciliationWire(r)
<1>1. ShardInfo_type(info)
  <2>1. /\ info = [hash |-> info.hash, blocks |-> info.blocks]
        /\ info.hash = hash /\ info.blocks = 0
    <3> HIDE DEF hash
    <3> QED OBVIOUS
  <2>2. hash.sha2 = <<"sha2", value>> /\ hash.sha3 = <<"sha3", value>> /\ Members(hash, Hash_new)
    BY DEF Hash_of, Members, Hash_new
  <2>3. 0 \in UInt32
    BY WidthAssumption, SMT DEF UInt32
  <2> HIDE DEF info, hash
  <2> QED BY <2>1, <2>2, <2>3, ShortBytes DEF ShardInfo_type, Hash_type
<1>2. Members(vote, Validation_new) /\ vote.verified \in BOOLEAN
  BY DEF voteOf, Members, Validation_new
<1> HIDE DEF info, vote, hash
<1>3. List(votes) /\ \A i \in DOMAIN votes : votes[i] = vote
  BY Pointers, SMT
<1>4. t = <<Validation_toAsn1(vote)>>
  BY SMT DEF toStack
<1>5. fromStack(Validation_fromAsn1, t) = votes
  BY <1>2, <1>3, ValidationsRead DEF fromStack, toStack
<1> HIDE DEF votes
<1>6. SetOf(t) = t
  BY <1>4, OneVote
<1>7. r = [protocol |-> 0, chainId |-> FIRST_RECON, shardInfo |-> <<info>>, leader |-> leader,
           signature |-> signature, votes |-> votes]
  BY DEF reconRecord, info
<1> HIDE DEF r, t
<1>8. /\ r.protocol = 0 /\ r.chainId = FIRST_RECON /\ r.shardInfo = <<info>>
      /\ r.leader = leader /\ r.signature = signature /\ r.votes = votes
  BY <1>7
<1>9. w = [content |-> Reconciliation_content(r), signature |-> Signature_toAsn1(r.signature),
           votes |-> t]
  BY <1>6, <1>8 DEF reconciliationWire, t, toStack
<1>10. /\ r.protocol \in UInt32 /\ r.chainId \in UInt32
       /\ List(r.shardInfo) /\ \A i \in DOMAIN r.shardInfo : ShardInfo_type(r.shardInfo[i])
  <2>1. 0 \in UInt32 /\ FIRST_RECON \in UInt32
    BY WidthAssumption, ToolAssumption, SMT DEF FIRST_RECON, UInt32
  <2>2. List(<<info>>) /\ \A i \in DOMAIN <<info>> : <<info>>[i] = info
    BY Pointers, SMT
  <2> QED BY <1>1, <1>8, <2>1, <2>2
<1> HIDE DEF w
<1>11. Reconciliation_fromAsn1(w) =
       [protocol |-> r.protocol, chainId |-> r.chainId, shardInfo |-> r.shardInfo,
        leader |-> r.leader, signature |-> r.signature,
        votes |-> fromStack(Validation_fromAsn1, t)]
  BY <1>9, <1>10, ReconciliationReads DEF fromStack
<1>12. Reconciliation_fromAsn1(w) = r
  BY <1>5, <1>7, <1>8, <1>11
<1>13. decode_Block(Block_encode(Block_setReconciliation(Block_new, r)), Block_new) =
           reconciliationBlock(r)
  BY <1>12, BlockSetters, BlockDecodes DEF w
<1> QED
  BY <1>13, BlockMembers DEF r, votes, vote, hash

-----------------------------------------------------------------------------
(* The chain that the two block files make. *)

\* What ChainVerifies says of the decoded blocks.
ChainOf(genesis, recon) ==
    /\ Len(genesis) = 1 /\ Len(recon) = 1
    /\ LET g == genesis[1]
           r == recon[1]
       IN  /\ g.greed.coins >= GREED_MINIMUM
           /\ Hash_equal(r.shardInfo[1].hash, Hash_of(Genesis_encode(g)))
           /\ r.leader = g.stakeAddress
           /\ verify(g.validatorKey, Reconciliation_toContent(r), r.signature)
           /\ \A i \in DOMAIN r.votes :
                 /\ r.votes[i].verified /\ r.votes[i].address = g.stakeAddress
                 /\ verify(g.validatorKey, Reconciliation_toContent(r), r.votes[i].signature)
           /\ Address_verify(g.stakeAddress, g.validatorKey[2])

genesisBytes(gen) == Block_encode(Block_setGenesis(Block_new, gen))
reconBytes(rec) == Block_encode(Block_setReconciliation(Block_new, rec))

\* The genesis block names the newest keys of the wallet, whatever the greed.
LEMMA GenesisNames ==
    ASSUME NEW w, NEW greed
    PROVE  LET g == decode_Block(genesisBytes(genesisOf(w, greed)), Block_new).genesis
           IN  /\ Len(g) = 1
               /\ g[1].creator = getLatestAddressBin(w, "specie")
               /\ g[1].validatorKey = getLatestPublicKey(w, "validator")
               /\ g[1].stakeAddress = getLatestAddressBin(w, "validator")
<1> DEFINE c == getLatestAddressBin(w, "specie")
           v == getLatestPublicKey(w, "validator")
           s == getLatestAddressBin(w, "validator")
           coins == Specie_fromAsn1(Specie_toAsn1(greedOf(greed)))
           g == decode_Block(genesisBytes(genesisOf(w, greed)), Block_new).genesis
<1>1. g = <<Genesis_fromAsn1(Genesis_toAsn1(genesisOf(w, greed)))>>
  BY GenesisDecodes DEF genesisBytes
<1>2. genesisOf(w, greed) = genesisRecord(c, v, s, greedOf(greed))
  BY GenesisIs
<1>3. Genesis_fromAsn1(Genesis_toAsn1(genesisOf(w, greed))) = genesisRecord(c, v, s, coins)
  BY <1>2, GenesisRecordReads
<1> HIDE DEF c, v, s, coins, g
<1>4. g = <<genesisRecord(c, v, s, coins)>>
  BY <1>1, <1>3
<1>5. LET x == genesisRecord(c, v, s, coins)
      IN  x.creator = c /\ x.validatorKey = v /\ x.stakeAddress = s
  BY DEF genesisRecord
<1>6. Len(g) = 1 /\ g[1] = genesisRecord(c, v, s, coins)
  BY <1>4
<1>7. Len(g) = 1 /\ g[1].creator = c /\ g[1].validatorKey = v /\ g[1].stakeAddress = s
  BY <1>5, <1>6
<1> QED
  BY <1>7 DEF g, c, v, s

\* Len(reconOnDisk) = 1, for WalletKept.
LEMMA ReconOne ==
    ASSUME NEW w, NEW gen
    PROVE  decode_Block(reconBytes(reconciliationOf(w, gen)), Block_new).reconciliation =
               <<reconciliationOf(w, gen)>>
<1>1. reconciliationOf(w, gen) =
          reconRecord(Hash_of(Genesis_encode(gen)), getLatestAddressBin(w, "validator"),
                      signatureOf(w, gen),
                      <<voteOf(getLatestAddressBin(w, "validator"), signatureOf(w, gen))>>)
  BY ReconIs
<1> QED
  BY <1>1, ReconDecodes DEF reconBytes

\* The blocks that main makes from a wallet with a validator key are a chain.
LEMMA BlocksVerify ==
    ASSUME NEW w, NEW greed \in Nat, WalletOK(w), getLatestKey(w, "validator") # Null,
           GREED_MINIMUM <= greed, greed <= LongMax
    PROVE  ChainOf(decode_Block(genesisBytes(genesisOf(w, greed)), Block_new).genesis,
                   decode_Block(reconBytes(reconciliationOf(w, genesisOf(w, greed))),
                                Block_new).reconciliation)
<1> DEFINE c == getLatestAddressBin(w, "specie")
           v == getLatestPublicKey(w, "validator")
           s == getLatestAddressBin(w, "validator")
           g == genesisOf(w, greed)
           h == Hash_of(Genesis_encode(g))
           z == signatureOf(w, g)
           r == reconciliationOf(w, g)
           gs == decode_Block(genesisBytes(g), Block_new).genesis
           rs == decode_Block(reconBytes(r), Block_new).reconciliation
<1>1. g = genesisRecord(c, v, s, greedOf(greed))
  BY GenesisIs
<1>2. gs = <<g>>
  <2>1. gs = <<Genesis_fromAsn1(Genesis_toAsn1(g))>>
    BY GenesisDecodes DEF genesisBytes
  <2>2. greed \in 0 .. LongMax
    BY WidthAssumption, SMT
  <2>3. Specie_fromAsn1(Specie_toAsn1(greedOf(greed))) = greedOf(greed)
    BY <2>2, GreedReads
  <2> HIDE DEF g, c, v, s
  <2>4. Genesis_fromAsn1(Genesis_toAsn1(g)) =
          genesisRecord(c, v, s, Specie_fromAsn1(Specie_toAsn1(greedOf(greed))))
    BY <1>1, GenesisRecordReads
  <2> QED BY <1>1, <2>1, <2>3, <2>4
<1>3. r = reconRecord(h, s, z, <<voteOf(s, z)>>)
  BY ReconIs
<1>4. rs = <<r>>
  BY ReconOne
<1>5. PICK m : LatestAt(w.keys, "validator", m) /\ Opens(w.keys[m], w.password)
  BY LatestKeyAt
<1> DEFINE e == w.keys[m]
           k == keyIn(e.priv)
<1>6. /\ getLatestKey(w, "validator") = <<k>>
      /\ v = toPublic(k) /\ getLatestAddress(w, "validator") = e.address
  BY <1>5, LatestEntry
<1>7. Address_verify(s, k)
  <2>1. Entry(e)
    BY <1>5 DEF WalletOK, Entries, LatestAt
  <2> QED BY <1>6, <2>1 DEF Entry, EntryOK, getLatestAddressBin
<1> HIDE DEF k, e
<1>8. z = sign(k, i2d("30", reconContent(h, s)))
  <2>1. getLatestKey(w, "validator")[1] = k
    BY <1>6, SMT
  <2> QED BY <2>1 DEF signatureOf
<1> HIDE DEF h, z, r, rs, gs, c, v, s, g
<1>9. /\ g.greed.coins = greed /\ g.stakeAddress = s /\ g.validatorKey = v
  <2>1. g.greed = greedOf(greed) /\ g.stakeAddress = s /\ g.validatorKey = v
    BY <1>1 DEF genesisRecord
  <2>2. greedOf(greed).coins = greed
    BY DEF greedOf
  <2> QED BY <2>1, <2>2
<1>10. Reconciliation_toContent(r) = i2d("30", reconContent(h, s))
  BY <1>3, ReconSigned
<1> DEFINE content == i2d("30", reconContent(h, s))
           info == [hash |-> h, blocks |-> 0]
           vote == voteOf(s, z)
<1>11. vote.verified /\ vote.address = s /\ vote.signature = z
  BY DEF voteOf
<1>12. info.hash = h
  OBVIOUS
<1>13. /\ r.shardInfo = <<info>> /\ r.leader = s /\ r.signature = z /\ r.votes = <<vote>>
  <2> HIDE DEF vote
  <2>1. r = [protocol |-> 0, chainId |-> FIRST_RECON, shardInfo |-> <<info>>, leader |-> s,
             signature |-> z, votes |-> <<vote>>]
    BY <1>3 DEF reconRecord, vote
  <2> HIDE DEF info
  <2> QED BY <2>1
<1>14. verify(v, content, z)
  <2> HIDE DEF content
  <2>1. z = sign(k, content)
    BY <1>8 DEF content
  <2>2. Len(z) = 3 /\ z[2] = k /\ z[3] = content
    BY <2>1 DEF sign
  <2> QED BY <1>6, <2>2 DEF verify
<1>15. v[2] = k
  BY <1>6 DEF toPublic
<1> HIDE DEF content, info, vote
<1>16. r.shardInfo[1] = info /\ \A i \in DOMAIN r.votes : r.votes[i] = vote
  BY <1>13, SMT
<1>17. Hash_equal(r.shardInfo[1].hash, h)
  BY <1>12, <1>16 DEF Hash_equal
<1>18. /\ Len(gs) = 1 /\ Len(rs) = 1 /\ gs[1] = g /\ rs[1] = r
  BY <1>2, <1>4
<1>19. g.greed.coins >= GREED_MINIMUM
  BY <1>9 DEF GREED_MINIMUM
<1>20. ASSUME NEW i \in DOMAIN r.votes
       PROVE  /\ r.votes[i].verified /\ r.votes[i].address = g.stakeAddress
              /\ verify(g.validatorKey, Reconciliation_toContent(r), r.votes[i].signature)
  BY <1>9, <1>10, <1>11, <1>14, <1>16 DEF content
<1>21. /\ Hash_equal(r.shardInfo[1].hash, Hash_of(Genesis_encode(g)))
       /\ r.leader = g.stakeAddress
       /\ verify(g.validatorKey, Reconciliation_toContent(r), r.signature)
       /\ Address_verify(g.stakeAddress, g.validatorKey[2])
  BY <1>7, <1>9, <1>10, <1>13, <1>14, <1>15, <1>17 DEF content, h
<1>22. ChainOf(gs, rs)
  BY <1>18, <1>19, <1>20, <1>21 DEF ChainOf
<1> QED
  BY <1>22 DEF gs, rs, r, g

-----------------------------------------------------------------------------
(* The inductive invariant. *)

WroteGenesis == {"WriteRecon", "WriteWallet"}
HasBlocks == {"OutputDir", "WriteGenesis"} \cup WroteGenesis
HasKeys == {"MakeBlocks"} \cup HasBlocks
HasWallet == {"MakeKeys"} \cup HasKeys
HasPassword == {"DecryptWallet"} \cup HasWallet
HasContents == {"GetPassword"} \cup HasPassword
Steps == {"idle", "ReadWallet"} \cup HasContents

\* The members of the records, and what is in the wallet file and in main's copies.
ShapeInv ==
    /\ disk = [wallet |-> disk.wallet, dir |-> disk.dir,
               genesis |-> disk.genesis, recon |-> disk.recon]
    /\ main = [contents |-> main.contents, password |-> main.password,
               wallet |-> main.wallet, gen |-> main.gen, rec |-> main.rec]
    /\ WalletFile(disk.wallet) /\ WalletFile(main.contents) /\ WalletOK(main.wallet)
    /\ pc \in Steps /\ exit \in Codes
    /\ exit = "running" <=> pc # "idle"
    /\ p2p.state \in {"down", "up", "paused", "failed"}
    /\ pc # "idle" => /\ args.typed \in Passwords
                      /\ args.greed \in Greeds /\ args.greed >= GREED_MINIMUM

\* The wallet of main has every entry of the file.  After a prompt its first
\* entry opens with the password that the wallet has.
Holds(w, f, password) ==
    /\ \A i \in DOMAIN w.keys : w.keys[i].format # "none"
    /\ \A i \in DOMAIN f.keys : \E j \in DOMAIN w.keys : w.keys[j] = f.keys[i]
    /\ password # NoPassword /\ 1 \in DOMAIN w.keys =>
           w.password # NoPassword /\ Opens(w.keys[1], w.password)

\* main's wallet from reading the file to making the keys.
LocalsInv ==
    /\ pc \in {"idle", "ReadWallet"} => main = noLocals
    /\ pc \in HasContents =>
           main.contents = IF exists(disk.wallet, args.tilde) THEN disk.wallet ELSE emptyString
    /\ pc \in {"GetPassword", "DecryptWallet"} => main.wallet = Wallet_new
    /\ pc \in HasPassword =>
           main.password = IF args.prompt THEN args.typed ELSE NoPassword
    /\ pc \in HasWallet => Holds(main.wallet, main.contents, main.password)
    /\ pc \in HasKeys /\ itersOK(main.wallet.kdfIters) =>
           1 \in DOMAIN main.wallet.keys /\ main.wallet.keys[1].usage = "specie"

\* The blocks in memory and on the disk are those of main's wallet.
BlocksInv ==
    /\ pc \in HasBlocks =>
           /\ getLatestKey(main.wallet, "validator") # Null
           /\ main.gen = genesisOf(main.wallet, args.greed)
           /\ main.rec = reconciliationOf(main.wallet, main.gen)
    /\ pc \in WroteGenesis => disk.genesis = genesisBytes(main.gen)
    /\ pc = "WriteWallet" => disk.recon = reconBytes(main.rec)

\* What a successful run leaves on the disk.
Left(d, a) ==
    LET genesis == decode_Block(d.genesis, Block_new).genesis
        recon == decode_Block(d.recon, Block_new).reconciliation
    IN  /\ a.greed <= LongMax => ChainOf(genesis, recon)
        /\ a.prompt => StakeRecovers(d.wallet, a.typed, genesis[1].validatorKey,
                                     genesis[1].stakeAddress)
        /\ a.prompt /\ itersOK(d.wallet.iters) =>
               CreatorRecovers(d.wallet, a.typed, genesis[1].creator)

SuccessInv == exit = "Success" => Left(disk, args)

GInv == ShapeInv /\ LocalsInv /\ BlocksInv /\ SuccessInv

\* main's local variables as they are declared.
LEMMA NoLocals ==
    /\ noLocals = [contents |-> noLocals.contents, password |-> noLocals.password,
                   wallet |-> noLocals.wallet, gen |-> noLocals.gen, rec |-> noLocals.rec]
    /\ noLocals.contents = emptyString /\ noLocals.wallet = Wallet_new
    /\ WalletFile(noLocals.contents) /\ WalletOK(noLocals.wallet)
<1>1. /\ noLocals = [contents |-> noLocals.contents, password |-> noLocals.password,
                     wallet |-> noLocals.wallet, gen |-> noLocals.gen, rec |-> noLocals.rec]
      /\ noLocals.contents = emptyString /\ noLocals.wallet = Wallet_new
  BY DEF noLocals
<1> QED
  BY <1>1, NewWalletOK, EmptyStringOK

\* main returns, with a disk that is as it should be.
LEMMA ReturnInv ==
    ASSUME ShapeInv, NEW code \in Codes, Return(code), code # "running",
           disk' = [wallet |-> disk'.wallet, dir |-> disk'.dir,
                    genesis |-> disk'.genesis, recon |-> disk'.recon],
           WalletFile(disk'.wallet), code = "Success" => Left(disk', args)
    PROVE  GInv'
<1>1. /\ pc' = "idle" /\ exit' = code /\ main' = noLocals
      /\ args' = args /\ p2p' = p2p
  BY DEF Return
<1>2. ShapeInv'
  BY <1>1, NoLocals DEF ShapeInv, Steps
<1>3. LocalsInv' /\ BlocksInv'
  BY <1>1 DEF LocalsInv, BlocksInv, HasContents, HasPassword, HasWallet, HasKeys, HasBlocks,
              WroteGenesis
<1>4. SuccessInv'
  BY <1>1 DEF SuccessInv
<1> QED
  BY <1>2, <1>3, <1>4 DEF GInv

\* main returns and has left the disk alone.
LEMMA ReturnSameDisk ==
    ASSUME GInv, NEW code \in Codes, Return(code), code # "running", code # "Success",
           UNCHANGED disk
    PROVE  GInv'
  BY ReturnInv DEF GInv, ShapeInv

\* A run begins with a greed that main accepts, or ends at once.
LEMMA StartInv == GInv /\ Start => GInv'
<1> SUFFICES ASSUME GInv, Start
             PROVE  GInv'
  OBVIOUS
<1>1. /\ pc = "idle" /\ main = noLocals
      /\ disk' = disk /\ main' = main /\ p2p' = p2p
  BY DEF Start, GInv, LocalsInv
<1>2. /\ args'.typed \in Passwords /\ args'.greed \in Greeds
  BY DEF Start
<1>3. \/ pc' = "idle" /\ exit' = "ArgumentInvalid"
      \/ pc' = "ReadWallet" /\ exit' = "running" /\ ~(args'.greed < GREED_MINIMUM)
  BY DEF Start
<1>4. args'.greed \in Nat
  BY <1>2, ToolAssumption, ZenonT(30)
<1>5. ShapeInv'
  BY <1>1, <1>2, <1>3, <1>4, SMT DEF GInv, ShapeInv, Steps, Codes, GREED_MINIMUM
<1>6. LocalsInv' /\ BlocksInv'
  BY <1>1, <1>3 DEF LocalsInv, BlocksInv, HasContents, HasPassword, HasWallet, HasKeys,
                    HasBlocks, WroteGenesis
<1>7. SuccessInv'
  BY <1>3 DEF SuccessInv
<1> QED
  BY <1>5, <1>6, <1>7 DEF GInv

\* main takes the next step, which keeps the members of the records.
LEMMA GotoShape ==
    ASSUME ShapeInv, pc # "idle", NEW step \in Steps, step # "idle", Goto(step),
           WalletFile(disk'.wallet), WalletFile(main'.contents), WalletOK(main'.wallet),
           disk' = [wallet |-> disk'.wallet, dir |-> disk'.dir,
                    genesis |-> disk'.genesis, recon |-> disk'.recon],
           main' = [contents |-> main'.contents, password |-> main'.password,
                    wallet |-> main'.wallet, gen |-> main'.gen, rec |-> main'.rec]
    PROVE  ShapeInv' /\ SuccessInv'
<1>1. pc' = step /\ args' = args /\ exit' = exit /\ p2p' = p2p /\ exit = "running"
  BY DEF Goto, ShapeInv
<1>2. ShapeInv'
  BY <1>1 DEF ShapeInv
<1>3. SuccessInv'
  BY <1>1 DEF SuccessInv
<1> QED BY <1>2, <1>3

\* The contents are those of the file where FileTools::exists sees it.
LEMMA ReadWalletInv == GInv /\ ReadWallet => GInv'
<1> SUFFICES ASSUME GInv, ReadWallet
             PROVE  GInv'
  OBVIOUS
<1>1. pc = "ReadWallet" /\ main = noLocals
  BY DEF ReadWallet, GInv, LocalsInv
<1>2. CASE Return("ReadWallet") /\ UNCHANGED disk
  BY <1>2, ReturnSameDisk DEF Codes
<1>3. ASSUME Goto("GetPassword"), UNCHANGED disk,
             \/ main' = main /\ ~exists(disk.wallet, args.tilde)
             \/ /\ main' = [main EXCEPT !.contents = disk.wallet]
                /\ exists(disk.wallet, args.tilde)
      PROVE  GInv'
  <2>1. /\ main' = [contents |-> main'.contents, password |-> main'.password,
                    wallet |-> main'.wallet, gen |-> main'.gen, rec |-> main'.rec]
        /\ main'.wallet = main.wallet
        /\ main'.contents = IF exists(disk.wallet, args.tilde) THEN disk.wallet
                            ELSE main.contents
    BY <1>3 DEF GInv, ShapeInv
  <2>2. /\ main'.contents = IF exists(disk.wallet, args.tilde) THEN disk.wallet ELSE emptyString
        /\ main'.wallet = Wallet_new
    BY <1>1, <2>1, NoLocals
  <2>3. WalletFile(main'.contents) /\ WalletOK(main'.wallet)
    BY <2>1 DEF GInv, ShapeInv
  <2>4. ShapeInv' /\ SuccessInv'
    BY <1>1, <1>3, <2>1, <2>3, GotoShape, ZenonT(30) DEF GInv, ShapeInv, Steps, HasContents
  <2>5. pc' = "GetPassword" /\ args' = args
    BY <1>3 DEF Goto
  <2>6. LocalsInv' /\ BlocksInv'
    BY <1>3, <2>2, <2>5, SMT DEF LocalsInv, BlocksInv, HasContents, HasPassword, HasWallet, HasKeys,
                    HasBlocks, WroteGenesis
  <2> QED
    BY <2>4, <2>6 DEF GInv
<1> QED
  BY <1>2, <1>3 DEF ReadWallet

\* After the prompt the password is the typed one, without it there is none.
LEMMA GetPasswordInv == GInv /\ GetPassword => GInv'
<1> SUFFICES ASSUME GInv, GetPassword
             PROVE  GInv'
  OBVIOUS
<1>1. pc = "GetPassword"
  BY DEF GetPassword
<1>2. CASE Return("GetPassword") /\ UNCHANGED disk
  BY <1>2, ReturnSameDisk DEF Codes
<1>3. ASSUME NEW answer \in IF args.prompt THEN readPassword(args.typed) ELSE {<<NoPassword>>},
             answer # Null, main' = [main EXCEPT !.password = answer[1]],
             Goto("DecryptWallet"), UNCHANGED disk
      PROVE  GInv'
  <2>1. answer[1] = IF args.prompt THEN args.typed ELSE NoPassword
    BY <1>3, SMT DEF readPassword, Null
  <2>2. /\ main' = [contents |-> main'.contents, password |-> main'.password,
                    wallet |-> main'.wallet, gen |-> main'.gen, rec |-> main'.rec]
        /\ main'.wallet = main.wallet /\ main'.contents = main.contents
        /\ main'.password = answer[1]
    BY <1>3 DEF GInv, ShapeInv
  <2>3. ShapeInv' /\ SuccessInv'
    BY <1>1, <1>3, <2>2, GotoShape, SMT
       DEF GInv, ShapeInv, Steps, HasContents, HasPassword
  <2>4. pc' = "DecryptWallet" /\ args' = args
    BY <1>3 DEF Goto
  <2>5. LocalsInv' /\ BlocksInv'
    BY <1>1, <1>3, <2>1, <2>2, <2>4, ZenonT(30)
       DEF GInv, LocalsInv, BlocksInv, HasContents, HasPassword, HasWallet, HasKeys,
           HasBlocks, WroteGenesis
  <2> QED
    BY <2>3, <2>5 DEF GInv
<1> QED
  BY <1>2, <1>3 DEF GetPassword

\* Wallet::setString takes the whole file over, or main returns.
LEMMA DecryptWalletInv == GInv /\ DecryptWallet => GInv'
<1> SUFFICES ASSUME GInv, DecryptWallet
             PROVE  GInv'
  OBVIOUS
<1> DEFINE opened == setString(Wallet_new, main.contents, main.password)
<1>1. pc = "DecryptWallet" /\ main.wallet = Wallet_new /\ WalletFile(main.contents)
  BY DEF DecryptWallet, GInv, LocalsInv, ShapeInv
<1>2. CASE Return("DecryptWallet") /\ UNCHANGED disk
  BY <1>2, ReturnSameDisk DEF Codes
<1>3. ASSUME Goto("MakeKeys"), UNCHANGED disk,
             main' = [contents |-> main'.contents, password |-> main'.password,
                      wallet |-> main'.wallet, gen |-> main'.gen, rec |-> main'.rec],
             main'.contents = main.contents, main'.password = main.password,
             WalletOK(main'.wallet), Holds(main'.wallet, main.contents, main.password)
      PROVE  GInv'
  <2>1. ShapeInv' /\ SuccessInv'
    BY <1>1, <1>3, GotoShape
       DEF GInv, ShapeInv, Steps, HasContents, HasPassword, HasWallet
  <2>2. pc' = "MakeKeys" /\ args' = args
    BY <1>3 DEF Goto
  <2>3. LocalsInv' /\ BlocksInv'
    BY <1>1, <1>3, <2>2, ZenonT(30)
       DEF GInv, LocalsInv, BlocksInv, HasContents, HasPassword, HasWallet, HasKeys,
           HasBlocks, WroteGenesis
  <2> QED
    BY <2>1, <2>3 DEF GInv
<1>4. CASE main.contents.kind = "empty" /\ Goto("MakeKeys") /\ UNCHANGED <<main, fresh, disk>>
  <2>1. main.contents.keys = <<>> /\ main.wallet.keys = <<>>
    BY <1>1, <1>4, SMT DEF WalletFile, Wallet_new
  <2>2. Holds(main.wallet, main.contents, main.password)
    BY <2>1, SMT DEF Holds
  <2> QED
    BY <1>3, <1>4, <2>2 DEF GInv, ShapeInv
<1>5. CASE /\ opened.ok /\ main' = [main EXCEPT !.wallet = opened.wallet]
           /\ Goto("MakeKeys") /\ UNCHANGED disk
  <2> DEFINE o == opened.wallet
  <2>1. Loaded(o, main.contents) /\ o.password = main.password /\ WalletOK(o)
    BY <1>1, <1>5, SetStringLoads
  <2> HIDE DEF o
  <2>2. Holds(o, main.contents, main.password)
    BY <2>1 DEF Holds, Loaded
  <2>3. main' = [main EXCEPT !.wallet = o]
    BY <1>5 DEF o
  <2>4. /\ main' = [contents |-> main'.contents, password |-> main'.password,
                    wallet |-> main'.wallet, gen |-> main'.gen, rec |-> main'.rec]
        /\ main'.contents = main.contents /\ main'.password = main.password
        /\ main'.wallet = o
    BY <2>3 DEF GInv, ShapeInv
  <2> QED
    BY <1>3, <1>5, <2>1, <2>2, <2>4, SMT
<1> QED
  BY <1>2, <1>4, <1>5 DEF DecryptWallet

\* makeNewKey keeps what main's wallet holds, and gives it a password.
LEMMA MakeKeyHolds ==
    ASSUME NEW w, NEW n, NEW f, NEW password, NEW usage, NEW random, random # NoPassword,
           Holds(w, f, password), NewKeyMade(n, w, usage, random), WalletOK(w)
    PROVE  /\ Holds(n, f, password) /\ n.password # NoPassword
           /\ itersOK(n.kdfIters) => 1 \in DOMAIN n.keys /\ n.keys[1].usage = usage
<1>1. n.password # NoPassword
  BY DEF NewKeyMade
<1>2. CASE n.keys = w.keys /\ ~itersOK(w.kdfIters)
  <2>1. w.password # NoPassword => n.password = w.password
    BY DEF NewKeyMade
  <2> QED
    BY <1>1, <1>2, <2>1 DEF Holds, NewKeyMade
<1>3. ASSUME NEW e, Pushed(n.keys, e, w.keys), e.usage = usage, e.format # "none",
             Opens(e, n.password)
      PROVE  /\ Holds(n, f, password)
             /\ 1 \in DOMAIN n.keys /\ n.keys[1].usage = usage
  <2>1. /\ 1 \in DOMAIN n.keys /\ n.keys[1] = e
        /\ \A i \in DOMAIN w.keys : i + 1 \in DOMAIN n.keys /\ n.keys[i + 1] = w.keys[i]
        /\ \A i \in DOMAIN n.keys : i = 1 \/ (i - 1 \in DOMAIN w.keys /\ n.keys[i] = w.keys[i - 1])
    <3>1. w.keys \in Seq(Range(w.keys))
      BY DEF WalletOK, Entries
    <3> QED BY <1>3, <3>1, SMT DEF Pushed
  <2>2. \A i \in DOMAIN n.keys : n.keys[i].format # "none"
    BY <1>3, <2>1, SMT DEF Holds
  <2>3. ASSUME NEW i \in DOMAIN f.keys
        PROVE  \E j \in DOMAIN n.keys : n.keys[j] = f.keys[i]
    BY <2>1, SMT DEF Holds
  <2> QED
    BY <1>1, <1>3, <2>1, <2>2, <2>3, SMT DEF Holds
<1> QED
  BY <1>1, <1>2, <1>3 DEF NewKeyMade

\* makeNewKey puts the validator and then the specie key in front of the entries.
LEMMA MakeKeysInv == GInv /\ MakeKeys => GInv'
<1> SUFFICES ASSUME GInv, MakeKeys
             PROVE  GInv'
  OBVIOUS
<1> DEFINE tmp == <<"temporary", fresh>>
           tmp2 == <<"temporary", fresh + 1>>
           v == makeNewKey(main.wallet, "validator", saltOf(args.salt, <<"random", fresh>>),
                           fresh, tmp)
           s == makeNewKey(v, "specie", saltOf(args.salt, <<"random", fresh + 1>>),
                           fresh + 1, tmp2)
<1>1. /\ pc = "MakeKeys" /\ Holds(main.wallet, main.contents, main.password)
      /\ WalletOK(main.wallet)
  BY DEF MakeKeys, GInv, LocalsInv, ShapeInv, HasWallet
<1>2. CASE Return("MakeKey") /\ UNCHANGED disk
  BY <1>2, ReturnSameDisk DEF Codes
<1>3. CASE main' = [main EXCEPT !.wallet = s] /\ Goto("MakeBlocks") /\ UNCHANGED disk
  <2>1. tmp # NoPassword /\ tmp2 # NoPassword
    BY DEF NoPassword
  <2>2. "validator" \in KeyUsages /\ "specie" \in KeyUsages
    BY DEF KeyUsages
  <2> HIDE DEF tmp, tmp2
  <2>3. NewKeyMade(v, main.wallet, "validator", tmp)
    BY <1>1, <2>1, <2>2, MakesNewKey
  <2>4. WalletOK(v) /\ Holds(v, main.contents, main.password)
    BY <1>1, <2>1, <2>3, MakeKeyHolds, SMT DEF NewKeyMade
  <2> HIDE DEF v
  <2>5. NewKeyMade(s, v, "specie", tmp2)
    BY <2>1, <2>2, <2>4, MakesNewKey
  <2> HIDE DEF s
  <2>6. /\ WalletOK(s) /\ Holds(s, main.contents, main.password)
        /\ itersOK(s.kdfIters) => 1 \in DOMAIN s.keys /\ s.keys[1].usage = "specie"
    <3>1. WalletOK(s)
      BY <2>5 DEF NewKeyMade
    <3> QED BY <2>1, <2>4, <2>5, <3>1, MakeKeyHolds
  <2>7. /\ main' = [contents |-> main'.contents, password |-> main'.password,
                    wallet |-> main'.wallet, gen |-> main'.gen, rec |-> main'.rec]
        /\ main'.contents = main.contents /\ main'.password = main.password
        /\ main'.wallet = s
    BY <1>3, SMT DEF GInv, ShapeInv
  <2>8. ShapeInv' /\ SuccessInv'
    BY <1>1, <1>3, <2>6, <2>7, GotoShape
       DEF GInv, ShapeInv, Steps, HasContents, HasPassword, HasWallet, HasKeys
  <2>9. pc' = "MakeBlocks" /\ args' = args
    BY <1>3, SMT DEF Goto
  <2>10. LocalsInv' /\ BlocksInv'
    BY <1>1, <1>3, <2>6, <2>7, <2>9
       DEF GInv, LocalsInv, BlocksInv, HasContents, HasPassword, HasWallet, HasKeys,
           HasBlocks, WroteGenesis
  <2> QED
    BY <2>8, <2>10 DEF GInv
<1> QED
  BY <1>2, <1>3 DEF MakeKeys

\* main takes both blocks from one wallet, which has a validator key.
LEMMA MakeBlocksInv == GInv /\ MakeBlocks => GInv'
<1> SUFFICES ASSUME GInv, MakeBlocks
             PROVE  GInv'
  OBVIOUS
<1> DEFINE g == genesisOf(main.wallet, args.greed)
           r == reconciliationOf(main.wallet, g)
<1>1. pc = "MakeBlocks"
  BY DEF MakeBlocks
<1>2. CASE Return("killed") /\ UNCHANGED disk
  BY <1>2, ReturnSameDisk, SMT DEF Codes
<1>3. CASE /\ getLatestKey(main.wallet, "validator") # Null
           /\ main' = [main EXCEPT !.gen = g, !.rec = r]
           /\ Goto("OutputDir") /\ UNCHANGED disk
  <2> HIDE DEF r
  <2>1. main' = [contents |-> main.contents, password |-> main.password,
                 wallet |-> main.wallet, gen |-> g, rec |-> r]
    <3> HIDE DEF g
    <3> QED BY <1>3 DEF GInv, ShapeInv
  <2>2. /\ main' = [contents |-> main'.contents, password |-> main'.password,
                    wallet |-> main'.wallet, gen |-> main'.gen, rec |-> main'.rec]
        /\ main'.contents = main.contents /\ main'.password = main.password
        /\ main'.wallet = main.wallet /\ main'.gen = g /\ main'.rec = r
    <3> HIDE DEF g
    <3> QED BY <2>1
  <2>3. ShapeInv' /\ SuccessInv'
    BY <1>1, <1>3, <2>2, GotoShape, SMT
       DEF GInv, ShapeInv, Steps, HasContents, HasPassword, HasWallet, HasKeys, HasBlocks
  <2>4. pc' = "OutputDir" /\ args' = args
    BY <1>3 DEF Goto
  <2>5. LocalsInv'
    BY <1>1, <1>3, <2>2, <2>4, ZenonT(30)
       DEF GInv, LocalsInv, HasContents, HasPassword, HasWallet, HasKeys, HasBlocks,
           WroteGenesis
  <2>6. BlocksInv'
    BY <1>3, <2>2, <2>4 DEF BlocksInv, WroteGenesis, r
  <2> QED
    BY <2>3, <2>5, <2>6 DEF GInv
<1> QED
  BY <1>2, <1>3 DEF MakeBlocks

\* What the steps that write files leave alone.
LEMMA WriteLocals ==
    ASSUME GInv, pc \in HasBlocks, NEW step \in HasBlocks, Goto(step), main' = main,
           disk' = [wallet |-> disk'.wallet, dir |-> disk'.dir,
                    genesis |-> disk'.genesis, recon |-> disk'.recon],
           disk'.wallet = disk.wallet
    PROVE  ShapeInv' /\ SuccessInv' /\ LocalsInv'
<1>1. pc # "idle" /\ step # "idle" /\ step \in Steps
  BY DEF Steps, HasContents, HasPassword, HasWallet, HasKeys, HasBlocks, WroteGenesis
<1>2. ShapeInv' /\ SuccessInv'
  BY <1>1, GotoShape DEF GInv, ShapeInv
<1>3. pc' = step /\ args' = args
  BY DEF Goto
<1>4. LocalsInv'
  BY <1>3 DEF GInv, LocalsInv, HasContents, HasPassword, HasWallet, HasKeys, HasBlocks,
              WroteGenesis
<1> QED BY <1>2, <1>4

\* Making the output directory touches no file.
LEMMA OutputDirInv == GInv /\ OutputDir => GInv'
<1> SUFFICES ASSUME GInv, OutputDir
             PROVE  GInv'
  OBVIOUS
<1>1. pc = "OutputDir"
  BY DEF OutputDir
<1>2. PICK result : /\ disk' = [disk EXCEPT !.dir = result.dir]
                    /\ IF result.ok THEN Goto("WriteGenesis") /\ UNCHANGED <<main, fresh>>
                       ELSE Return("CreateOutputDir")
  BY DEF OutputDir
<1>3. /\ disk' = [wallet |-> disk'.wallet, dir |-> disk'.dir,
                  genesis |-> disk'.genesis, recon |-> disk'.recon]
      /\ disk'.wallet = disk.wallet
  BY <1>2 DEF GInv, ShapeInv
<1>4. CASE Return("CreateOutputDir")
  BY <1>3, <1>4, ReturnInv DEF GInv, ShapeInv, Codes
<1>5. CASE Goto("WriteGenesis") /\ UNCHANGED main
  <2>1. ShapeInv' /\ SuccessInv' /\ LocalsInv'
    BY <1>1, <1>3, <1>5, WriteLocals DEF HasBlocks
  <2>2. BlocksInv'
    BY <1>1, <1>5, SMT DEF Goto, GInv, BlocksInv, HasBlocks, WroteGenesis
  <2> QED BY <2>1, <2>2, SMT DEF GInv
<1> QED
  BY <1>2, <1>4, <1>5

\* The genesis file is the encoded genesis block, or main returns.
LEMMA WriteGenesisInv == GInv /\ WriteGenesis => GInv'
<1> SUFFICES ASSUME GInv, WriteGenesis
             PROVE  GInv'
  OBVIOUS
<1> DEFINE data == genesisBytes(main.gen)
<1>1. pc = "WriteGenesis"
  BY DEF WriteGenesis
<1>2. PICK result \in write(disk.genesis, data, tornBlock) :
          /\ disk' = [disk EXCEPT !.genesis = result.file]
          /\ IF result.ok THEN Goto("WriteRecon") /\ UNCHANGED <<main, fresh>>
             ELSE Return("WriteBlock")
  BY DEF WriteGenesis, genesisBytes
<1>3. /\ disk' = [wallet |-> disk'.wallet, dir |-> disk'.dir,
                  genesis |-> disk'.genesis, recon |-> disk'.recon]
      /\ disk'.wallet = disk.wallet /\ disk'.genesis = result.file
  BY <1>2, SMT DEF GInv, ShapeInv
<1>4. CASE Return("WriteBlock")
  BY <1>3, <1>4, ReturnInv DEF GInv, ShapeInv, Codes
<1>5. CASE result.ok /\ Goto("WriteRecon") /\ UNCHANGED main
  <2>1. ShapeInv' /\ SuccessInv' /\ LocalsInv'
    BY <1>1, <1>3, <1>5, WriteLocals DEF HasBlocks, WroteGenesis
  <2>2. result.file = data
    BY <1>2, <1>5, SMT DEF write
  <2>3. BlocksInv'
    BY <1>1, <1>3, <1>5, <2>2 DEF Goto, GInv, BlocksInv, HasBlocks, WroteGenesis
  <2> QED BY <2>1, <2>3, SMT DEF GInv
<1> QED
  BY <1>2, <1>4, <1>5

\* The reconciliation file is the encoded block, or main returns.
LEMMA WriteReconInv == GInv /\ WriteRecon => GInv'
<1> SUFFICES ASSUME GInv, WriteRecon
             PROVE  GInv'
  OBVIOUS
<1> DEFINE data == reconBytes(main.rec)
<1>1. pc = "WriteRecon"
  BY DEF WriteRecon
<1>2. PICK result \in write(disk.recon, data, tornBlock) :
          /\ disk' = [disk EXCEPT !.recon = result.file]
          /\ IF result.ok THEN Goto("WriteWallet") /\ UNCHANGED <<main, fresh>>
             ELSE Return("WriteBlock")
  BY DEF WriteRecon, reconBytes
<1>3. /\ disk' = [wallet |-> disk'.wallet, dir |-> disk'.dir,
                  genesis |-> disk'.genesis, recon |-> disk'.recon]
      /\ disk'.wallet = disk.wallet /\ disk'.genesis = disk.genesis
      /\ disk'.recon = result.file
  BY <1>2, SMT DEF GInv, ShapeInv
<1>4. CASE Return("WriteBlock")
  BY <1>3, <1>4, ReturnInv DEF GInv, ShapeInv, Codes
<1>5. CASE result.ok /\ Goto("WriteWallet") /\ UNCHANGED main
  <2>1. ShapeInv' /\ SuccessInv' /\ LocalsInv'
    BY <1>1, <1>3, <1>5, WriteLocals DEF HasBlocks, WroteGenesis
  <2>2. result.file = data
    BY <1>2, <1>5, SMT DEF write
  <2>3. BlocksInv'
    BY <1>1, <1>3, <1>5, <2>2 DEF Goto, GInv, BlocksInv, HasBlocks, WroteGenesis
  <2> QED BY <2>1, <2>3, SMT DEF GInv
<1> QED
  BY <1>2, <1>4, <1>5

\* What FileTools::write leaves when it is cut off is still a wallet file.
LEMMA TornWalletFile == \A t \in tornWallet : WalletFile(t)
<1> DEFINE partial == [emptyString EXCEPT !.kind = "partial"]
<1>1. /\ partial = [kind |-> "partial", iters |-> emptyString.iters,
                    defaultFormat |-> emptyString.defaultFormat, keys |-> emptyString.keys]
      /\ emptyString.keys = <<>>
  BY SMT DEF emptyString
<1>2. emptyString.defaultFormat \in EncFormats
  BY EmptyStringOK DEF WalletFile
<1> HIDE DEF partial
<1>3. partial.keys = <<>> /\ partial.defaultFormat \in EncFormats
  BY <1>1, <1>2
<1>4. <<>> \in Seq(Range(<<>>)) /\ DOMAIN <<>> = {}
  BY SMT
<1>5. WalletFile(partial)
  <2>1. partial = [kind |-> partial.kind, iters |-> partial.iters,
                   defaultFormat |-> partial.defaultFormat, keys |-> partial.keys]
    BY <1>1
  <2> QED BY <1>3, <1>4, <2>1 DEF WalletFile
<1> QED
  BY <1>5, EmptyStringOK DEF tornWallet, partial

\* The state in which main returns error::Success.
LEMMA SuccessLeft ==
    ASSUME GInv, pc = "WriteWallet", getString(main.wallet, main.password) # emptyString,
           NEW d, d.wallet = getString(main.wallet, main.password),
           d.genesis = disk.genesis, d.recon = disk.recon
    PROVE  Left(d, args)
<1> DEFINE w == main.wallet
           f == getString(main.wallet, main.password)
           gs == decode_Block(d.genesis, Block_new).genesis
           rs == decode_Block(d.recon, Block_new).reconciliation
<1>1. /\ WalletOK(w) /\ Holds(w, main.contents, main.password)
      /\ itersOK(w.kdfIters) => 1 \in DOMAIN w.keys /\ w.keys[1].usage = "specie"
      /\ getLatestKey(w, "validator") # Null
      /\ args.typed \in Passwords /\ args.greed \in Greeds /\ args.greed >= GREED_MINIMUM
      /\ main.password = IF args.prompt THEN args.typed ELSE NoPassword
  BY DEF GInv, ShapeInv, LocalsInv, BlocksInv, HasPassword, HasWallet, HasKeys, HasBlocks,
         WroteGenesis
<1>2. /\ d.genesis = genesisBytes(genesisOf(w, args.greed))
      /\ d.recon = reconBytes(reconciliationOf(w, genesisOf(w, args.greed)))
  BY DEF GInv, BlocksInv, HasBlocks, WroteGenesis
<1>3. WrittenFile(f, w, main.password)
  BY <1>1, GetStringWrites
<1>4. ASSUME args.greed <= LongMax
      PROVE  ChainOf(gs, rs)
  <2>1. args.greed \in Nat /\ GREED_MINIMUM <= args.greed
    BY <1>1, ToolAssumption DEF GREED_MINIMUM
  <2> QED
    BY <1>1, <1>2, <1>4, <2>1, BlocksVerify, SMT
<1>5. /\ gs[1].creator = getLatestAddressBin(w, "specie")
      /\ gs[1].validatorKey = getLatestPublicKey(w, "validator")
      /\ gs[1].stakeAddress = getLatestAddressBin(w, "validator")
  BY <1>2, GenesisNames, SMT
<1>6. ASSUME args.prompt
      PROVE  /\ StakeRecovers(f, args.typed, gs[1].validatorKey, gs[1].stakeAddress)
             /\ itersOK(f.iters) => CreatorRecovers(f, args.typed, gs[1].creator)
  <2>1. main.password = args.typed /\ args.typed # NoPassword
    BY <1>1, <1>6, ToolAssumption
  <2>2. Readable(w)
    BY <1>1, <2>1 DEF Readable, Holds
  <2>3. f.iters = w.kdfIters
    BY <1>3 DEF WrittenFile
  <2> HIDE DEF f, gs, w
  <2>4. StakeRecovers(f, args.typed, gs[1].validatorKey, gs[1].stakeAddress)
    BY <1>1, <1>3, <1>5, <2>1, <2>2, WrittenStake, SMT
  <2>5. ASSUME itersOK(f.iters)
        PROVE  CreatorRecovers(f, args.typed, gs[1].creator)
    BY <1>1, <1>3, <1>5, <2>1, <2>2, <2>3, <2>5, WrittenCreator, SMT
  <2> QED BY <2>4, <2>5
<1> QED
  BY <1>4, <1>6 DEF Left

\* Wallet::getString and the last write: the only step to error::Success.
LEMMA WriteWalletInv == GInv /\ WriteWallet => GInv'
<1> SUFFICES ASSUME GInv, WriteWallet
             PROVE  GInv'
  OBVIOUS
<1> DEFINE data == getString(main.wallet, main.password)
<1>1. pc = "WriteWallet"
  BY DEF WriteWallet
<1>2. CASE Return("SerializeWallet") /\ UNCHANGED disk
  BY <1>2, ReturnSameDisk DEF Codes
<1>3. ASSUME data # emptyString, NEW result \in write(disk.wallet, data, tornWallet),
             disk' = [disk EXCEPT !.wallet = result.file],
             Return(IF result.ok THEN "Success" ELSE "WriteWallet")
      PROVE  GInv'
  <2>1. /\ disk' = [wallet |-> disk'.wallet, dir |-> disk'.dir,
                    genesis |-> disk'.genesis, recon |-> disk'.recon]
        /\ disk'.wallet = result.file /\ disk'.genesis = disk.genesis
        /\ disk'.recon = disk.recon
    BY <1>3 DEF GInv, ShapeInv
  <2>2. /\ result.file \in {disk.wallet, data} \cup tornWallet
        /\ result.ok => result.file = data
    BY <1>3, SMT DEF write
  <2>3. WalletFile(data)
    BY <1>3, GetStringWrites DEF GInv, ShapeInv, WrittenFile
  <2>4. WalletFile(disk'.wallet)
    BY <2>1, <2>2, <2>3, TornWalletFile, SMT DEF GInv, ShapeInv
  <2>5. CASE result.ok
    <3>1. disk'.wallet = data
      BY <2>1, <2>2, <2>5, SMT
    <3>2. Left(disk', args)
      BY <1>1, <1>3, <2>1, <3>1, SuccessLeft
    <3> QED
      BY <1>3, <2>1, <2>4, <2>5, <3>2, ReturnInv DEF GInv, Codes
  <2>6. CASE ~result.ok
    BY <1>3, <2>1, <2>4, <2>6, ReturnInv, SMT DEF GInv, Codes
  <2> QED BY <2>5, <2>6
<1> QED
  BY <1>2, <1>3 DEF WriteWallet

\* A kill leaves every file as it was or torn, and main's wallet is gone.
LEMMA KillInv == GInv /\ Kill => GInv'
<1> SUFFICES ASSUME GInv, Kill
             PROVE  GInv'
  OBVIOUS
<1>1. /\ disk' = [wallet |-> disk'.wallet, dir |-> disk'.dir,
                  genesis |-> disk'.genesis, recon |-> disk'.recon]
      /\ disk'.wallet = disk.wallet \/ disk'.wallet \in tornWallet
  BY DEF Kill, GInv, ShapeInv
<1>2. WalletFile(disk'.wallet)
  BY <1>1, TornWalletFile DEF GInv, ShapeInv
<1> QED
  BY <1>1, <1>2, ReturnInv DEF Kill, GInv, Codes

\* The p2p service only reads the wallet file.
LEMMA P2pInv ==
    ASSUME GInv, p2p'.state \in {"down", "up", "paused", "failed"},
           UNCHANGED <<disk, pc, args, main, exit>>
    PROVE  GInv'
<1>1. disk' = disk /\ pc' = pc /\ args' = args /\ main' = main /\ exit' = exit
  OBVIOUS
<1>2. ShapeInv'
  BY <1>1 DEF GInv, ShapeInv
<1>3. LocalsInv'
  BY <1>1 DEF GInv, LocalsInv
<1>4. BlocksInv'
  BY <1>1 DEF GInv, BlocksInv
<1>5. SuccessInv'
  BY <1>1 DEF GInv, SuccessInv
<1> QED BY <1>2, <1>3, <1>4, <1>5 DEF GInv

\* Before the first run: an initial wallet file and no blocks.
LEMMA InitInv == Init => GInv
<1> SUFFICES ASSUME Init
             PROVE  GInv
  OBVIOUS
<1>1. /\ disk = [wallet |-> disk.wallet, dir |-> disk.dir,
                 genesis |-> disk.genesis, recon |-> disk.recon]
      /\ disk.wallet \in InitialWallets
  BY DEF Init
<1>2. pc = "idle" /\ main = noLocals /\ exit = "none" /\ p2p.state = "down"
  BY DEF Init
<1>3. ShapeInv
  BY <1>1, <1>2, NoLocals, ToolAssumption DEF ShapeInv, Steps, Codes
<1>4. LocalsInv /\ BlocksInv /\ SuccessInv
  BY <1>2 DEF LocalsInv, BlocksInv, SuccessInv, HasContents, HasPassword, HasWallet, HasKeys,
              HasBlocks, WroteGenesis
<1> QED BY <1>3, <1>4 DEF GInv

\* Every step of main, a kill, and every step of the p2p service keep the invariant.
LEMMA NextInv == GInv /\ [Next]_vars => GInv'
<1> SUFFICES ASSUME GInv, [Next]_vars
             PROVE  GInv'
  OBVIOUS
<1>1. CASE \E paused \in BOOLEAN, password \in Passwords, address \in {<<>>} \cup Addresses :
               StartP2p(paused, password, address)
  <2>1. PICK paused, password, address : StartP2p(paused, password, address)
    BY <1>1
  <2>2. p2p'.state \in {"up", "paused", "failed"}
    BY <2>1 DEF StartP2p, preInit
  <2> QED
    BY <2>1, <2>2, P2pInv DEF StartP2p
<1>2. CASE StopP2p
  BY <1>2, P2pInv DEF StopP2p
<1>3. CASE UNCHANGED vars
  BY <1>3, P2pInv DEF vars, GInv, ShapeInv
<1> QED
  BY <1>1, <1>2, <1>3, StartInv, ReadWalletInv, GetPasswordInv, DecryptWalletInv, MakeKeysInv,
     MakeBlocksInv, OutputDirInv, WriteGenesisInv, WriteReconInv, WriteWalletInv, KillInv, SMT
     DEF Next

-----------------------------------------------------------------------------
(* The theorems. *)

\* The invariant holds in every state of the tool, its disk and the p2p service.
THEOREM ToolInvariant == Spec => []GInv
  BY InitInv, NextInv, PTL DEF Spec

\* Whatever wallet files, passwords, salts and greeds there are and however
\* often the tool is started and killed, every entry of the wallet on the disk
\* and in memory is a key under its label and with its address.
THEOREM ToolTypes == Spec => []GTypeOK
<1>1. GInv => GTypeOK
  BY ZenonT(30) DEF GInv, ShapeInv, GTypeOK, WalletFile, WalletOK, Entries, Entry
<1> QED BY <1>1, ToolInvariant, PTL

\* The block files of every successful run of cli/genesis.cpp, for every greed
\* from GREED_MINIMUM to the largest long, are a chain that verifies.
THEOREM ChainIsVerified == Spec => []ChainVerifies
<1>1. GInv => ChainVerifies
  BY DEF GInv, SuccessInv, Left, ChainOf, ChainVerifies, genesisOnDisk, reconOnDisk
<1> QED BY <1>1, ToolInvariant, PTL

\* Both keys of the genesis block come out of the wallet file of every
\* successful run with a prompt, under the password typed there.
THEOREM WalletIsRecovered == Spec => []WalletRecovers
<1>1. GInv => WalletRecovers
  BY DEF GInv, SuccessInv, Left, StakeRecovers, CreatorRecovers, WalletRecovers,
               genesisOnDisk
<1> QED BY <1>1, ToolInvariant, PTL

\* preInit finds the key of the genesis block in the wallet of a successful run.
LEMMA StakeKeyStep ==
    ASSUME GInv, exit = "Success", args.prompt, StartP2p(FALSE, args.typed, <<>>)
    PROVE  /\ p2p'.state = "up"
           /\ p2p'.key.pub = genesisOnDisk[1].validatorKey
           /\ Address_unprintable(p2p'.key.address) = genesisOnDisk[1].stakeAddress
<1> DEFINE opened == setString(Wallet_new, disk.wallet, args.typed)
           address == getLatestAddress(opened.wallet, "validator")
           key == getLatestKey(opened.wallet, "validator")
           found == StakeKey_setKey(address, key)
<1>1. StakeRecovers(disk.wallet, args.typed, genesisOnDisk[1].validatorKey,
                    genesisOnDisk[1].stakeAddress)
  BY DEF GInv, SuccessInv, Left, genesisOnDisk
<1>2. /\ opened.ok /\ key # Null /\ address # <<>>
      /\ getLatestPublicKey(opened.wallet, "validator") = genesisOnDisk[1].validatorKey
      /\ Address_unprintable(address) = genesisOnDisk[1].stakeAddress
  BY <1>1 DEF StakeRecovers, getLatestAddressBin
<1>3. disk.wallet.kind = "json"
  BY <1>2, SetStringLoads DEF GInv, ShapeInv, Loaded
<1>4. toPublic(key[1]) = genesisOnDisk[1].validatorKey
  BY <1>2 DEF getLatestPublicKey
<1>5. stakeKeyOf(opened.wallet, <<>>) = found
  BY DEF stakeKeyOf
<1> HIDE DEF address, key
<1>6. found.address = address /\ found.key = key /\ found.pub = toPublic(key[1])
  BY <1>2 DEF StakeKey_setKey
<1> HIDE DEF found
<1>7. preInit(FALSE, args.typed, <<>>) = [state |-> "up", key |-> found]
  <2>1. disk.wallet.kind # "absent"
    BY <1>3
  <2> QED BY <1>2, <1>5, <1>6, <2>1 DEF preInit
<1>8. p2p' = [state |-> "up", key |-> found]
  BY <1>7 DEF StartP2p
<1>9. p2p'.state = "up" /\ p2p'.key = found
  BY <1>8
<1> QED
  BY <1>2, <1>4, <1>6, <1>9

\* A service started on the wallet of a successful run always comes up with the
\* stake key of that run's genesis block.
THEOREM StakeKeyIsOwner == Spec => StakeKeyOwnsChain
<1>1. GInv /\ [Next]_vars =>
      [/\ p2p' # p2p
       /\ exit = "Success" /\ args.prompt
       /\ \E password \in {args.typed} : StartP2p(FALSE, password, <<>>)
       =>
          /\ p2p'.state = "up"
          /\ p2p'.key.pub = genesisOnDisk[1].validatorKey
          /\ Address_unprintable(p2p'.key.address) = genesisOnDisk[1].stakeAddress]_vars
  BY StakeKeyStep
<1> QED BY <1>1, ToolInvariant, PTL DEF Spec, StakeKeyOwnsChain

\* Only the last write, and a kill during it, change the wallet file.
LEMMA WalletWriters ==
    ASSUME GInv, Next, disk'.wallet # disk.wallet
    PROVE  /\ pc = "WriteWallet"
           /\ \/ disk'.wallet \in tornWallet
              \/ /\ disk'.wallet = getString(main.wallet, main.password)
                 /\ getString(main.wallet, main.password) # emptyString
<1> DEFINE data == getString(main.wallet, main.password)
<1>1. disk' # disk
  OBVIOUS
<1>2. CASE WriteWallet
  <2>1. PICK result \in write(disk.wallet, data, tornWallet) :
            disk' = [disk EXCEPT !.wallet = result.file] /\ data # emptyString
    BY <1>1, <1>2 DEF WriteWallet
  <2>2. disk'.wallet = result.file
    BY <2>1 DEF GInv, ShapeInv
  <2>3. result.file \in {disk.wallet, data} \cup tornWallet
    BY SMT DEF write
  <2> QED
    BY <1>2, <2>1, <2>2, <2>3, SMT DEF WriteWallet
<1>3. CASE Kill
  BY <1>3 DEF Kill, GInv, ShapeInv
<1>4. CASE OutputDir \/ WriteGenesis \/ WriteRecon
  <2>1. disk'.wallet = disk.wallet
    BY <1>4 DEF OutputDir, WriteGenesis, WriteRecon, GInv, ShapeInv
  <2> QED BY <2>1
<1>5. CASE Start \/ StopP2p \/ ReadWallet \/ GetPassword
  BY <1>1, <1>5 DEF Start, StopP2p, ReadWallet, GetPassword
<1>6. CASE DecryptWallet \/ MakeKeys \/ MakeBlocks
  BY <1>1, <1>6 DEF DecryptWallet, MakeKeys, MakeBlocks
<1>7. CASE \E paused \in BOOLEAN, password \in Passwords, address \in {<<>>} \cup Addresses :
               StartP2p(paused, password, address)
  BY <1>1, <1>7 DEF StartP2p
<1> QED
  BY <1>2, <1>3, <1>4, <1>5, <1>6, <1>7, SMT DEF Next

\* getString keeps the keys of the file that setString read.
LEMMA KeysKept ==
    ASSUME GInv, pc = "WriteWallet", ~args.tilde,
           getString(main.wallet, main.password) # emptyString
    PROVE  KeysIn(disk.wallet) \subseteq KeysIn(getString(main.wallet, main.password))
<1> DEFINE w == main.wallet
           f == getString(main.wallet, main.password)
           old == disk.wallet
<1>1. /\ WalletOK(w) /\ Holds(w, main.contents, main.password) /\ WalletFile(old)
      /\ main.contents = IF exists(old, args.tilde) THEN old ELSE emptyString
  BY DEF GInv, ShapeInv, LocalsInv, HasContents, HasPassword, HasWallet, HasKeys, HasBlocks,
         WroteGenesis
<1>2. WrittenFile(f, w, main.password)
  BY <1>1, GetStringWrites
<1>3. \A i \in DOMAIN old.keys : main.contents = old
  BY <1>1, SMT DEF exists, WalletFile
<1> HIDE DEF f, w, old
<1> SUFFICES ASSUME NEW i \in DOMAIN old.keys
             PROVE  <<old.keys[i].address, keyIn(old.keys[i].priv)>> \in KeysIn(f)
  BY DEF KeysIn, old, f
<1>4. PICK j \in DOMAIN w.keys : w.keys[j] = old.keys[i]
  BY <1>1, <1>3 DEF Holds
<1>5. /\ j \in DOMAIN f.keys /\ f.keys[j].address = old.keys[i].address
      /\ keyIn(f.keys[j].priv) = keyIn(old.keys[i].priv)
  BY <1>2, <1>4 DEF WrittenFile, Written
<1> QED
  BY <1>5 DEF KeysIn

\* The wallet file is written last, and a whole new one keeps every key.
THEOREM WalletIsKept == Spec => WalletKept
<1>1. ASSUME GInv, Next, disk'.wallet # disk.wallet
      PROVE  /\ pc = "WriteWallet"
             /\ Len(genesisOnDisk) = 1 /\ Len(reconOnDisk) = 1
             /\ ~args.tilde /\ disk'.wallet.kind = "json" =>
                    KeysIn(disk.wallet) \subseteq KeysIn(disk'.wallet)
  <2>1. /\ pc = "WriteWallet"
        /\ \/ disk'.wallet \in tornWallet
           \/ /\ disk'.wallet = getString(main.wallet, main.password)
              /\ getString(main.wallet, main.password) # emptyString
    BY <1>1, WalletWriters
  <2>2. /\ disk.genesis = genesisBytes(genesisOf(main.wallet, args.greed))
        /\ disk.recon = reconBytes(reconciliationOf(main.wallet, main.gen))
    BY <1>1, <2>1 DEF GInv, BlocksInv, HasBlocks, WroteGenesis
  <2>3. Len(genesisOnDisk) = 1
    BY <2>2, GenesisNames, SMT DEF genesisOnDisk
  <2>4. reconOnDisk = <<reconciliationOf(main.wallet, main.gen)>>
    BY <2>2, ReconOne DEF reconOnDisk
  <2>5. Len(reconOnDisk) = 1
    BY <2>4
  <2>6. \A t \in tornWallet : t.kind # "json"
    BY EmptyStringOK DEF tornWallet, emptyString
  <2>7. ~args.tilde /\ disk'.wallet.kind = "json" =>
            KeysIn(disk.wallet) \subseteq KeysIn(disk'.wallet)
    BY <1>1, <2>1, <2>6, KeysKept
  <2> QED BY <2>1, <2>3, <2>5, <2>7, SMT
<1>2. GInv /\ [Next]_vars =>
      [disk'.wallet # disk.wallet =>
        /\ pc = "WriteWallet"
        /\ Len(genesisOnDisk) = 1 /\ Len(reconOnDisk) = 1
        /\ ~args.tilde /\ disk'.wallet.kind = "json" =>
              KeysIn(disk.wallet) \subseteq KeysIn(disk'.wallet)]_disk
  BY <1>1 DEF vars
<1> QED BY <1>2, ToolInvariant, PTL DEF Spec, WalletKept

=============================================================================
