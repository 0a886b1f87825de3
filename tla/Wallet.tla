------------------------------- MODULE Wallet -------------------------------
(***************************************************************************)
(* alg::Wallet and what it rests on: Curve25519 keys, the two encryptions  *)
(* of a private key (ossl/PbkdfKey, ossl/Pkcs8Key) and addresses           *)
(* (alg/Address).                                                          *)
(*                                                                         *)
(* A private key is a number.  An encrypted key is a record of what it was *)
(* made from; the ciphers are ideal: what one password enciphered or       *)
(* signed, no other one deciphers or verifies.  A pointer that may be null *)
(* is a sequence of at most one element.  Base64 and the JSON layout carry *)
(* nothing that the operations tell apart, except that a file may not be   *)
(* JSON at all.                                                            *)
(***************************************************************************)
EXTENDS Integers, Sequences, FiniteSetsExt

CONSTANTS
    KDF_ITERS_MIN,
    KDF_ITERS_MAX,
    KDF_ITERS_DEFAULT

ASSUME ItersAssumption ==
    /\ KDF_ITERS_MIN \in Nat /\ KDF_ITERS_MAX \in Nat
    /\ KDF_ITERS_DEFAULT \in KDF_ITERS_MIN .. KDF_ITERS_MAX

NoPassword == <<>>
Null == <<>>

EncFormats == {"none", "clear", "fcpbkdf", "pkcs8"}
KeyUsages == {"none", "specie", "validator"}

-----------------------------------------------------------------------------
\* Curve25519.  The public point of a key; a private key as its bytes.
toPublic(key) == <<"public", key>>

toPrivate(key) == [format |-> "clear", key |-> key]

\* Refuses what has not the length of a private point.
fromPrivate(priv) == IF priv.format = "clear" THEN <<priv.key>> ELSE Null

sign(key, data) == <<"signature", key, data>>

verify(pub, data, signature) ==
    Len(signature) = 3 /\ toPublic(signature[2]) = pub /\ signature[3] = data

itersOK(iters) == iters \in KDF_ITERS_MIN .. KDF_ITERS_MAX

\* One key to encipher with and one to sign with.
pbkdf(pass, iters) == [dek |-> <<"dek", pass, iters>>, mak |-> <<"mak", pass, iters>>]

PbkdfKey_sign(content, mak) == <<"cmac", content, mak>>

PbkdfKey_wrap(key, pass, iters) ==
    LET keys == pbkdf(pass, iters)
        content == [iters |-> iters, payload |-> [dek |-> keys.dek, key |-> key]]
    IN  IF pass # NoPassword /\ itersOK(iters)
        THEN <<[format |-> "fcpbkdf", content |-> content,
                signature |-> PbkdfKey_sign(content, keys.mak)]>>
        ELSE Null

\* The structure, its iteration count and its CMAC are checked before the
\* payload is deciphered.
PbkdfKey_unwrap(data, pass) ==
    LET keys == pbkdf(pass, data.content.iters)
    IN  IF /\ pass # NoPassword
           /\ data.format = "fcpbkdf"
           /\ itersOK(data.content.iters)
           /\ data.signature = PbkdfKey_sign(data.content, keys.mak)
           /\ data.content.payload.dek = keys.dek
        THEN <<data.content.payload.key>>
        ELSE Null

\* No check of the password: the empty one will do.
Pkcs8Key_wrap(key, pass, iters) ==
    IF itersOK(iters)
    THEN <<[format |-> "pkcs8", key |-> key, pass |-> pass]>>
    ELSE Null

Pkcs8Key_unwrap(data, pass) ==
    IF data.format = "pkcs8" /\ data.pass = pass THEN <<data.key>> ELSE Null

-----------------------------------------------------------------------------
\* An address is the salt and the truncated hash of salt and public key.
Address_generate(key, salt) == <<salt, <<"hash", salt, toPublic(key)>>>>

Address_verify(address, key) ==
    Len(address) = 2 /\ Address_generate(key, address[1]) = address

\* Salt in Base64, then the rest in Base58; an empty address is an empty string.
Address_printable(address) ==
    IF address = <<>> THEN <<>> ELSE <<"base64", address[1], "base58", address[2]>>

Address_unprintable(string) == IF string = <<>> THEN <<>> ELSE <<string[2], string[4]>>

-----------------------------------------------------------------------------
\* Wallet::Wallet.
Wallet_new ==
    [keys |-> <<>>, password |-> NoPassword,
     defaultFormat |-> "fcpbkdf", kdfIters |-> KDF_ITERS_DEFAULT]

decrypt(format, priv, password) ==
    CASE format = "clear" -> fromPrivate(priv)
      [] format = "fcpbkdf" -> PbkdfKey_unwrap(priv, password)
      [] format = "pkcs8" -> Pkcs8Key_unwrap(priv, password)
      [] OTHER -> Null

encrypt(format, key, password, iters) ==
    CASE format = "clear" -> <<toPrivate(key)>>
      [] format = "pkcs8" -> Pkcs8Key_wrap(key, password, iters)
      [] OTHER -> PbkdfKey_wrap(key, password, iters)

\* Only the two encrypting formats are written under a new password.
retranslate(entry, w, newPassword) ==
    LET key == decrypt(entry.format, entry.priv, w.password)
        new == CASE w.defaultFormat = "fcpbkdf" ->
                        PbkdfKey_wrap(key[1], newPassword, w.kdfIters)
                 [] w.defaultFormat = "pkcs8" ->
                        Pkcs8Key_wrap(key[1], newPassword, w.kdfIters)
                 [] OTHER -> Null
    IN  IF key = Null \/ new = Null
        THEN Null
        ELSE <<[entry EXCEPT !.format = w.defaultFormat, !.priv = new[1]]>>

\* getTopKey: the first entry with the usage is the newest; <<>> is the end.
getTopKey(keys, usage) ==
    LET found == {i \in DOMAIN keys : keys[i].usage = usage}
    IN  IF found = {} THEN <<>> ELSE <<keys[Min(found)]>>

getLatestKey(w, usage) ==
    LET top == getTopKey(w.keys, usage)
    IN  IF top = <<>> THEN Null
        ELSE decrypt(top[1].format, top[1].priv, w.password)

getLatestAddress(w, usage) ==
    LET top == getTopKey(w.keys, usage)
    IN  IF top = <<>> THEN <<>> ELSE top[1].address

getLatestAddressBin(w, usage) == Address_unprintable(getLatestAddress(w, usage))

getLatestPublicKey(w, usage) ==
    LET key == getLatestKey(w, usage)
    IN  IF key = Null THEN <<>> ELSE toPublic(key[1])

getKey(w, address) ==
    LET found == {i \in DOMAIN w.keys : w.keys[i].address = address}
        first == w.keys[Min(found)]
    IN  IF found = {} THEN Null
        ELSE decrypt(first.format, first.priv, w.password)

-----------------------------------------------------------------------------
\* Mutant: the entry is labelled with the wallet's format, whatever the key is
\* encrypted with.
addKeyUnlabelled(w, usage, key, address, random) ==
    LET pass == IF w.password = NoPassword THEN random ELSE w.password
        priv == encrypt(w.defaultFormat, key, pass, w.kdfIters)
        entry == [usage |-> usage, format |-> w.defaultFormat, address |-> address,
                  priv |-> priv[1]]
    IN  IF priv = Null
        THEN [ok |-> FALSE, wallet |-> [w EXCEPT !.password = pass]]
        ELSE [ok |-> TRUE,
              wallet |-> [w EXCEPT !.password = pass, !.keys = <<entry>> \o w.keys]]

\* addKey returns its verdict and the wallet.  A wallet without a password
\* gets a temporary random one.
addKey(w, usage, key, address, random) ==
    LET pass == IF w.password = NoPassword THEN random ELSE w.password
        format == IF w.defaultFormat = "none" THEN "fcpbkdf" ELSE w.defaultFormat
        priv == encrypt(format, key, pass, w.kdfIters)
        entry == [usage |-> usage, format |-> format, address |-> address, priv |-> priv[1]]
    IN  IF ~Address_verify(Address_unprintable(address), key)
        THEN [ok |-> FALSE, wallet |-> w]
        ELSE IF priv = Null
        THEN [ok |-> FALSE, wallet |-> [w EXCEPT !.password = pass]]
        ELSE [ok |-> TRUE,
              wallet |-> [w EXCEPT !.password = pass, !.keys = <<entry>> \o w.keys]]

\* makeNewKey: the verdict of addKey is not looked at.
makeNewKey(w, usage, salt, key, random) ==
    addKey(w, usage, key, Address_printable(Address_generate(key, salt)), random).wallet

\* Mutant: the entries that do not open with the password are left out.
setStringOpenOnly(w, value, password) ==
    LET cleared == [w EXCEPT !.keys = <<>>, !.password = password]
        opens(e) == decrypt(e.format, e.priv, password) # Null
    IN  IF value.kind # "json"
        THEN [ok |-> FALSE, wallet |-> cleared]
        ELSE [ok |-> value.keys = <<>> \/ opens(value.keys[1]),
              wallet |-> [cleared EXCEPT
                  !.kdfIters = value.iters, !.defaultFormat = value.defaultFormat,
                  !.keys = SelectSeq(value.keys, opens)]]

\* setString: the password is only tried on the first entry, and the entries
\* before one that cannot be read stay in the wallet.
setString(w, value, password) ==
    LET cleared == [w EXCEPT !.keys = <<>>, !.password = password]
        unreadable ==
            {i \in DOMAIN value.keys :
                LET e == value.keys[i]
                IN  e.format = "none" \/ (i = 1 /\ decrypt(e.format, e.priv, password) = Null)}
        read == IF unreadable = {} THEN value.keys
                ELSE SubSeq(value.keys, 1, Min(unreadable) - 1)
    IN  IF value.kind # "json"
        THEN [ok |-> FALSE, wallet |-> cleared]
        ELSE [ok |-> unreadable = {},
              wallet |-> [cleared EXCEPT
                  !.kdfIters = value.iters, !.defaultFormat = value.defaultFormat,
                  !.keys = read]]

emptyString == [kind |-> "empty", iters |-> 0, defaultFormat |-> "none", keys |-> <<>>]

\* Mutant: the entries are never translated.
getStringAsIs(w, password) ==
    [kind |-> "json", iters |-> w.kdfIters, defaultFormat |-> w.defaultFormat,
     keys |-> w.keys]

\* getString: as the entries are under the same password or under none, else
\* all of them translated; the empty string when one cannot be.
getString(w, password) ==
    LET same == password = NoPassword \/ password = w.password
        translated(i) == retranslate(w.keys[i], w, password)
        json == [kind |-> "json", iters |-> w.kdfIters, defaultFormat |-> w.defaultFormat,
                 keys |-> [i \in DOMAIN w.keys |->
                              IF same THEN w.keys[i] ELSE translated(i)[1]]]
    IN  IF ~same /\ \E i \in DOMAIN w.keys : translated(i) = Null
        THEN emptyString
        ELSE json

=============================================================================
