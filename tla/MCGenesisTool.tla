--------------------------- MODULE MCGenesisTool ---------------------------
(***************************************************************************)
(* A small instance of GenesisTool: two passwords, and wallet files of     *)
(* every encryption, one of them with two passwords and two of them with   *)
(* an iteration count that no new key can be encrypted with.               *)
(***************************************************************************)
EXTENDS GenesisTool

MCPasswords == {<<"pw1">>, <<"pw2">>}
MCSalts == {<<>>, <<"salt">>}

entry(usage, format, key, pass, iters) ==
    [usage |-> usage, format |-> format,
     address |-> Address_printable(Address_generate(key, <<"old">>)),
     priv |-> encrypt(format, key, pass, iters)[1]]

file(iters, defaultFormat, keys) ==
    [kind |-> "json", iters |-> iters, defaultFormat |-> defaultFormat, keys |-> keys]

MCInitialWallets ==
    {absent,
     file(2, "fcpbkdf", <<entry("validator", "fcpbkdf", 1, <<"pw1">>, 2)>>),
     file(2, "fcpbkdf", <<entry("specie", "clear", 1, NoPassword, 2),
                          entry("validator", "pkcs8", 2, <<"pw1">>, 2)>>),
     file(1, "clear", <<entry("specie", "clear", 1, NoPassword, 1)>>),
     file(2, "none", <<entry("validator", "clear", 1, NoPassword, 2)>>),
     file(0, "pkcs8", <<entry("specie", "clear", 1, NoPassword, 1)>>),
     file(0, "pkcs8", <<entry("validator", "pkcs8", 1, <<"pw1">>, 1)>>),
     file(3, "pkcs8", <<entry("validator", "pkcs8", 1, <<"pw2">>, 3)>>)}

=============================================================================
