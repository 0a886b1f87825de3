-------------------------------- MODULE Asn1 --------------------------------
(***************************************************************************)
(* The conversions between C++ values and ASN.1 values that every class of *)
(* src/block is built from: ossl/convert, ossl/encode and the templates of *)
(* OpenSSL.                                                                *)
(*                                                                         *)
(* A byte string is a sequence whose elements stand for what the bytes are *)
(* (<<>> is the empty string).  An ASN.1 INTEGER holds any integer; the    *)
(* C++ types are uint32_t and uint64_t, whose limits are parameters so     *)
(* that small instances have them as well.                                 *)
(***************************************************************************)
EXTENDS Integers, Sequences

CONSTANTS
    UInt32Max,          \* UINT32_MAX
    LongMax             \* LONG_MAX, the largest result of ASN1_INTEGER_get

ASSUME WidthAssumption ==
    /\ UInt32Max \in Nat
    /\ LongMax \in Nat
    /\ UInt32Max <= LongMax

UInt64Max == 2 * LongMax + 1

UInt32 == 0 .. UInt32Max
UInt64 == 0 .. UInt64Max

-----------------------------------------------------------------------------
\* External: the values OpenSSL allocates for the members of a new template.
ASN1_INTEGER_new == [asn1 |-> "INTEGER", int |-> 0]
ASN1_OCTET_STRING_new == [asn1 |-> "OCTET STRING", data |-> <<>>]
ASN1_UTF8STRING_new == [asn1 |-> "UTF8String", data |-> <<>>]
ASN1_CHOICE_new == [type |-> "unset", u |-> <<>>]

\* External: OpenSSL returns -1 for an INTEGER that a long cannot hold.
ASN1_INTEGER_get(t) == IF t.int > LongMax THEN -1 ELSE t.int

fromUInt32(ui) == [ASN1_INTEGER_new EXCEPT !.int = ui]

fromUInt64(ui) == [ASN1_INTEGER_new EXCEPT !.int = ui]

\* A negative value, or one of more than 32 bits, is logged and read as 0.
toUInt32(t) ==
    IF t.int < 0 \/ t.int > UInt32Max THEN 0 ELSE ASN1_INTEGER_get(t)

\* The cast of -1 to uint64_t is what a value above LONG_MAX is read as.
toUInt64(t) ==
    IF t.int < 0 \/ t.int > UInt64Max
    THEN 0
    ELSE ASN1_INTEGER_get(t) % (UInt64Max + 1)

fromBin(data) == [ASN1_OCTET_STRING_new EXCEPT !.data = data]

toBin(t) == t.data

\* The target is a UTF8String; the bytes are taken as they are.
fromString(str) == [ASN1_UTF8STRING_new EXCEPT !.data = str]

toString(t) == t.data

-----------------------------------------------------------------------------
\* to##Type##Stack and from##Type##Stack: element by element, in order.
toStack(toAsn1(_), objs) == [i \in 1 .. Len(objs) |-> toAsn1(objs[i])]

fromStack(fromAsn1(_), st) == [i \in 1 .. Len(st) |-> fromAsn1(st[i])]

\* External: the DER bytes of a template.  "30" is the tag of a SEQUENCE; the
\* alternatives of a CHOICE carry tags of their own.
i2d(tag, t) == <<tag, t>>

=============================================================================
