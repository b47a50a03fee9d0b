------------------------------- MODULE Uint256 -------------------------------
(***************************************************************************)
(* util.Uint256 of pkg/util/uint256.go: a fixed array of bytes with a      *)
(* big-endian and a little-endian text form, a JSON form and a binary      *)
(* form.  No state: the operators are used where hashes are written for    *)
(* and read from a peer.                                                   *)
(*                                                                         *)
(* The array has Uint256Size bytes (32 in the code).  A text is the        *)
(* sequence of its characters; HexDigits are the characters of the digits  *)
(* in the order of their values (sixteen in the code, fewer in a model),   *)
(* so a byte is two digits and has Base * Base values.  A decoder returns  *)
(* the record of the value and of the error.                               *)
(***************************************************************************)
EXTENDS Integers, Sequences

Seqs == INSTANCE SequencesExt

CONSTANTS
    Uint256Size,    \* the number of bytes of a Uint256
    HexDigits       \* the digit characters, least first

ASSUME /\ Uint256Size \in Nat \ {0}
       /\ Len(HexDigits) >= 2

Base        == Len(HexDigits)
Byte        == 0 .. Base * Base - 1
ZeroUint256 == [i \in 1 .. Uint256Size |-> 0]

Value(u) == [u |-> u, err |-> FALSE]
Failed   == [u |-> ZeroUint256, err |-> TRUE]

-----------------------------------------------------------------------------
(* encoding/hex and util.ArrayReverse *)

DigitOf(c) == CHOOSE v \in 0 .. Base - 1 : HexDigits[v + 1] = c

\* hex.EncodeToString: two digits for every byte, the high one first.
EncodeToString(b) ==
    Seqs!FlattenSeq([i \in DOMAIN b |->
                        <<HexDigits[(b[i] \div Base) + 1], HexDigits[(b[i] % Base) + 1]>>])

\* hex.DecodeString: an error for an odd length and for any character that
\* is no digit.
DecodeString(s) ==
    IF Len(s) % 2 = 1 \/ \E i \in DOMAIN s : s[i] \notin Seqs!ToSet(HexDigits)
    THEN [bytes |-> <<>>, err |-> TRUE]
    ELSE [bytes |-> [i \in 1 .. Len(s) \div 2 |->
                        DigitOf(s[2 * i - 1]) * Base + DigitOf(s[2 * i])],
          err   |-> FALSE]

ArrayReverse(b) == Seqs!Reverse(b)

-----------------------------------------------------------------------------
(* Decoding *)

Uint256DecodeBytesBE(b) ==
    IF Len(b) # Uint256Size THEN Failed ELSE Value(b)

Uint256DecodeBytesLE(b) == Uint256DecodeBytesBE(ArrayReverse(b))

Uint256DecodeStringLE(s) ==
    IF Len(s) # Uint256Size * 2 \/ DecodeString(s).err THEN Failed
    ELSE Uint256DecodeBytesLE(DecodeString(s).bytes)

Uint256DecodeStringBE(s) ==
    IF Len(s) # Uint256Size * 2 \/ DecodeString(s).err THEN Failed
    ELSE Uint256DecodeBytesBE(DecodeString(s).bytes)

-----------------------------------------------------------------------------
(* The methods *)

BytesBE(u)  == u
BytesLE(u)  == ArrayReverse(BytesBE(u))
Reverse(u)  == Uint256DecodeBytesLE(BytesBE(u)).u
Equals(u, other) == u = other

StringBE(u) == EncodeToString(BytesBE(u))
StringLE(u) == EncodeToString(BytesLE(u))
String(u)   == StringBE(u)

\* Variant of CompareTo that decides by the last byte that differs.
CompareToFromLast(u, other) ==
    LET differ == {i \in 1 .. Uint256Size : u[i] # other[i]} IN
    IF differ = {} THEN 0
    ELSE LET i == CHOOSE j \in differ : \A k \in differ : j >= k
         IN  IF u[i] < other[i] THEN -1 ELSE 1

\* bytes.Compare: the order of the first byte that differs.
CompareTo(u, other) ==
    LET differ == {i \in 1 .. Uint256Size : u[i] # other[i]} IN
    IF differ = {} THEN 0
    ELSE LET i == CHOOSE j \in differ : \A k \in differ : j <= k
         IN  IF u[i] < other[i] THEN -1 ELSE 1

-----------------------------------------------------------------------------
(* JSON and binary form *)

\* A JSON document: a string with its text, or a value that is no string.
JSONString(text) == [kind |-> "string", text |-> text]
NotAString       == [kind |-> "other", text |-> <<>>]

\* strings.TrimPrefix(js, "0x").
Prefix0x == <<"0", "x">>
TrimPrefix0x(s) ==
    IF Seqs!IsPrefix(Prefix0x, s) THEN SubSeq(s, Len(Prefix0x) + 1, Len(s)) ELSE s

\* Variant of UnmarshalJSON that reads the text in big-endian order.
UnmarshalJSONBE(u, data) ==
    IF data.kind # "string" THEN [u |-> u, err |-> TRUE]
    ELSE Uint256DecodeStringBE(TrimPrefix0x(data.text))

\* UnmarshalJSON into u: a document that is no string is an error and u is
\* left alone; for a string u is assigned what Uint256DecodeStringLE
\* returns, the zero value when it fails.
UnmarshalJSON(u, data) ==
    IF data.kind # "string" THEN [u |-> u, err |-> TRUE]
    ELSE Uint256DecodeStringLE(TrimPrefix0x(data.text))

MarshalJSON(u) == JSONString(Prefix0x \o StringLE(u))

\* EncodeBinary writes the bytes; DecodeBinary reads Uint256Size bytes into
\* u, and from a buffer that ends early the bytes there are.
EncodeBinary(u) == BytesBE(u)

DecodeBinary(u, buf) ==
    [u   |-> [i \in 1 .. Uint256Size |-> IF i <= Len(buf) THEN buf[i] ELSE u[i]],
     err |-> Len(buf) < Uint256Size]

=============================================================================
