----------------------------- MODULE MCRpcResult -----------------------------
(* RpcResult instantiated for TLC. *)
EXTENDS RpcResult

Part(text, number) == [text |-> text, number |-> number]

\* The IPv6 address "[::1]:20333" and an IPv4 address with a port that does
\* not fit uint16, "10.0.0.1:65537".
MCAddrs ==
    {<<Part("[", 0), Part("", 0), Part("1]", 0), Part("20333", 20333)>>,
     <<Part("10.0.0.1", 0), Part("65537", 65537)>>}

\* Two digits: a byte has four values, and the hashes of the headers 0 and 3
\* are the reverse of each other.
MCHexDigits == <<"0", "1">>
=============================================================================
