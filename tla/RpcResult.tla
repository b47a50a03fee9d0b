------------------------------ MODULE RpcResult ------------------------------
(***************************************************************************)
(* pkg/rpc/response/result: the answers the RPC server builds from the     *)
(* chain and from the peer lists.                                          *)
(*                                                                         *)
(* NewHeader (block_header.go) reads the chain twice, first the block      *)
(* height and then the hash of the next header, while the chain goes on    *)
(* taking headers and blocks from the network; headers run ahead of        *)
(* blocks.  GetPeers (peers.go) collects three lists of peers from         *)
(* "host:port" strings.                                                    *)
(*                                                                         *)
(* The header of index i is named by i; the fields NewHeader copies or     *)
(* formats without a decision (size, nonce, address, witness) are left     *)
(* out.  uint32 is 0 .. Uint32Max.                                         *)
(*                                                                         *)
(* The hashes of an answer are util.Uint256 values (module Uint256): the   *)
(* server writes them as JSON, and a client reads the document, or what a  *)
(* faulty peer made of it, back into a Uint256 of its own.                 *)
(***************************************************************************)
EXTENDS Uint256, FiniteSets

CONSTANTS
    MaxHeight,      \* the chain stops growing here
    Uint32Max,
    Addrs,          \* the address strings: the sequences of their parts between ":",
                    \* a part being its text and the number it spells (0 when none)
    MaxPeers        \* the most peers one GetPeers answer holds

\* Every address has a ":"; the network layer hands out no other.
ASSUME \A a \in Addrs : Len(a) >= 2

VARIABLES
    blockHeight,    \* Blockchainer.BlockHeight()
    headerHeight,   \* the index of the last header the chain holds
    pending,        \* a NewHeader call between its two reads of the chain
    response,       \* the last Header returned
    peers,          \* the GetPeers answer under construction
    client          \* the Uint256 a client reads "nextblockhash" into, with
                    \* the document and the error of its last UnmarshalJSON

vars == <<blockHeight, headerHeight, pending, response, peers, client>>

-----------------------------------------------------------------------------
(* The chain *)

\* The hash of the header of an index: the number index + 1 written in
\* bytes, the high one first, so that no header hashes to util.Uint256{}.
ZeroHash      == ZeroUint256
HashOf(index) ==
    [k \in 1 .. Uint256Size |->
        ((index + 1) \div (Base * Base) ^ (Uint256Size - k)) % (Base * Base)]

ASSUME MaxHeight + 2 < (Base * Base) ^ Uint256Size

\* A nil *util.Uint256.
Nil == <<>>

\* Blockchainer.GetHeaderHash: the zero hash beyond the last header.
GetHeaderHash(i) == IF i \in 0 .. headerHeight THEN HashOf(i) ELSE ZeroHash

\* Headers arrive first, blocks follow; a block above the last header
\* brings its header.
AddHeader ==
    /\ headerHeight < MaxHeight
    /\ headerHeight' = headerHeight + 1
    /\ UNCHANGED <<blockHeight, pending, response, peers, client>>

AddBlock ==
    /\ blockHeight < MaxHeight
    /\ blockHeight' = blockHeight + 1
    /\ headerHeight' = IF headerHeight < blockHeight' THEN blockHeight' ELSE headerHeight
    /\ UNCHANGED <<pending, response, peers, client>>

-----------------------------------------------------------------------------
(* NewHeader *)

None == [index |-> -1, confirmations |-> 0]

\* Variant of Confirmations that counts the header's own block twice.
ConfirmationsPlusTwo(height, index) == (height - index + 2) % (Uint32Max + 1)

\* BlockHeight() - h.Index + 1 in uint32.
Confirmations(height, index) == (height - index + 1) % (Uint32Max + 1)

\* The composite literal: the fields of the header and the confirmations
\* from the block height read now.
NewHeaderRead ==
    /\ pending = None
    /\ \E index \in 0 .. headerHeight :
        pending' = [index |-> index, confirmations |-> Confirmations(blockHeight, index)]
    /\ UNCHANGED <<blockHeight, headerHeight, response, peers, client>>

\* Variant of NextBlockHash that asks for the hash at the header's own index.
NextBlockHashOwnIndex(index) ==
    IF ~Equals(GetHeaderHash(index), ZeroUint256) THEN GetHeaderHash(index) ELSE Nil

\* The hash of the header that follows, or nil when the chain has none.
NextBlockHash(index) ==
    LET hash == GetHeaderHash(index + 1) IN
    IF ~Equals(hash, ZeroUint256) THEN hash ELSE Nil

NewHeaderNext ==
    /\ pending # None
    /\ response' = [index         |-> pending.index,
                    confirmations |-> pending.confirmations,
                    next          |-> NextBlockHash(pending.index)]
    /\ pending' = None
    /\ UNCHANGED <<blockHeight, headerHeight, peers, client>>

-----------------------------------------------------------------------------
(* GetPeers *)

NewGetPeers == [Unconnected |-> <<>>, Connected |-> <<>>, Bad |-> <<>>]

\* strconv.Atoi with its error dropped, then uint16: a part that spells no
\* number gives 0.
Atoi(part) == part.number % 65536

\* Variant of Peer without the conversion to uint16.
PeerOfInt(addr) == [Address |-> addr[1].text, Port |-> addr[2].number]

\* The peer of an address: the part before the first ":" and the number in
\* the part after it.
Peer(addr) == [Address |-> addr[1].text, Port |-> Atoi(addr[2])]

addPeers(list, addrs) == list \o [i \in DOMAIN addrs |-> Peer(addrs[i])]

AddrLists == UNION {[1 .. n -> Addrs] : n \in 1 .. MaxPeers}

PeerCount == Len(peers.Unconnected) + Len(peers.Connected) + Len(peers.Bad)

\* AddUnconnected, AddConnected, AddBad.
Add(kind) ==
    /\ \E addrs \in AddrLists :
        /\ PeerCount + Len(addrs) <= MaxPeers
        /\ peers' = [peers EXCEPT ![kind] = addPeers(@, addrs)]
    /\ UNCHANGED <<blockHeight, headerHeight, pending, response, client>>

CallNewGetPeers ==
    /\ peers # NewGetPeers
    /\ peers' = NewGetPeers
    /\ UNCHANGED <<blockHeight, headerHeight, pending, response, client>>

-----------------------------------------------------------------------------
(* The records of tx_output.go and asset_state.go *)

\* address.Uint160ToString and Uint160.String, by what they are made of.
Uint160ToString(u)  == <<"address", u>>
Uint160StringBE(u)  == <<"hex", u>>

\* NewTxOutput: the asset is written as "0x" and the little-endian text.
NewTxOutput(out) ==
    [N       |-> out.Position,
     Asset   |-> Prefix0x \o StringLE(out.AssetID),
     Value   |-> out.Amount,
     Address |-> Uint160ToString(out.ScriptHash)]

\* NewAssetState: the fields of the asset, owner and managers as texts.
NewAssetState(a) ==
    [ID        |-> a.ID,        AssetType  |-> a.AssetType,  Name     |-> a.Name,
     Amount    |-> a.Amount,    Available  |-> a.Available,  Precision |-> a.Precision,
     Owner     |-> Uint160StringBE(a.Owner),
     Admin     |-> Uint160ToString(a.Admin),
     Issuer    |-> Uint160ToString(a.Issuer),
     Expiration |-> a.Expiration, IsFrozen |-> a.IsFrozen]

-----------------------------------------------------------------------------
(* The client *)

\* What reaches the client in place of the document the server wrote: the
\* document itself, the text without "0x", the text in big-endian order,
\* a text cut short, a text with a character that is no digit, a value that
\* is no string.
Received(u) ==
    {MarshalJSON(u), JSONString(StringLE(u)), JSONString(Prefix0x \o StringBE(u)),
     JSONString(Seqs!Front(MarshalJSON(u).text)),
     JSONString(Prefix0x \o Seqs!ReplaceAt(StringLE(u), 1, "z")),
     NotAString}

\* json.Unmarshal of an answer into a Header the client holds: the member
\* is omitted when NextBlockHash is nil, else Uint256.UnmarshalJSON reads it.
ClientUnmarshal ==
    /\ response.next # Nil
    /\ \E data \in Received(response.next) :
        LET r == UnmarshalJSON(client.hash, data) IN
        client' = [hash |-> r.u, err |-> r.err, data |-> data]
    /\ UNCHANGED <<blockHeight, headerHeight, pending, response, peers>>

-----------------------------------------------------------------------------

Init ==
    /\ blockHeight = 0
    /\ headerHeight = 0
    /\ pending = None
    /\ response = [index |-> 0, confirmations |-> 1, next |-> Nil]
    /\ peers = NewGetPeers
    /\ client = [hash |-> ZeroUint256, err |-> FALSE, data |-> NotAString]

Next ==
    \/ AddHeader
    \/ AddBlock
    \/ NewHeaderRead
    \/ NewHeaderNext
    \/ ClientUnmarshal
    \/ CallNewGetPeers
    \/ \E kind \in {"Unconnected", "Connected", "Bad"} : Add(kind)

Spec == Init /\ [][Next]_vars

-----------------------------------------------------------------------------
(* Properties *)

\* The type invariant.
TypeOK ==
    /\ blockHeight \in 0 .. MaxHeight
    /\ headerHeight \in blockHeight .. MaxHeight
    /\ response.confirmations \in 0 .. Uint32Max
    /\ pending.index \in -1 .. MaxHeight
    /\ \A kind \in DOMAIN peers :
        /\ Len(peers[kind]) <= MaxPeers
        /\ \A i \in DOMAIN peers[kind] : peers[kind][i].Port \in 0 .. 65535
    /\ client.hash \in [1 .. Uint256Size -> Byte]

\* The link a header answer gives to the next block is right however the
\* chain grows while the answer is built: the hash is that of the header
\* one above, and it is missing only when the chain had no such header at
\* the moment it was asked, never because the height was read earlier.
NextBlockHashIsSuccessor ==
    [][pending # None /\ pending' = None
         => /\ response'.next = Nil <=> pending.index = headerHeight
            /\ response'.next # Nil => response'.next = HashOf(pending.index + 1)]_vars

\* The two reads of NewHeader give one answer that no reader can catch in
\* a contradiction, although the chain grows between them: an answer whose
\* confirmations say that blocks follow the header (two or more, and no more
\* than the chain has blocks, which leaves out a subtraction that wrapped)
\* also names the hash of the next header.  It holds because BlockHeight()
\* is read before GetHeaderHash, headers run ahead of blocks and the chain
\* only grows; with the reads the other way round a block that arrives in
\* between gives a header with two confirmations and no successor.
ConfirmedHeaderIsLinked ==
    response.confirmations \in 2 .. blockHeight + 1
        => response.next = HashOf(response.index + 1)

\* A text of Uint256Size bytes written in digits.
IsHashText(t) ==
    Len(t) = 2 * Uint256Size /\ \A i \in DOMAIN t : t[i] \in Seqs!ToSet(HexDigits)

\* The two JSON codecs of a hash agree: UnmarshalJSON accepts exactly the
\* texts of Uint256Size bytes in digits, with or without the "0x", every
\* other document is an error; and the hash the client then holds is the
\* one MarshalJSON writes as the document it read, byte order included.
\* A text that is refused leaves the zero hash (uint256.go:104 assigns before
\* it looks at the error), never a part of what was read.
ClientReadsTheHash ==
    client.data # NotAString =>
        /\ client.err = ~IsHashText(TrimPrefix0x(client.data.text))
        /\ client.err => client.hash = ZeroUint256
        /\ ~client.err => MarshalJSON(client.hash).text
                              = Prefix0x \o TrimPrefix0x(client.data.text)

\* Confirmations counts the blocks from the header's block to the tip: it
\* is never more than the blocks the chain holds.  The subtraction is done
\* in uint32 with a header that can be above the block height.
ConfirmationsCountBlocks ==
    response.confirmations <= blockHeight + 1

\* The forms of a hash agree with each other and with the number it is.
\* The hashes of the chain are the numbers index + 1 with the high byte
\* first: CompareTo orders the hash of the last block and that of any header
\* as their indexes; the big-endian text and the binary form read back to
\* the hash; the little-endian forms are those of the reversed hash, and
\* reversing twice changes nothing.  The asset text NewTxOutput puts
\* together by hand is the JSON form of the asset id.
HashFormsAgree ==
    LET u == HashOf(blockHeight) IN
    /\ JSONString(NewTxOutput([Position |-> 0, AssetID |-> u, Amount |-> 1,
                               ScriptHash |-> "sender"]).Asset) = MarshalJSON(u)
    /\ \A j \in 0 .. headerHeight :
          CompareTo(u, HashOf(j))
              = (IF blockHeight < j THEN -1 ELSE IF blockHeight = j THEN 0 ELSE 1)
    /\ Uint256DecodeStringBE(String(u)) = Value(u)
    /\ DecodeBinary(client.hash, EncodeBinary(u)) = Value(u)
    /\ StringLE(u) = StringBE(Reverse(u)) /\ BytesLE(u) = BytesBE(Reverse(u))
    /\ Reverse(Reverse(u)) = u

=============================================================================
