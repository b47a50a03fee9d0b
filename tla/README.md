# TLA+ models of neo-go (legacy)

This directory holds the TLA+ specifications of the parts of neo-go that have
state worth exploring: objects that cache what they compute, codecs that read
what peers send, the consensus payloads, and RPC answers built while the chain
moves. Every module is written from the Go source under `src/`; where the
source of a part is not in the repository (only its tests are), the module
follows the design document `spec.md` and the tests, and its definitions are
marked `spec_modelled` in `PROJECT.json`.

Run a model from this directory with

    tlc -workers 2 -config MCRpcResult.cfg MCRpcResult

`PROJECT.json` lists the components, the runs with the properties each checks,
one mutation of the model per property (a plausible bug that the property must
catch), the source lines every definition stands for, the findings and the
hazards.

## 1. Inventory

The repository is a slice of a NEO node. Its parts, the state each keeps, and
what makes each hard:

| Part | Source | State | Operations | What is hard |
|---|---|---|---|---|
| Transaction | `pkg/core/transaction/transaction.go`, `claim.go`, `issue.go`, `state.go` | fields; two memoised hashes (`hash`, `verificationHash`) | `NewTrimmedTX`, `Hash`, `VerificationHash`, `AddOutput`, `AddInput`, `AddVerificationHash`, `Bytes`, `GetSignedPart`, `DecodeBinary`, `MarshalJSON`, `UnmarshalJSON` | memo against mutators; decode into a used object; type-specific members that are nil pointers |
| MPT node | `pkg/core/mpt/base.go`, `extension.go` | cached bytes and hash with validity flags | `Hash`, `Bytes`, `invalidateCache`, `DecodeBinary`, `DecodeNodeWithType`, JSON codec | cache against decode into a used node; key length limits |
| MPT proof | `pkg/core/mpt/proof.go` | trie root, store, root hash | `GetProof`, `VerifyProof` | the walk links loaded nodes into the trie; a store that lacks a node; forged proofs |
| Consensus block | `pkg/consensus/block.go` | embedded block, stored signature | `Sign`, `Verify`, `Transactions`, `SetTransactions`, `Timestamp` and the other getters | sign on a header that changes later; failing key; seconds to nanoseconds |
| Consensus payload | tests in `pkg/consensus` | the message, the cached bytes, the witness; the round state of a validator | setters, `EncodeBinary`, `DecodeBinary`, `decodeData`, `Hash`, `Sign`, `Verify`, recovery getters | two-phase decoding, a flag that is not on the wire, lost and garbled payloads, a faulty signer and relay, votes rebuilt from compact records |
| Merkle block | `pkg/network/payload/merkleblock.go` | header, counts, hashes, flags | `EncodeBinary`, `DecodeBinary` | encode must not touch the object; a decode into a used object from a short buffer |
| RPC results | `pkg/rpc/response/result/block_header.go`, `peers.go`, `tx_output.go`, `asset_state.go` | none of its own; reads the chain twice | `NewHeader`, `NewGetPeers`, `AddPeers`, `NewTxOutput`, `NewAssetState` | the chain moves between the two reads; unsigned subtraction; address strings; which text form of a hash goes into which member |
| Uint256 | `pkg/util/uint256.go` | 32 bytes | decoders from bytes and text in both byte orders, `Reverse`, `CompareTo`, JSON and binary codec | which form is in which byte order; what a failed decode leaves behind |
| CLI flags | `cli/flags/address.go`, `fixed8.go` | the value of a flag, held by the flag set through a pointer | `Apply`, `Set`, `Uint160`, `Fixed8`, `Fixed8FromContext`, `IsSet`, `String`, `GetName` | a definition held by value and registered by pointer under several names; a flag given twice; a panic when the flag was not given |

The parts interact by values: a transaction's hash is the leaf of a block's
merkle root, which is in the header the consensus block signs and the RPC
answer reports; the hashes in an RPC answer are `Uint256` values written with
`MarshalJSON`; consensus payloads carry the hash of the previous block. No two
parts share mutable state, so each is modelled in a module of its own, and
`Uint256` and `MptNodes` are the modules others extend. Inside the CLI the
flag definitions, the flag set the parser writes to and the context the
commands read share the cells that hold the values; `CliFlags` has all three.

Parts with no state and no decision (struct declarations, CLI wiring, example
contracts) are listed in `PROJECT.json` with the reason they are left out; see
section 7.

## 2. Modules

| Module | Models | State and actions |
|---|---|---|
| `Transaction` | the Transaction object | `tx[o]` are the fields of object `o`, `result` the last call. One action per exported call; `CallDecodeBinary` and `CallUnmarshalJSON` take their input from sets of intact and damaged bytes and documents |
| `MptNodes` | nodes as values, `BaseNode`, `ExtensionNode` | no state; an operation returns the node after the call and the value returned |
| `MptNode` | one node object that is reused | `node`, `result`; construction, `Hash`, `Bytes`, both decoders, JSON |
| `MptNodeAbs` | what a node promises its callers | `tree`, `answer`; the same calls on a node that has no cache: `Hash` and `Bytes` are functions of the tree. `MptNode` implements it |
| `MptProof` | `GetProof`, `VerifyProof` | `root`, `store`, `rh`, `last`; the trie starts in memory, reopened from its hash, or half collapsed, over a complete store or one with a node missing |
| `NeoBlock` | the consensus block adapter | `block` (its `base` with every header field, and the transactions), `signature`, `result` and the history variable `signed`; the getters are operators and `Header` is the header seen through them |
| `MerkleBlock` | the merkle block payload | `m`, `result` |
| `Uint256` | `util.Uint256` | no state; every function of `uint256.go` as an operator over arrays of `Uint256Size` bytes and texts over `HexDigits` |
| `RpcResult` | header answers and peer lists | `blockHeight`, `headerHeight` (the chain), `pending` (a `NewHeader` call between its two reads), `response`, `peers`, `client` (a `Uint256` a client unmarshals the answer into) |
| `CliFlags` | the Address and Fixed8 flags | `cells` (the heap of values), `set` (flag set: name to cell), `line` (the occurrences parsed), `status`, `answer`; `ApplyNext` registers the definitions, `Parse` calls `Set` through the registered pointer, `Run` is a command asking the context |
| `ConsensusPayload` | messages, envelope, recovery | `stateRootEnabled`, `view`, `net`, `signed`, `known`; one action per message a validator sends, three for what it receives (intact, garbled, forged) |

`MC*.tla` give the constants that are sets of sequences or records; the `.cfg`
files give the rest.

### Data abstraction

Bytes are the tuple of the fields written, in wire order, so a truncated
buffer is a prefix and a read fails where the Go reader would. A hash is the
tagged tuple of what was hashed and a signature the record of key and data
(ideal cryptography) except in `Uint256`, where a hash is an array of bytes
because the properties are about byte order. Integers keep their width scaled
down: `uint32` is `0 .. 15`, `uint64` is `0 .. 255`, a second has 10
nanoseconds; the width matters only through the comparison with the maximum,
which scales with it. On the command line a name is the sequence of its
characters (the help text depends on its length) and a word is what the two
parsers make of it: an address, a number, or neither.

### Refinement

`MptNode` declares `Abs == INSTANCE MptNodeAbs WITH tree <- Strip(node),
answer <- result`: the abstract tree is the node with every cache field
cleared, at every level. `ImplementsCachelessNode == Abs!Spec` is checked as a
property of `mpt_node`, so every step of the node with its `BaseNode` is a step
of the node without one: a `Hash()` that fills the cache is a read, a decode
into a node with a valid cache leaves exactly the tree the bytes encode, and a
call panics exactly when the tree has no such value. The abstract module says
when that is (`Hashable`, `Encodable`) without mention of a cache.

## 3. Runs

Runs that pass:

| Run | Properties | Shows |
|---|---|---|
| `tx_binary` | `TypeOK`, `HashPairConsistent`, `GroupsPartitionOutputs`, `DecodeDependsOnBytesOnly`, `OwnBytesAreAccepted`, `HashOutdatedOnlyWhereMemoIsKept` | under every order of calls the two memos are set together, `GroupOutputByAssetID` partitions the outputs, a decode that succeeds gives the same transaction whatever the object held, and the decoder accepts the bytes `Bytes()` writes for a transaction with data of its type and no negative output: encoder and decoder skip the same for the types without a body; the hash memo falls behind the fields in a step of `AddOutput`, `AddInput` or `AddVerificationHash` and in a `DecodeBinary` that fails, and in no other call of the binary interface (the run has no documents of peers; `tx_json` has) |
| `tx_json` | `JSONRoundTrip`, `UnmarshalIntoNewChecksID`, `OwnDocumentsAreAccepted`, `HashOutdatedOnlyWhereMemoIsKept` | on a fresh object `UnmarshalJSON` accepts only a document whose id is the hash of its content; an object that accepted a document marshals to that document again, witnesses included, which the id does not cover; a document `MarshalJSON` wrote is read back without an error or a panic and leaves the object as it was; with documents of peers read into a used object the memo falls behind in `UnmarshalJSON` exactly when it was filled before the call, and an `UnmarshalJSON` into a new object leaves a current memo whatever id the document carries |
| `mpt_node` | `TypeOK`, `CacheCoherent`, `ImplementsCachelessNode`, `DecodedNodeHashesToItsBytes` | the cached bytes and hash are those of the node after any sequence of calls, decodes that fail included; the node behaves as one without a cache |
| `mpt_proof` | `TypeOK`, `ProofsKeepTheTrie`, `ProofVerifies`, `ProofSound` | `GetProof` changes the shape of the trie in memory and never its root hash; what it returns verifies; `VerifyProof` accepts nothing that is not in the trie |
| `merkleblock_decode` | `TypeOK`, `DecodedBlockIsThePeers` | a merkle block decoded into a new or a used object, from a whole or a truncated buffer: when `DecodeBinary` reports no error the object is the block of the bytes, and the hashes a failed read leaves behind are never part of a block taken as read |
| `neoblock` | `TypeOK`, `SignatureBindsHeader`, `TimestampIsExact` | the stored signature verifies for the signer and the header it signed, as the getters show it, and for no other; the timestamp does not wrap |
| `rpc_result` | `TypeOK`, `ClientReadsTheHash`, `HashFormsAgree`, `ConfirmedHeaderIsLinked`, `NextBlockHashIsSuccessor` | the next-block hash is that of the successor of the header asked for, however the chain moves between the two reads; an answer that reports two or more confirmations also names the successor, which holds because the block height is read before the header hash (section 6); a client reads back the hash the server wrote, rejects exactly the texts that are no hash and then holds the zero hash; the forms of a hash agree, the asset id of a transaction output included |
| `cli_flags` | `TypeOK`, `ContextHoldsTheCommandLine`, `PanicsOnlyWhenNotGiven` | whatever name a command asks for, the context holds the last accepted word of that flag under any of its names, or the default; `Uint160` panics exactly when the command line had no address for the flag |
| `consensus_payload` | `TypeOK`, `WireRoundTrip`, `RecoveryRestoresVotes`, `VotesAreAuthentic` | see section 4 |

Runs that end in a violation, each one property that states what a comment, a
test or the design document says and that the code does not do:

| Run | Property | Finding |
|---|---|---|
| `tx_json_stale_id` | `UnmarshalChecksID` | `UnmarshalJSON` on an object that holds a memo compares the document's id with the old hash (`transaction.go:392`) |
| `merkleblock_encode` | `EncodeWritesTheBlock` | `EncodeBinary` replaces the header by an empty one before writing (`merkleblock.go:29`) |
| `rpc_confirmations` | `ConfirmationsCountBlocks` | for a header two or more above the block height the unsigned subtraction wraps (`block_header.go:46`) |

Five findings have no run. After `Hash()` and a mutator, `Hash()` is the hash
of the transaction before the change, while the comments of the field and of
`Hash` call it the hash of the transaction (`transaction.go:90`);
`HashOutdatedOnlyWhereMemoIsKept` names the steps that do it (the three
mutators, a `DecodeBinary` that fails, an `UnmarshalJSON` into an object
whose memo is filled) and shows, in `tx_binary` and `tx_json`, that there are
no others. `neoBlock` has no write path for the timestamp the
design document asks to invert (`block.go:68`). `addPeers` splits an IPv6
address at its first colons and drops the error of `Atoi` (`peers.go:54`; the
model has such an address among its inputs and `TypeOK` of `rpc_result`
describes what comes out). A JSON document without `pubkey`, `contract` or
`asset` makes `UnmarshalJSON` dereference nil (`transaction.go:341`); the
panic is an outcome of `UnmarshalJSON` in the model, and a single call shows
it. `OwnDocumentsAreAccepted` shows the other half: the node's own documents
always carry the three members, so the panic needs a document of a peer. `AddressFlag.IsSet` reads the definition, while `Apply`, which has a value
receiver, registered the value of a copy: it stays false after the flag was
parsed (`address.go:58`; nothing in the repository calls it, the commands read
the context, which `ContextHoldsTheCommandLine` is about).

## 4. The consensus payload model

`payload.go`, `recovery_message.go` and the message types are not in the
repository; `ConsensusPayload` is written from sections 3, 4.1, 4.2, 4.4, 6
and 7 of `spec.md` and from `payload_test.go`.

* **Messages.** Six types; `FieldsOf` gives the fields of each in wire order,
  with the state root signature last for requests and responses when the
  extension is on. `EncodeMessage` and `DecodeMessage` are inverse only when
  both sides use the same flag, which is not on the wire.
* **Envelope.** `DecodeBinary` checks length and delimiter and keeps the
  message as bytes; `decodeData` turns them into the message. `Unsigned`
  (MarshalUnsigned) encodes the message anew when it is there, and uses the
  captured bytes when it is not: `Hash` is defined in both phases.
* **Validators.** `Send` builds a payload through the setters, signs it, puts
  its bytes in `net` and the payload into the sender's own round state.
  `net` only grows, and any element may be delivered at any time: loss,
  repetition and reordering are all there. `ReceiveGarbled` delivers a
  payload with one of the damages of `TestConsensusPayload_DecodeBinaryInvalid`
  (delimiter, length, type) or with a changed envelope field or signature.
  `ReceiveForged` delivers what a faulty validator signs with its own key:
  a payload under another validator's index, or a message of a type that
  does not exist.
* **The faulty relay.** `SendForgedRecovery` is the other thing a faulty
  validator can do: it sends a recovery message of its own, correctly signed
  and therefore accepted, whose commit record it made up from a commit it has
  seen of a correct validator (`ForgedCompacts`): the same commit moved to
  the other view, or with the relay's signature where the signer's was.
  `randomRecoveryMessage` shows that the codec takes any script in a record.
  A correct validator that has taken such a message in and then answers a
  recovery request passes the made-up record on, under its own signature and
  beside the genuine ones: with two recovery messages the honesty of the
  relay says nothing about its records.
* **Recovery.** A validator that knows a recovery request of another answers
  with `RecoveryBody` of its round state: every change of view and commit it
  holds, and the request and preparations of its own view. The receiver adds
  `Reconstructed(r)` to its round state without a second verification, as
  section 4.4 of `spec.md` says. With a faulty relay the round state then
  holds envelopes nobody signed; what keeps them from counting is `Verify` on
  the rebuilt envelope, which the algorithm has to call before it counts a
  vote. The two properties below are stated accordingly.
* **The algorithm** that decides when to send is outside the payload protocol
  and not in the repository. The model allows every message the order of a
  round permits (request by the primary of the view, response after a request,
  commit after that, change of view before a commit), which contains the
  behaviour of the algorithm.

Properties:

* `WireRoundTrip`: every payload sent decodes in both phases, has the same
  unsigned bytes before and after `decodeData`, verifies, and encodes back to
  the bytes received.
* `VotesAreAuthentic`: every payload in a round state, received or rebuilt,
  that verifies against the script of the validator it names has unsigned
  bytes that this validator signed (`signed` is the history of `Sign` calls).
  The view is part of those bytes, so a commit moved to another view does not
  verify; a `Verify` that checks the signature against the script the payload
  brings, and not against the script of the validator named, lets the
  relay's own signature through.
* `RecoveryRestoresVotes`: for every vote that was cast and whose compact
  record is in a recovery message a validator accepted, the receiver holds
  the payload with exactly the bytes that were signed and that signature,
  and it verifies. It is stated of the votes cast (`Seen`), not of the
  relay: a message of a correct relay may carry a made-up record, and a
  message of the faulty one a genuine record, and in both the genuine ones
  are restored. Stated of "every record of a correct relay" the property
  holds with one recovery message and fails with two (request, commit, the
  made-up message, its receipt, a recovery request, its receipt, the
  answer). Commits of a view other than that of the recovery message are the
  other case that makes this interesting, and the bounds reach it.

Assumptions, stated because the source cannot confirm them: the envelope
timestamp of a payload built by the algorithm is zero (the setters have none
for it, and no compact record carries it); a response can be rebuilt only when
the recovery message echoes the request, since the preparation hash is that of
the request. Neither can be checked against code that is not here.

## 5. Bounds

| Run | Bounds | Why they are enough |
|---|---|---|
| `tx_binary` | one object; a type with a body on the wire (Miner), one whose body is empty (Issue) and one for which no data is written (Contract); at most 1 output and 1 attribute, amounts 1 and -1; intact, truncated and mistyped bytes | a memo and a mutator need one object and one element; every branch of the encoder and of the decoder is taken by one of the types and inputs; a negative amount is what the decoder refuses of the encoder's bytes |
| `tx_json`, `tx_json_stale_id` | one object; the types with a JSON body; documents that are intact, carry another id, or lack a member | the id check compares two values, the panic needs one missing member; a document with a witness and an object that held another transaction make the round trip more than the identity |
| `merkleblock_encode`, `merkleblock_decode` | one object; 2 headers, hash lists of 0, 1 and 2 hashes, transaction counts up to 2 (`MaxTxCount`), flags empty and not; buffers cut after any field | a used object and a buffer cut before the hashes give the mixed object; an empty list after a list of one tells a slice replaced from a slice kept |
| `mpt_node` | 3 children per branch (`lastChild = 2`), keys up to 2 nibbles, nodes of all types, damaged bytes | the key length limits are at 2, one above and one below are in the inputs |
| `mpt_proof` | tries of up to 4 values with branch, extension, leaf and hash nodes; keys in and out of the trie; forged proofs | every case of the walk (branch slot, extension prefix, leaf, hash node to load, missing node) occurs |
| `neoblock` | 2 keys and a failing key, 12 headers (2 roots, 3 timestamps up to the scaled maximum, 2 indexes), up to 2 transactions | a second signer and a second header tell a stale signature from a current one; two of the timestamps would look the same through `Timestamp()` if the product wrapped |
| `rpc_result`, `rpc_confirmations` | chain heights up to 3 (`MaxHeight`), hashes of 2 bytes over 2 digits, 2 peer addresses (IPv6 and a port above 65535), at most `MaxPeers` peers in one answer | headers can be up to 3 ahead of blocks, so both the missing successor and the wrapping subtraction occur; the hashes of headers 0 and 3 are the reverse of each other, which tells the byte orders apart |
| `cli_flags` | an address flag with the names `to` and `t`, a Fixed8 flag `gas`; words that spell two addresses, a number, and nothing; command lines of up to 3 occurrences (`MaxLine`); commands that ask for the three names and for `from`, which is no flag | two names show whether they share a cell; three occurrences hold a good word, a refused word and a good word under the other name; a name of one character and a longer one take both branches of `getNameHelp` |
| `consensus_payload` | 3 validators (validator 1 faulty, validator 2 lagging), views 0 and 1, 5 signed payloads (`MaxSigned`), of which 2 recovery messages (`MaxRecovery`), state root extension on and off | 5 payloads are what each case needs at most: request, commit, the made-up recovery message, a recovery request and the answer that passes the made-up record on; change of view, request and commit in view 1, recovery request and an answer sent in view 0; request, response, commit, recovery request and the answer that restores all three. Two recovery messages are the made-up one and the answer of a correct validator that took it in, and two views are what moving a commit needs. With 6 payloads and 2 recovery messages the same properties hold over 57,000 states, in a little over three minutes |

A lagging validator is reached by recovery messages only: it is the validator
that restarted. This keeps its round state to what recovery gives it, which is
the case the recovery properties are about.

## 6. Interleaving, fairness and liveness

`RpcResult` is the one model with two actors: the RPC handler inside
`NewHeader`, between its read of the block height (`NewHeaderRead`,
`block_header.go:46`) and its read of the next header hash (`NewHeaderNext`,
`block_header.go:49`), and the chain that adds headers and blocks meanwhile.
The two values of an answer come from two chain states. Two properties say
what survives that. `NextBlockHashIsSuccessor` is about the second read
alone: the link is that of the chain when it is read. `ConfirmedHeaderIsLinked`
relates the two: an answer with two or more confirmations names a successor.
It depends on the order of the reads. The height is read first, headers run
ahead of blocks and the chain only grows, so a header that had a block above
it at the first read has a successor at the second; with the hash read first,
a block that arrives in between gives two confirmations and no link (initial
chain, read of the hash for header 0, `AddBlock`, read of the height). A
subtraction that wrapped (`rpc_confirmations`) reports more confirmations than
the chain has blocks and is left out of the property by that bound.

No run assumes fairness and no liveness property is checked. `NewHeader` is
straight-line code that takes no lock and waits for nothing, so that every
call is answered follows from the scheduler alone and says nothing about the
code. The other models have one caller and no step that the code is bound to take:
the operations are called by the node, the agreement library and the command
line, none of which is in the repository. They are checked for safety only,
invariants and action properties of the form `[][A]_vars`. In
`ConsensusPayload` delivery is the network's step, not the code's, and a
fairness condition on it would be an assumption about the network.

`CHECK_DEADLOCK` is on in every run but `cli_flags`: a command line program
ends, after its command has run, at the first word `Set` refuses, or with the
panic. Every other model has a call that can always be made.

## 7. What is not modelled

* **Struct declarations and interfaces** (`result.go`, `spent_coin.go`,
  `feer.go`, `txer.go`, `application_config.go`, `validator.go`, and
  `payload.go`, whose `NullPayload` reads and writes nothing): no operation
  that changes anything.
* **CLI entry points, example contracts** (`main.go`, `vm.go`, the two
  contracts): a list of calls into packages that are not in the repository,
  run once.
* **Notification events** (`notification_event.go`): two records whose codec
  is one call per field into `io.BinReader`, `io.BinWriter` and the VM's
  stack item serializer. None of the three is in the repository and the
  design document does not describe them, so what a truncated buffer leaves
  in the record could only be guessed; the round trip on intact bytes, which
  is all that could be stated, is what the test beside the file checks.
* **Flag names that collide**: `flag.FlagSet.Var` panics when a name is taken.
  That happens when the program starts, for every command line alike;
  `CliFlags` assumes the names distinct.
* **The agreement algorithm, the consensus service, timers**: an external
  library; `ConsensusPayload` over-approximates it.
* **Trie updates, state records, network payloads other than the merkle
  block, parameter context item, keys, `Uint160`**: only their tests are in
  the repository (`node_test.go`, `asset_test.go`, `storage_item_test.go`,
  `unspent_coin_test.go`, `getblocks_test.go`, `inventory_test.go`,
  `state_root_test.go`, `item_test.go`, `private_key_test.go`,
  `uint160_test.go`) and the design document does not describe them. A model
  would be of code that is not here.
* **Addresses without a ":"**: `addPeers` indexes the second part of the
  split address (`peers.go:54`) and panics when there is none. `RpcResult`
  assumes every address has one (`ASSUME` on `Addrs`): the strings come from
  the network layer, which is not in the repository and writes host and port.
* **Upper-case hexadecimal digits**: `hex.DecodeString` reads them as the
  lower-case ones; the digits of `Uint256` are one character each, and the
  texts compared in `ClientReadsTheHash` are lower-case.
* **Cryptography**: hashes and signatures are ideal.
* **Byte layout below fields** (variable-length integers, endianness of
  integers): a field is read or it is not. `Uint256` is the exception.

## 8. Plan

Built so far, in this order: `Transaction`; `MptNodes`, `MptNode`, `MptProof`;
`NeoBlock`; `MerkleBlock`; `Uint256` and `RpcResult`; `ConsensusPayload`;
then `MptNodeAbs` and the refinement, the two reads of `NewHeader` in
`RpcResult`, the RPC records, `CliFlags`, and the full header and the getters in
`NeoBlock`.

Since then: the acceptance properties of the two transaction codecs
(`OwnBytesAreAccepted`, `OwnDocumentsAreAccepted`, with the Issue type among
the binary inputs), and the faulty relay of recovery messages in
`ConsensusPayload`. After that: `HashOutdatedOnlyWhereMemoIsKept`, which
says where the outdated hash of the findings at `transaction.go:90` and
`transaction.go:392` can come from, in both transaction runs, and took the
place of the run that only exhibited it; `ConfirmedHeaderIsLinked`, which
took the place of a liveness property that held by its fairness assumption
alone; the run
`merkleblock_decode` for the decoder of `MerkleBlock`; and
`RecoveryRestoresVotes` stated of the votes cast, with a second recovery
message so that a correct validator relays what the faulty one made up.

What is left, and what was dropped from earlier plans:

1. **Dropped: consensus round with `NeoBlock`**, in which a commit carries
   the signature `neoBlock.Sign` makes and the block is complete when enough
   commits verify. When a block is complete, and which header the validators
   sign, is decided by the agreement library, which is neither in the
   repository nor in the design document; the two models meet only in values
   both treat as opaque. (Liveness of recovery needs fairness of delivery,
   which is the network's to give; see section 6.)
2. **Dropped: refinement of `Transaction`** to a specification without memos.
   The refinement holds only on behaviours without a mutator after `Hash`,
   which is the finding at `transaction.go:90` said again; on the others the
   mapping is the identity on the fields.
3. **Dropped: trie updates, parameter context item, unspent coin, network
   payloads.** Of each only a test is in the repository, and the design
   document, which is about the consensus payloads, says nothing of them:
   there is no text to translate.

The two transaction runs stay separate: the binary and the JSON codec share
an object and nothing else, and their union does not finish within five
minutes.
