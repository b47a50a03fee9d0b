----------------------------- MODULE Transaction -----------------------------
(***************************************************************************)
(* The Transaction object of pkg/core/transaction/transaction.go: its     *)
(* fields, the two memoised hashes, the binary codec and the JSON codec.   *)
(*                                                                         *)
(* A Transaction is a mutable Go value.  hash and verificationHash are     *)
(* computed on first use and kept; the zero Uint256 means "not computed".  *)
(* The module follows a few objects through every order of the calls the   *)
(* package exports, with the bytes and the JSON document that travel       *)
(* between them.                                                           *)
(*                                                                         *)
(* Data abstraction.  Bytes are a sequence of fields <<name, value>> in    *)
(* wire order; a read fails when the buffer is exhausted or the next field *)
(* is not the one expected, which stands for every format error of the     *)
(* byte level.  A hash is the pair <<"sha256", preimage>>, so two hashes   *)
(* are equal exactly when their preimages are.  The type-specific part of  *)
(* a transaction (nonce, claims, script, asset...) is one opaque body.     *)
(***************************************************************************)
EXTENDS Integers, Sequences, FiniteSets

CONSTANTS
    Objs,           \* the *Transaction values the program holds
    Types,          \* the transaction types callers build literals of
    Versions,       \* the trading versions callers use
    Bodies,         \* type-specific contents other than the zero one
    Assets,         \* asset ids of outputs
    Amounts,        \* output amounts; a negative one is refused by the decoder
    Outs,           \* the <<asset, amount>> pairs callers give to AddOutput
    Inputs,         \* coin references
    Addrs,          \* script hashes given to AddVerificationHash
    Witnesses,      \* the witness lists transactions carry
    MaxOutputs,     \* bound on len(t.Outputs) reached through AddOutput
    MaxInputs,      \* bound on len(t.Inputs) reached through AddInput
    MaxAttributes,  \* bound on len(t.Attributes)
    ReceivedBytes,  \* the byte strings peers send, damaged ones included
    ReceivedDocs    \* the JSON documents peers send, tampered ones included

VARIABLES
    tx,             \* tx[o]: the fields of object o
    result          \* the last call: its name, receiver, outcome and the
                    \* bytes or document it read or produced

vars == <<tx, result>>

-----------------------------------------------------------------------------
(* Types, the zero values, hashes *)

\* The nine cases of the switch in decodeData.
TxTypes ==
    {"Miner", "Issue", "Claim", "Enrollment", "Register",
     "Contract", "State", "Publish", "Invocation"}

\* A type byte that no case of the switch matches.
UnknownType == "Unknown"

\* IssueTX (issue.go) has no fields and its codec reads and writes nothing;
\* ContractTX is the same.
EmptyBodyTypes == {"Issue", "Contract"}

\* The types whose JSON field is a pointer (pubkey, contract, asset): nil
\* when the document leaves it out.
PointerTypes == {"Enrollment", "Publish", "Register"}

\* The types whose JSON field holds text UnmarshalJSON itself parses (a hex
\* script, an address).
ParsedTypes == {"Invocation", "Publish", "Register"}

\* The types whose JSON field is marked omitempty and is a plain value.
OmitEmptyTypes == {"Miner", "Claim", "Invocation", "State"}

ZeroBody == "zero"
NilData  == [kind |-> "nil", body |-> "nil"]

DataOf(kind, body) ==
    [kind |-> kind, body |-> IF kind \in EmptyBodyTypes THEN ZeroBody ELSE body]

\* What a field of the interface type TXer holds: nil, or the data of one
\* of the transaction types.
TXer == {NilData} \cup [kind : TxTypes, body : Bodies \cup {ZeroBody}]

\* util.Uint256{} and the two hash functions of pkg/crypto/hash.
ZeroHash      == <<>>
Sha256(bytes) == <<"sha256", bytes>>
BytesBE(h)    == << <<"hash", h>> >>

\* The Go zero value of the struct: Type 0 is MinerType, Data is nil.
Transaction ==
    [type |-> "Miner", version |-> 0, data |-> NilData,
     attributes |-> <<>>, inputs |-> <<>>, outputs |-> <<>>, scripts |-> <<>>,
     hash |-> ZeroHash, verificationHash |-> ZeroHash, trimmed |-> FALSE]

\* An Output in memory and on the wire (Position is not encoded).
Output(asset, amount) == [asset |-> asset, amount |-> amount, position |-> 0]
WireOutputs(outs)     == [i \in DOMAIN outs |-> [asset  |-> outs[i].asset,
                                                amount |-> outs[i].amount]]
FromWire(wouts)       == [i \in DOMAIN wouts |-> Output(wouts[i].asset, wouts[i].amount)]

Ret(t, out) == [tx |-> t, out |-> out]

-----------------------------------------------------------------------------
(* The binary encoder *)

\* ClaimTX.EncodeBinary, StateTX.EncodeBinary and the like write the body;
\* IssueTX.EncodeBinary writes nothing.
EncodeData(d) ==
    IF d.kind \in EmptyBodyTypes THEN <<>> ELSE << <<"data", d.body>> >>

EncodeHashableFields(t) ==
    LET noData == t.type = "Contract" IN
    IF t.data = NilData /\ ~noData
    THEN [err |-> TRUE, buf |-> <<>>]
    ELSE [err |-> FALSE,
          buf |-> << <<"type", t.type>>, <<"version", t.version>> >>
                  \o (IF noData THEN <<>> ELSE EncodeData(t.data))
                  \o << <<"attributes", t.attributes>>,
                        <<"inputs", t.inputs>>,
                        <<"outputs", WireOutputs(t.outputs)>> >>]

EncodeBinary(t) ==
    LET enc == EncodeHashableFields(t) IN
    [enc EXCEPT !.buf = IF enc.err THEN <<>> ELSE @ \o << <<"scripts", t.scripts>> >>]

\* Variant of createHash that hashes the encoding once for both fields.
CreateHashSingle(t) ==
    LET enc == EncodeHashableFields(t) IN
    [tx  |-> IF enc.err THEN t
             ELSE [t EXCEPT !.verificationHash = Sha256(enc.buf),
                            !.hash = Sha256(enc.buf)],
     err |-> enc.err]

\* Variant of createHash that hashes the whole encoding, witnesses included.
CreateHashOfBytes(t) ==
    LET enc == EncodeBinary(t)
        vh  == Sha256(enc.buf)
    IN  [tx  |-> IF enc.err THEN t
                 ELSE [t EXCEPT !.verificationHash = vh,
                                !.hash = Sha256(BytesBE(vh))],
         err |-> enc.err]

CreateHash(t) ==
    LET enc == EncodeHashableFields(t)
        vh  == Sha256(enc.buf)
    IN  [tx  |-> IF enc.err THEN t
                 ELSE [t EXCEPT !.verificationHash = vh,
                                !.hash = Sha256(BytesBE(vh))],
         err |-> enc.err]

\* Hash() and VerificationHash(): compute on a zero memo, panic when the
\* transaction cannot be encoded, return the memo.
Hash(t) ==
    IF t.hash # ZeroHash THEN Ret(t, "ok")
    ELSE LET c == CreateHash(t) IN Ret(c.tx, IF c.err THEN "panic" ELSE "ok")

VerificationHash(t) ==
    IF t.verificationHash # ZeroHash THEN Ret(t, "ok")
    ELSE LET c == CreateHash(t) IN Ret(c.tx, IF c.err THEN "panic" ELSE "ok")

\* The double SHA-256 of the hashable part of a byte string: what every node
\* must call the id of the transaction these bytes carry.
TxID(bytes) ==
    Sha256(BytesBE(Sha256(SubSeq(bytes, 1, Len(bytes) - 1))))

-----------------------------------------------------------------------------
(* The binary decoder *)

\* io.BinReader: once Err is set every read is a no-op.
Reader(buf)     == [buf |-> buf, err |-> FALSE]
Failed(r)       == [r EXCEPT !.err = TRUE]
CanRead(r, fld) == ~r.err /\ r.buf # <<>> /\ Head(r.buf)[1] = fld

\* Read one field; `else' is what the target holds after a failed read (the
\* zero byte for ReadB, the old slice for ReadArray).
Read(r, fld, else) ==
    IF CanRead(r, fld)
    THEN [val |-> Head(r.buf)[2], r |-> [r EXCEPT !.buf = Tail(@)]]
    ELSE [val |-> else, r |-> Failed(r)]

\* Variant of decodeData that reads a body for every type.
DecodeDataReadsAll(t, r) ==
    LET rd == Read(r, "data", ZeroBody) IN
    IF t.type \notin TxTypes THEN [tx |-> t, r |-> Failed(r)]
    ELSE [tx |-> [t EXCEPT !.data = DataOf(t.type, rd.val)], r |-> rd.r]

\* decodeData: a new TXer of the type's kind is stored first and decoded in
\* place; an unknown type sets the error and leaves Data alone.
DecodeData(t, r) ==
    LET rd == Read(r, "data", ZeroBody) IN
    CASE t.type \notin TxTypes     -> [tx |-> t, r |-> Failed(r)]
      [] t.type \in EmptyBodyTypes -> [tx |-> [t EXCEPT !.data = DataOf(t.type, ZeroBody)],
                                       r  |-> r]
      [] OTHER                     -> [tx |-> [t EXCEPT !.data = DataOf(t.type, rd.val)],
                                       r  |-> rd.r]

\* The loop over t.Outputs: positions are assigned up to the first negative
\* amount, where the loop returns.
Negative(outs) == {i \in DOMAIN outs : outs[i].amount < 0}

\* Variant of the loop that counts positions from one.
SetPositionsOneBased(outs) ==
    [i \in DOMAIN outs |->
        IF \A n \in Negative(outs) : i < n
        THEN [outs[i] EXCEPT !.position = i] ELSE outs[i]]

SetPositions(outs) ==
    [i \in DOMAIN outs |->
        IF \A n \in Negative(outs) : i < n
        THEN [outs[i] EXCEPT !.position = i - 1] ELSE outs[i]]

\* DecodeBinary up to the last read: every field is overwritten from the
\* buffer as far as the reads succeed.
DecodeFields(t, buf) ==
    LET ty   == Read(Reader(buf), "type", "Miner")
        ve   == Read(ty.r, "version", 0)
        da   == DecodeData([t EXCEPT !.type = ty.val, !.version = ve.val], ve.r)
        at   == Read(da.r, "attributes", t.attributes)
        ip   == Read(at.r, "inputs", t.inputs)
        ou   == Read(ip.r, "outputs", <<>>)
        outs == IF ou.r.err THEN t.outputs ELSE FromWire(ou.val)
        sc   == IF Negative(outs) # {}
                THEN [val |-> t.scripts, r |-> Failed(ou.r)]
                ELSE Read(ou.r, "scripts", t.scripts)
    IN  [tx  |-> [da.tx EXCEPT !.attributes = at.val, !.inputs = ip.val,
                               !.outputs = SetPositions(outs), !.scripts = sc.val],
         err |-> sc.r.err]

\* Variant of DecodeBinary that fills the memo through Hash(), which keeps
\* a hash the object already holds.
DecodeBinaryLazyHash(t, buf) ==
    LET d == DecodeFields(t, buf) IN
    IF d.err THEN Ret(d.tx, "error") ELSE Hash(d.tx)

DecodeBinary(t, buf) ==
    LET d  == DecodeFields(t, buf)
        ch == CreateHash(d.tx)
    IN  IF d.err \/ ch.err THEN Ret(d.tx, "error") ELSE Ret(ch.tx, "ok")

-----------------------------------------------------------------------------
(* Helpers over the fields *)

\* Variant of GroupOutputByAssetID that stores the output instead of
\* appending it.
GroupOutputLastOnly(t) ==
    [a \in {t.outputs[i].asset : i \in DOMAIN t.outputs} |->
        LET last == CHOOSE i \in DOMAIN t.outputs :
                        /\ t.outputs[i].asset = a
                        /\ \A j \in DOMAIN t.outputs :
                               t.outputs[j].asset = a => j <= i
        IN  <<last>>]

\* GroupOutputByAssetID: for every asset, the indexes of its outputs in the
\* order of t.Outputs (the map holds pointers into the slice).
RECURSIVE GroupUpTo(_, _)
GroupUpTo(outs, n) ==
    IF n = 0 THEN <<>>
    ELSE LET m == GroupUpTo(outs, n - 1)
             a == outs[n].asset
         IN  IF a \in DOMAIN m
             THEN [m EXCEPT ![a] = Append(@, n)]
             ELSE [b \in DOMAIN m \cup {a} |-> IF b = a THEN <<n>> ELSE m[b]]

GroupOutputByAssetID(t) == GroupUpTo(t.outputs, Len(t.outputs))

\* GetSignedPart() and Bytes(): nil when the transaction cannot be encoded.
GetSignedPart(t) == EncodeHashableFields(t).buf
Bytes(t)         == EncodeBinary(t).buf

-----------------------------------------------------------------------------
(* The JSON codec *)

\* transactionJSON: the common fields and the one type-specific field, which
\* is a body, "absent" or (for text the codec parses itself) "malformed".
transactionJSON(txid, t, extra) ==
    [txid |-> txid, type |-> t.type, version |-> t.version,
     attributes |-> t.attributes, inputs |-> t.inputs,
     outputs |-> t.outputs, scripts |-> t.scripts, extra |-> extra]

\* The document "{}".
EmptyJSON == transactionJSON(ZeroHash, Transaction, "absent")

\* Variant of MarshalJSON with omitempty honoured for the pointers too.
MarshalJSONOmitsZero(t) ==
    LET h     == Hash(t)
        extra == IF t.type \in EmptyBodyTypes \/ t.data.body = ZeroBody
                 THEN "absent" ELSE t.data.body
    IN  IF h.out = "panic" \/ (t.type \notin EmptyBodyTypes /\ t.data.kind # t.type)
        THEN [tx |-> h.tx, out |-> "panic", doc |-> EmptyJSON]
        ELSE [tx |-> h.tx, out |-> "ok", doc |-> transactionJSON(h.tx.hash, t, extra)]

\* MarshalJSON: t.Hash() fills the memo, the switch asserts the dynamic type
\* of t.Data (a nil or foreign Data panics), omitempty drops a zero value.
MarshalJSON(t) ==
    LET h       == Hash(t)
        asserts == t.type \in TxTypes \ EmptyBodyTypes
        extra   == IF ~asserts \/ (t.type \in OmitEmptyTypes /\ t.data.body = ZeroBody)
                   THEN "absent" ELSE t.data.body
    IN  IF h.out = "panic" \/ (asserts /\ t.data.kind # t.type)
        THEN [tx |-> h.tx, out |-> "panic", doc |-> EmptyJSON]
        ELSE [tx |-> h.tx, out |-> "ok", doc |-> transactionJSON(h.tx.hash, t, extra)]

\* json.Unmarshal into transactionJSON fails: a type name TXType does not
\* know, or a malformed value in a field encoding/json parses.
SyntaxError(d) ==
    \/ d.type \notin TxTypes
    \/ d.extra = "malformed" /\ d.type \notin ParsedTypes

\* Variant of CopyFields that leaves the witnesses behind.
CopyFieldsNoScripts(t, d) ==
    [t EXCEPT !.type = d.type, !.version = d.version,
              !.attributes = d.attributes, !.inputs = d.inputs,
              !.outputs = d.outputs]

\* The common fields of the document copied into t (lines 324-329).
CopyFields(t, d) ==
    [t EXCEPT !.type = d.type, !.version = d.version,
              !.attributes = d.attributes, !.inputs = d.inputs,
              !.outputs = d.outputs, !.scripts = d.scripts]

\* Variant of UnmarshalJSON that takes the id of the document for the memo
\* in place of computing the hash.
UnmarshalJSONTrustsID(t, d) ==
    LET t1 == CopyFields(t, d)
        t2 == [t1 EXCEPT !.data =
                  DataOf(d.type, IF d.extra = "absent" THEN ZeroBody ELSE d.extra),
                         !.hash = IF t.hash = ZeroHash THEN d.txid ELSE t.hash]
    IN  CASE SyntaxError(d)                                  -> Ret(t, "error")
          [] d.type \in PointerTypes /\ d.extra = "absent"   -> Ret(t1, "panic")
          [] d.type \in ParsedTypes /\ d.extra = "malformed" -> Ret(t1, "error")
          [] OTHER                                           -> Ret(t2, "ok")

\* Variant of UnmarshalJSON without the comparison of the id.
UnmarshalJSONUnchecked(t, d) ==
    LET t1 == CopyFields(t, d)
        h  == Hash([t1 EXCEPT !.data =
                        DataOf(d.type, IF d.extra = "absent" THEN ZeroBody ELSE d.extra)])
    IN  CASE SyntaxError(d)                                  -> Ret(t, "error")
          [] d.type \in PointerTypes /\ d.extra = "absent"   -> Ret(t1, "panic")
          [] d.type \in ParsedTypes /\ d.extra = "malformed" -> Ret(t1, "error")
          [] OTHER                                           -> h

UnmarshalJSON(t, d) ==
    LET t1 == CopyFields(t, d)
        h  == Hash([t1 EXCEPT !.data =
                        DataOf(d.type, IF d.extra = "absent" THEN ZeroBody ELSE d.extra)])
    IN  CASE SyntaxError(d)                                  -> Ret(t, "error")
          [] d.type \in PointerTypes /\ d.extra = "absent"   -> Ret(t1, "panic")
          [] d.type \in ParsedTypes /\ d.extra = "malformed" -> Ret(t1, "error")
          [] h.out = "ok" /\ h.tx.hash # d.txid              -> Ret(h.tx, "error")
          [] OTHER                                           -> h

-----------------------------------------------------------------------------
(* The state machine *)

NoArg == <<>>

Done(op, o, out, arg) == result' = [op |-> op, obj |-> o, out |-> out, arg |-> arg]

\* What the last call produced, when it was `op' and it succeeded.
Produced(op) == IF result.op = op /\ result.out = "ok" THEN {result.arg} ELSE {}

Init ==
    /\ tx = [o \in Objs |-> Transaction]
    /\ result = [op |-> "none", obj |-> CHOOSE o \in Objs : TRUE,
                 out |-> "ok", arg |-> NoArg]

\* A composite literal &Transaction{Type: ..., Version: ..., Data: ...}, or
\* new(Transaction) when no field is given, bound to o.
NewTransaction(o) ==
    /\ \/ tx' = [tx EXCEPT ![o] = Transaction]
       \/ \E ty \in Types, v \in Versions, b \in Bodies \cup {ZeroBody} :
            tx' = [tx EXCEPT ![o] = [Transaction EXCEPT !.type = ty, !.version = v,
                                                        !.data = DataOf(ty, b)]]
    /\ Done("NewTransaction", o, "ok", NoArg)

\* NewTrimmedTX(hash) with the hash of a transaction the program knows.
NewTrimmedTX(o) ==
    /\ \E p \in Objs :
        /\ tx[p].hash # ZeroHash
        /\ tx' = [tx EXCEPT ![o] = [Transaction EXCEPT !.hash = tx[p].hash,
                                                       !.trimmed = TRUE]]
    /\ Done("NewTrimmedTX", o, "ok", NoArg)

CallHash(o) ==
    LET r == Hash(tx[o]) IN
    /\ tx' = [tx EXCEPT ![o] = r.tx]
    /\ Done("Hash", o, r.out, NoArg)

CallVerificationHash(o) ==
    LET r == VerificationHash(tx[o]) IN
    /\ tx' = [tx EXCEPT ![o] = r.tx]
    /\ Done("VerificationHash", o, r.out, NoArg)

AddOutput(o) ==
    /\ Len(tx[o].outputs) < MaxOutputs
    /\ \E out \in Outs :
         tx' = [tx EXCEPT ![o].outputs = Append(@, Output(out[1], out[2]))]
    /\ Done("AddOutput", o, "ok", NoArg)

AddInput(o) ==
    /\ Len(tx[o].inputs) < MaxInputs
    /\ \E i \in Inputs : tx' = [tx EXCEPT ![o].inputs = Append(@, i)]
    /\ Done("AddInput", o, "ok", NoArg)

AddVerificationHash(o) ==
    /\ Len(tx[o].attributes) < MaxAttributes
    /\ \E a \in Addrs : tx' = [tx EXCEPT ![o].attributes = Append(@, a)]
    /\ Done("AddVerificationHash", o, "ok", NoArg)

\* Bytes() and GetSignedPart(): the object is left alone; nil on an error.
CallBytes(o) ==
    /\ Done("Bytes", o, IF EncodeBinary(tx[o]).err THEN "error" ELSE "ok", Bytes(tx[o]))
    /\ UNCHANGED tx

CallGetSignedPart(o) ==
    /\ Done("GetSignedPart", o,
            IF EncodeHashableFields(tx[o]).err THEN "error" ELSE "ok", GetSignedPart(tx[o]))
    /\ UNCHANGED tx

\* DecodeBinary of bytes a peer sent, or of the bytes Bytes() just returned.
CallDecodeBinary(o) ==
    \E buf \in ReceivedBytes \cup Produced("Bytes") :
        LET r == DecodeBinary(tx[o], buf) IN
        /\ tx' = [tx EXCEPT ![o] = r.tx]
        /\ Done("DecodeBinary", o, r.out, buf)

CallMarshalJSON(o) ==
    LET r == MarshalJSON(tx[o]) IN
    /\ tx' = [tx EXCEPT ![o] = r.tx]
    /\ Done("MarshalJSON", o, r.out, r.doc)

\* UnmarshalJSON of a document a peer sent, or of the one MarshalJSON just
\* returned.
CallUnmarshalJSON(o) ==
    \E d \in ReceivedDocs \cup Produced("MarshalJSON") :
        LET r == UnmarshalJSON(tx[o], d) IN
        /\ tx' = [tx EXCEPT ![o] = r.tx]
        /\ Done("UnmarshalJSON", o, r.out, d)

Next ==
    \E o \in Objs :
        \/ NewTransaction(o)
        \/ NewTrimmedTX(o)
        \/ CallHash(o)
        \/ CallVerificationHash(o)
        \/ AddOutput(o)
        \/ AddInput(o)
        \/ AddVerificationHash(o)
        \/ CallBytes(o)
        \/ CallGetSignedPart(o)
        \/ CallDecodeBinary(o)
        \/ CallMarshalJSON(o)
        \/ CallUnmarshalJSON(o)

Spec == Init /\ [][Next]_vars

\* What the network does to bytes in flight: they are cut short, or the type
\* byte is replaced by one no transaction type has.
Damaged(buf) ==
    {SubSeq(buf, 1, n) : n \in 0 .. Len(buf) - 1}
        \cup {[buf EXCEPT ![1] = <<"type", UnknownType>>]}

\* What a peer can do to a document: leave the type-specific field out, put
\* text that does not parse in it, give it the id of another transaction.
Tampered(d, ids) ==
    {[d EXCEPT !.extra = e] : e \in {"absent", "malformed"}}
        \cup {[d EXCEPT !.txid = h] : h \in ids}

-----------------------------------------------------------------------------
(* Properties *)

IsHash(h) == h = ZeroHash \/ (Len(h) = 2 /\ h[1] = "sha256")

IsOutputs(outs) ==
    /\ DOMAIN outs = 1 .. Len(outs)
    /\ \A i \in DOMAIN outs :
        /\ outs[i].asset \in Assets
        /\ outs[i].amount \in Amounts
        /\ outs[i].position \in {0, i - 1}

\* The type invariant.
TypeOK ==
    /\ \A o \in Objs :
        /\ tx[o].type \in TxTypes \cup {UnknownType}
        /\ tx[o].version \in Versions \cup {0}
        /\ tx[o].data \in TXer
        /\ tx[o].attributes \in Seq(Addrs)
        /\ tx[o].inputs \in Seq(Inputs)
        /\ IsOutputs(tx[o].outputs)
        /\ tx[o].scripts \in Witnesses
        /\ IsHash(tx[o].hash) /\ IsHash(tx[o].verificationHash)
        /\ tx[o].trimmed \in BOOLEAN
    /\ result.obj \in Objs
    /\ result.out \in {"ok", "error", "panic"}

\* The two memos belong together: whenever VerificationHash() has a value to
\* return, Hash() returns the SHA-256 of it.  createHash is the only writer
\* of verificationHash, NewTrimmedTX and the JSON path set or keep hash
\* alone, and no order of the calls may separate the pair.
HashPairConsistent ==
    \A o \in Objs :
        tx[o].verificationHash # ZeroHash
            => tx[o].hash = Sha256(BytesBE(tx[o].verificationHash))

\* A successful DecodeBinary depends on the bytes alone: whatever the object
\* held before (a hash memoised for other contents, fields of an earlier
\* transaction), afterwards Hash() is the id of the bytes read and encoding
\* the object gives the same bytes back.
DecodeDependsOnBytesOnly ==
    [][\A o \in Objs :
          (result'.op = "DecodeBinary" /\ result'.obj = o /\ result'.out = "ok")
              => /\ tx'[o].hash = TxID(result'.arg)
                 /\ Bytes(tx'[o]) = result'.arg]_vars

\* GroupOutputByAssetID returns, for every asset of the outputs and no
\* other, exactly the outputs of that asset in their order in t.Outputs.
\* Checked on the outputs every object holds and on every way of adding up
\* to two more to them, so that assets repeat and alternate.
GroupsPartitionOutputs ==
    \A o \in Objs : \A n \in 0 .. 2 : \A more \in [1 .. n -> Assets] :
        LET outs == tx[o].outputs \o [i \in 1 .. n |-> Output(more[i], 1)]
            g    == GroupOutputByAssetID([tx[o] EXCEPT !.outputs = outs])
        IN  /\ DOMAIN g = {outs[i].asset : i \in DOMAIN outs}
            /\ \A a \in DOMAIN g :
                 [i \in DOMAIN g[a] |-> outs[g[a][i]]]
                     = SelectSeq(outs, LAMBDA x : x.asset = a)

\* The id check of UnmarshalJSON is sound for a new object: when the call
\* returns nil on an object whose memo was empty, the transaction it now
\* holds hashes to the txid of the document.
UnmarshalIntoNewChecksID ==
    [][\A o \in Objs :
          (/\ result'.op = "UnmarshalJSON" /\ result'.obj = o /\ result'.out = "ok"
           /\ tx[o].hash = ZeroHash)
              => TxID(Bytes(tx'[o])) = result'.arg.txid]_vars

\* What the comments of Hash() and of the hash field promise of an object:
\* the memo, once filled, is the double SHA-256 of the transaction held.
HashIsCurrent(t) ==
    (t.hash # ZeroHash /\ ~t.trimmed /\ ~EncodeBinary(t).err)
        => t.hash = TxID(Bytes(t))

\* The promise is broken, and only where fields are written and a filled
\* memo is kept.  AddOutput, AddInput and AddVerificationHash change a
\* hashable field and leave the memo; a DecodeBinary that fails has
\* overwritten fields of an object whose memo is that of the transaction it
\* held before; UnmarshalJSON copies the document into an object whose memo
\* is filled and then asks Hash(), which answers with that memo.  Every
\* other call, under every order of calls, leaves a current memo current: a
\* decode that succeeds on a used object computes the hash anew
\* (createHash, not Hash), UnmarshalJSON into an object with an empty memo
\* computes it from what it copied, whatever id the document carries, and
\* the composite literals start with an empty memo.
HashOutdatedOnlyWhereMemoIsKept ==
    [][\A o \in Objs :
          (HashIsCurrent(tx[o]) /\ ~HashIsCurrent(tx'[o]))
              => \/ result'.op \in {"AddOutput", "AddInput", "AddVerificationHash"}
                 \/ result'.op = "DecodeBinary" /\ result'.out = "error"
                 \/ result'.op = "UnmarshalJSON" /\ tx[o].hash # ZeroHash]_vars

\* What the error "txid doesn't match transaction hash" promises: a document
\* UnmarshalJSON accepts carries the id of the transaction it describes.
UnmarshalChecksID ==
    [][\A o \in Objs :
          (result'.op = "UnmarshalJSON" /\ result'.obj = o /\ result'.out = "ok")
              => TxID(Bytes(tx'[o])) = result'.arg.txid]_vars

\* The two JSON codecs agree: MarshalJSON of an object that has just
\* accepted a document writes that document again, on a new object and on
\* one that held another transaction before.  The id UnmarshalJSON checks
\* does not cover the witnesses, so nothing else tells when they are lost.
JSONRoundTrip ==
    [][(/\ result.op = "UnmarshalJSON" /\ result.out = "ok"
        /\ result'.op = "MarshalJSON" /\ result'.obj = result.obj)
          => result'.out = "ok" /\ result'.arg = result.arg]_vars

\* A transaction whose Data is of its Type (ContractType writes none) and
\* that has no negative output: what NewTransaction literals, the adders
\* with amounts above zero and successful decodes build.
Sendable(t) ==
    /\ t.type \in TxTypes
    /\ t.type = "Contract" \/ t.data.kind = t.type
    /\ Negative(t.outputs) = {}

\* The decoder accepts what the encoder writes: the bytes Bytes() returns
\* for a sendable transaction are read by DecodeBinary without an error,
\* into a new object and into one that holds anything else.  EncodeBinary
\* skips Data for ContractType and IssueTX writes nothing, and decodeData
\* has to skip exactly as much for each type; a peer that refuses the
\* bytes drops the transaction and the sender never learns why.
OwnBytesAreAccepted ==
    [][(/\ result.op = "Bytes" /\ result.out = "ok" /\ Sendable(tx[result.obj])
        /\ result'.op = "DecodeBinary" /\ result'.arg = result.arg)
          => result'.out = "ok"]_vars

\* UnmarshalJSON accepts what MarshalJSON writes: the document of an object
\* is read back into it without an error or a panic and leaves it as it
\* was.  The members UnmarshalJSON dereferences without a check (lines 341,
\* 354, 371) are those MarshalJSON always writes, and a member omitempty
\* drops reads back as the zero value that was dropped; the panic needs a
\* document of a peer.
OwnDocumentsAreAccepted ==
    [][(/\ result.op = "MarshalJSON" /\ result.out = "ok"
        /\ result'.op = "UnmarshalJSON" /\ result'.obj = result.obj
        /\ result'.arg = result.arg)
          => result'.out = "ok" /\ tx' = tx]_vars

=============================================================================
