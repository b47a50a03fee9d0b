-------------------------- MODULE ConsensusPayload --------------------------
(***************************************************************************)
(* The consensus payload of pkg/consensus: the message union, the signed   *)
(* envelope that carries a message, and the recovery message that lets a   *)
(* validator rebuild the votes of a round from compact records.            *)
(*                                                                         *)
(* The files that implement it (payload.go, recovery_message.go and the    *)
(* message types) are not in the repository.  The module follows the       *)
(* design document, spec.md sections 3, 4.1, 4.2, 4.4, 6 and 7, and the    *)
(* tests the repository has for that code, payload_test.go and             *)
(* crypto_test.go.                                                         *)
(*                                                                         *)
(* The agreement algorithm that decides when a validator sends what is     *)
(* outside the payload protocol.  Here every validator may send any        *)
(* message the order of a round allows: a request by the primary of its    *)
(* view, a response to a request, a commit after that, a change of view    *)
(* at any moment before the commit.  That is more than the algorithm       *)
(* does, and every round state it can produce is among those reached.      *)
(*                                                                         *)
(* Bytes are the tuple of the fields written.  A hash is <<"dsha", data>>, *)
(* a signature <<"sig", key, data>>, the key of validator v is v.          *)
(***************************************************************************)
EXTENDS Integers, Sequences, FiniteSets

CONSTANTS
    Validators,     \* the validator indexes, 0 .. N-1
    Faulty,         \* validators that also sign what the protocol forbids
    Trackers,       \* validators whose round state is followed
    Lagging,        \* validators that only recovery messages reach
    MaxView,        \* the last view of the round
    Version,        \* the round metadata every payload of the round carries
    PrevHash,
    Height,
    Now,            \* the timestamp messages are given
    MaxSigned,      \* bound on the payloads signed in a behaviour
    MaxRecovery     \* bound on the recovery messages sent

ASSUME /\ Validators = 0 .. Cardinality(Validators) - 1
       /\ Faulty \subseteq Validators /\ Lagging \subseteq Trackers /\ Trackers \subseteq Validators
       /\ MaxView \in Nat /\ Now \in Nat \ {0}

VARIABLES
    stateRootEnabled,   \* the protocol configuration all validators share
    view,               \* view[v]: the view validator v is in
    net,                \* the payloads in flight, as bytes
    signed,             \* history: who signed which unsigned bytes
    known               \* known[v]: the payloads in the round state of v

vars == <<stateRootEnabled, view, net, signed, known>>

N             == Cardinality(Validators)
Views         == 0 .. MaxView
Primary(v)    == v % N

-----------------------------------------------------------------------------
(* The message union *)

MessageTypes ==
    {"ChangeView", "PrepareRequest", "PrepareResponse", "Commit",
     "RecoveryRequest", "RecoveryMessage"}

UnknownType == "0xFF"

\* The fields of every type in wire order, and the types that end with the
\* state root signature when the extension is on.
BaseFields ==
    [ChangeView      |-> <<"timestamp">>,
     PrepareRequest  |-> <<"timestamp", "transactionHashes">>,
     PrepareResponse |-> <<"preparationHash">>,
     Commit          |-> <<"signature">>,
     RecoveryRequest |-> <<"timestamp">>,
     RecoveryMessage |-> <<"changeViewPayloads", "prepareRequest",
                           "preparationPayloads", "commitPayloads">>]

WithStateRoot == {"PrepareRequest", "PrepareResponse"}

FieldsOf(type, srEnabled) ==
    IF type \notin MessageTypes THEN <<>>
    ELSE BaseFields[type] \o
            (IF srEnabled /\ type \in WithStateRoot THEN <<"stateRootSig">> ELSE <<>>)

\* A message that is not there, and the bytes of none.
NoMessage == [type |-> "nil"]
NoBytes   == <<>>

Message(type, viewNumber, body, srEnabled) ==
    [type |-> type, viewNumber |-> viewNumber, body |-> body,
     stateRootEnabled |-> srEnabled]

\* message.EncodeBinary: the type, the view number and the fields of the
\* type.  A recovery message carries the request it echoes as bytes.
EncodeFields(m) ==
    LET names == FieldsOf(m.type, m.stateRootEnabled) IN
    <<m.type, m.viewNumber>> \o [i \in DOMAIN names |-> m.body[names[i]]]

EncodeMessage(m) ==
    IF m.type # "RecoveryMessage" THEN EncodeFields(m)
    ELSE EncodeFields([m EXCEPT !.body.prepareRequest =
                            IF @ = NoMessage THEN NoBytes ELSE EncodeFields(@)])

\* The fields of a message read from its bytes: an error when the bytes end
\* before the last field.
ReadFields(bytes, names, srEnabled) ==
    IF Len(bytes) < 2 + Len(names) THEN [m |-> NoMessage, err |-> TRUE]
    ELSE [m   |-> Message(bytes[1], bytes[2],
                          [n \in {names[i] : i \in DOMAIN names} |->
                              bytes[2 + CHOOSE i \in DOMAIN names : names[i] = n]],
                          srEnabled),
          err |-> FALSE]

\* Variant of DecodeFields that reads every message without the extension.
DecodeFieldsNoStateRoot(bytes, srEnabled) ==
    IF Len(bytes) < 2 \/ bytes[1] \notin MessageTypes
    THEN [m |-> NoMessage, err |-> TRUE]
    ELSE ReadFields(bytes, BaseFields[bytes[1]], FALSE)

\* Variant of DecodeFields without the error for a type no message has.
DecodeFieldsNoDefault(bytes, srEnabled) ==
    IF Len(bytes) < 2 THEN [m |-> NoMessage, err |-> TRUE]
    ELSE ReadFields(bytes, FieldsOf(bytes[1], srEnabled), srEnabled)

\* message.DecodeBinary with the flag the caller supplies: the type, the
\* view number and the fields of the type; an unknown type is an error.
DecodeFields(bytes, srEnabled) ==
    IF Len(bytes) < 2 \/ bytes[1] \notin MessageTypes
    THEN [m |-> NoMessage, err |-> TRUE]
    ELSE ReadFields(bytes, FieldsOf(bytes[1], srEnabled), srEnabled)

\* The request a recovery message echoes is decoded with it.
DecodeMessage(bytes, srEnabled) ==
    LET d == DecodeFields(bytes, srEnabled) IN
    IF d.err \/ d.m.type # "RecoveryMessage" \/ d.m.body.prepareRequest = NoBytes
    THEN IF ~d.err /\ d.m.type = "RecoveryMessage"
         THEN [d EXCEPT !.m.body.prepareRequest = NoMessage]
         ELSE d
    ELSE LET req == DecodeFields(d.m.body.prepareRequest, srEnabled) IN
         [m |-> [d.m EXCEPT !.body.prepareRequest = req.m], err |-> req.err]

-----------------------------------------------------------------------------
(* The envelope *)

NoWitness == [invocationScript |-> <<>>, verificationScript |-> <<>>]

\* A payload built by the algorithm through the setters: version, previous
\* hash, height, validator index, view number, type and content.  There is
\* no setter for the timestamp of the envelope, it stays zero.
NewPayload(v, m) ==
    [version |-> Version, prevHash |-> PrevHash, height |-> Height,
     validatorIndex |-> v, timestamp |-> 0,
     message |-> m, data |-> NoBytes, witness |-> NoWitness]

\* MarshalUnsigned: the round metadata and the bytes of the message, without
\* the witness.  The bytes of the message are encoded anew when the message
\* is there, else they are the bytes captured by DecodeBinary.
DataOf(p)   == IF p.message # NoMessage THEN EncodeMessage(p.message) ELSE p.data
Unsigned(p) ==
    <<p.version, p.prevHash, p.height, p.validatorIndex, p.timestamp, DataOf(p)>>

MarshalUnsigned(p) == [p |-> [p EXCEPT !.data = DataOf(p)], bytes |-> Unsigned(p)]

Hash(p) == <<"dsha", Unsigned(p)>>

\* The verification script of a key and the hash of a script.
ScriptOf(key)      == <<"script", key>>
ScriptHash(script) == <<"hash160", script>>

\* Sign: the invocation script is the signature over the unsigned bytes, the
\* verification script is that of the signer.
Sign(p, key) ==
    [MarshalUnsigned(p).p EXCEPT
        !.witness = [invocationScript   |-> <<"sig", key, Unsigned(p)>>,
                     verificationScript |-> ScriptOf(key)]]

\* Variant of Verify that does not compare the script hash.
VerifyAnyScript(p, scriptHash) ==
    /\ p.witness.verificationScript # <<>>
    /\ p.witness.invocationScript
           = <<"sig", p.witness.verificationScript[2], Unsigned(p)>>

\* Verify: false when the script of the witness is not the one expected or
\* the signature is not one of its key over the unsigned bytes.
Verify(p, scriptHash) ==
    /\ ScriptHash(p.witness.verificationScript) = scriptHash
    /\ p.witness.invocationScript
           = <<"sig", p.witness.verificationScript[2], Unsigned(p)>>

\* EncodeBinary: the unsigned part, whose last field is the message with its
\* length in front, the delimiter 1, the witness.
EncodeBinary(p) ==
    [unsigned |-> Unsigned(p), length |-> Len(DataOf(p)), delimiter |-> 1,
     witness  |-> p.witness]

\* DecodeBinary: the message is kept as bytes and is not decoded.  A length
\* that is not that of the bytes and a delimiter other than 1 are errors.
DecodeBinary(w) ==
    [p   |-> [version |-> w.unsigned[1], prevHash |-> w.unsigned[2],
              height |-> w.unsigned[3], validatorIndex |-> w.unsigned[4],
              timestamp |-> w.unsigned[5],
              message |-> NoMessage, data |-> w.unsigned[6], witness |-> w.witness],
     err |-> w.length # Len(w.unsigned[6]) \/ w.delimiter # 1]

\* decodeData: the second phase.  On an error the message stays unset.
decodeData(p, srEnabled) ==
    LET d == DecodeMessage(p.data, srEnabled) IN
    [p |-> IF d.err THEN p ELSE [p EXCEPT !.message = d.m], err |-> d.err]

-----------------------------------------------------------------------------
(* The recovery message *)

\* The compact record of a payload: AddPayload.
ChangeViewCompact(p) ==
    [validatorIndex     |-> p.validatorIndex,
     originalViewNumber |-> p.message.viewNumber,
     timestamp          |-> p.message.body.timestamp,
     invocationScript   |-> p.witness.invocationScript]

CommitCompact(p) ==
    [viewNumber       |-> p.message.viewNumber,
     validatorIndex   |-> p.validatorIndex,
     signature        |-> p.message.body.signature,
     invocationScript |-> p.witness.invocationScript]

PreparationCompact(p) ==
    [validatorIndex   |-> p.validatorIndex,
     invocationScript |-> p.witness.invocationScript,
     stateRootSig     |-> IF p.message.stateRootEnabled
                          THEN p.message.body.stateRootSig ELSE NoBytes]

OfType(payloads, types) == {p \in payloads : p.message.type \in types}
AtView(payloads, v)     == {p \in payloads : p.message.viewNumber = v}

\* The recovery message a validator in view v assembles from the payloads of
\* its round state: every change of view and every commit it has, and the
\* request and the preparations of its view.
RecoveryBody(payloads, v) ==
    LET requests == AtView(OfType(payloads, {"PrepareRequest"}), v) IN
    [changeViewPayloads  |-> {ChangeViewCompact(p) : p \in OfType(payloads, {"ChangeView"})},
     prepareRequest      |-> IF requests = {} THEN NoMessage
                             ELSE (CHOOSE p \in requests : TRUE).message,
     preparationPayloads |->
        {PreparationCompact(p) :
            p \in AtView(OfType(payloads, {"PrepareRequest", "PrepareResponse"}), v)},
     commitPayloads      |-> {CommitCompact(p) : p \in OfType(payloads, {"Commit"})}]

\* The envelope of a vote rebuilt from the recovery payload r: version,
\* previous hash and height are those of r, the witness is the invocation
\* script of the record and the verification script of the validator.
fromPayload(r, v, m, invocationScript) ==
    [NewPayload(v, m) EXCEPT
        !.version = r.version, !.prevHash = r.prevHash, !.height = r.height,
        !.witness = [invocationScript   |-> invocationScript,
                     verificationScript |-> ScriptOf(v)]]

Rebuilt(r, type, viewNumber, body) ==
    Message(type, viewNumber, body, r.message.stateRootEnabled)

GetChangeViews(r) ==
    {fromPayload(r, c.validatorIndex,
                 Rebuilt(r, "ChangeView", c.originalViewNumber, [timestamp |-> c.timestamp]),
                 c.invocationScript) :
        c \in r.message.body.changeViewPayloads}

\* The request is the message echoed, signed by the primary: its witness is
\* in the preparation of the primary.
GetPrepareRequest(r, primary) ==
    IF r.message.body.prepareRequest = NoMessage THEN {}
    ELSE {fromPayload(r, primary, r.message.body.prepareRequest, c.invocationScript) :
            c \in {c \in r.message.body.preparationPayloads : c.validatorIndex = primary}}

\* The responses are the preparations of everyone but the primary; they name
\* the hash of the request, so there are none when the request is not known.
GetPrepareResponses(r, primary) ==
    {fromPayload(r, c.validatorIndex,
                 Rebuilt(r, "PrepareResponse", r.message.viewNumber,
                         IF r.message.stateRootEnabled
                         THEN [preparationHash |-> Hash(q), stateRootSig |-> c.stateRootSig]
                         ELSE [preparationHash |-> Hash(q)]),
                 c.invocationScript) :
        c \in {c \in r.message.body.preparationPayloads : c.validatorIndex # primary},
        q \in GetPrepareRequest(r, primary)}

\* Variant of GetCommits that puts every commit in the view of the recovery
\* message.
GetCommitsAtRecoveryView(r) ==
    {fromPayload(r, c.validatorIndex,
                 Rebuilt(r, "Commit", r.message.viewNumber, [signature |-> c.signature]),
                 c.invocationScript) :
        c \in r.message.body.commitPayloads}

\* A commit stays in the view it was signed for.
GetCommits(r) ==
    {fromPayload(r, c.validatorIndex,
                 Rebuilt(r, "Commit", c.viewNumber, [signature |-> c.signature]),
                 c.invocationScript) :
        c \in r.message.body.commitPayloads}

Reconstructed(r) ==
    LET primary == Primary(r.message.viewNumber) IN
    GetChangeViews(r) \cup GetPrepareRequest(r, primary)
        \cup GetPrepareResponses(r, primary) \cup GetCommits(r)

-----------------------------------------------------------------------------
(* The validators and the network *)

Init ==
    /\ stateRootEnabled \in BOOLEAN
    /\ view = [v \in Validators |-> 0]
    /\ net = {}
    /\ signed = {}
    /\ known = [v \in Validators |-> {}]

\* What validator v has signed of a type in a view.
SignedBy(v, type, viewNumber) ==
    {s \in signed : /\ s.validator = v /\ s.unsigned[4] = v
                    /\ s.unsigned[6][1] = type /\ s.unsigned[6][2] = viewNumber}

RequestOf(viewNumber) == SignedBy(Primary(viewNumber), "PrepareRequest", viewNumber)
Committed(v)          == \E n \in Views : SignedBy(v, "Commit", n) # {}

\* The content of a message of the extension: with the state root signature.
WithStateRootSig(v, body) ==
    IF stateRootEnabled
    THEN [n \in DOMAIN body \cup {"stateRootSig"} |->
             IF n = "stateRootSig" THEN <<"stateroot", v>> ELSE body[n]]
    ELSE body

\* Validator v builds the payload of message m with the setters, signs it
\* and broadcasts it; it is part of its own round state.
Send(v, type, body) ==
    LET p == Sign(NewPayload(v, Message(type, view[v], body, stateRootEnabled)), v) IN
    /\ Cardinality(signed) < MaxSigned
    /\ net' = net \cup {EncodeBinary(p)}
    /\ signed' = signed \cup {[validator |-> v, unsigned |-> Unsigned(p)]}
    /\ known' = [known EXCEPT ![v] = IF v \in Trackers THEN @ \cup {p} ELSE @]
    /\ UNCHANGED stateRootEnabled

SendChangeView(v) ==
    /\ view[v] < MaxView /\ ~Committed(v)
    /\ Send(v, "ChangeView", [timestamp |-> Now])
    /\ view' = [view EXCEPT ![v] = @ + 1]

SendPrepareRequest(v) ==
    /\ v = Primary(view[v]) /\ RequestOf(view[v]) = {}
    /\ Send(v, "PrepareRequest",
            WithStateRootSig(v, [timestamp |-> Now, transactionHashes |-> <<"txs", view[v]>>]))
    /\ UNCHANGED view

SendPrepareResponse(v) ==
    /\ v # Primary(view[v]) /\ SignedBy(v, "PrepareResponse", view[v]) = {}
    /\ \E s \in RequestOf(view[v]) :
          Send(v, "PrepareResponse",
               WithStateRootSig(v, [preparationHash |-> <<"dsha", s.unsigned>>]))
    /\ UNCHANGED view

SendCommit(v) ==
    /\ ~Committed(v) /\ RequestOf(view[v]) # {}
    /\ v = Primary(view[v]) \/ SignedBy(v, "PrepareResponse", view[v]) # {}
    /\ Send(v, "Commit", [signature |-> <<"block", v, view[v]>>])
    /\ UNCHANGED view

\* A validator that has lost the round, after a restart or a change of view,
\* asks for it.
SendRecoveryRequest(v) ==
    /\ v \in Trackers /\ SignedBy(v, "RecoveryRequest", view[v]) = {}
    /\ Send(v, "RecoveryRequest", [timestamp |-> Now])
    /\ UNCHANGED view

\* A validator that knows of a request of another answers with the round as
\* it knows it.
SendRecoveryMessage(v) ==
    /\ \E p \in OfType(known[v], {"RecoveryRequest"}) : p.validatorIndex # v
    /\ Cardinality({s \in signed : s.unsigned[6][1] = "RecoveryMessage"}) < MaxRecovery
    /\ Send(v, "RecoveryMessage", RecoveryBody(known[v], view[v]))
    /\ UNCHANGED view

\* The receipt of the bytes w by validator v: the envelope is decoded, then
\* the message, then the witness is verified against the script of the
\* validator the payload names.  A payload that fails one of the three is
\* dropped.  What passes enters the round state, and with a recovery message
\* the votes rebuilt from it.
Deliver(v, w) ==
    LET d  == DecodeBinary(w)
        m  == decodeData(d.p, stateRootEnabled)
        accepted == /\ ~d.err /\ ~m.err
                    /\ m.p.validatorIndex \in Validators
                    /\ Verify(m.p, ScriptHash(ScriptOf(m.p.validatorIndex)))
    IN
    /\ known' = [known EXCEPT ![v] =
                    IF ~accepted THEN @
                    ELSE @ \cup {m.p} \cup
                         (IF m.p.message.type = "RecoveryMessage"
                          THEN Reconstructed(m.p) ELSE {})]
    /\ UNCHANGED <<stateRootEnabled, view, net, signed>>

\* The payloads in flight that reach validator v: those of the others, and
\* of them only the recovery messages when v is lagging.
Reaching(v) ==
    {w \in net : /\ v \in Trackers /\ w.unsigned[4] # v
                 /\ v \in Lagging => w.unsigned[6][1] = "RecoveryMessage"}

\* A payload arrives as it was sent; any payload sent may arrive at any
\* time, any number of times, or never.
Receive(v) == \E w \in Reaching(v) : Deliver(v, w)

\* What the network does to a payload in flight: a delimiter that is not 1,
\* a wrong length, a type no message has, a field of the envelope changed,
\* a signature that is not one.
Garbled(w) ==
    {[w EXCEPT !.delimiter = 0],
     [w EXCEPT !.length = @ + 1],
     [w EXCEPT !.unsigned[6][1] = UnknownType],
     [w EXCEPT !.unsigned[5] = @ + 1],
     [w EXCEPT !.witness.invocationScript[2] = -1]}

ReceiveGarbled(v) == \E w \in Reaching(v) : \E g \in Garbled(w) : Deliver(v, g)

\* A faulty validator b signs, with its own key, the bytes of a payload in
\* flight under the index of another validator, or under its own index a
\* message that is nothing but a type no message has.
Forged(w, b) ==
    {[f EXCEPT !.witness = [invocationScript   |-> <<"sig", b, f.unsigned>>,
                            verificationScript |-> ScriptOf(b)]] :
        f \in {[w EXCEPT !.unsigned[4] = o] : o \in Validators \ {b}}
                \cup {[w EXCEPT !.unsigned[4] = b, !.length = 2,
                                 !.unsigned[6] = <<UnknownType, @[2]>>]}}

ReceiveForged(v) ==
    \E b \in Faulty : \E w \in Reaching(v) : \E f \in Forged(w, b) : Deliver(v, f)

\* The payloads a validator that listens to the network has seen.
Seen == {decodeData(DecodeBinary(w).p, stateRootEnabled).p : w \in net}

\* The compact records a faulty relay b makes of a commit it has seen of a
\* validator that follows the protocol: the commit moved to another view,
\* or carrying a signature of the relay in place of the signer's.
ForgedCompacts(b) ==
    UNION {{[CommitCompact(p) EXCEPT !.viewNumber = n] :
                n \in Views \ {p.message.viewNumber}}
           \cup {[CommitCompact(p) EXCEPT !.invocationScript = <<"sig", b, Unsigned(p)>>]} :
        p \in {q \in OfType(Seen, {"Commit"}) : q.validatorIndex \notin Faulty}}

\* A faulty validator sends, under its own index and with its own
\* signature, a recovery message nobody asked for that carries a record it
\* made up.  The envelope is genuine and is accepted.
SendForgedRecovery(b) ==
    /\ b \in Faulty
    /\ Cardinality({s \in signed : s.unsigned[6][1] = "RecoveryMessage"}) < MaxRecovery
    /\ \E c \in ForgedCompacts(b) :
          Send(b, "RecoveryMessage",
               [changeViewPayloads |-> {}, prepareRequest |-> NoMessage,
                preparationPayloads |-> {}, commitPayloads |-> {c}])
    /\ UNCHANGED view

Next ==
    \/ \E v \in Validators :
          \/ SendChangeView(v)
          \/ SendPrepareRequest(v)
          \/ SendPrepareResponse(v)
          \/ SendCommit(v)
          \/ SendRecoveryRequest(v)
          \/ SendRecoveryMessage(v)
          \/ SendForgedRecovery(v)
          \/ Receive(v)
          \/ ReceiveGarbled(v)
          \/ ReceiveForged(v)

Spec == Init /\ [][Next]_vars

-----------------------------------------------------------------------------
(* Properties *)

\* Type invariant.  What a validator holds in its round state has passed
\* both phases of decoding (DecodeBinary, then decodeData): its message is
\* there and of a known type, as the typed getters of a payload need.
TypeOK ==
    /\ stateRootEnabled \in BOOLEAN
    /\ view \in [Validators -> Views]
    /\ \A s \in signed : s.validator \in Validators
    /\ \A v \in Validators : \A p \in known[v] :
          /\ p.validatorIndex \in Validators
          /\ p.message # NoMessage
          /\ p.message.type \in MessageTypes
          /\ p.message.viewNumber \in Views

\* A payload sent is read as it was written, on every validator: both
\* phases of decoding succeed on its bytes; Hash and MarshalUnsigned give
\* the same before decodeData, from the bytes DecodeBinary captured, and
\* after it, from the message encoded anew with the state root flag of the
\* configuration; the witness verifies against the script of the sender;
\* EncodeBinary of what was read gives the bytes back.
WireRoundTrip ==
    \A w \in net :
        LET d == DecodeBinary(w)
            m == decodeData(d.p, stateRootEnabled)
        IN  /\ ~d.err /\ ~m.err
            /\ Unsigned(d.p) = w.unsigned /\ Unsigned(m.p) = w.unsigned
            /\ Verify(m.p, ScriptHash(ScriptOf(m.p.validatorIndex)))
            /\ EncodeBinary(m.p) = w

\* Verify is what makes a vote count.  Every payload in a round state that
\* verifies against the script of the validator it names, received
\* (DecodeBinary, decodeData) or rebuilt from a recovery message
\* (GetChangeViews, GetPrepareRequest, GetPrepareResponses, GetCommits), has
\* unsigned bytes that this validator has signed: the network, a faulty
\* validator and a faulty relay of a recovery message cannot put a vote in
\* another's name or move a commit to another view.  A payload is verified
\* when it is received; the envelopes rebuilt from a recovery message enter
\* the round state as the relay assembled them, so those of a faulty relay
\* are there too and only Verify tells them apart.
VotesAreAuthentic ==
    \A v \in Validators : \A p \in known[v] :
        Verify(p, ScriptHash(ScriptOf(p.validatorIndex)))
            => [validator |-> p.validatorIndex, unsigned |-> Unsigned(p)] \in signed

\* A recovery message restores the votes it carries, whoever relays it and
\* whatever else it carries.  For every vote a validator has sent whose
\* compact record (AddPayload on the relay's side) is in a recovery message
\* a validator accepted, its round state has the payload with the bytes
\* that were signed and with that signature, so it verifies and counts: a
\* commit in the view it was signed for, which need not be that of the
\* recovery message, a change of view with its timestamp, a preparation
\* with the hash of the request.  Preparations are those of the view of the
\* message and need the request to be echoed, since a record of them has no
\* view and a response names the hash of the request.
VoteTypes == {"ChangeView", "PrepareRequest", "PrepareResponse", "Commit"}

CompactOf(q) ==
    CASE q.message.type = "ChangeView" -> ChangeViewCompact(q)
      [] q.message.type = "Commit"     -> CommitCompact(q)
      [] OTHER                         -> PreparationCompact(q)

Carries(r, q) ==
    LET body == r.message.body IN
    CASE q.message.type = "ChangeView" -> CompactOf(q) \in body.changeViewPayloads
      [] q.message.type = "Commit"     -> CompactOf(q) \in body.commitPayloads
      [] OTHER -> /\ CompactOf(q) \in body.preparationPayloads
                  /\ q.message.viewNumber = r.message.viewNumber
                  /\ body.prepareRequest # NoMessage

RecoveryRestoresVotes ==
    \A v \in Validators : \A r \in OfType(known[v], {"RecoveryMessage"}) :
        \A q \in OfType(Seen, VoteTypes) :
            Carries(r, q) =>
                \E p \in known[v] :
                    /\ Unsigned(p) = Unsigned(q) /\ p.witness = q.witness
                    /\ Verify(p, ScriptHash(ScriptOf(q.validatorIndex)))

=============================================================================
