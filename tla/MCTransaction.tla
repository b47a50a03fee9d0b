---------------------------- MODULE MCTransaction ----------------------------
(* Transaction instantiated for TLC. *)
EXTENDS Transaction

MCWitnesses == {<<>>, <<"w">>}

\* One positive and one negative amount: the decoder refuses the second.
MCAmounts == {1, -1}
MCOuts    == {<<"neo", 1>>, <<"neo", -1>>}

\* One type of each class the binary codec tells apart: a body on the wire
\* (Miner), an empty body (Issue), no data written at all (Contract).
BinaryTypes == {"Miner", "Issue", "Contract"}

\* One type of each class the JSON codec tells apart: an omitempty value
\* (Miner), a pointer whose text is parsed (Publish), no field (Contract).
JSONTypes == {"Miner", "Publish", "Contract"}

\* The transactions peers build and send.
Literal(ty, b, w) ==
    [Transaction EXCEPT !.type = ty, !.data = DataOf(ty, b), !.scripts = w]

PeerTxs ==
    {[Literal("Miner", ZeroBody, <<"w">>) EXCEPT !.outputs = <<Output("gas", 1)>>],
     [Literal("Contract", ZeroBody, <<"w">>) EXCEPT
                                                     !.attributes = <<"addr">>]}

MCReceivedBytes ==
    UNION {{Bytes(p)} \cup Damaged(Bytes(p)) : p \in PeerTxs}

PeerJSONTxs ==
    {Literal("Miner", "b", <<"w">>), Literal("Miner", ZeroBody, <<>>),
     Literal("Publish", "b", <<>>)}

PeerDocs == {MarshalJSON(p).doc : p \in PeerJSONTxs}

MCReceivedDocs ==
    UNION {{d} \cup Tampered(d, {e.txid : e \in PeerDocs}) : d \in PeerDocs}
=============================================================================
