----------------------------- MODULE MCCliFlags -----------------------------
(* CliFlags instantiated for TLC. *)
EXTENDS CliFlags

\* An address flag with a long and a short name and a Fixed8 flag with one
\* name, each with the zero value as its default.
MCFlags ==
    << AddressFlag(<< <<"t", "o">>, <<"t">> >>, "receiver"),
       Fixed8Flag(<< <<"g", "a", "s">> >>, "fee") >>

\* Two addresses, a number, and a word that is neither.
MCWords ==
    {[kind |-> "address", value |-> 1], [kind |-> "address", value |-> 2],
     [kind |-> "number", value |-> 3], [kind |-> "junk", value |-> 0]}

\* The names of the flags, and a name no flag has.
MCAsked == { <<"t", "o">>, <<"t">>, <<"g", "a", "s">>, <<"f", "r", "o", "m">> }
=============================================================================
