------------------------------ MODULE CliFlags ------------------------------
(***************************************************************************)
(* cli/flags: the Address and Fixed8 flags of the command line.            *)
(*                                                                         *)
(* A flag definition is held by value.  Apply copies it and registers a    *)
(* pointer to the Value of the copy in the flag set, under every name of   *)
(* the flag; the parser calls Set through that pointer for each occurrence *)
(* on the command line and stops at the first error; the command then      *)
(* asks the context for a name and casts what it gets.                     *)
(*                                                                         *)
(* The flag set is a function from names to the cells of a heap.  A word   *)
(* of the command line is what the two parsers make of it: the Uint160 it  *)
(* spells, the number it spells, or neither.  A name is its characters.    *)
(***************************************************************************)
EXTENDS Integers, Sequences, FiniteSets

CONSTANTS
    Flags,          \* the definitions, in the order of the application:
                    \* [kind, names, usage, value]
    Words,          \* the words that follow a flag name: [kind, value]
    Asked,          \* the names commands ask the context for
    Fixed8Unit,     \* util.Fixed8 of the number 1 (10^8 in the code)
    MaxLine         \* the longest command line, in occurrences of flags

\* No two definitions share a name: FlagSet.Var panics on a name that is
\* taken, when the program starts.
ASSUME \A i, j \in DOMAIN Flags :
          i # j => {Flags[i].names[k] : k \in DOMAIN Flags[i].names}
                     \cap {Flags[j].names[k] : k \in DOMAIN Flags[j].names} = {}

VARIABLES
    cells,          \* the heap: the Values the flag set points to
    set,            \* flag.FlagSet: name -> index of a cell
    line,           \* the occurrences parsed so far: <<name, word>>
    status,         \* "ok", "exit" after a word was refused, "panic"
    answer          \* what the last call of the command returned

vars == <<cells, set, line, status, answer>>

\* eachName: the names of a definition.
Names(f) == {f.names[i] : i \in DOMAIN f.names}
NoAnswer == [op |-> "none", name |-> <<>>, out |-> "ok", val |-> 0]

-----------------------------------------------------------------------------
(* The values: Address and Fixed8 *)

\* The zero values of the two types, and a definition of each.
Address == [kind |-> "address", IsSet |-> FALSE, Value |-> 0]
Fixed8V == [kind |-> "fixed8", Value |-> 0]

AddressFlag(names, usage) == [kind |-> "address", names |-> names, usage |-> usage, value |-> Address]
Fixed8Flag(names, usage)  == [kind |-> "fixed8", names |-> names, usage |-> usage, value |-> Fixed8V]

\* address.StringToUint160 and util.Fixed8FromString: the value, or the zero
\* value and an error.
StringToUint160(s) ==
    IF s.kind = "address" THEN [val |-> s.value, err |-> FALSE] ELSE [val |-> 0, err |-> TRUE]
Fixed8FromString(s) ==
    IF s.kind = "number" THEN [val |-> s.value * Fixed8Unit, err |-> FALSE]
    ELSE [val |-> 0, err |-> TRUE]

\* Variant of SetAddress that forgets to mark the address as set.
SetAddressUnmarked(a, s) ==
    IF StringToUint160(s).err THEN [cell |-> a, err |-> TRUE]
    ELSE [cell |-> [a EXCEPT !.Value = StringToUint160(s).val], err |-> FALSE]

\* Address.Set and Fixed8.Set: a word that does not parse is an exit error
\* and the value stays.
SetAddress(a, s) ==
    IF StringToUint160(s).err THEN [cell |-> a, err |-> TRUE]
    ELSE [cell |-> [a EXCEPT !.IsSet = TRUE, !.Value = StringToUint160(s).val],
          err  |-> FALSE]

SetFixed8(a, s) ==
    IF Fixed8FromString(s).err THEN [cell |-> a, err |-> TRUE]
    ELSE [cell |-> [a EXCEPT !.Value = Fixed8FromString(s).val], err |-> FALSE]

Set(a, s) == IF a.kind = "address" THEN SetAddress(a, s) ELSE SetFixed8(a, s)

\* Address.String and Fixed8.String: the text the help shows as the default,
\* the address of the Uint160 and the decimal form of the number.
AddressString(a) == <<"address", a.Value>>
Fixed8String(a)  == <<"decimal", a.Value \div Fixed8Unit, a.Value % Fixed8Unit>>

\* Variant of Uint160 without the check.
Uint160Unchecked(a) == [out |-> "ok", val |-> a.Value]

\* Address.Uint160 panics on an address that was not set; Fixed8.Fixed8.
Uint160(a) == IF ~a.IsSet THEN [out |-> "panic", val |-> 0] ELSE [out |-> "ok", val |-> a.Value]
Fixed8(a)  == [out |-> "ok", val |-> a.Value]

-----------------------------------------------------------------------------
(* The definitions *)

\* AddressFlag.IsSet, GetName, and String with getNameHelp: one dash for a
\* name of one character, two for any other.  Those of Fixed8Flag are copies.
IsSet(f)          == f.value.IsSet
GetName(f)        == f.names
getNameHelp(name) == <<IF Len(name) = 1 THEN "-" ELSE "--", name, " value">>
String(f)         == [help |-> [i \in DOMAIN f.names |-> getNameHelp(f.names[i])],
                      usage |-> f.usage]
Fixed8FlagGetName(f) == f.names
Fixed8FlagString(f)  == String(f)

\* Variant of Apply with a copy of the value for every name.
ApplyPerName(f) ==
    /\ cells' = cells \o [i \in DOMAIN f.names |-> f.value]
    /\ set' = [n \in DOMAIN set \cup Names(f) |->
                 IF n \in Names(f)
                 THEN Len(cells) + (CHOOSE i \in DOMAIN f.names : f.names[i] = n)
                 ELSE set[n]]
    /\ UNCHANGED <<line, status, answer>>

\* AddressFlag.Apply.  The receiver is a copy: one new cell, registered under
\* every name.  Fixed8Flag.Apply is the same code.
Apply(f) ==
    /\ cells' = Append(cells, f.value)
    /\ set' = [n \in DOMAIN set \cup Names(f) |->
                 IF n \in Names(f) THEN Len(cells) + 1 ELSE set[n]]
    /\ UNCHANGED <<line, status, answer>>

Fixed8FlagApply(f) == Apply(f)

Applied == Len(cells) >= Len(Flags)

\* The application applies its definitions in their order.
ApplyNext ==
    /\ ~Applied
    /\ LET f == Flags[Len(cells) + 1] IN
        \/ f.kind = "address" /\ Apply(f)
        \/ f.kind = "fixed8" /\ Fixed8FlagApply(f)

-----------------------------------------------------------------------------
(* The command line and the command *)

\* The parser meets a name of the set followed by a word.
Parse ==
    /\ status = "ok" /\ Applied /\ Len(line) < MaxLine
    /\ \E name \in DOMAIN set, s \in Words :
        LET r == Set(cells[set[name]], s) IN
        /\ cells' = [cells EXCEPT ![set[name]] = r.cell]
        /\ status' = IF r.err THEN "exit" ELSE "ok"
        /\ line' = Append(line, <<name, s>>)
    /\ UNCHANGED <<set, answer>>

\* ctx.Generic(name) and the cast of the caller: nil for a name the set does
\* not have, and a cast to another type than the cell's, panic.
Generic(name, kind) ==
    IF name \in DOMAIN set /\ cells[set[name]].kind = kind
    THEN [out |-> "ok", cell |-> cells[set[name]]]
    ELSE [out |-> "panic"]

Returned(op, name, r) ==
    /\ answer' = [op |-> op, name |-> name, out |-> r.out, val |-> r.val]
    /\ status' = IF r.out = "panic" THEN "panic" ELSE status
    /\ UNCHANGED <<cells, set, line>>

\* Fixed8FromContext, and ctx.Generic(name).(*Address).Uint160().
Fixed8FromContext(name) ==
    LET g == Generic(name, "fixed8") IN
    Returned("Fixed8FromContext", name,
             IF g.out = "panic" THEN [out |-> "panic", val |-> 0] ELSE Fixed8(g.cell))

AddressFromContext(name) ==
    LET g == Generic(name, "address") IN
    Returned("Uint160", name,
             IF g.out = "panic" THEN [out |-> "panic", val |-> 0] ELSE Uint160(g.cell))

Run ==
    /\ status = "ok" /\ Applied
    /\ \E name \in Asked : Fixed8FromContext(name) \/ AddressFromContext(name)

Init ==
    /\ cells = <<>>
    /\ set = <<>>
    /\ line = <<>>
    /\ status = "ok"
    /\ answer = NoAnswer

Next == ApplyNext \/ Parse \/ Run

Spec == Init /\ [][Next]_vars

-----------------------------------------------------------------------------
(* Properties *)

\* The values the words of the command line spell.
Spelled(kind) ==
    {Set(zero, s).cell.Value : zero \in {z \in {Address, Fixed8V} : z.kind = kind}, s \in Words}

\* The type invariant: every name of the set points to a cell of the kind of
\* its flag, and a command is handed a value of the kind it asked for:
\* Uint160 never returns the zero value of an address that was not given.
TypeOK ==
    /\ status \in {"ok", "exit", "panic"}
    /\ \A n \in DOMAIN set : set[n] \in DOMAIN cells
    /\ \A i \in DOMAIN cells : cells[i].kind = Flags[i].kind
    /\ answer.out = "ok" =>
          \/ answer.op = "none"
          \/ answer.op = "Uint160" /\ answer.val \in Spelled("address") \ {0}
          \/ answer.op = "Fixed8FromContext" /\ answer.val \in Spelled("fixed8")

\* The words given to the flag that has the name, under any of its names,
\* and accepted.
Given(name) ==
    LET f == CHOOSE g \in {Flags[i] : i \in DOMAIN Flags} : name \in Names(g) IN
    SelectSeq(line, LAMBDA o : o[1] \in Names(f) /\ ~Set(f.value, o[2]).err)

\* The context holds the command line: whatever name of a flag the command
\* asks for, it finds the value of the last word given to that flag under
\* any of its names, or the default of the definition when there was none;
\* a word that was refused changes nothing.  Apply has to register one cell
\* for all the names, and Set to leave the cell alone on an error.
ContextHoldsTheCommandLine ==
    \A name \in DOMAIN set :
        LET f == CHOOSE g \in {Flags[i] : i \in DOMAIN Flags} : name \in Names(g) IN
        cells[set[name]] =
            IF Given(name) = <<>> THEN f.value
            ELSE Set(f.value, Given(name)[Len(Given(name))][2]).cell

\* Uint160 panics exactly when the command line has no address for the
\* flag: IsSet says whether a word was given, also after a second word was
\* refused, and a flag given under one name is set under the other.  A
\* command may rely on the check it is told to make (address.go:50).
PanicsOnlyWhenNotGiven ==
    [][(answer' # answer /\ answer'.op = "Uint160" /\ answer'.name \in DOMAIN set
        /\ cells[set[answer'.name]].kind = "address")
          => (answer'.out = "panic" <=> Given(answer'.name) = <<>>)]_vars

=============================================================================
