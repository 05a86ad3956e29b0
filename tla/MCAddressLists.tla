---------------------------- MODULE MCAddressLists ----------------------------
(* Addresses of four bytes of two bits, and ports of four bits. *)
EXTENDS AddressLists

MCAddresses == {Address(0, 0, 0, 0), Address(1, 0, 2, 1), Address(1, 3, 0, 2), Word - 1}
MCLastBytes == {0, Radix - 1}

Part == {<<1>>, <<0, 1>>, <<3, 0>>}
MCBlockParts ==
    {parts \in {<<a, b, c, d>> : a \in {<<1>>, <<3, 0>>}, b \in Part,
                                 c \in {<<2>>, <<1, 2>>}, d \in {<<2>>, <<2, 0>>}} : AreParts(parts)}

\* From tests/ips_parser.cpp: missing bytes, empty bytes, bytes over the limit,
\* more than one slash or dash where one is due, names.
MCMalformed ==
    {<<>>, <<1>>, <<Letter, Dot, Letter>>, <<Dot, Dot, Dot>>,
     <<0, Dot, 0, Dot, 0>>, <<0, Dot, 0, Dot, 0, Dot>>,
     <<Letter, Slash, 2>>, <<1, Slash, 2, Slash, 2>>, <<3, Dot, 3, Dot, Dot, 3>>, <<0, Dot, 1240, Dot, 0, Dot, 1>>,
     <<1, Dot, 1, Dot, 1, Dot, Radix>>, <<Dash, 1, Dot, 2, Dot, 3, Dot, Radix>>,
     <<1, Dash, Dash, 1, Dot, 1, Dot, 2, Dot, 2, Dash, Dash, 3>>,
     <<1, Dash, 2, Dot, 1, Dash, 2, Dot, Dash, Dot, 2>>,
     <<1, Dash, 2, Dot, 1, Dash, 2, Dot, 3, Dot, Dash>>,
     <<Dash, Dash, Dash, Dash>>, <<Dash, Dot, Dash, Dot, Dash, Dot, Dash>>}

\* One address, ranges up to the last address and the last address alone, a range
\* whose first byte is a digit, blocks, and removals.
MCLines ==
    LET two == Dotted(Address(0, 0, 0, 2)) \o <<Dash, 3>>
    IN  {Dotted(0), Dotted(Word - 1), two, <<Dash>> \o two,
         <<3, Slash, 2>>, Dotted(Address(3, 3, 3, 1)) \o <<Dash, 3>>, <<Dash>> \o Dotted(Address(3, 0, 0, 1)),
         <<0, Dot, 0, Dot, 0, Dash, 1, Dot, 0, Dash, 1>>}

MCOthers == {<<Itv(0, 1), Itv(5, 6)>>}
MCDigits == <<2, 3>>
==============================================================================
