------------------------------- MODULE MCCodecs -------------------------------
EXTENDS Codecs

Long(n) == [i \in 1 .. n |-> 97]
Ports == {0, 80, 255, 256, 65535}
Rests == {<<>>, <<5>>}

Address(atyp, host, port, rest) ==
  [atyp |-> atyp,
   body |-> (IF atyp = 3 THEN <<Len(host)>> ELSE <<>>) \o host \o Bytes16(port) \o rest]

\* "1.2.3.4", "::1" and "::ffff:1.2.3.4".
V4 == <<49, 46, 50, 46, 51, 46, 52>>
V6 == <<58, 58, 49>>
V46 == <<58, 58, 102, 102, 102, 102, 58>> \o V4
MCLiteral == [n \in {V4, V6, V46} |->
  IF n = V6 THEN [i \in 1 .. 16 |-> i \div 16]
  ELSE IF n = V4 THEN <<1, 2, 3, 4>> ELSE Mapped(<<1, 2, 3, 4>>)]

MCAddresses ==
  {Address(1, <<10, 0, 0, 1>>, p, r) : p \in Ports, r \in Rests}
    \cup {Address(3, Long(n), p, r) : n \in {0, 1, 254, 255}, p \in Ports, r \in Rests}
    \cup {Address(3, n, p, r) : n \in {V4, V6, V46}, p \in Ports, r \in Rests}
    \cup {Address(4, h, p, r) : h \in {[i \in 1 .. 16 |-> i], Mapped(<<1, 2, 3, 4>>)},
                                p \in Ports, r \in Rests}

\* Hosts of any length; a port that is no number, and numbers that two bytes do not hold.
MCRequests ==
  [host : {<<>>, V4, V6, V46, Long(255), Long(256), Long(300)},
   port : {<<>>, <<-1>>, <<0>>, <<80>>, <<65535>>, <<65536>>, <<70000>>}, rest : Rests]

MCFrames ==
  [op : {0, 2, 8, 9, 10}, len : {0, 1, 125, 126, 127, 255, 256, 65535, 65536, 131077},
   mask : BOOLEAN, rest : {<<>>, <<1, 2, 3>>}]

MCQueries ==
  [id : {1, 258}, labels : {<<>>, <<<<97>>>>, <<<<97, 0>>, <<98>>>>, <<Long(63)>>},
   type : {1, 28, 65}, extra : {<<>>, <<0, 0, 41, 4, 208>>}]

\* Every list of up to three blocks.
Blocks == {<<0, 0>>} \cup
  UNION {{<<k * 2 ^ (Bits - ones), ones>> : k \in 0 .. 2 ^ ones - 1} : ones \in 1 .. Bits}
MCTables == {<<>>} \cup UNION {[1 .. n -> Blocks] : n \in 1 .. 3}

Words == UNION {[1 .. n -> {<<"a">>, <<"B">>, <<"a", "b">>}] : n \in 1 .. 3}
Short == {w \in Words : Len(w) < 3}
MCLists ==
  {[labels |-> w, dot |-> d, entries |-> <<e, f>>] :
     w \in Words, d \in BOOLEAN, e \in Short \cup {<<>>}, f \in {<<<<"b">>>>, <<<<"A", "b">>>>}}
=============================================================================
