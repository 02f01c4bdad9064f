---------------------------- MODULE TunnelProofs ----------------------------
(***************************************************************************)
(* The two halves of a tunnel's life.  What the handshake of Tunnel        *)
(* guarantees, for any hosts and any amount of data: one invariant says,   *)
(* for every place the server can be in, where the client may be meanwhile *)
(* and what is on its way between them.  What the frames of Stream carry   *)
(* once it is open, for any number of bytes: one invariant says which part *)
(* of what each end sends every buffer on the way holds.                   *)
(***************************************************************************)
EXTENDS Tunnel, Stream, SequenceTheorems, TLAPS

Mac == IF right THEN "right" ELSE "wrong"

Wire(pc, upward, downward) == cpc = pc /\ c2s = upward /\ s2c = downward
DataUnderWay == c2s \in Seq({"data"})
\* The client has gone and the server has read nothing of it since.
Alone == cpc = "done" /\ c2s = <<>>

\* What is known of the dial when the server is before its target.
Unasked == wanted = None /\ opened = None /\ told = None

ServerInv ==
  /\ spc = "none" => Unasked /\ Wire("dial", <<>>, <<>>)
  /\ spc = "request" =>
       Unasked /\ (Alone \/ Wire("upgrade", <<"GET">>, <<>>))
  /\ spc = "nonce" =>
       /\ Unasked
       /\ Alone \/ Wire("upgrade", <<>>, <<"101">>) \/ Wire("nonce", <<>>, <<>>)
  /\ spc = "mac" =>
       /\ Unasked
       /\ \/ Alone
          \/ Wire("upgrade", <<>>, <<"101", "nonce">>) \/ Wire("nonce", <<>>, <<"nonce">>)
          \/ Wire("mac", <<>>, <<>>)
          \/ Wire("target", <<Mac>>, <<>>) \/ Wire("status", <<Mac, asked>>, <<>>)
  /\ spc \in {"quota", "target"} =>
       /\ Unasked /\ right
       /\ Wire("target", <<>>, <<>>) \/ Wire("status", <<asked>>, <<>>)
  /\ spc = "dial" =>
       /\ wanted = asked /\ opened = None /\ told = None /\ right
       /\ Wire("status", <<>>, <<>>)
  /\ spc \in {"relay", "query"} =>
       /\ wanted = asked /\ opened = asked /\ told = "0" /\ right
       /\ \/ Wire("status", <<>>, <<"0">>)
          \/ cpc = "open" /\ s2c = <<>> /\ DataUnderWay
          \/ cpc = "done" /\ result = "ok" /\ DataUnderWay

ClosedInv == spc = "closed" =>
  /\ c2s = <<>>
  /\ wanted # None => right /\ wanted = asked
  /\ told = "0" => opened = asked
  /\ cpc \in {"upgrade", "nonce", "mac", "target"} => told \in {None, "2"}
  /\ cpc = "upgrade" => s2c \in {<<>>, <<"101">>, <<"101", "nonce">>}
  /\ cpc = "nonce" => s2c \in {<<>>, <<"nonce">>}
  /\ cpc = "mac" => s2c = <<>>
  /\ cpc \in {"target", "status"} =>
       /\ told \in {None, "0", "1", "2"}
       /\ s2c = <<>> \/ (s2c = <<told>> /\ told # None)
       /\ told \in {"0", "1"} => s2c = <<told>>
  /\ cpc = "open" => s2c \in {<<>>, <<"answer">>}

ClientInv ==
  /\ cpc = "dial" => spc = "none"
  /\ cpc \notin {"open", "done"} => result = None
  /\ cpc = "open" => result = "ok" /\ told = "0"
  /\ cpc = "done" => result # None
  /\ result = "ok" => told = "0" /\ opened = asked
  /\ cpc = "done" /\ told \in {"0", "1"} /\ ~ broken
       => result = (IF told = "0" THEN "ok" ELSE "refused")

TypeOK ==
  /\ cpc \in ClientPCs /\ spc \in ServerPCs
  /\ asked \in Targets /\ right \in BOOLEAN
  /\ result \in Results \cup {None}
  /\ s2c \in Seq(FromServer)

-----------------------------------------------------------------------------
(***************************************************************************)
(* Short sequences, and what may be left of them.                          *)
(***************************************************************************)
LEMMA NoPrefix == Prefixes(<<>>) = {<<>>}
<1>1. Len(<<>>) = 0
  OBVIOUS
<1>2. 0 .. 0 = {0}
  OBVIOUS
<1>3. SubSeq(<<>>, 1, 0) = <<>>
  BY SubSeqEmpty
<1>4. Prefixes(<<>>) = {SubSeq(<<>>, 1, n) : n \in {0}}
  BY <1>1, <1>2, Zenon DEF Prefixes
<1> QED
  BY <1>3, <1>4, Zenon

LEMMA PrefixesOfOne == ASSUME NEW a PROVE Prefixes(<<a>>) = {<<>>, <<a>>}
<1>1. <<a>> \in Seq({a}) /\ Len(<<a>>) = 1
  OBVIOUS
<1>2. SubSeq(<<a>>, 1, 0) = <<>>
  BY SubSeqEmpty
<1>3. SubSeq(<<a>>, 1, 1) = <<a>>
  BY <1>1, SubSeqFull, Zenon
<1>4. 0 .. 1 = {0, 1}
  OBVIOUS
<1> QED
  BY <1>1, <1>2, <1>3, <1>4 DEF Prefixes

LEMMA PrefixesOfTwo ==
  ASSUME NEW a, NEW b PROVE Prefixes(<<a, b>>) = {<<>>, <<a>>, <<a, b>>}
<1>1. <<a, b>> \in Seq({a, b}) /\ Len(<<a, b>>) = 2
  OBVIOUS
<1>2. SubSeq(<<a, b>>, 1, 0) = <<>>
  BY SubSeqEmpty
<1>3. SubSeq(<<a, b>>, 1, 1) = <<a>>
  <2>1. /\ Len(SubSeq(<<a, b>>, 1, 1)) = 1 /\ SubSeq(<<a, b>>, 1, 1)[1] = a
        /\ SubSeq(<<a, b>>, 1, 1) \in Seq({a, b})
    OBVIOUS
  <2>2. <<a>> \in Seq({a, b}) /\ Len(<<a>>) = 1 /\ <<a>>[1] = a
    OBVIOUS
  <2>3. \A i \in 1 .. 1 : SubSeq(<<a, b>>, 1, 1)[i] = <<a>>[i]
    BY <2>1, <2>2
  <2> QED
    BY <2>1, <2>2, <2>3, SeqEqual
<1>4. SubSeq(<<a, b>>, 1, 2) = <<a, b>>
  BY <1>1, SubSeqFull, Zenon
<1>5. 0 .. 2 = {0, 1, 2}
  OBVIOUS
<1> QED
  BY <1>1, <1>2, <1>3, <1>4, <1>5 DEF Prefixes

LEMMA PrefixTypes ==
  ASSUME NEW S, NEW s \in Seq(S), NEW t \in Prefixes(s) PROVE t \in Seq(S)
<1>1. PICK n \in 0 .. Len(s) : t = SubSeq(s, 1, n)
  BY DEF Prefixes
<1>2. \A i \in 1 .. n : s[i] \in S
  OBVIOUS
<1> QED
  BY <1>1, <1>2, SubSeqProperties

LEMMA ShortSequences ==
  ASSUME NEW a, NEW b
  PROVE  /\ <<a>> # <<>> /\ Head(<<a>>) = a /\ Tail(<<a>>) = <<>>
         /\ <<a, b>> # <<>> /\ Head(<<a, b>>) = a /\ Tail(<<a, b>>) = <<b>>
         /\ Append(<<>>, a) = <<a>> /\ Append(<<a>>, b) = <<a, b>>
         /\ <<>> \o <<>> = <<>> /\ <<a>> \o <<>> = <<a>> /\ <<>> \o <<a>> = <<a>>
<1>1. <<>> \in Seq({a, b}) /\ <<a>> \in Seq({a, b}) /\ <<a, b>> \in Seq({a, b})
  OBVIOUS
<1>2. <<a>> # <<>> /\ Head(<<a>>) = a /\ <<a, b>> # <<>> /\ Head(<<a, b>>) = a
  OBVIOUS
<1>3. Append(<<>>, a) = <<a>> /\ Append(<<a>>, b) = <<a, b>>
  <2>1. /\ Len(<<>>) = 0 /\ Len(<<a>>) = 1 /\ <<a>>[1] = a
        /\ Len(<<a, b>>) = 2 /\ <<a, b>>[1] = a /\ <<a, b>>[2] = b
    OBVIOUS
  <2> DEFINE one == Append(<<>>, a)  two == Append(<<a>>, b)
  <2>2. one \in Seq({a, b}) /\ Len(one) = 1 /\ one[1] = a
    BY <1>1, <2>1, AppendProperties
  <2>3. two \in Seq({a, b}) /\ Len(two) = 2 /\ two[1] = a /\ two[2] = b
    BY <1>1, <2>1, AppendProperties
  <2> HIDE DEF one, two
  <2>4. one = <<a>>
    BY <1>1, <2>1, <2>2, SeqEqual
  <2>5. two = <<a, b>>
    BY <1>1, <2>1, <2>3, SeqEqual
  <2> QED
    BY <2>4, <2>5 DEF one, two
<1>4. Tail(<<a>>) = <<>>
  BY <1>1, <1>2, <1>3, HeadTailAppend
<1>5. Tail(<<a, b>>) = <<b>>
  BY <1>1, <1>2, <1>3, <1>4, HeadTailAppend
<1>6. <<>> \o <<>> = <<>> /\ <<a>> \o <<>> = <<a>> /\ <<>> \o <<a>> = <<a>>
  BY <1>1, ConcatEmptySeq
<1> QED
  BY <1>2, <1>3, <1>4, <1>5, <1>6

\* The heads and tails the handshake meets.
LEMMA WireFacts ==
  /\ Head(<<"101">>) = "101" /\ Tail(<<"101">>) = <<>>
  /\ Head(<<"101", "nonce">>) = "101" /\ Tail(<<"101", "nonce">>) = <<"nonce">>
  /\ Head(<<"nonce">>) = "nonce" /\ Tail(<<"nonce">>) = <<>>
  /\ Head(<<"0">>) = "0" /\ Head(<<"1">>) = "1" /\ Head(<<"2">>) = "2"
  /\ Tail(<<"0">>) = <<>> /\ Tail(<<"1">>) = <<>> /\ Tail(<<"2">>) = <<>>
  /\ Head(<<"answer">>) = "answer" /\ Tail(<<"answer">>) = <<>>
  /\ Head(<<"GET">>) = "GET" /\ Tail(<<"GET">>) = <<>>
  /\ Head(<<Mac>>) = Mac /\ Tail(<<Mac>>) = <<>>
  /\ Head(<<Mac, asked>>) = Mac /\ Tail(<<Mac, asked>>) = <<asked>>
  /\ Head(<<asked>>) = asked /\ Tail(<<asked>>) = <<>>
  BY ShortSequences, Zenon

LEMMA NotEmpty ==
  /\ <<"101">> # <<>> /\ <<"101", "nonce">> # <<>> /\ <<"nonce">> # <<>>
  /\ <<"0">> # <<>> /\ <<"1">> # <<>> /\ <<"2">> # <<>> /\ <<"answer">> # <<>>
  /\ <<"GET">> # <<>> /\ <<Mac>> # <<>> /\ <<Mac, asked>> # <<>> /\ <<asked>> # <<>>
  BY ShortSequences, Zenon

LEMMA NoneIsApart == None \notin {"0", "1", "2", "ok", "refused", "quota", "error"}
  BY TunnelAssumption DEF Results, FromServer

-----------------------------------------------------------------------------
(***************************************************************************)
(* Types.                                                                  *)
(***************************************************************************)
LEMMA DataDrops ==
  ASSUME NEW S, NEW s \in Seq(S), s # <<>> PROVE Tail(s) \in Seq(S) /\ Head(s) \in S
  BY HeadTailProperties

LEMMA ClientSendsTypes ==
  ASSUME TypeOK, NEW m, ClientSends(m) PROVE s2c' \in Seq(FromServer)
  BY PrefixTypes DEF ClientSends, TypeOK

LEMMA ClientReadsTypes ==
  ASSUME TypeOK, NEW m, ClientReads(m) PROVE s2c' \in Seq(FromServer)
  BY DataDrops DEF ClientReads, TypeOK

LEMMA ServerSendsTypes ==
  ASSUME TypeOK, NEW m \in FromServer, s2c' = Append(s2c, m)
  PROVE  s2c' \in Seq(FromServer)
  BY AppendProperties DEF TypeOK

LEMMA ServerClosesTypes ==
  ASSUME TypeOK, NEW last \in Seq(FromServer), NEW left, ServerCloses(last, left)
  PROVE  s2c' \in Seq(FromServer)
<1>1. s2c \o last \in Seq(FromServer)
  BY ConcatProperties DEF TypeOK
<1> QED
  BY <1>1, PrefixTypes DEF ServerCloses

LEMMA TypesStep == TypeOK /\ [Next]_vars => TypeOK'
<1> SUFFICES ASSUME TypeOK, [Next]_vars PROVE TypeOK'
  OBVIOUS
<1>0. <<>> \in Seq(FromServer) /\ \A m \in FromServer : <<m>> \in Seq(FromServer)
  OBVIOUS
<1> USE DEF ClientPCs, ServerPCs, Results
<1>1. CASE TlsOK \/ TlsFails \/ FingerprintDiffers
  BY <1>1 DEF TlsOK, TlsFails, FingerprintDiffers, Connected, ClientMoves, setup, TypeOK
<1>2. CASE Upgraded \/ ReadNonce \/ StatusOK \/ AppReads
  BY <1>2, ClientReadsTypes DEF Upgraded, ReadNonce, StatusOK, AppReads, ClientMoves,
       ClientKeeps, setup, TypeOK
<1>3. CASE WriteMac \/ WriteTarget \/ AppSends
  BY <1>3, ClientSendsTypes DEF WriteMac, WriteTarget, AppSends, ClientMoves,
       ClientKeeps, setup, TypeOK
<1>4. CASE WriteFails \/ StatusBad \/ ReadFails \/ AppCloses
  BY <1>0, <1>4 DEF WriteFails, StatusBad, ReadFails, AppCloses, ClientCloses,
       ClientKeeps, setup, TypeOK
<1>5. CASE Switching \/ WriteNonce \/ DnsStatus \/ DialOK
  <2>1. s2c' \in Seq(FromServer)
    BY <1>5, ServerSendsTypes DEF Switching, WriteNonce, DnsStatus, DialOK, ServerSends,
         FromServer
  <2> QED
    BY <1>5, <2>1 DEF Switching, WriteNonce, DnsStatus, DialOK, ServerMoves,
         ServerOpen, ServerKeeps, setup, TypeOK
<1>6. CASE ReadMac \/ WithinQuota \/ RelayUp \/ Deadline \/ \E t \in Targets : ReadTarget(t)
  BY <1>6 DEF ReadMac, WithinQuota, RelayUp, Deadline, ReadTarget, ServerMoves,
       ServerOpen, ServerKeeps, setup, TypeOK
<1>7. CASE NotServed \/ BadMac \/ OverQuota \/ DialFails \/ TargetCloses
           \/ AnswerQuery \/ HandshakeFails
  <2>1. \E last \in Seq(FromServer), left \in {c2s, Tail(c2s)} : ServerCloses(last, left)
    BY <1>0, <1>7 DEF NotServed, BadMac, OverQuota, DialFails, TargetCloses, AnswerQuery,
         HandshakeFails, Tells, FromServer
  <2>2. s2c' \in Seq(FromServer) /\ spc' = "closed"
    BY <2>1, ServerClosesTypes DEF ServerCloses
  <2> QED
    BY <1>7, <2>2 DEF NotServed, BadMac, OverQuota, DialFails, TargetCloses, AnswerQuery,
         HandshakeFails, ServerKeeps, setup, TypeOK
<1>8. CASE Break \/ Again
  BY <1>0, <1>8 DEF Break, Again, setup, TypeOK
<1>9. CASE UNCHANGED vars
  BY <1>9 DEF vars, TypeOK
<1> QED
  BY <1>1, <1>2, <1>3, <1>4, <1>5, <1>6, <1>7, <1>8, <1>9
     DEF Next, ClientStep, ServerStep, Environment

-----------------------------------------------------------------------------
(***************************************************************************)
(* The invariant, one action at a time: where the other end can be when    *)
(* the action happens, then what it leaves on the wire.                    *)
(***************************************************************************)
Inv == ServerInv /\ ClosedInv /\ ClientInv
ResetInv == reset => spc = "closed"

LEMMA InvInit == Init => Inv
  BY NoneIsApart DEF Init, Inv, ServerInv, ClosedInv, ClientInv, Unasked, Wire

LEMMA DialStep ==
  ASSUME TypeOK, Inv, TlsOK \/ TlsFails \/ FingerprintDiffers
  PROVE  Inv'
<1>1. cpc = "dial" /\ spc = "none" /\ Unasked /\ c2s = <<>> /\ s2c = <<>> /\ result = None
  BY DEF TlsOK, TlsFails, FingerprintDiffers, ClientMoves, Inv, ClientInv, ServerInv, Wire
<1>2. UNCHANGED <<asked, right, s2c, wanted, opened, told, broken>>
  BY DEF TlsOK, TlsFails, FingerprintDiffers, Connected, setup
<1>3. CASE TlsOK
  <2>1. /\ result' = None
        /\ \/ cpc' = "upgrade" /\ spc' = "request" /\ c2s' = <<"GET">>
           \/ cpc' = "nonce" /\ spc' = "nonce" /\ c2s' = <<>>
    BY <1>1, <1>3 DEF TlsOK, ClientMoves, Connected
  <2> QED
    BY <1>1, <1>2, <2>1, NoneIsApart
       DEF Inv, ServerInv, ClosedInv, ClientInv, Unasked, Wire, Alone
<1>4. CASE TlsFails
  <2>1. \/ cpc' = "dial" /\ spc' = "none" /\ c2s' = <<>> /\ result' = None
        \/ cpc' = "done" /\ spc' = "closed" /\ c2s' = <<>> /\ result' = "error"
    BY <1>1, <1>4 DEF TlsFails
  <2> QED
    BY <1>1, <1>2, <2>1, NoneIsApart
       DEF Inv, ServerInv, ClosedInv, ClientInv, Unasked, Wire
<1>5. CASE FingerprintDiffers
  <2>1. /\ cpc' = "done" /\ spc' \in {"request", "nonce"} /\ c2s' = <<>>
        /\ result' = "error"
    BY <1>1, <1>5 DEF FingerprintDiffers, ClientMoves, Connected
  <2> QED
    BY <1>1, <1>2, <2>1, NoneIsApart
       DEF Inv, ServerInv, ClosedInv, ClientInv, Unasked, Wire, Alone
<1> QED
  BY <1>3, <1>4, <1>5

LEMMA ReadStep ==
  ASSUME TypeOK, Inv, Upgraded \/ ReadNonce \/ StatusOK
  PROVE  Inv'
<1>1. UNCHANGED <<asked, right, spc, c2s, wanted, opened, told, broken>>
  BY DEF Upgraded, ReadNonce, StatusOK, ClientReads, ClientKeeps, setup
<1>2. CASE Upgraded
  <2>1. /\ cpc = "upgrade" /\ cpc' = "nonce" /\ result' = result
        /\ s2c # <<>> /\ Head(s2c) = "101" /\ s2c' = Tail(s2c)
    BY <1>2 DEF Upgraded, ClientMoves, ClientReads
  <2>2. \/ spc = "nonce" /\ s2c = <<"101">>
        \/ spc = "mac" /\ s2c = <<"101", "nonce">>
        \/ spc = "closed" /\ s2c \in {<<"101">>, <<"101", "nonce">>}
    BY <2>1, NotEmpty DEF Inv, ServerInv, ClosedInv, Wire, Alone, TypeOK, ServerPCs
  <2>3. \/ spc = "nonce" /\ s2c' = <<>>
        \/ spc = "mac" /\ s2c' = <<"nonce">>
        \/ spc = "closed" /\ s2c' \in {<<>>, <<"nonce">>}
    BY <2>1, <2>2, WireFacts
  <2>4. c2s = <<>> /\ result = None
    BY <2>1, <2>2, NotEmpty DEF Inv, ServerInv, ClosedInv, ClientInv, Wire, Alone
  <2> QED
    BY <1>1, <2>1, <2>3, <2>4 DEF Inv, ServerInv, ClosedInv, ClientInv, Unasked, Wire, Alone
<1>3. CASE ReadNonce
  <2>1. /\ cpc = "nonce" /\ cpc' = "mac" /\ result' = result
        /\ s2c # <<>> /\ Head(s2c) = "nonce" /\ s2c' = Tail(s2c)
    BY <1>3 DEF ReadNonce, ClientMoves, ClientReads
  <2>2. spc \in {"mac", "closed"} /\ s2c = <<"nonce">> /\ c2s = <<>> /\ result = None
    BY <2>1 DEF Inv, ServerInv, ClosedInv, ClientInv, Wire, Alone, TypeOK, ServerPCs
  <2>3. s2c' = <<>>
    BY <2>1, <2>2, WireFacts
  <2> QED
    BY <1>1, <2>1, <2>2, <2>3 DEF Inv, ServerInv, ClosedInv, ClientInv, Unasked, Wire, Alone
<1>4. CASE StatusOK
  <2>1. /\ cpc = "status" /\ cpc' = "open" /\ result' = "ok"
        /\ s2c # <<>> /\ Head(s2c) = "0" /\ s2c' = Tail(s2c)
    BY <1>4 DEF StatusOK, ClientMoves, ClientReads
  <2>2. spc \in {"relay", "query", "closed"} /\ s2c = <<told>> /\ c2s = <<>>
    BY <2>1 DEF Inv, ServerInv, ClosedInv, Wire, Alone, TypeOK, ServerPCs
  <2>3. told = "0" /\ s2c' = <<>>
    BY <2>1, <2>2, ShortSequences
  <2>4. opened = asked
    BY <2>2, <2>3 DEF Inv, ServerInv, ClosedInv
  <2>5. DataUnderWay'
    BY <1>1, <2>2, EmptySeq DEF DataUnderWay
  <2> QED
    BY <1>1, <2>1, <2>2, <2>3, <2>4, <2>5, NoneIsApart
       DEF Inv, ServerInv, ClosedInv, ClientInv, Wire, Alone
<1> QED
  BY <1>2, <1>3, <1>4

LEMMA WriteStep ==
  ASSUME TypeOK, Inv, WriteMac \/ WriteTarget
  PROVE  Inv'
<1>1. UNCHANGED <<asked, right, spc, wanted, opened, told, broken, result>>
  BY DEF WriteMac, WriteTarget, ClientKeeps, setup
<1>2. CASE WriteMac
  <2>1. cpc = "mac" /\ cpc' = "target" /\ ClientSends(Mac)
    BY <1>2 DEF WriteMac, ClientMoves, Mac
  <2>2. spc \in {"mac", "closed"} /\ c2s = <<>> /\ s2c = <<>> /\ result = None
    BY <2>1 DEF Inv, ServerInv, ClosedInv, ClientInv, Wire, Alone, TypeOK, ServerPCs
  <2>3. s2c' = <<>> /\ c2s' = IF spc = "closed" THEN <<>> ELSE <<Mac>>
    BY <2>1, <2>2, NoPrefix, ShortSequences DEF ClientSends
  <2>4. spc = "closed" => told \in {None, "2"}
    BY <2>1 DEF Inv, ClosedInv
  <2>5. Mac' = Mac
    BY <1>1 DEF Mac
  <2> QED
    BY <1>1, <2>1, <2>2, <2>3, <2>4, <2>5, NoneIsApart
       DEF Inv, ServerInv, ClosedInv, ClientInv, Unasked, Wire, Alone
<1>3. CASE WriteTarget
  <2>1. cpc = "target" /\ cpc' = "status" /\ ClientSends(asked)
    BY <1>3 DEF WriteTarget, ClientMoves
  <2>2. result = None
    BY <2>1 DEF Inv, ClientInv
  <2>3. CASE spc = "closed"
    <3>1. /\ c2s = <<>> /\ c2s' = <<>> /\ told \in {None, "2"}
          /\ s2c \in {<<>>, <<told>>} /\ s2c' \in Prefixes(s2c)
          /\ s2c # <<>> => told # None
      BY <2>1, <2>3 DEF Inv, ClosedInv, ClientSends
    <3>2. s2c' = <<>> \/ (s2c' = <<told>> /\ told # None)
      BY <3>1, NoPrefix, PrefixesOfOne, ShortSequences
    <3> QED
      BY <1>1, <2>1, <2>2, <2>3, <3>1, <3>2, NoneIsApart
         DEF Inv, ServerInv, ClosedInv, ClientInv
  <2>4. CASE spc # "closed"
    <3>1. /\ s2c = <<>> /\ s2c' = s2c /\ c2s' = Append(c2s, asked)
          /\ \/ spc = "mac" /\ c2s = <<Mac>>
             \/ spc \in {"quota", "target"} /\ c2s = <<>>
      BY <2>1, <2>4 DEF Inv, ServerInv, Wire, Alone, ClientSends, TypeOK, ServerPCs
    <3>2. \/ spc = "mac" /\ c2s' = <<Mac, asked>>
          \/ spc \in {"quota", "target"} /\ c2s' = <<asked>>
      BY <3>1, ShortSequences
    <3>3. Mac' = Mac
      BY <1>1 DEF Mac
    <3> QED
      BY <1>1, <2>1, <2>2, <2>4, <3>1, <3>2, <3>3
         DEF Inv, ServerInv, ClosedInv, ClientInv, Unasked, Wire, Alone
  <2> QED
    BY <2>3, <2>4
<1> QED
  BY <1>2, <1>3

LEMMA CloseStep ==
  ASSUME TypeOK, ResetInv, Inv, WriteFails \/ StatusBad \/ ReadFails
  PROVE  Inv'
<1>1. UNCHANGED <<asked, right, spc, wanted, opened, told, broken>>
  BY DEF WriteFails, StatusBad, ReadFails, ClientKeeps, setup
<1>2. cpc \notin {"open", "done"} /\ cpc' = "done" /\ result = None /\ s2c' = <<>>
  BY DEF WriteFails, StatusBad, ReadFails, ClientCloses, Inv, ClientInv
<1>3. spc = "closed" /\ c2s = <<>>
  <2>1. CASE WriteFails \/ ReadFails
    BY <2>1 DEF WriteFails, ReadFails, ResetInv, Inv, ClosedInv
  <2>2. CASE StatusBad
    <3>1. cpc = "status" /\ s2c # <<>> /\ Head(s2c) # "0"
      BY <2>2 DEF StatusBad
    <3>2. s2c # <<"0">>
      BY <3>1, WireFacts
    <3>3. spc \notin {"none", "request", "nonce", "mac", "quota", "target", "dial",
                     "relay", "query"}
      BY <3>1, <3>2 DEF Inv, ServerInv, Wire, Alone
    <3> QED
      BY <3>3 DEF TypeOK, ServerPCs, Inv, ClosedInv
  <2> QED
    BY <2>1, <2>2
<1>4. c2s' = <<>>
  BY <1>3, NoPrefix DEF WriteFails, StatusBad, ReadFails, ClientCloses
<1>5. /\ result' # None /\ result' # "ok"
      /\ told \in {"0", "1"} => told = "1" /\ result' = "refused"
  <2>1. CASE WriteFails
    <3>1. result' = "error" /\ told \in {None, "2"}
      BY <1>2, <1>3, <2>1 DEF WriteFails, ClientCloses, Inv, ClosedInv
    <3> QED
      BY <3>1, NoneIsApart
  <2>2. CASE StatusBad
    <3>1. /\ cpc = "status" /\ s2c # <<>> /\ Head(s2c) \in {"1", "2"}
          /\ result' = IF Head(s2c) = "2" THEN "quota" ELSE "refused"
      BY <1>2, <2>2 DEF StatusBad, ClientCloses
    <3>2. Head(s2c) = told
      BY <1>3, <3>1, ShortSequences DEF Inv, ClosedInv
    <3> QED
      BY <3>1, <3>2, NoneIsApart
  <2>3. CASE ReadFails
    <3>1. result' = "error" /\ cpc \in {"upgrade", "nonce", "status"} /\ s2c = <<>>
      BY <1>2, <2>3 DEF ReadFails, ClientCloses
    <3>2. told \notin {"0", "1"}
      BY <1>3, <3>1, NoneIsApart, ShortSequences DEF Inv, ClosedInv
    <3> QED
      BY <3>1, <3>2, NoneIsApart
  <2> QED
    BY <2>1, <2>2, <2>3
<1> QED
  BY <1>1, <1>2, <1>3, <1>4, <1>5 DEF Inv, ServerInv, ClosedInv, ClientInv

LEMMA AppStep ==
  ASSUME TypeOK, Inv, AppSends \/ AppReads \/ AppCloses
  PROVE  Inv'
<1>1. UNCHANGED <<asked, right, spc, wanted, opened, told, broken>>
  BY DEF AppSends, AppReads, AppCloses, ClientKeeps, setup
<1>2. cpc = "open" /\ result = "ok" /\ told = "0"
  BY DEF AppSends, AppReads, AppCloses, Inv, ClientInv
<1>3. opened = asked /\ spc \in {"relay", "query", "closed"}
  BY <1>2 DEF Inv, ClientInv, ServerInv, Wire, Alone, TypeOK, ServerPCs
<1>4. CASE spc = "closed"
  <2>1. c2s = <<>> /\ s2c \in {<<>>, <<"answer">>} /\ (wanted # None => right /\ wanted = asked)
    BY <1>2, <1>4 DEF Inv, ClosedInv
  <2>2. CASE AppSends
    <3>1. c2s' = <<>> /\ s2c' \in Prefixes(s2c) /\ cpc' = "open" /\ result' = "ok"
      BY <1>2, <1>4, <2>1, <2>2 DEF AppSends, ClientSends
    <3>2. s2c' \in {<<>>, <<"answer">>}
      BY <2>1, <3>1, NoPrefix, PrefixesOfOne
    <3> QED
      BY <1>1, <1>2, <1>3, <1>4, <2>1, <3>1, <3>2 DEF Inv, ServerInv, ClosedInv, ClientInv
  <2>3. CASE AppReads
    <3>1. c2s' = <<>> /\ s2c # <<>> /\ s2c' = Tail(s2c) /\ cpc' = "open" /\ result' = "ok"
      BY <1>2, <2>1, <2>3 DEF AppReads, ClientReads
    <3>2. s2c' = <<>>
      BY <2>1, <3>1, WireFacts
    <3> QED
      BY <1>1, <1>2, <1>3, <1>4, <2>1, <3>1, <3>2 DEF Inv, ServerInv, ClosedInv, ClientInv
  <2>4. CASE AppCloses
    <3>1. c2s' = <<>> /\ cpc' = "done" /\ result' = "ok"
      BY <1>2, <2>1, <2>4, NoneIsApart, NoPrefix DEF AppCloses, ClientCloses
    <3> QED
      BY <1>1, <1>2, <1>3, <1>4, <2>1, <3>1, NoneIsApart
         DEF Inv, ServerInv, ClosedInv, ClientInv
  <2> QED
    BY <2>2, <2>3, <2>4
<1>5. CASE spc # "closed"
  <2>1. s2c = <<>> /\ c2s \in Seq({"data"}) /\ wanted = asked /\ right
    BY <1>2, <1>3, <1>5 DEF Inv, ServerInv, Wire, DataUnderWay
  <2>2. CASE AppSends
    <3>1. c2s' = Append(c2s, "data") /\ s2c' = <<>> /\ cpc' = "open" /\ result' = "ok"
      BY <1>2, <1>5, <2>1, <2>2 DEF AppSends, ClientSends
    <3>2. DataUnderWay'
      BY <2>1, <3>1, AppendProperties DEF DataUnderWay
    <3> QED
      BY <1>1, <1>2, <1>3, <1>5, <2>1, <3>1, <3>2 DEF Inv, ServerInv, ClosedInv, ClientInv
  <2>3. ~ AppReads
    BY <2>1 DEF AppReads, ClientReads
  <2>4. CASE AppCloses
    <3>1. c2s' = c2s /\ cpc' = "done" /\ result' = "ok"
      BY <1>2, <2>1, <2>4, NoneIsApart DEF AppCloses, ClientCloses
    <3>2. DataUnderWay'
      BY <2>1, <3>1 DEF DataUnderWay
    <3> QED
      BY <1>1, <1>2, <1>3, <1>5, <2>1, <3>1, <3>2, NoneIsApart
         DEF Inv, ServerInv, ClosedInv, ClientInv
  <2> QED
    BY <2>2, <2>3, <2>4
<1> QED
  BY <1>4, <1>5

\* The server's steps leave to the client's half only what they tell it.
LEMMA ServerStepKeeps ==
  ASSUME ServerKeeps PROVE UNCHANGED <<asked, right, cpc, result, broken>> /\ Mac' = Mac
  BY DEF ServerKeeps, setup, Mac

LEMMA ServerReadsStep ==
  ASSUME TypeOK, Inv,
         Switching \/ WriteNonce \/ ReadMac \/ WithinQuota \/ \E t \in Targets : ReadTarget(t)
  PROVE  Inv'
<1>0. ServerKeeps /\ UNCHANGED <<opened, told>>
  BY DEF Switching, WriteNonce, ReadMac, WithinQuota, ReadTarget, ServerOpen
<1>1. UNCHANGED <<asked, right, cpc, result, broken, opened, told>> /\ Mac' = Mac
  BY <1>0, ServerStepKeeps
<1>2. CASE Switching
  <2>1. /\ spc = "request" /\ spc' = "nonce" /\ UNCHANGED wanted
        /\ c2s # <<>> /\ c2s' = Tail(c2s) /\ s2c' = Append(s2c, "101")
    BY <1>2 DEF Switching, ServerReads, ServerMoves
  <2>2. Unasked /\ Wire("upgrade", <<"GET">>, <<>>)
    BY <2>1 DEF Inv, ServerInv, Alone
  <2>3. c2s' = <<>> /\ s2c' = <<"101">>
    BY <2>1, <2>2, WireFacts, ShortSequences DEF Wire
  <2> QED
    BY <1>1, <2>1, <2>2, <2>3 DEF Inv, ServerInv, ClosedInv, ClientInv, Unasked, Wire
<1>3. CASE WriteNonce
  <2>1. /\ spc = "nonce" /\ spc' = "mac" /\ UNCHANGED <<c2s, wanted>>
        /\ s2c' = Append(s2c, "nonce")
    BY <1>3 DEF WriteNonce, ServerSends, ServerMoves
  <2>2. Unasked /\ (Alone \/ Wire("upgrade", <<>>, <<"101">>) \/ Wire("nonce", <<>>, <<>>))
    BY <2>1 DEF Inv, ServerInv
  <2>3. s2c \in {<<>>, <<"101">>} => s2c' = IF s2c = <<>> THEN <<"nonce">> ELSE <<"101", "nonce">>
    <3>1. Append(<<>>, "nonce") = <<"nonce">> /\ Append(<<"101">>, "nonce") = <<"101", "nonce">>
      BY ShortSequences
    <3>2. <<"101">> # <<>>
      BY ShortSequences
    <3> QED
      BY <2>1, <3>1, <3>2
  <2> QED
    BY <1>1, <2>1, <2>2, <2>3, NotEmpty
       DEF Inv, ServerInv, ClosedInv, ClientInv, Unasked, Wire, Alone
<1>4. CASE ReadMac
  <2>1. /\ spc = "mac" /\ spc' = "quota" /\ UNCHANGED <<s2c, wanted>>
        /\ c2s # <<>> /\ Head(c2s) = "right" /\ c2s' = Tail(c2s)
    BY <1>4 DEF ReadMac, ServerReads, ServerMoves
  <2>2. /\ Unasked
        /\ Wire("target", <<Mac>>, <<>>) \/ Wire("status", <<Mac, asked>>, <<>>)
    BY <2>1 DEF Inv, ServerInv, Wire, Alone
  <2>3. /\ Mac = "right" /\ s2c' = <<>>
        /\ \/ cpc = "target" /\ c2s' = <<>>
           \/ cpc = "status" /\ c2s' = <<asked>>
    BY <2>1, <2>2, WireFacts DEF Wire
  <2>4. right
    BY <2>3 DEF Mac
  <2> QED
    BY <1>1, <2>1, <2>2, <2>3, <2>4 DEF Inv, ServerInv, ClosedInv, ClientInv, Unasked, Wire
<1>5. CASE WithinQuota
  <2>1. spc = "quota" /\ spc' = "target" /\ UNCHANGED <<c2s, s2c, wanted>>
    BY <1>5 DEF WithinQuota, ServerMoves
  <2> QED
    BY <1>1, <2>1 DEF Inv, ServerInv, ClosedInv, ClientInv, Unasked, Wire
<1>6. ASSUME NEW t \in Targets, ReadTarget(t)
      PROVE  Inv'
  <2>1. /\ spc = "target" /\ spc' = "dial" /\ UNCHANGED s2c /\ wanted' = t
        /\ c2s # <<>> /\ Head(c2s) = t /\ c2s' = Tail(c2s)
    BY <1>6 DEF ReadTarget, ServerReads, ServerMoves
  <2>2. Unasked /\ right /\ Wire("status", <<asked>>, <<>>)
    BY <2>1 DEF Inv, ServerInv, Wire
  <2>3. wanted' = asked /\ c2s' = <<>>
    BY <2>1, <2>2, WireFacts DEF Wire
  <2> QED
    BY <1>1, <2>1, <2>2, <2>3 DEF Inv, ServerInv, ClosedInv, ClientInv, Unasked, Wire
<1> QED
  BY <1>2, <1>3, <1>4, <1>5, <1>6

LEMMA ServerOpensStep ==
  ASSUME TypeOK, Inv, DnsStatus \/ DialOK
  PROVE  Inv'
<1>1. UNCHANGED <<asked, right, cpc, result, broken, wanted>> /\ Mac' = Mac
  BY ServerStepKeeps DEF DnsStatus, DialOK, ServerOpen
<1>2. /\ spc = "dial" /\ spc' \in {"query", "relay"} /\ opened' = wanted /\ told' = "0"
      /\ c2s' = c2s /\ s2c' = Append(s2c, "0")
  BY DEF DnsStatus, DialOK, ServerMoves, ServerSends
<1>3. wanted = asked /\ right /\ Wire("status", <<>>, <<>>)
  BY <1>2 DEF Inv, ServerInv
<1>4. c2s' = <<>> /\ s2c' = <<"0">>
  BY <1>2, <1>3, ShortSequences DEF Wire
<1> QED
  BY <1>1, <1>2, <1>3, <1>4 DEF Inv, ServerInv, ClosedInv, ClientInv, Wire

LEMMA RelayStep == ASSUME TypeOK, Inv, RelayUp PROVE Inv'
<1>1. UNCHANGED <<asked, right, cpc, result, broken, wanted, opened, told>> /\ Mac' = Mac
  BY ServerStepKeeps DEF RelayUp, ServerOpen
<1>2. spc = "relay" /\ spc' = "relay" /\ s2c' = s2c /\ c2s # <<>> /\ c2s' = Tail(c2s)
  BY DEF RelayUp, ServerReads
<1>3. c2s \in Seq({"data"})
  BY <1>2 DEF Inv, ServerInv, Wire, DataUnderWay
<1>4. DataUnderWay'
  BY <1>2, <1>3, DataDrops DEF DataUnderWay
<1> QED
  BY <1>1, <1>2, <1>4 DEF Inv, ServerInv, ClosedInv, ClientInv, Wire

\* Whatever the server leaves unread, a prefix of what it wrote arrives.
LEMMA ClosesToPrefix ==
  ASSUME TypeOK, NEW last \in Seq(FromServer), NEW left, ServerCloses(last, left)
  PROVE  /\ spc' = "closed" /\ c2s' = <<>>
         /\ s2c' \in Prefixes(s2c \o last)
         /\ left = <<>> => s2c' = s2c \o last
<1>1. s2c \o last \in Seq(FromServer)
  BY ConcatProperties DEF TypeOK
<1>2. s2c \o last \in Prefixes(s2c \o last)
  BY <1>1, SubSeqFull, LenProperties DEF Prefixes
<1> QED
  BY <1>2 DEF ServerCloses

LEMMA SilentClose ==
  ASSUME TypeOK, NEW left, ServerCloses(<<>>, left)
  PROVE  /\ spc' = "closed" /\ c2s' = <<>> /\ s2c' \in Prefixes(s2c)
         /\ left = <<>> => s2c' = s2c
<1>1. <<>> \in Seq(FromServer) /\ s2c \o <<>> = s2c
  BY EmptySeq, ConcatEmptySeq DEF TypeOK
<1> QED
  BY <1>1, ClosesToPrefix

LEMMA ServerSilentStep ==
  ASSUME TypeOK, Inv, NotServed \/ BadMac \/ HandshakeFails \/ TargetCloses
  PROVE  Inv'
<1>1. UNCHANGED <<asked, right, cpc, result, broken, wanted, opened, told>>
  BY ServerStepKeeps DEF NotServed, BadMac, HandshakeFails, TargetCloses
<1>2. /\ spc' = "closed" /\ c2s' = <<>> /\ s2c' \in Prefixes(s2c)
      /\ spc = "relay" /\ c2s = <<>> => s2c' = s2c
  BY SilentClose DEF NotServed, BadMac, HandshakeFails, TargetCloses
<1>3. spc \in {"request", "nonce", "mac", "target", "query", "relay"}
  BY DEF NotServed, BadMac, HandshakeFails, TargetCloses
<1>4. spc = "query" => cpc = "done"
  BY DEF NotServed, BadMac, HandshakeFails, TargetCloses
<1>5. /\ wanted # None => right /\ wanted = asked
      /\ told = "0" => opened = asked
  BY <1>3, NoneIsApart DEF Inv, ServerInv, Unasked
<1>6. CASE cpc = "done"
  BY <1>1, <1>2, <1>5, <1>6 DEF Inv, ServerInv, ClosedInv, ClientInv
<1>7. CASE cpc # "done" /\ spc \in {"request", "nonce", "mac", "target"}
  <2>1. told = None
    BY <1>7 DEF Inv, ServerInv, Unasked
  <2>2. /\ cpc \in {"upgrade", "nonce", "mac", "target", "status"}
        /\ cpc = "upgrade" => s2c \in {<<>>, <<"101">>, <<"101", "nonce">>}
        /\ cpc = "nonce" => s2c \in {<<>>, <<"nonce">>}
        /\ cpc \in {"mac", "target", "status"} => s2c = <<>>
    BY <1>7 DEF Inv, ServerInv, Wire, Alone
  <2>3. /\ cpc = "upgrade" => s2c' \in {<<>>, <<"101">>, <<"101", "nonce">>}
        /\ cpc = "nonce" => s2c' \in {<<>>, <<"nonce">>}
        /\ cpc \in {"mac", "target", "status"} => s2c' = <<>>
    BY <1>2, <2>2, NoPrefix, PrefixesOfOne, PrefixesOfTwo
  <2> QED
    BY <1>1, <1>2, <1>5, <2>1, <2>2, <2>3, NoneIsApart
       DEF Inv, ServerInv, ClosedInv, ClientInv
<1>8. CASE cpc # "done" /\ spc = "relay"
  <2>1. told = "0" /\ (Wire("status", <<>>, <<"0">>) \/ (cpc = "open" /\ s2c = <<>>))
    BY <1>8 DEF Inv, ServerInv
  <2>2. \/ cpc = "status" /\ s2c' = <<"0">>
        \/ cpc = "open" /\ s2c' = <<>>
    BY <1>2, <1>8, <2>1, NoPrefix DEF Wire
  <2> QED
    BY <1>1, <1>2, <1>5, <2>1, <2>2, NoneIsApart
       DEF Inv, ServerInv, ClosedInv, ClientInv
<1> QED
  BY <1>3, <1>4, <1>6, <1>7, <1>8

LEMMA ServerTellsStep ==
  ASSUME TypeOK, Inv, OverQuota \/ DialFails
  PROVE  Inv'
<1>1. UNCHANGED <<asked, right, cpc, result, broken, wanted, opened>>
  BY ServerStepKeeps DEF OverQuota, DialFails
<1>2. PICK status \in {"1", "2"} :
        /\ Tells(status)
        /\ spc = IF status = "2" THEN "quota" ELSE "dial"
  BY DEF OverQuota, DialFails
<1>3. /\ opened = None /\ right /\ s2c = <<>> /\ cpc \in {"target", "status"}
      /\ wanted \in {None, asked} /\ result = None
      /\ status = "1" => cpc = "status" /\ c2s = <<>>
  BY <1>2 DEF Inv, ServerInv, ClientInv, Unasked, Wire
<1>4. CASE late
  <2>1. told' = None /\ spc' = "closed" /\ c2s' = <<>> /\ s2c' \in Prefixes(s2c)
    BY <1>2, <1>4, SilentClose DEF Tells
  <2>2. s2c' = <<>>
    BY <1>3, <2>1, NoPrefix
  <2> QED
    BY <1>1, <1>3, <2>1, <2>2, NoneIsApart DEF Inv, ServerInv, ClosedInv, ClientInv
<1>5. CASE ~ late
  <2>1. <<status>> \in Seq(FromServer) /\ s2c \o <<status>> = <<status>>
    BY <1>3, ShortSequences DEF FromServer
  <2>2. /\ told' = status /\ spc' = "closed" /\ c2s' = <<>>
        /\ s2c' \in Prefixes(<<status>>) /\ (c2s = <<>> => s2c' = <<status>>)
    <3>1. told' = status /\ ServerCloses(<<status>>, c2s)
      BY <1>2, <1>5 DEF Tells
    <3> QED
      BY <2>1, <3>1, ClosesToPrefix
  <2>3. s2c' \in {<<>>, <<status>>} /\ (status = "1" => s2c' = <<status>>)
    BY <1>3, <2>2, PrefixesOfOne
  <2> QED
    BY <1>1, <1>3, <2>2, <2>3, NoneIsApart DEF Inv, ServerInv, ClosedInv, ClientInv
<1> QED
  BY <1>4, <1>5

LEMMA AnswerStep == ASSUME TypeOK, Inv, AnswerQuery PROVE Inv'
<1>1. UNCHANGED <<asked, right, cpc, result, broken, wanted, opened, told>>
  BY ServerStepKeeps DEF AnswerQuery
<1>2. spc = "query" /\ c2s # <<>>
  BY DEF AnswerQuery
<1>3. PICK reply \in {<<"answer">>, <<>>} : ServerCloses(reply, Tail(c2s))
  BY DEF AnswerQuery
<1>4. spc' = "closed" /\ c2s' = <<>> /\ s2c' \in Prefixes(s2c \o reply)
  <2>1. <<"answer">> \in Seq(FromServer) /\ <<>> \in Seq(FromServer)
    BY EmptySeq DEF FromServer
  <2>2. CASE reply = <<>>
    BY <1>3, <2>1, <2>2, ClosesToPrefix, Zenon
  <2>3. CASE reply = <<"answer">>
    BY <1>3, <2>1, <2>3, ClosesToPrefix, Zenon
  <2> QED
    BY <2>2, <2>3
<1>5. /\ wanted = asked /\ opened = asked /\ told = "0" /\ right
      /\ cpc \in {"open", "done"} /\ (cpc = "open" => s2c = <<>>)
  BY <1>2 DEF Inv, ServerInv, Wire
<1>6. cpc = "open" => s2c' \in {<<>>, <<"answer">>}
  <2>1. <<>> \o reply = reply
    BY ShortSequences
  <2> QED
    BY <1>4, <1>5, <2>1, NoPrefix, PrefixesOfOne
<1> QED
  BY <1>1, <1>2, <1>4, <1>5, <1>6 DEF Inv, ServerInv, ClosedInv, ClientInv

LEMMA WorldStep == ASSUME TypeOK, Inv, Deadline \/ Break \/ Again \/ UNCHANGED vars PROVE Inv'
<1>1. CASE Deadline
  <2>1. UNCHANGED <<asked, right, cpc, spc, c2s, s2c, result, broken, wanted, opened, told>>
    BY <1>1, ServerStepKeeps DEF Deadline, ServerOpen
  <2>2. Mac' = Mac
    BY <2>1 DEF Mac
  <2>3. ServerInv'
    BY <2>1, <2>2 DEF Inv, ServerInv, Unasked, Wire, Alone, DataUnderWay
  <2> QED
    BY <2>1, <2>3 DEF Inv, ClosedInv, ClientInv
<1>2. CASE Break
  <2>1. /\ cpc' = "done" /\ spc' = "closed" /\ broken' /\ c2s' = <<>>
        /\ result' = IF result = None THEN "error" ELSE result
        /\ UNCHANGED <<asked, right, wanted, opened, told>>
        /\ spc # "closed" /\ cpc # "done"
    BY <1>2 DEF Break, setup
  <2>2. /\ wanted # None => right /\ wanted = asked
        /\ told = "0" => opened = asked
    BY <2>1, NoneIsApart DEF Inv, ServerInv, Unasked, TypeOK, ServerPCs
  <2>3. result' # None /\ (result' = "ok" => told = "0" /\ opened = asked)
    BY <2>1, NoneIsApart DEF Inv, ClientInv
  <2> QED
    BY <2>1, <2>2, <2>3 DEF Inv, ServerInv, ClosedInv, ClientInv
<1>3. CASE Again
  BY <1>3, NoneIsApart DEF Again, Inv, ServerInv, ClosedInv, ClientInv, Unasked, Wire
<1>4. CASE UNCHANGED vars
  BY <1>4 DEF vars, Inv, ServerInv, ClosedInv, ClientInv, Unasked, Wire, Alone,
       DataUnderWay, Mac
<1> QED
  BY <1>1, <1>2, <1>3, <1>4

LEMMA ResetStep == TypeOK /\ ResetInv /\ Inv /\ [Next]_vars => ResetInv'
<1> SUFFICES ASSUME TypeOK, ResetInv, Inv, [Next]_vars PROVE ResetInv'
  OBVIOUS
<1> USE DEF ResetInv
<1>1. CASE TlsOK \/ TlsFails \/ FingerprintDiffers
  <2>1. spc = "none"
    BY <1>1 DEF TlsOK, TlsFails, FingerprintDiffers, ClientMoves, Inv, ClientInv
  <2> QED
    BY <1>1, <2>1 DEF TlsOK, TlsFails, FingerprintDiffers, Connected
<1>2. CASE WriteMac \/ WriteTarget \/ AppSends
  BY <1>2 DEF WriteMac, WriteTarget, AppSends, ClientSends, ClientKeeps
<1>3. CASE Upgraded \/ ReadNonce \/ StatusOK \/ AppReads
  BY <1>3 DEF Upgraded, ReadNonce, StatusOK, AppReads, ClientReads, ClientKeeps
<1>4. CASE WriteFails \/ StatusBad \/ ReadFails \/ AppCloses
  BY <1>4 DEF WriteFails, StatusBad, ReadFails, AppCloses, ClientCloses, ClientKeeps
<1>5. CASE Switching \/ WriteNonce \/ ReadMac \/ WithinQuota \/ DnsStatus \/ DialOK
           \/ RelayUp \/ Deadline \/ \E t \in Targets : ReadTarget(t)
  <2>1. spc # "closed" /\ reset' = reset
    BY <1>5 DEF Switching, WriteNonce, ReadMac, WithinQuota, DnsStatus, DialOK, RelayUp,
         Deadline, ReadTarget, ServerMoves, ServerOpen
  <2> QED
    BY <2>1
<1>6. CASE NotServed \/ BadMac \/ OverQuota \/ DialFails \/ TargetCloses
           \/ AnswerQuery \/ HandshakeFails
  BY <1>6 DEF NotServed, BadMac, OverQuota, DialFails, TargetCloses, AnswerQuery,
       HandshakeFails, Tells, ServerCloses
<1>7. CASE Break \/ Again \/ UNCHANGED vars
  BY <1>7 DEF Break, Again, vars
<1> QED
  BY <1>1, <1>2, <1>3, <1>4, <1>5, <1>6, <1>7
     DEF Next, ClientStep, ServerStep, Environment

-----------------------------------------------------------------------------
IInv == TypeOK /\ ResetInv /\ Inv

THEOREM Invariance == Spec => []IInv
<1>1. Init => IInv
  <2>1. Init => TypeOK
    BY EmptySeq DEF Init, TypeOK, ClientPCs, ServerPCs
  <2> QED
    BY <2>1, InvInit DEF Init, IInv, ResetInv
<1>2. IInv /\ [Next]_vars => IInv'
  <2> SUFFICES ASSUME TypeOK, ResetInv, Inv, [Next]_vars PROVE Inv'
    BY TypesStep, ResetStep DEF IInv
  <2> QED
    BY DialStep, ReadStep, WriteStep, CloseStep, AppStep, ServerReadsStep,
       ServerOpensStep, RelayStep, ServerSilentStep, ServerTellsStep, AnswerStep,
       WorldStep DEF Next, ClientStep, ServerStep, Environment
<1> QED
  BY <1>1, <1>2, PTL DEF Spec

(***************************************************************************)
(* Both ends agree on the outcome, whatever the timing of deadlines,       *)
(* closings and resets (client.go:386-418, server.go:149-195).             *)
(***************************************************************************)
THEOREM EndsAgree == Spec => []Agreement
<1>1. IInv => Agreement
  <2> SUFFICES ASSUME IInv PROVE Agreement
    OBVIOUS
  <2>1. result = "ok" => opened = asked /\ told = "0"
    BY DEF IInv, Inv, ClientInv
  <2>2. wanted # None => right /\ wanted = asked
    BY NoneIsApart DEF IInv, Inv, ServerInv, ClosedInv, Unasked, TypeOK, ServerPCs
  <2>3. ASSUME told \in {"0", "1"}, result # None, ~ broken
        PROVE  result = (IF told = "0" THEN "ok" ELSE "refused")
    <3>1. CASE cpc = "done"
      BY <2>3, <3>1 DEF IInv, Inv, ClientInv
    <3>2. CASE cpc # "done"
      BY <2>3, <3>2 DEF IInv, Inv, ClientInv
    <3> QED
      BY <3>1, <3>2
  <2> QED
    BY <2>1, <2>2, <2>3 DEF Agreement
<1> QED
  BY <1>1, Invariance, PTL

(***************************************************************************)
(* What is next on the wire is what its reader awaits, so that no byte of  *)
(* the handshake is taken for another (protocol.go:12-14).                 *)
(***************************************************************************)
THEOREM StaysInStep == Spec => []InStep
<1>1. IInv => InStep
  <2> SUFFICES ASSUME IInv PROVE InStep
    OBVIOUS
  <2>1. ASSUME c2s # <<>>
        PROVE  Head(c2s) \in Expected(spc)
    <3>1. CASE spc = "request"
      BY <2>1, <3>1, WireFacts DEF IInv, Inv, ServerInv, Wire, Alone, Expected
    <3>2. CASE spc = "mac"
      <4>1. Head(c2s) = Mac
        BY <2>1, <3>2, WireFacts DEF IInv, Inv, ServerInv, Wire, Alone
      <4> QED
        BY <3>2, <4>1 DEF Expected, Mac
    <3>3. CASE spc \in {"quota", "target"}
      <4>1. Head(c2s) = asked
        BY <2>1, <3>3, WireFacts DEF IInv, Inv, ServerInv, Wire
      <4> QED
        BY <3>3, <4>1 DEF Expected, FromClient, IInv, TypeOK
    <3>4. CASE spc \in {"relay", "query"}
      <4>1. Head(c2s) = "data"
        <5>1. c2s \in Seq({"data"})
          BY <2>1, <3>4 DEF IInv, Inv, ServerInv, Wire, DataUnderWay
        <5> QED
          BY <2>1, <5>1, DataDrops
      <4> QED
        BY <3>4, <4>1 DEF Expected
    <3>5. spc \in {"request", "mac", "quota", "target", "relay", "query"}
      BY <2>1 DEF IInv, Inv, ServerInv, ClosedInv, Wire, Alone, TypeOK, ServerPCs
    <3> QED
      BY <3>1, <3>2, <3>3, <3>4, <3>5
  <2>2. ASSUME s2c # <<>>
        PROVE  Head(s2c) \in Awaited(cpc)
    <3>1. CASE cpc = "upgrade"
      <4>1. s2c \in {<<"101">>, <<"101", "nonce">>}
        BY <2>2, <3>1 DEF IInv, Inv, ServerInv, ClosedInv, Wire, Alone, TypeOK, ServerPCs
      <4> QED
        BY <3>1, <4>1, WireFacts DEF Awaited
    <3>2. CASE cpc = "nonce"
      <4>1. s2c = <<"nonce">>
        BY <2>2, <3>2 DEF IInv, Inv, ServerInv, ClosedInv, Wire, Alone, TypeOK, ServerPCs
      <4> QED
        BY <3>2, <4>1, WireFacts DEF Awaited
    <3>3. CASE cpc = "status"
      <4>1. s2c \in {<<"0">>, <<"1">>, <<"2">>}
        BY <2>2, <3>3 DEF IInv, Inv, ServerInv, ClosedInv, Wire, Alone, TypeOK, ServerPCs
      <4> QED
        BY <3>3, <4>1, WireFacts DEF Awaited
    <3>4. CASE cpc = "open"
      <4>1. s2c = <<"answer">>
        BY <2>2, <3>4 DEF IInv, Inv, ServerInv, ClosedInv, Wire, Alone, TypeOK, ServerPCs
      <4> QED
        BY <3>4, <4>1, WireFacts DEF Awaited
    <3>5. CASE cpc \notin {"upgrade", "nonce", "status", "open"}
      <4>1. Head(s2c) \in FromServer
        BY <2>2, DataDrops DEF IInv, TypeOK
      <4> QED
        BY <3>5, <4>1 DEF Awaited
    <3> QED
      BY <3>1, <3>2, <3>3, <3>4, <3>5
  <2> QED
    BY <2>1, <2>2 DEF InStep
<1> QED
  BY <1>1, Invariance, PTL

-----------------------------------------------------------------------------
(***************************************************************************)
(* From here on: the bytes.  Taking, dropping, joining: lengths, elements. *)
(***************************************************************************)
LEMMA Amounts == Data \in Nat /\ Reply \in Nat /\ Pings \in Nat
BY StreamAssumption

LEMMA TakeFacts ==
  ASSUME NEW S, NEW s \in Seq(S), NEW k \in 0 .. Len(s)
  PROVE  /\ Take(s, k) \in Seq(S) /\ Len(Take(s, k)) = k
         /\ \A i \in 1 .. k : Take(s, k)[i] = s[i]
BY DEF Take

LEMMA DropFacts ==
  ASSUME NEW S, NEW s \in Seq(S), NEW k \in 0 .. Len(s)
  PROVE  /\ Drop(s, k) \in Seq(S) /\ Len(Drop(s, k)) = Len(s) - k
         /\ \A i \in 1 .. Len(s) - k : Drop(s, k)[i] = s[k + i]
BY DEF Drop

LEMMA JoinFacts ==
  ASSUME NEW S, NEW s \in Seq(S), NEW t \in Seq(S)
  PROVE  /\ s \o t \in Seq(S) /\ Len(s \o t) = Len(s) + Len(t)
         /\ \A i \in 1 .. Len(s) : (s \o t)[i] = s[i]
         /\ \A i \in 1 .. Len(t) : (s \o t)[Len(s) + i] = t[i]
OBVIOUS

LEMMA AppendFacts ==
  ASSUME NEW S, NEW s \in Seq(S), NEW e \in S
  PROVE  /\ Append(s, e) \in Seq(S) /\ Len(Append(s, e)) = Len(s) + 1
         /\ \A i \in 1 .. Len(s) : Append(s, e)[i] = s[i]
         /\ Append(s, e)[Len(s) + 1] = e
OBVIOUS

LEMMA TailFacts ==
  ASSUME NEW S, NEW s \in Seq(S), s # <<>>
  PROVE  /\ Tail(s) \in Seq(S) /\ Len(Tail(s)) = Len(s) - 1 /\ Len(s) >= 1
         /\ \A i \in 1 .. Len(s) - 1 : Tail(s)[i] = s[i + 1]
         /\ Head(s) = s[1] /\ Head(s) \in S
OBVIOUS

LEMMA EmptyFacts ==
  ASSUME NEW S, NEW s \in Seq(S)
  PROVE  (s = <<>> <=> Len(s) = 0) /\ Len(s) \in Nat
OBVIOUS

LEMMA ByteFacts ==
  ASSUME NEW k \in Int
  PROVE  Byte(k) \in Bytes /\ "len" \notin DOMAIN Byte(k)
BY DEF Byte, Bytes

LEMMA NumberedFacts ==
  ASSUME NEW n \in Nat
  PROVE  LET s == [k \in 1 .. n |-> Byte(k)] IN
           s \in Seq(Bytes) /\ Len(s) = n /\ \A k \in 1 .. n : s[k] = Byte(k)
<1> DEFINE s == [k \in 1 .. n |-> Byte(k)]
<1>1. \A k \in 1 .. n : Byte(k) \in Bytes
  BY ByteFacts
<1>2. s \in Seq(Bytes)
  BY <1>1, IsASeq
<1>3. Len(s) = n
  BY <1>2, LenProperties
<1> QED
  BY <1>2, <1>3

LEMMA ScriptFacts ==
  /\ Script \in Seq(Bytes) /\ Len(Script) = Data + 2
  /\ \A i \in 1 .. Data : Script[i + 2] = Byte(i)
<1> DEFINE d == [k \in 1 .. Data |-> Byte(k)]
<1>1. d \in Seq(Bytes) /\ Len(d) = Data /\ \A k \in 1 .. Data : d[k] = Byte(k)
  BY NumberedFacts, Amounts
<1>2. <<Greeting, Request>> \in Seq(Bytes) /\ Len(<<Greeting, Request>>) = 2
  BY DEF Byte, Bytes, Greeting, Request
<1> HIDE DEF d
<1>3. /\ <<Greeting, Request>> \o d \in Seq(Bytes)
      /\ Len(<<Greeting, Request>> \o d) = 2 + Len(d)
      /\ \A i \in 1 .. Len(d) : (<<Greeting, Request>> \o d)[2 + i] = d[i]
  BY <1>1, <1>2, JoinFacts
<1>4. Script = <<Greeting, Request>> \o d
  BY DEF Script, d
<1> QED
  BY <1>1, <1>3, <1>4, Amounts

LEMMA DownwardFacts ==
  /\ Downward \in Seq(Bytes) /\ Len(Downward) = Reply
  /\ \A k \in 1 .. Reply : Downward[k] = Byte(k)
BY NumberedFacts, Amounts DEF Downward

\* A piece of what the target sends.
LEMMA PayloadFacts ==
  ASSUME NEW a \in Nat, NEW k \in a + 1 .. Reply
  PROVE  LET s == SubSeq(Downward, a + 1, k) IN
           /\ s \in Seq(Bytes) /\ Len(s) = k - a
           /\ \A i \in 1 .. k - a : s[i] = Byte(a + i)
<1> DEFINE s == SubSeq(Downward, a + 1, k)
<1>1. \A i \in a + 1 .. k : Downward[i] \in Bytes /\ Downward[i] = Byte(i)
  BY DownwardFacts, ByteFacts, Amounts
<1>2. /\ s \in Seq(Bytes) /\ Len(s) = (IF a + 1 <= k THEN k - (a + 1) + 1 ELSE 0)
      /\ \A i \in 1 .. k - (a + 1) + 1 : s[i] = Downward[(a + 1) + i - 1]
  BY <1>1, SubSeqProperties, Amounts
<1> HIDE DEF s
<1>3. Len(s) = k - a
  BY <1>2
<1>4. ASSUME NEW i \in 1 .. k - a PROVE s[i] = Byte(a + i)
  <2>1. s[i] = Downward[(a + 1) + i - 1] /\ (a + 1) + i - 1 = a + i
    BY <1>2
  <2> QED
    BY <1>1, <2>1
<1> QED
  BY <1>2, <1>3, <1>4 DEF s

-----------------------------------------------------------------------------
LEMMA StreamTypesInit == StreamInit => StreamTypeOK
<1>1. <<>> \in Seq(Bytes) /\ <<>> \in Seq(Bytes \cup Heads) /\ <<>> \in Seq(Frames)
  OBVIOUS
<1>2. [bytes |-> 0, pings |-> 0, open |-> TRUE]
        \in [bytes : 0 .. Reply, pings : 0 .. Pings, open : BOOLEAN]
  BY Amounts
<1>3. ASSUME StreamInit PROVE srv \in [bytes : 0 .. Reply, pings : 0 .. Pings, open : BOOLEAN]
  BY <1>2, <1>3 DEF StreamInit
<1> QED
  <2> SUFFICES ASSUME StreamInit PROVE StreamTypeOK
    OBVIOUS
  <2>1. 0 \in 0 .. Data + 2
    BY Amounts
  <2> QED
    BY <1>1, <1>3, <2>1, Zenon DEF StreamInit, StreamTypeOK

\* Pieces of the client's buffers and new pieces of the wire.
LEMMA PieceTypes ==
  /\ \A n \in Nat, op \in {"data", "pong"} : Head2(op, n) \in Bytes \cup Heads
  /\ Choice \in Bytes /\ Granted \in Bytes /\ Refused \in Bytes
  /\ Byte(0) \in Bytes \cup Heads
  /\ \A s \in Seq(Bytes) : s \in Seq(Bytes \cup Heads)
<1>1. \A n \in Nat, op \in {"data", "pong"} : Head2(op, n) \in Heads
  BY DEF Head2, Heads
<1>2. Choice \in Bytes /\ Granted \in Bytes /\ Refused \in Bytes /\ Byte(0) \in Bytes
  BY ByteFacts DEF Choice, Granted, Refused
<1>3. \A s \in Seq(Bytes) : s \in Seq(Bytes \cup Heads)
  BY SeqMonotonic
<1> QED
  BY <1>1, <1>2, <1>3

\* The two things SrvSends does.
SendsData(k) ==
  /\ frames' = Append(frames, [op |-> "data",
                               payload |-> SubSeq(Downward, srv.bytes + 1, k)])
  /\ srv' = [srv EXCEPT !.bytes = k]

SendsControl(op) ==
  /\ srv.pings < Pings
  /\ frames' = Append(frames, [op |-> op, payload |-> <<>>])
  /\ srv' = [srv EXCEPT !.pings = srv.pings + 1]

LEMMA SendsCases ==
  SrvSends => \/ \E k \in srv.bytes + 1 .. Reply : SendsData(k)
              \/ \E op \in {"ping", "pong", "close"} : SendsControl(op)
BY DEF SrvSends, SendsData, SendsControl

LEMMA StreamTypesStep ==
  ASSUME StreamTypeOK, [StreamNext]_streamVars, SrvReads => target' \in Seq(Bytes)
  PROVE  StreamTypeOK'
<1> USE DEF StreamTypeOK, appVars, upVars, downVars, srvVars
<1>1. CASE AppSpeaks
  <2>1. Script[said + 1] \in Bytes
    <3>1. said + 1 \in 1 .. Len(Script)
      BY <1>1, ScriptFacts, Amounts DEF AppSpeaks
    <3> QED
      BY <3>1, ScriptFacts, ElementOfSeq
  <2> QED
    BY <1>1, <2>1, AppendFacts, ScriptFacts, Amounts DEF AppSpeaks
<1>2. CASE AppLeaves
  BY <1>2 DEF AppLeaves
<1>3. CASE Fill
  BY <1>3, TakeFacts, DropFacts DEF Fill, Chunks
<1>4. CASE Greets
  <2>1. Append(toApp, Choice) \in Seq(Bytes) /\ (br # <<>> => Tail(br) \in Seq(Bytes))
    BY TailFacts, AppendFacts, PieceTypes
  <2> QED
    BY <1>4, <2>1 DEF Greets
<1>5. CASE Requested
  BY <1>5, TailFacts DEF Requested
<1>6. CASE Reached
  BY <1>6, AppendFacts, PieceTypes DEF Reached
<1>7. CASE Refuse
  BY <1>7, AppendFacts, PieceTypes DEF Refuse
<1>8. CASE Abandoned
  BY <1>8 DEF Abandoned
<1>9. CASE UpReads
  <2>1. \A s \in Seq(Bytes) : \A k \in Chunks(s) :
           Take(s, k) \in Seq(Bytes) /\ Drop(s, k) \in Seq(Bytes)
    BY TakeFacts, DropFacts DEF Chunks
  <2>2. sock' \in Seq(Bytes) /\ br' \in Seq(Bytes) /\ pend' \in Seq(Bytes)
    BY <1>9, <2>1 DEF UpReads
  <2> QED
    BY <1>9, <2>2 DEF UpReads
<1>10. CASE UpHead
  <2>1. Head2("data", Len(pend)) \in Bytes \cup Heads
    BY PieceTypes, EmptyFacts
  <2> QED
    BY <1>10, <2>1, AppendFacts DEF UpHead
<1>11. CASE UpBody
  BY <1>11, JoinFacts, PieceTypes DEF UpBody
<1>12. CASE UpEnds
  BY <1>12 DEF UpEnds
<1>13. CASE DownRest
  BY <1>13, TakeFacts, DropFacts, JoinFacts DEF DownRest, Delivers, Chunks
<1>14. CASE DownFrame
  <2>1. frames # <<>> /\ frames' = Tail(frames)
        /\ UNCHANGED <<appVars, br, st, conn, tun, upVars, wire, target, srv>>
    BY <1>14 DEF DownFrame
  <2>2. Head(frames) \in Frames /\ Tail(frames) \in Seq(Frames)
    BY <2>1, HeadTailProperties
  <2>3. Head(frames).payload \in Seq(Bytes)
    BY <2>2 DEF Frames
  <2>4. ASSUME Delivers(Head(frames).payload)
        PROVE  toApp' \in Seq(Bytes) /\ rest' \in Seq(Bytes)
    BY <2>3, <2>4, TakeFacts, DropFacts, JoinFacts DEF Delivers, Chunks
  <2>5. toApp' \in Seq(Bytes) /\ rest' \in Seq(Bytes) /\ down' \in {down, "pong"}
    BY <1>14, <2>4 DEF DownFrame
  <2> QED
    BY <2>1, <2>2, <2>5
<1>15. CASE PongHead
  BY <1>15, AppendFacts, PieceTypes DEF PongHead
<1>16. CASE PongBody
  BY <1>16, AppendFacts, PieceTypes DEF PongBody
<1>17. CASE DownEnds
  BY <1>17 DEF DownEnds
<1>18. CASE SrvReads
  <2>1. wire # <<>> /\ "len" \in DOMAIN Head(wire) /\ Len(wire) > Head(wire).len
    BY <1>18 DEF SrvReads
  <2>2. Head(wire) \in Bytes \cup Heads /\ Tail(wire) \in Seq(Bytes \cup Heads)
        /\ Len(Tail(wire)) = Len(wire) - 1
    BY <2>1, HeadTailProperties
  <2>3. Head(wire).len \in Nat
    BY <2>1, <2>2 DEF Bytes, Heads
  <2>4. Drop(wire, Head(wire).len + 1) \in Seq(Bytes \cup Heads)
    BY <2>1, <2>3, DropFacts, EmptyFacts
  <2> QED
    BY <1>18, <2>4 DEF SrvReads
<1>19. CASE SrvSends
  <2>0. /\ srv.bytes \in 0 .. Reply /\ srv.pings \in 0 .. Pings /\ srv.open \in BOOLEAN
        /\ srv = [bytes |-> srv.bytes, pings |-> srv.pings, open |-> srv.open]
    OBVIOUS
  <2>1. CASE \E k \in srv.bytes + 1 .. Reply : SendsData(k)
    <3>1. PICK k \in srv.bytes + 1 .. Reply : SendsData(k)
      BY <2>1
    <3>2. SubSeq(Downward, srv.bytes + 1, k) \in Seq(Bytes)
      <4>1. srv.bytes \in Nat
        BY <2>0
      <4> HIDE DEF StreamTypeOK
      <4> QED
        BY <3>1, <4>1, PayloadFacts, Zenon
    <3>3. [op |-> "data", payload |-> SubSeq(Downward, srv.bytes + 1, k)] \in Frames
      BY <3>2 DEF Frames
    <3>4. frames' \in Seq(Frames)
      BY <3>1, <3>3, AppendFacts DEF SendsData
    <3>5. srv' \in [bytes : 0 .. Reply, pings : 0 .. Pings, open : BOOLEAN]
      <4>1. srv' = [bytes |-> k, pings |-> srv.pings, open |-> srv.open] /\ k \in 0 .. Reply
        <5>1. srv' = [srv EXCEPT !.bytes = k]
          BY <3>1 DEF SendsData
        <5>2. k \in 0 .. Reply
          BY <2>0, <3>1, Amounts
        <5> QED
          BY <2>0, <5>1, <5>2
      <4> QED
        BY <2>0, <4>1
    <3> QED
      BY <1>19, <3>4, <3>5 DEF SrvSends
  <2>2. CASE \E op \in {"ping", "pong", "close"} : SendsControl(op)
    <3>1. PICK op \in {"ping", "pong", "close"} : SendsControl(op)
      BY <2>2
    <3>2. [op |-> op, payload |-> <<>>] \in Frames
      BY DEF Frames
    <3>3. frames' \in Seq(Frames)
      BY <3>1, <3>2, AppendFacts DEF SendsControl
    <3>4. srv' \in [bytes : 0 .. Reply, pings : 0 .. Pings, open : BOOLEAN]
      <4>1. /\ srv' = [bytes |-> srv.bytes, pings |-> srv.pings + 1, open |-> srv.open]
            /\ srv.pings + 1 \in 0 .. Pings
        <5>1. srv' = [srv EXCEPT !.pings = srv.pings + 1] /\ srv.pings < Pings
          BY <3>1 DEF SendsControl
        <5>2. srv.pings + 1 \in 0 .. Pings
          BY <2>0, <5>1, Amounts
        <5> QED
          BY <2>0, <5>1, <5>2
      <4> QED
        BY <2>0, <4>1
    <3> QED
      BY <1>19, <3>3, <3>4 DEF SrvSends
  <2> QED
    BY <1>19, <2>1, <2>2, SendsCases
<1>20. CASE SrvEnds
  <2>1. frames' \in Seq(Frames)
    BY <1>20, TakeFacts DEF SrvEnds
  <2>2. srv' \in [bytes : 0 .. Reply, pings : 0 .. Pings, open : BOOLEAN]
    BY <1>20 DEF SrvEnds
  <2> QED
    BY <1>20, <2>1, <2>2 DEF SrvEnds
<1>21. CASE UNCHANGED streamVars
  BY <1>21 DEF streamVars
<1> QED
  BY <1>1, <1>2, <1>3, <1>4, <1>5, <1>6, <1>7, <1>8, <1>9, <1>10, <1>11, <1>12, <1>13,
     <1>14, <1>15, <1>16, <1>17, <1>18, <1>19, <1>20, <1>21 DEF StreamNext, ProxyStep

\* s are the elements of the script that follow the first `at`.
Piece(s, at) == \A i \in 1 .. Len(s) : s[i] = Script[at + i]

\* Elements of the script that have left the socket, the reader, the client.
\* Every buffer of the client holds the script from where the next one stops.
Taken == said - Len(sock)
Read == Taken - Len(br)
Pos == Read - Len(pend)

SourceInv ==
  /\ Pos \in Nat
  /\ Piece(sock, Taken) /\ Piece(br, Read) /\ Piece(pend, Pos)

\* An application that closed after its first line, which is dialled all the same.
CutOff == Pos = 1 /\ eof /\ said = 1

\* Where the goroutines of both ends can be together, and how far the script is.
PlaceInv ==
  /\ st = "greet" => Pos = 0
  /\ st = "request" => Pos = 1
  /\ st = "dial" \/ up # "off" => Pos >= 2 \/ CutOff
  /\ st \in {"greet", "request", "dial"} => up = "off"
  /\ up = "off" => /\ st # "relay" /\ down = "off" /\ ~ tun /\ Pos <= 2
                   /\ pend = <<>> /\ wire = <<>> /\ target = <<>>
                   /\ rest = <<>> /\ frames = <<>> /\ srv.bytes = 0
  /\ up # "off" => down # "off"
  /\ up = "read" => pend = <<>>
  /\ up \in {"write", "body"} => pend # <<>>
  /\ ~ (up = "body" /\ down = "pongbody")

-----------------------------------------------------------------------------
LEMMA Lengths ==
  ASSUME StreamTypeOK
  PROVE  /\ Len(sock) \in Nat /\ Len(br) \in Nat /\ Len(pend) \in Nat /\ said \in Nat
         /\ Len(wire) \in Nat /\ Len(target) \in Nat /\ Len(frames) \in Nat
         /\ Len(rest) \in Nat /\ Len(toApp) \in Nat /\ srv.bytes \in 0 .. Reply
         /\ Taken \in Int /\ Read \in Int /\ Pos \in Int
<1>1. srv.bytes \in 0 .. Reply
  BY DEF StreamTypeOK
<1>2. said \in Nat
  BY Amounts DEF StreamTypeOK
<1>3. /\ Len(sock) \in Nat /\ Len(br) \in Nat /\ Len(pend) \in Nat
      /\ Len(wire) \in Nat /\ Len(target) \in Nat /\ Len(frames) \in Nat
      /\ Len(rest) \in Nat /\ Len(toApp) \in Nat
  BY LenProperties DEF StreamTypeOK
<1> QED
  BY <1>1, <1>2, <1>3 DEF Taken, Read, Pos

LEMMA PieceParts ==
  ASSUME NEW s \in Seq(Bytes), NEW at \in Int, Piece(s, at), NEW k \in 0 .. Len(s)
  PROVE  Piece(Take(s, k), at) /\ Piece(Drop(s, k), at + k)
<1>1. Len(s) \in Nat
  BY LenProperties
<1>2. Len(Take(s, k)) = k /\ \A i \in 1 .. k : Take(s, k)[i] = s[i]
  BY TakeFacts
<1>3. Len(Drop(s, k)) = Len(s) - k /\ \A i \in 1 .. Len(s) - k : Drop(s, k)[i] = s[k + i]
  BY DropFacts
<1>4. Piece(Take(s, k), at)
  <2>1. ASSUME NEW i \in 1 .. k PROVE Take(s, k)[i] = Script[at + i]
    <3>1. i \in 1 .. Len(s)
      BY <1>1
    <3> QED
      BY <1>2, <3>1 DEF Piece
  <2> QED
    BY <1>2, <2>1 DEF Piece
<1>5. ASSUME NEW i \in 1 .. Len(s) - k PROVE Drop(s, k)[i] = Script[(at + k) + i]
  <2>1. k + i \in 1 .. Len(s) /\ at + (k + i) = (at + k) + i
    BY <1>1
  <2> QED
    BY <1>3, <2>1 DEF Piece
<1> QED
  BY <1>3, <1>4, <1>5 DEF Piece

LEMMA PieceTail ==
  ASSUME NEW s \in Seq(Bytes), NEW at \in Int, Piece(s, at), s # <<>>
  PROVE  Piece(Tail(s), at + 1) /\ Len(Tail(s)) = Len(s) - 1
<1>1. Len(s) \in Nat /\ Len(s) >= 1
  BY TailFacts, LenProperties
<1>2. Len(Tail(s)) = Len(s) - 1 /\ \A i \in 1 .. Len(s) - 1 : Tail(s)[i] = s[i + 1]
  BY TailFacts
<1>3. ASSUME NEW i \in 1 .. Len(s) - 1 PROVE Tail(s)[i] = Script[(at + 1) + i]
  <2>1. i + 1 \in 1 .. Len(s) /\ at + (i + 1) = (at + 1) + i
    BY <1>1
  <2> QED
    BY <1>2, <2>1 DEF Piece
<1> QED
  BY <1>2, <1>3 DEF Piece

LEMMA PieceAppend ==
  ASSUME NEW s \in Seq(Bytes), NEW at \in Int, Piece(s, at),
         NEW e \in Bytes, e = Script[at + Len(s) + 1]
  PROVE  Piece(Append(s, e), at)
BY AppendFacts, LenProperties DEF Piece

LEMMA PieceEmpty == \A at \in Int : Piece(<<>>, at)
BY DEF Piece

\* The buffers of the client hold the script from Pos on; only Greets and
\* Requested, and UpBody, move Pos.
SourceKept == Pos' = Pos /\ SourceInv'

LEMMA SourceSame ==
  ASSUME SourceInv, UNCHANGED <<said, sock, br, pend>>
  PROVE  SourceKept
BY DEF SourceInv, SourceKept, Pos, Read, Taken

LEMMA SourceSpeaks ==
  ASSUME StreamTypeOK, SourceInv, AppSpeaks PROVE SourceKept
<1>1. /\ said' = said + 1 /\ said < Len(Script) /\ UNCHANGED <<br, pend>>
      /\ sock' = Append(sock, Script[said + 1])
  BY DEF AppSpeaks, upVars
<1>2. said + 1 \in 1 .. Len(Script)
  <2>1. said \in Nat /\ Len(Script) \in Nat
    BY Lengths, ScriptFacts, Amounts
  <2> QED
    BY <1>1, <2>1
<1>3. Script[said + 1] \in Bytes /\ sock \in Seq(Bytes)
  BY <1>2, ScriptFacts, ElementOfSeq DEF StreamTypeOK
<1>4. Len(sock') = Len(sock) + 1
  BY <1>1, <1>3, AppendFacts
<1>5. Taken' = Taken /\ Read' = Read /\ Pos' = Pos
  <2>1. Taken' = (said + 1) - (Len(sock) + 1) /\ Len(sock) \in Nat /\ said \in Nat
    BY <1>1, <1>4, Lengths DEF Taken
  <2>2. Taken' = Taken
    BY <2>1 DEF Taken
  <2> QED
    BY <1>1, <2>2 DEF Read, Pos
<1>6. Taken + Len(sock) + 1 = said + 1
  BY Lengths DEF Taken
<1>7. Piece(sock', Taken)
  BY <1>1, <1>3, <1>6, PieceAppend, Lengths DEF SourceInv
<1> QED
  BY <1>1, <1>5, <1>7 DEF SourceKept, SourceInv

LEMMA SourceFill ==
  ASSUME StreamTypeOK, SourceInv, Fill PROVE SourceKept
<1>1. PICK k \in Chunks(sock) : br' = Take(sock, k) /\ sock' = Drop(sock, k)
  BY DEF Fill
<1>2. br = <<>> /\ UNCHANGED <<said, pend>> /\ k \in 0 .. Len(sock) /\ sock \in Seq(Bytes)
  BY DEF Fill, upVars, Chunks, StreamTypeOK
<1>3. Len(br') = k /\ Len(sock') = Len(sock) - k /\ Len(br) = 0
  BY <1>1, <1>2, TakeFacts, DropFacts
<1>4. Taken' = Taken + k /\ Read = Taken /\ Read' = Read /\ Pos' = Pos
  <2>1. Taken' = said - (Len(sock) - k) /\ Read = Taken - 0 /\ Read' = Taken' - k
    BY <1>2, <1>3 DEF Taken, Read
  <2>2. Taken = said - Len(sock) /\ said \in Nat /\ Len(sock) \in Nat /\ k \in Nat
    BY <1>2, Lengths DEF Taken
  <2>3. Taken' = Taken + k
    BY ONLY <2>1, <2>2
  <2>4. Read = Taken /\ Read' = Taken
    BY ONLY <2>1, <2>2, <2>3
  <2> QED
    BY <1>2, <2>3, <2>4 DEF Pos
<1>5. Piece(br', Taken) /\ Piece(sock', Taken + k)
  BY <1>1, <1>2, PieceParts, Lengths DEF SourceInv
<1> QED
  BY <1>2, <1>4, <1>5 DEF SourceKept, SourceInv

LEMMA SourceUpReads ==
  ASSUME StreamTypeOK, SourceInv, PlaceInv, UpReads PROVE SourceKept
<1>0. up = "read" /\ pend = <<>> /\ Len(pend) = 0 /\ Pos = Read /\ UNCHANGED said
  BY Lengths DEF UpReads, PlaceInv, Pos
<1>1. CASE br # <<>> /\ UNCHANGED sock
             /\ \E k \in Chunks(br) : pend' = Take(br, k) /\ br' = Drop(br, k)
  <2>1. PICK k \in Chunks(br) : pend' = Take(br, k) /\ br' = Drop(br, k)
    BY <1>1
  <2>2. k \in 0 .. Len(br) /\ br \in Seq(Bytes)
    BY DEF Chunks, StreamTypeOK
  <2>3. Len(pend') = k /\ Len(br') = Len(br) - k
    BY <2>1, <2>2, TakeFacts, DropFacts
  <2>4. Taken' = Taken /\ Read' = Read + k /\ Pos' = Pos
    <3>1. Taken' = Taken /\ Read' = Taken' - (Len(br) - k) /\ Pos' = Read' - k
      BY <1>0, <1>1, <2>3 DEF Taken, Read, Pos
    <3>2. Read = Taken - Len(br)
      BY DEF Read
    <3>3. Len(br) \in Int /\ k \in Int /\ Taken \in Int
      BY <2>2, Lengths
    <3>4. Read' = Read + k /\ Read' - k = Read
      BY ONLY <3>1, <3>2, <3>3
    <3> QED
      BY <1>0, <3>1, <3>4, Zenon
  <2>5. Piece(pend', Read) /\ Piece(br', Read + k)
    BY <2>1, <2>2, PieceParts, Lengths DEF SourceInv
  <2> QED
    BY <1>0, <1>1, <2>4, <2>5 DEF SourceKept, SourceInv
<1>2. CASE br = <<>> /\ UNCHANGED br
             /\ \E k \in Chunks(sock) : pend' = Take(sock, k) /\ sock' = Drop(sock, k)
  <2>1. PICK k \in Chunks(sock) : pend' = Take(sock, k) /\ sock' = Drop(sock, k)
    BY <1>2
  <2>2. k \in 0 .. Len(sock) /\ sock \in Seq(Bytes)
    BY DEF Chunks, StreamTypeOK
  <2>3. Len(pend') = k /\ Len(sock') = Len(sock) - k /\ Len(br) = 0
    BY <1>2, <2>1, <2>2, TakeFacts, DropFacts
  <2>4. Taken' = Taken + k /\ Read' = Read + k /\ Read = Taken /\ Pos' = Pos
    <3>1. /\ Taken' = said - (Len(sock) - k) /\ Read = Taken - 0
          /\ Read' = Taken' - 0 /\ Pos' = Read' - k
      BY <1>0, <1>2, <2>3 DEF Taken, Read, Pos
    <3>0. Taken \in Int /\ Len(sock) \in Nat /\ said \in Nat /\ k \in Nat
      BY <2>2, Lengths
    <3>2. Taken' = Taken + k /\ Read = Taken /\ Read' = Read + k
      BY <3>0, <3>1 DEF Taken
    <3>3. Pos' = Read
      <4>1. \A a, b, c \in Int : a = b + c => a - c = b
        OBVIOUS
      <4>2. Read' \in Int /\ Read \in Int /\ k \in Int
        BY <3>0, <3>2
      <4>3. Read' - k = Read
        BY ONLY <3>2, <4>1, <4>2
      <4> QED
        BY ONLY <3>1, <4>3, Zenon
    <3> QED
      BY <1>0, <3>2, <3>3
  <2>5. Piece(pend', Taken) /\ Piece(sock', Taken + k)
    BY <2>1, <2>2, PieceParts, Lengths DEF SourceInv
  <2>6. Piece(br', Read')
    BY <1>2, <2>4, PieceEmpty, Lengths
  <2> QED
    BY <1>0, <2>4, <2>5, <2>6 DEF SourceKept, SourceInv
<1> QED
  BY <1>1, <1>2 DEF UpReads

LEMMA SourceConsumed ==
  ASSUME StreamTypeOK, SourceInv, pend = <<>>, br # <<>>, br' = Tail(br),
         UNCHANGED <<said, sock, pend>>
  PROVE  Pos' = Pos + 1 /\ SourceInv'
<1>1. br \in Seq(Bytes) /\ Piece(br, Read) /\ Len(pend) = 0
  BY DEF StreamTypeOK, SourceInv
<1>2. Piece(br', Read + 1) /\ Len(br') = Len(br) - 1
  BY <1>1, PieceTail, Lengths
<1>3. Taken' = Taken /\ Read' = Read + 1 /\ Pos' = Pos + 1
  <2>1. Taken' = Taken /\ Read' = Taken' - (Len(br) - 1) /\ Pos' = Read' - Len(pend)
    BY <1>2 DEF Taken, Read, Pos
  <2>2. Read = Taken - Len(br) /\ Pos = Read - Len(pend)
    BY DEF Read, Pos
  <2>3. Len(br) \in Int /\ Len(pend) \in Int /\ Taken \in Int /\ Read \in Int
    BY Lengths
  <2>4. Read' = Read + 1
    BY ONLY <2>1, <2>2, <2>3
  <2> QED
    BY ONLY <2>1, <2>2, <2>3, <2>4
<1>4. Piece(pend', Pos')
  BY <1>3, PieceEmpty, Lengths
<1> QED
  BY <1>2, <1>3, <1>4 DEF SourceInv

LEMMA SourceUpBody ==
  ASSUME StreamTypeOK, SourceInv, UpBody
  PROVE  Pos' = Pos + Len(pend) /\ SourceInv'
<1>1. pend' = <<>> /\ UNCHANGED <<said, sock, br>> /\ Len(pend') = 0
  BY DEF UpBody, appVars
<1>2. Taken' = Taken /\ Read' = Read /\ Pos' = Read /\ Pos' = Pos + Len(pend)
  <2>1. Taken' = Taken /\ Read' = Read
    BY <1>1 DEF Taken, Read
  <2>2. Pos' = Read - 0 /\ Pos = Read - Len(pend)
    BY <1>1, <2>1 DEF Pos
  <2>3. Read \in Int /\ Len(pend) \in Int
    BY Lengths
  <2> QED
    BY ONLY <2>1, <2>2, <2>3
<1>3. Piece(pend', Pos') /\ Pos' \in Nat
  BY <1>1, <1>2, PieceEmpty, Lengths DEF SourceInv
<1> QED
  BY <1>1, <1>2, <1>3 DEF SourceInv

\* How the script moves on, and the goroutines with it.
LEMMA StreamPlacesInit == StreamInit => SourceInv /\ PlaceInv
<1> SUFFICES ASSUME StreamInit PROVE SourceInv /\ PlaceInv
  OBVIOUS
<1>1. /\ said = 0 /\ sock = <<>> /\ br = <<>> /\ pend = <<>> /\ st = "greet" /\ up = "off"
      /\ down = "off" /\ tun = FALSE /\ wire = <<>> /\ target = <<>> /\ rest = <<>>
      /\ frames = <<>> /\ srv = [bytes |-> 0, pings |-> 0, open |-> TRUE]
  BY DEF StreamInit
<1>2. Taken = 0 /\ Read = 0 /\ Pos = 0
  <2>1. Len(<<>>) = 0
    OBVIOUS
  <2>2. Taken = 0 - 0 /\ Read = Taken - 0 /\ Pos = Read - 0
    BY <1>1, <2>1 DEF Taken, Read, Pos
  <2> QED
    BY <2>2
<1>3. SourceInv
  BY <1>1, <1>2, PieceEmpty DEF SourceInv
<1>4. srv.bytes = 0
  BY <1>1
<1> QED
  BY <1>1, <1>2, <1>3, <1>4 DEF PlaceInv

LEMMA StreamPlacesStep ==
  ASSUME StreamTypeOK, SourceInv, PlaceInv, [StreamNext]_streamVars
  PROVE  SourceInv' /\ PlaceInv'
<1> USE DEF appVars, upVars, downVars, srvVars
<1>0. Pos \in Nat
  BY DEF SourceInv
<1>1. CASE AppSpeaks
  <2>1. SourceKept
    BY <1>1, SourceSpeaks
  <2> QED
    BY <1>1, <2>1 DEF SourceKept, AppSpeaks, PlaceInv, CutOff
<1>2. CASE AppLeaves
  <2>1. SourceKept
    BY <1>2, SourceSame DEF AppLeaves
  <2> QED
    BY <1>2, <2>1 DEF SourceKept, AppLeaves, PlaceInv, CutOff
<1>3. CASE Fill
  <2>1. SourceKept
    BY <1>3, SourceFill
  <2> QED
    BY <1>3, <2>1 DEF SourceKept, Fill, PlaceInv, CutOff
<1>4. CASE Greets
  <2>1. Pos' = Pos + 1 /\ SourceInv'
    BY <1>4, SourceConsumed DEF Greets, PlaceInv
  <2> QED
    BY <1>0, <1>4, <2>1 DEF Greets, PlaceInv, CutOff
<1>5. CASE Requested
  <2>1. Pos' = Pos + 1 /\ SourceInv'
    BY <1>5, SourceConsumed DEF Requested, PlaceInv
  <2> QED
    BY <1>0, <1>5, <2>1 DEF Requested, PlaceInv, CutOff
<1>6. CASE Reached
  <2>1. SourceKept
    BY <1>6, SourceSame DEF Reached
  <2> QED
    BY <1>6, <2>1 DEF SourceKept, Reached, PlaceInv, CutOff
<1>7. CASE Refuse
  <2>1. SourceKept
    BY <1>7, SourceSame DEF Refuse
  <2> QED
    BY <1>7, <2>1 DEF SourceKept, Refuse, Negotiating, PlaceInv, CutOff
<1>8. CASE Abandoned
  <2>1. SourceKept
    BY <1>8, SourceSame DEF Abandoned
  <2>2. st = "request" => CutOff
    <3>1. st = "request" => Pos = 1 /\ pend = <<>>
      BY DEF PlaceInv
    <3>2. Len(br) = 0 /\ Len(sock) = 0 /\ eof
      BY <1>8 DEF Abandoned
    <3>3. st = "request" => Len(pend) = 0
      BY <3>1
    <3>4. st = "request" => Pos = ((said - 0) - 0) - 0
      BY <3>2, <3>3 DEF Pos, Read, Taken
    <3> QED
      BY <3>1, <3>2, <3>4, Lengths DEF CutOff
  <2> QED
    BY <1>8, <2>1, <2>2 DEF SourceKept, Abandoned, Negotiating, PlaceInv, CutOff
<1>9. CASE UpReads
  <2>1. SourceKept
    BY <1>9, SourceUpReads
  <2>2. pend' # <<>>
    BY <1>9, TakeFacts DEF UpReads, Chunks, StreamTypeOK
  <2> QED
    BY <1>9, <2>1, <2>2 DEF SourceKept, UpReads, PlaceInv, CutOff
<1>10. CASE UpHead
  <2>1. SourceKept
    BY <1>10, SourceSame DEF UpHead
  <2> QED
    BY <1>10, <2>1 DEF SourceKept, UpHead, WmuFree, PlaceInv, CutOff
<1>11. CASE UpBody
  <2>1. Pos' = Pos + Len(pend) /\ SourceInv' /\ Len(pend) \in Nat
    BY <1>11, SourceUpBody, Lengths
  <2>2. CutOff => CutOff' \/ Pos' >= 2
    BY <1>0, <1>11, <2>1 DEF CutOff, UpBody
  <2> QED
    BY <1>0, <1>11, <2>1, <2>2 DEF UpBody, PlaceInv
<1>12. CASE UpEnds
  <2>1. SourceKept
    BY <1>12, SourceSame DEF UpEnds
  <2> QED
    BY <1>12, <2>1 DEF SourceKept, UpEnds, UpOver, PlaceInv, CutOff
<1>13. CASE DownRest
  <2>1. SourceKept
    BY <1>13, SourceSame DEF DownRest
  <2> QED
    BY <1>13, <2>1 DEF SourceKept, DownRest, PlaceInv, CutOff
<1>14. CASE DownFrame
  <2>1. SourceKept
    BY <1>14, SourceSame DEF DownFrame
  <2>2. down' \in {"read", "pong"}
    BY <1>14 DEF DownFrame
  <2> QED
    BY <1>14, <2>1, <2>2 DEF SourceKept, DownFrame, PlaceInv, CutOff
<1>15. CASE PongHead
  <2>1. SourceKept
    BY <1>15, SourceSame DEF PongHead
  <2> QED
    BY <1>15, <2>1 DEF SourceKept, PongHead, WmuFree, PlaceInv, CutOff
<1>16. CASE PongBody
  <2>1. SourceKept
    BY <1>16, SourceSame DEF PongBody
  <2> QED
    BY <1>16, <2>1 DEF SourceKept, PongBody, PlaceInv, CutOff
<1>17. CASE DownEnds
  <2>1. SourceKept
    BY <1>17, SourceSame DEF DownEnds
  <2> QED
    BY <1>17, <2>1 DEF SourceKept, DownEnds, DownOver, PlaceInv, CutOff
<1>18. CASE SrvReads
  <2>1. SourceKept
    BY <1>18, SourceSame DEF SrvReads
  <2> QED
    BY <1>18, <2>1 DEF SourceKept, SrvReads, PlaceInv, CutOff
<1>19. CASE SrvSends
  <2>1. SourceKept
    BY <1>19, SourceSame DEF SrvSends
  <2>2. tun /\ UNCHANGED <<appVars, br, st, toApp, conn, tun, upVars, downVars, wire, target>>
    BY <1>19 DEF SrvSends
  <2> QED
    BY <2>1, <2>2 DEF SourceKept, PlaceInv, CutOff
<1>20. CASE SrvEnds
  <2>1. SourceKept
    BY <1>20, SourceSame DEF SrvEnds
  <2>2. /\ down # "off"
        /\ UNCHANGED <<appVars, br, st, toApp, conn, tun, upVars, downVars, wire, target>>
    BY <1>20 DEF SrvEnds
  <2> QED
    BY <2>1, <2>2 DEF SourceKept, PlaceInv, CutOff
<1>21. CASE UNCHANGED streamVars
  <2>1. SourceKept
    BY <1>21, SourceSame DEF streamVars
  <2> QED
    BY <1>21, <2>1 DEF SourceKept, streamVars, PlaceInv, CutOff
<1> QED
  BY <1>1, <1>2, <1>3, <1>4, <1>5, <1>6, <1>7, <1>8, <1>9, <1>10, <1>11, <1>12, <1>13,
     <1>14, <1>15, <1>16, <1>17, <1>18, <1>19, <1>20, <1>21 DEF StreamNext, ProxyStep

IsHead(x) == "len" \in DOMAIN x

\* Data bytes that have been written into the tunnel.
Written == IF Pos <= 2 THEN 0 ELSE Pos - 2

(***************************************************************************)
(* The pieces of a wire w are whole frames: piece i is a head, as many     *)
(* bytes as it says follow, and then another head or nothing.  count[i] is *)
(* the number of data bytes before piece i, delivered ones included; the   *)
(* data of a frame go on from there.                                       *)
(***************************************************************************)
Framed(w, count, i) ==
  /\ i + w[i].len <= Len(w)
  /\ i + w[i].len < Len(w) => IsHead(w[i + w[i].len + 1])
  /\ \A k \in 1 .. w[i].len : ~ IsHead(w[i + k])
  /\ \/ /\ w[i].op = "data" /\ count[i + w[i].len + 1] = count[i] + w[i].len
        /\ \A k \in 1 .. w[i].len : w[i + k] = Byte(count[i] + k)
     \/ /\ w[i].op = "pong" /\ count[i + w[i].len + 1] = count[i]

\* A head whose bytes are not written, or never will be.
Unfinished(i) == i = Len(wire) /\ wire[i].len >= 1 /\ (tun => ~ WmuFree)

\* The goroutine that holds wmu has written a head, after all other frames.
Half(w, count, op, n, high) ==
  w # <<>> /\ w[Len(w)] = Head2(op, n) /\ count[Len(w)] = high

\* count starts at what was delivered and never exceeds what was written.
CountOK(w, count, low, high) ==
  /\ count \in [1 .. Len(w) + 1 -> 0 .. high]
  /\ count[1] = low
  /\ w # <<>> => IsHead(w[1])

(***************************************************************************)
(* All heads but an unfinished one at the end are followed by their bytes. *)
(* Only the goroutine that holds wmu can have left one: with wmu free, the *)
(* frames account for every byte that has been written.                    *)
(***************************************************************************)
WireCounted(count) ==
  /\ CountOK(wire, count, Len(target), Written)
  /\ \A i \in 1 .. Len(wire) :
       IsHead(wire[i]) => Framed(wire, count, i) \/ Unfinished(i)
  /\ tun /\ up = "body" => Half(wire, count, "data", Len(pend), Written)
  /\ tun /\ down = "pongbody" => Half(wire, count, "pong", 1, Written)
  /\ tun /\ WmuFree => count[Len(wire) + 1] = Written

WireInv == \E count : WireCounted(count)

TargetInv == \A i \in 1 .. Len(target) : target[i] = Byte(i)

-----------------------------------------------------------------------------
LEMMA HeadFacts ==
  /\ \A x \in Bytes \cup Heads : IsHead(x) => x \in Heads
  /\ \A x \in Heads : IsHead(x) /\ x.len \in Nat
  /\ \A op, n : IsHead(Head2(op, n)) /\ Head2(op, n).len = n /\ Head2(op, n).op = op
  /\ \A k \in Int : ~ IsHead(Byte(k))
BY DEF IsHead, Heads, Bytes, Head2, Byte

LEMMA WrittenFacts ==
  ASSUME StreamTypeOK, SourceInv
  PROVE  Written \in Nat
BY DEF Written, SourceInv

\* A longer wire, or a later part of it, is framed where it was.
LEMMA FramedLonger ==
  ASSUME NEW w \in Seq(Bytes \cup Heads), NEW v \in Seq(Bytes \cup Heads),
         NEW count, NEW more, NEW i \in 1 .. Len(w),
         Len(w) < Len(v), \A j \in 1 .. Len(w) : v[j] = w[j],
         \A j \in 1 .. Len(w) + 1 : more[j] = count[j],
         i + w[i].len = Len(w) => IsHead(v[Len(w) + 1]),
         IsHead(w[i]), Framed(w, count, i)
  PROVE  Framed(v, more, i)
<1>1. w[i] \in Heads /\ w[i].len \in Nat /\ v[i] = w[i] /\ Len(w) \in Nat /\ Len(v) \in Nat
  BY HeadFacts, ElementOfSeq, LenProperties
<1> DEFINE n == w[i].len
<1>2. v[i].len = n /\ v[i].op = w[i].op /\ n \in Nat /\ w[i].len = n
  BY <1>1
<1> HIDE DEF n
<1>3. i + n <= Len(w) /\ (i + n < Len(w) => IsHead(w[i + n + 1]))
  BY <1>2 DEF Framed
<1>4. more[i] = count[i] /\ more[i + n + 1] = count[i + n + 1]
  <2>1. i \in 1 .. Len(w) + 1 /\ i + n + 1 \in 1 .. Len(w) + 1
    BY <1>1, <1>2, <1>3
  <2> QED
    BY <2>1
<1>5. i + n < Len(v) => IsHead(v[i + n + 1])
  <2>1. CASE i + n < Len(w)
    <3>1. i + n + 1 \in 1 .. Len(w)
      BY <2>1, <1>1, <1>2
    <3> QED
      BY <2>1, <3>1, <1>3
  <2>2. CASE i + n = Len(w)
    BY <1>2, <2>2
  <2> QED
    BY <1>1, <1>2, <1>3, <2>1, <2>2
<1>6. ASSUME NEW k \in 1 .. n PROVE v[i + k] = w[i + k]
  <2>1. i + k \in 1 .. Len(w)
    BY <1>1, <1>2, <1>3
  <2> QED
    BY <2>1
<1>7. /\ \A k \in 1 .. n : ~ IsHead(w[i + k])
      /\ \/ /\ v[i].op = "data" /\ count[i + n + 1] = count[i] + n
            /\ \A k \in 1 .. n : w[i + k] = Byte(count[i] + k)
         \/ v[i].op = "pong" /\ count[i + n + 1] = count[i]
  BY <1>2, Zenon DEF Framed
<1>8. /\ \A k \in 1 .. n : ~ IsHead(v[i + k])
      /\ \/ /\ v[i].op = "data" /\ more[i + n + 1] = more[i] + n
            /\ \A k \in 1 .. n : v[i + k] = Byte(more[i] + k)
         \/ v[i].op = "pong" /\ more[i + n + 1] = more[i]
  BY <1>4, <1>6, <1>7, Zenon
<1>9. i + n <= Len(v)
  BY <1>1, <1>2, <1>3
<1> QED
  BY <1>2, <1>5, <1>8, <1>9, Zenon DEF Framed

LEMMA FramedLater ==
  ASSUME NEW w \in Seq(Bytes \cup Heads), NEW v \in Seq(Bytes \cup Heads),
         NEW d \in Nat, Len(v) = Len(w) - d,
         NEW count, NEW rem, NEW i \in 1 .. Len(v),
         \A j \in 1 .. Len(v) : v[j] = w[d + j],
         \A j \in 1 .. Len(v) + 1 : rem[j] = count[d + j],
         IsHead(v[i]), Framed(w, count, d + i)
  PROVE  Framed(v, rem, i)
<1>1. v[i] \in Heads /\ v[i].len \in Nat /\ v[i] = w[d + i] /\ Len(w) \in Nat /\ Len(v) \in Nat
  BY HeadFacts, ElementOfSeq, LenProperties
<1> DEFINE n == v[i].len
<1>2. w[d + i].len = n /\ w[d + i].op = v[i].op /\ n \in Nat /\ v[i].len = n
  BY <1>1
<1> HIDE DEF n
<1>3. (d + i) + n <= Len(w) /\ ((d + i) + n < Len(w) => IsHead(w[(d + i) + n + 1]))
  BY <1>2 DEF Framed
<1>4. i + n <= Len(v) /\ i + n + 1 \in 1 .. Len(v) + 1
  <2>1. i + n <= Len(v)
    BY <1>1, <1>2, <1>3
  <2> QED
    BY <1>1, <1>2, <2>1
<1>5. rem[i] = count[d + i] /\ rem[i + n + 1] = count[(d + i) + n + 1]
  <2>1. d + (i + n + 1) = (d + i) + n + 1 /\ i \in 1 .. Len(v) + 1
    BY <1>1, <1>2
  <2> QED
    BY <1>4, <2>1
<1>6. i + n < Len(v) => IsHead(v[i + n + 1])
  <2> SUFFICES ASSUME i + n < Len(v) PROVE IsHead(v[i + n + 1])
    OBVIOUS
  <2>1. /\ i + n + 1 \in 1 .. Len(v) /\ d + (i + n + 1) = (d + i) + n + 1
        /\ (d + i) + n < Len(w)
    BY <1>1, <1>2
  <2> QED
    BY <1>3, <2>1
<1>7. ASSUME NEW k \in 1 .. n PROVE v[i + k] = w[(d + i) + k]
  <2>1. i + k \in 1 .. Len(v) /\ d + (i + k) = (d + i) + k
    BY <1>1, <1>2, <1>4
  <2> QED
    BY <2>1
<1>8. /\ \A k \in 1 .. n : ~ IsHead(w[(d + i) + k])
      /\ \/ /\ v[i].op = "data" /\ count[(d + i) + n + 1] = count[d + i] + n
            /\ \A k \in 1 .. n : w[(d + i) + k] = Byte(count[d + i] + k)
         \/ v[i].op = "pong" /\ count[(d + i) + n + 1] = count[d + i]
  BY <1>2, Zenon DEF Framed
<1>9. /\ \A k \in 1 .. n : ~ IsHead(v[i + k])
      /\ \/ /\ v[i].op = "data" /\ rem[i + n + 1] = rem[i] + n
            /\ \A k \in 1 .. n : v[i + k] = Byte(rem[i] + k)
         \/ v[i].op = "pong" /\ rem[i + n + 1] = rem[i]
  BY <1>5, <1>7, <1>8, Zenon
<1> QED
  BY <1>2, <1>4, <1>6, <1>9, Zenon DEF Framed

\* Steps that leave the wire alone.
LEMMA WireSame ==
  ASSUME WireInv, UNCHANGED <<wire, target>>, Pos' = Pos,
         tun' => tun /\ (WmuFree' <=> WmuFree),
         tun' /\ up' = "body" => up = "body" /\ UNCHANGED pend,
         tun' /\ down' = "pongbody" => down = "pongbody"
  PROVE  WireInv'
<1>1. PICK count : WireCounted(count)
  BY DEF WireInv
<1>2. Written' = Written /\ wire' = wire /\ target' = target
  BY DEF Written
<1>3. CountOK(wire', count, Len(target'), Written')
  BY <1>1, <1>2 DEF WireCounted
<1>4. ASSUME NEW i \in 1 .. Len(wire'), IsHead(wire'[i])
      PROVE  Framed(wire', count, i) \/ Unfinished(i)'
  <2>1. Framed(wire, count, i) \/ Unfinished(i)
    BY <1>1, <1>2, <1>4 DEF WireCounted
  <2>2. Unfinished(i) => Unfinished(i)'
    BY <1>2 DEF Unfinished
  <2> QED
    BY <1>2, <2>1, <2>2
<1>5. tun' /\ up' = "body" => Half(wire', count, "data", Len(pend'), Written')
  BY <1>1, <1>2 DEF WireCounted, Half
<1>6. tun' /\ down' = "pongbody" => Half(wire', count, "pong", 1, Written')
  BY <1>1, <1>2 DEF WireCounted, Half
<1>7. tun' /\ WmuFree' => count[Len(wire') + 1] = Written'
  BY <1>1, <1>2 DEF WireCounted
<1> QED
  BY <1>3, <1>4, <1>5, <1>6, <1>7 DEF WireInv, WireCounted

\* While the tunnel is not open, and when it opens.
LEMMA WireEmpty ==
  ASSUME wire' = <<>>, target' = <<>>, Pos' <= 2, Pos' \in Int,
         up' # "body", down' # "pongbody"
  PROVE  WireInv'
<1> DEFINE count == [i \in 1 .. 1 |-> 0]
<1>1. Written' = 0
  BY DEF Written
<1>2. Len(<<>>) = 0 /\ count[1] = 0 /\ count \in [1 .. 0 + 1 -> 0 .. 0]
  OBVIOUS
<1> HIDE DEF count
<1>3. Len(wire') = 0 /\ Len(target') = 0
  BY <1>2
<1>4. CountOK(wire', count, Len(target'), Written')
  BY <1>1, <1>2, <1>3 DEF CountOK
<1>5. 1 .. Len(wire') = {}
  BY <1>3
<1>6. count[Len(wire') + 1] = Written'
  BY <1>1, <1>2, <1>3
<1> QED
  BY <1>4, <1>5, <1>6 DEF WireInv, WireCounted

\* A goroutine takes wmu and writes a head.
LEMMA WireHead ==
  ASSUME StreamTypeOK, SourceInv, WireInv, tun, WmuFree,
         NEW op \in {"data", "pong"}, NEW n \in Nat, n >= 1,
         wire' = Append(wire, Head2(op, n)), target' = target, Pos' = Pos, tun' = tun,
         \/ op = "data" /\ up' = "body" /\ n = Len(pend') /\ down' # "pongbody"
         \/ op = "pong" /\ n = 1 /\ down' = "pongbody" /\ up' # "body"
  PROVE  WireInv'
<1> DEFINE L == Len(wire)
           head == Head2(op, n)
<1>1. PICK count : WireCounted(count)
  BY DEF WireInv
<1> DEFINE more == [j \in 1 .. L + 2 |-> IF j = L + 2 THEN Written ELSE count[j]]
<1>2. head \in Heads /\ head \in Bytes \cup Heads /\ IsHead(head) /\ head.len = n
  BY HeadFacts DEF Head2, Heads
<1>3. wire \in Seq(Bytes \cup Heads) /\ L \in Nat /\ Written \in Nat
  BY Lengths, WrittenFacts DEF StreamTypeOK
<1>4. /\ wire' \in Seq(Bytes \cup Heads) /\ Len(wire') = L + 1
      /\ \A i \in 1 .. L : wire'[i] = wire[i]
      /\ wire'[L + 1] = head
  BY <1>2, <1>3, AppendFacts
<1>5. Written' = Written /\ ~ WmuFree'
  BY DEF Written, WmuFree
<1>6. count \in [1 .. L + 1 -> 0 .. Written] /\ count[1] = Len(target) /\ count[L + 1] = Written
  BY <1>1 DEF WireCounted, CountOK
<1>7. /\ more \in [1 .. L + 2 -> 0 .. Written]
      /\ \A j \in 1 .. L + 1 : more[j] = count[j]
  BY <1>3, <1>6
<1> HIDE DEF more, L, head
<1>8. CountOK(wire', more, Len(target'), Written')
  <2>1. more \in [1 .. Len(wire') + 1 -> 0 .. Written']
    BY <1>3, <1>4, <1>5, <1>7
  <2>2. more[1] = Len(target')
    BY <1>3, <1>6, <1>7
  <2>3. IsHead(wire'[1])
    <3>1. CASE wire = <<>>
      <4>1. L = 0
        BY <3>1 DEF L
      <4> QED
        BY <1>2, <1>4, <4>1
    <3>2. CASE wire # <<>>
      <4>1. IsHead(wire[1])
        BY <1>1, <3>2 DEF WireCounted, CountOK
      <4>2. 1 \in 1 .. L
        BY <1>3, <3>2, EmptyFacts DEF L
      <4> QED
        BY <1>4, <4>1, <4>2
    <3> QED
      BY <3>1, <3>2
  <2> QED
    BY <2>1, <2>2, <2>3 DEF CountOK
<1>9. ASSUME NEW i \in 1 .. Len(wire'), IsHead(wire'[i])
      PROVE  Framed(wire', more, i) \/ Unfinished(i)'
  <2>1. CASE i = L + 1
    BY <1>2, <1>4, <1>5, <2>1 DEF Unfinished
  <2>2. CASE i # L + 1
    <3>1. i \in 1 .. Len(wire) /\ wire'[i] = wire[i]
      BY <1>3, <1>4, <2>2 DEF L
    <3>2. Framed(wire, count, i)
      BY <1>1, <1>9, <3>1 DEF WireCounted, Unfinished
    <3>3. Len(wire) < Len(wire') /\ IsHead(wire'[Len(wire) + 1])
      BY <1>2, <1>3, <1>4 DEF L
    <3>4. /\ \A j \in 1 .. Len(wire) : wire'[j] = wire[j]
          /\ \A j \in 1 .. Len(wire) + 1 : more[j] = count[j]
      BY <1>4, <1>7 DEF L
    <3>5. IsHead(wire[i])
      BY <1>9, <3>1
    <3> QED
      BY <1>3, <1>4, <3>1, <3>2, <3>3, <3>4, <3>5, FramedLonger
  <2> QED
    BY <2>1, <2>2
<1>10. Half(wire', more, op, n, Written')
  <2>1. wire' # <<>> /\ wire'[Len(wire')] = Head2(op, n)
    BY <1>3, <1>4, EmptyFacts DEF head
  <2>2. more[Len(wire')] = Written'
    BY <1>3, <1>4, <1>5, <1>6, <1>7
  <2> QED
    BY <2>1, <2>2 DEF Half
<1>11. /\ up' = "body" => Half(wire', more, "data", Len(pend'), Written')
       /\ down' = "pongbody" => Half(wire', more, "pong", 1, Written')
  BY <1>10 DEF Half
<1> QED
  BY <1>5, <1>8, <1>9, <1>11 DEF WireInv, WireCounted

\* The goroutine writes the bytes s of its frame and gives up wmu.
LEMMA WireBytes ==
  ASSUME StreamTypeOK, SourceInv, WireInv, tun, tun' = tun, ~ WmuFree, WmuFree',
         NEW s \in Seq(Bytes), s # <<>>, NEW op \in {"data", "pong"},
         \A count : WireCounted(count) => Half(wire, count, op, Len(s), Written),
         wire' = wire \o s, target' = target,
         \A k \in 1 .. Len(s) : ~ IsHead(s[k]),
         \/ op = "data" /\ Written' = Written + Len(s)
            /\ \A k \in 1 .. Len(s) : s[k] = Byte(Written + k)
         \/ op = "pong" /\ Written' = Written
  PROVE  WireInv'
<1> DEFINE L == Len(wire)
           n == Len(s)
<1>1. PICK count : WireCounted(count)
  BY DEF WireInv
<1> DEFINE more == [j \in 1 .. L + n + 1 |->
                      IF j = L + n + 1 THEN Written' ELSE IF j <= L + 1 THEN count[j] ELSE Written]
<1>2. /\ wire \in Seq(Bytes \cup Heads) /\ s \in Seq(Bytes \cup Heads)
      /\ L \in Nat /\ n \in Nat /\ Written \in Nat /\ n >= 1
  <2>1. n >= 1 /\ n \in Nat
    BY EmptyFacts
  <2> QED
    BY <2>1, Lengths, WrittenFacts, PieceTypes DEF StreamTypeOK
<1>3. /\ wire' \in Seq(Bytes \cup Heads) /\ Len(wire') = L + n
      /\ \A i \in 1 .. L : wire'[i] = wire[i]
      /\ \A i \in 1 .. n : wire'[L + i] = s[i]
  BY <1>2, JoinFacts
<1>4. /\ wire # <<>> /\ wire[L] = Head2(op, n) /\ count[L] = Written /\ L >= 1
  BY <1>1, <1>2, EmptyFacts DEF Half
<1>5. /\ count \in [1 .. L + 1 -> 0 .. Written] /\ count[1] = Len(target) /\ IsHead(wire[1])
  BY <1>1, <1>4 DEF WireCounted, CountOK
<1>6. Written' \in Nat /\ Written' >= Written
  BY <1>2
<1>7. /\ more \in [1 .. L + n + 1 -> 0 .. Written']
      /\ \A j \in 1 .. L + 1 : more[j] = count[j]
      /\ more[L + n + 1] = Written'
  <2>1. ASSUME NEW j \in 1 .. L + n + 1 PROVE more[j] \in 0 .. Written'
    <3>1. CASE j = L + n + 1
      BY <1>2, <1>6, <3>1
    <3>2. CASE j # L + n + 1 /\ j <= L + 1
      <4>1. j \in 1 .. L + 1 /\ more[j] = count[j]
        BY <1>2, <3>2
      <4>2. count[j] \in 0 .. Written
        BY <1>5, <4>1
      <4> QED
        BY <1>2, <1>6, <4>1, <4>2
    <3>3. CASE j # L + n + 1 /\ ~ (j <= L + 1)
      BY <1>2, <1>6, <3>3
    <3> QED
      BY <3>1, <3>2, <3>3
  <2>2. ASSUME NEW j \in 1 .. L + 1 PROVE more[j] = count[j]
    BY <1>2
  <2>3. more[L + n + 1] = Written'
    BY <1>2
  <2> QED
    BY <2>1, <2>2, <2>3
<1> HIDE DEF more, L, n
<1>8. CountOK(wire', more, Len(target'), Written')
  <2>1. more \in [1 .. Len(wire') + 1 -> 0 .. Written']
    BY <1>3, <1>7
  <2>2. 1 \in 1 .. L /\ 1 \in 1 .. L + 1
    BY <1>2, <1>4
  <2>3. more[1] = Len(target') /\ IsHead(wire'[1])
    BY <1>3, <1>5, <1>7, <2>2
  <2> QED
    BY <2>1, <2>3 DEF CountOK
<1>9. Framed(wire', more, L)
  <2>1. wire'[L] = Head2(op, n) /\ more[L] = Written
    <3>1. L \in 1 .. L + 1 /\ L \in 1 .. L
      BY <1>2, <1>4
    <3> QED
      BY <1>3, <1>4, <1>7, <3>1
  <2>2. wire'[L].len = n /\ wire'[L].op = op
    BY <2>1, HeadFacts
  <2>3. op = "data" =>
          Written' = Written + n /\ \A k \in 1 .. n : wire'[L + k] = Byte(more[L] + k)
    BY <1>3, <2>1 DEF n
  <2>4. op = "pong" => Written' = Written
    OBVIOUS
  <2>5. \A k \in 1 .. n : ~ IsHead(wire'[L + k])
    BY <1>3 DEF n
  <2>6. L + n <= Len(wire') /\ ~ (L + n < Len(wire'))
    BY <1>2, <1>3
  <2>7. \/ /\ op = "data" /\ more[L + n + 1] = more[L] + n
           /\ \A k \in 1 .. n : wire'[L + k] = Byte(more[L] + k)
        \/ op = "pong" /\ more[L + n + 1] = more[L]
    BY <1>7, <2>1, <2>3, <2>4
  <2> QED
    BY <2>2, <2>5, <2>6, <2>7 DEF Framed
<1>10. ASSUME NEW i \in 1 .. Len(wire'), IsHead(wire'[i])
       PROVE  Framed(wire', more, i)
  <2>1. CASE i = L
    BY <1>9, <2>1
  <2>2. CASE i > L
    <3>1. i - L \in 1 .. n /\ L + (i - L) = i
      BY <1>2, <1>3, <2>2
    <3>2. wire'[i] = s[i - L] /\ ~ IsHead(s[i - L])
      BY <1>3, <3>1 DEF n
    <3> QED
      BY <1>10, <3>2
  <2>3. CASE i < L
    <3>1. i \in 1 .. L /\ i # L /\ wire'[i] = wire[i]
      BY <1>2, <1>3, <2>3
    <3>2. IsHead(wire[i]) /\ i \in 1 .. Len(wire)
      BY <1>10, <3>1 DEF L
    <3>3. Framed(wire, count, i)
      BY <1>1, <3>1, <3>2 DEF WireCounted, Unfinished, L
    <3>4. wire[i] \in Heads /\ wire[i].len \in Nat
      BY <1>2, <3>2, HeadFacts, ElementOfSeq
    <3>5. IsHead(wire[L])
      BY <1>4, HeadFacts
    <3>6. i + wire[i].len # L
      <4> SUFFICES ASSUME i + wire[i].len = L PROVE FALSE
        OBVIOUS
      <4>1. wire[i].len \in 1 .. wire[i].len
        BY <1>2, <2>3, <3>1, <3>4
      <4>2. ~ IsHead(wire[i + wire[i].len])
        BY <3>3, <4>1 DEF Framed
      <4> QED
        BY <3>5, <4>2
    <3>7. /\ Len(wire) < Len(wire')
          /\ \A j \in 1 .. Len(wire) : wire'[j] = wire[j]
          /\ \A j \in 1 .. Len(wire) + 1 : more[j] = count[j]
      BY <1>2, <1>3, <1>7 DEF L
    <3> QED
      BY <1>2, <1>3, <3>2, <3>3, <3>6, <3>7, FramedLonger DEF L
  <2> QED
    BY <1>2, <1>3, <2>1, <2>2, <2>3
<1>11. up' # "body" /\ down' # "pongbody"
  BY DEF WmuFree
<1>12. more[Len(wire') + 1] = Written'
  BY <1>3, <1>7
<1> QED
  BY <1>8, <1>10, <1>11, <1>12 DEF WireInv, WireCounted

LEMMA WireUpBody ==
  ASSUME StreamTypeOK, SourceInv, PlaceInv, WireInv, UpBody PROVE WireInv'
<1>1. /\ up = "body" /\ tun /\ up' = "read" /\ wire' = wire \o pend
      /\ UNCHANGED <<tun, down, target>>
  BY DEF UpBody, downVars, srvVars
<1>2. pend # <<>> /\ down # "pongbody" /\ (Pos >= 2 \/ CutOff) /\ pend \in Seq(Bytes)
  BY <1>1 DEF PlaceInv, StreamTypeOK
<1>3. Pos' = Pos + Len(pend) /\ Len(pend) >= 1 /\ Len(pend) \in Nat
  BY <1>2, SourceUpBody, EmptyFacts
<1>4. Pos + Len(pend) = Read /\ Read <= said /\ Pos \in Nat /\ said \in 0 .. Data + 2
  <2>1. Pos \in Nat /\ said \in 0 .. Data + 2
    BY DEF SourceInv, StreamTypeOK
  <2>2. Pos = Read - Len(pend) /\ Read = Taken - Len(br) /\ Taken = said - Len(sock)
    BY DEF Pos, Read, Taken
  <2> QED
    BY <2>1, <2>2, Lengths
<1>5. Pos >= 2
  BY <1>2, <1>3, <1>4 DEF CutOff
<1>6. Written' = Written + Len(pend) /\ Pos = Written + 2
  BY <1>3, <1>4, <1>5 DEF Written
<1>7. ASSUME NEW k \in 1 .. Len(pend)
      PROVE  pend[k] = Byte(Written + k) /\ ~ IsHead(pend[k])
  <2>1. pend[k] = Script[Pos + k]
    BY DEF SourceInv, Piece
  <2>2. Written + k \in 1 .. Data /\ Pos + k = (Written + k) + 2
    <3>1. Written \in Nat /\ Data \in Nat /\ k \in Nat /\ k >= 1 /\ k <= Len(pend)
      BY <1>3, WrittenFacts, Amounts
    <3>2. said <= Data + 2 /\ said \in Nat /\ Read \in Int
      BY <1>4, Lengths
    <3>3. (Written + 2) + Len(pend) <= Data + 2
      BY <1>4, <1>6, <3>2, Amounts
    <3> QED
      BY <1>3, <1>6, <3>1, <3>3
  <2>3. Script[Pos + k] = Byte(Written + k) /\ Written + k \in Int
    BY <2>2, ScriptFacts
  <2> QED
    BY <2>1, <2>3, HeadFacts
<1>8. \A count : WireCounted(count) => Half(wire, count, "data", Len(pend), Written)
  BY <1>1 DEF WireCounted
<1>9. ~ WmuFree /\ WmuFree'
  BY <1>1, <1>2 DEF WmuFree
<1> QED
  BY <1>1, <1>2, <1>6, <1>7, <1>8, <1>9, WireBytes

LEMMA WirePongBody ==
  ASSUME StreamTypeOK, SourceInv, PlaceInv, WireInv, PongBody PROVE WireInv'
<1> DEFINE s == <<Byte(0)>>
<1>1. /\ down = "pongbody" /\ tun /\ down' = "read" /\ wire' = Append(wire, Byte(0))
      /\ UNCHANGED <<tun, up, target>> /\ Pos' = Pos
  BY DEF PongBody, appVars, upVars, srvVars, Pos, Read, Taken
<1>2. up # "body" /\ wire \in Seq(Bytes \cup Heads)
  BY <1>1 DEF PlaceInv, StreamTypeOK
<1>3. Byte(0) \in Bytes /\ Byte(0) \in Bytes \cup Heads /\ ~ IsHead(Byte(0))
  BY ByteFacts, HeadFacts
<1>4. s \in Seq(Bytes) /\ s # <<>> /\ Len(s) = 1 /\ s[1] = Byte(0)
  BY <1>3
<1>5. wire' = wire \o s
  BY <1>1, <1>2, <1>3, AppendIsConcat
<1>6. \A k \in 1 .. Len(s) : ~ IsHead(s[k])
  BY <1>3, <1>4
<1>7. Written' = Written
  BY <1>1 DEF Written
<1>8. \A count : WireCounted(count) => Half(wire, count, "pong", Len(s), Written)
  BY <1>1, <1>4 DEF WireCounted
<1>9. ~ WmuFree /\ WmuFree'
  BY <1>1, <1>2 DEF WmuFree
<1> HIDE DEF s
<1> QED
  BY <1>1, <1>4, <1>5, <1>6, <1>7, <1>8, <1>9, WireBytes

\* The server's end takes a whole frame off the wire.
LEMMA WireRead ==
  ASSUME StreamTypeOK, SourceInv, PlaceInv, TargetInv, WireInv, SrvReads
  PROVE  WireInv' /\ TargetInv' /\ target' \in Seq(Bytes)
<1> DEFINE L == Len(wire)
           n == Head(wire).len
<1>1. PICK count : WireCounted(count)
  BY DEF WireInv
<1>2. /\ wire # <<>> /\ L > n /\ wire' = Drop(wire, n + 1)
      /\ target' = IF Head(wire).op = "data" THEN target \o Take(Tail(wire), n) ELSE target
      /\ UNCHANGED <<tun, up, down, pend>> /\ Written' = Written
  BY DEF SrvReads, appVars, upVars, downVars, Written, Pos, Read, Taken
<1>3. wire \in Seq(Bytes \cup Heads) /\ L \in Nat /\ L >= 1 /\ Head(wire) = wire[1]
  BY <1>2, TailFacts, Lengths DEF StreamTypeOK
<1>4. wire[1] \in Heads /\ IsHead(wire[1]) /\ n \in Nat /\ wire[1].len = n
  <2>1. IsHead(wire[1])
    BY <1>1, <1>2 DEF WireCounted, CountOK
  <2>2. wire[1] \in Bytes \cup Heads
    BY <1>3, ElementOfSeq
  <2> QED
    BY <1>3, <2>1, <2>2, HeadFacts
<1> HIDE DEF L, n
<1>5. Framed(wire, count, 1)
  <2>1. ~ Unfinished(1)
    <3>1. Unfinished(1) => 1 = L /\ n >= 1
      BY <1>4 DEF Unfinished, L
    <3> QED
      BY <1>2, <1>3, <1>4, <3>1
  <2> QED
    BY <1>1, <1>3, <1>4, <2>1 DEF WireCounted, L
<1>6. /\ wire' \in Seq(Bytes \cup Heads) /\ Len(wire') = L - (n + 1)
      /\ \A i \in 1 .. L - (n + 1) : wire'[i] = wire[(n + 1) + i]
      /\ Len(wire') \in Nat
  <2>1. n + 1 \in 0 .. Len(wire)
    BY <1>2, <1>3, <1>4 DEF L
  <2>2. /\ wire' \in Seq(Bytes \cup Heads) /\ Len(wire') = L - (n + 1)
        /\ \A i \in 1 .. L - (n + 1) : wire'[i] = wire[(n + 1) + i]
    BY <1>2, <1>3, <2>1, DropFacts DEF L
  <2> QED
    BY <2>2, LenProperties
<1>7. /\ count \in [1 .. L + 1 -> 0 .. Written] /\ count[1] = Len(target)
  BY <1>1 DEF WireCounted, CountOK, L
<1> DEFINE rem == [j \in 1 .. Len(wire') + 1 |-> count[(n + 1) + j]]
<1>8. /\ rem \in [1 .. Len(wire') + 1 -> 0 .. Written]
      /\ \A j \in 1 .. Len(wire') + 1 : rem[j] = count[(n + 1) + j]
  <2>1. ASSUME NEW j \in 1 .. Len(wire') + 1 PROVE (n + 1) + j \in 1 .. L + 1
    BY <1>3, <1>4, <1>6
  <2> QED
    BY <1>7, <2>1
<1>9. rem[1] = count[1 + n + 1] /\ rem[Len(wire') + 1] = count[L + 1]
  <2>1. 1 \in 1 .. Len(wire') + 1 /\ Len(wire') + 1 \in 1 .. Len(wire') + 1
    BY <1>6
  <2>2. (n + 1) + 1 = 1 + n + 1 /\ (n + 1) + (Len(wire') + 1) = L + 1
    BY <1>3, <1>4, <1>6
  <2> QED
    BY <1>8, <2>1, <2>2
<1> HIDE DEF rem
<1>10. Len(target') = count[1 + n + 1] /\ TargetInv' /\ target' \in Seq(Bytes)
  <2>1. target \in Seq(Bytes) /\ Len(target) \in Nat
    BY Lengths DEF StreamTypeOK
  <2>2. CASE wire[1].op = "data"
    <3> DEFINE s == Take(Tail(wire), n)
    <3>1. /\ count[1 + n + 1] = Len(target) + n
          /\ \A k \in 1 .. n : wire[1 + k] = Byte(Len(target) + k)
      BY <1>4, <1>5, <1>7, <2>2 DEF Framed
    <3>2. /\ Tail(wire) \in Seq(Bytes \cup Heads) /\ Len(Tail(wire)) = L - 1
          /\ \A i \in 1 .. L - 1 : Tail(wire)[i] = wire[i + 1]
      BY <1>2, <1>3, TailFacts DEF L
    <3>3. n \in 0 .. Len(Tail(wire))
      BY <1>2, <1>3, <1>4, <3>2
    <3>4. /\ s \in Seq(Bytes \cup Heads) /\ Len(s) = n
          /\ \A i \in 1 .. n : s[i] = Tail(wire)[i]
      BY <3>2, <3>3, TakeFacts
    <3> HIDE DEF s
    <3>5. ASSUME NEW i \in 1 .. n PROVE s[i] = Byte(Len(target) + i) /\ s[i] \in Bytes
      <4>1. i \in 1 .. L - 1 /\ i + 1 = 1 + i /\ Len(target) + i \in Int
        BY <1>2, <1>3, <1>4, <2>1
      <4>2. s[i] = wire[1 + i]
        BY <3>2, <3>4, <4>1
      <4> QED
        BY <3>1, <4>1, <4>2, ByteFacts
    <3>6. s \in Seq(Bytes)
      <4>1. s \in [1 .. n -> Bytes]
        BY <1>4, <3>4, <3>5, LenProperties
      <4> QED
        BY <1>4, <4>1
    <3>7. target' = target \o s
      BY <1>2, <1>3, <2>2 DEF s
    <3>8. /\ target' \in Seq(Bytes) /\ Len(target') = Len(target) + n
          /\ \A i \in 1 .. Len(target) : target'[i] = target[i]
          /\ \A i \in 1 .. n : target'[Len(target) + i] = s[i]
      <4>1. /\ target \o s \in Seq(Bytes) /\ Len(target \o s) = Len(target) + Len(s)
            /\ \A i \in 1 .. Len(target) : (target \o s)[i] = target[i]
            /\ \A i \in 1 .. Len(s) : (target \o s)[Len(target) + i] = s[i]
        BY <2>1, <3>6, JoinFacts
      <4> QED
        BY <3>4, <3>7, <4>1
    <3>9. ASSUME NEW i \in 1 .. Len(target') PROVE target'[i] = Byte(i)
      <4>1. CASE i \in 1 .. Len(target)
        BY <3>8, <4>1 DEF TargetInv
      <4>2. CASE i \notin 1 .. Len(target)
        <5>1. i - Len(target) \in 1 .. n /\ Len(target) + (i - Len(target)) = i
          BY <1>4, <2>1, <3>8, <4>2
        <5> QED
          BY <3>5, <3>8, <5>1
      <4> QED
        BY <4>1, <4>2
    <3> QED
      BY <3>1, <3>8, <3>9 DEF TargetInv
  <2>3. CASE wire[1].op # "data"
    <3>1. count[1 + n + 1] = count[1]
      BY <1>4, <1>5, <2>3 DEF Framed
    <3> QED
      BY <1>2, <1>3, <1>7, <2>1, <2>3, <3>1 DEF TargetInv
  <2> QED
    BY <2>2, <2>3
<1>11. CountOK(wire', rem, Len(target'), Written')
  <2>1. ASSUME wire' # <<>> PROVE IsHead(wire'[1])
    <3>1. Len(wire') >= 1
      BY <1>6, <2>1, EmptyFacts
    <3>2. 1 \in 1 .. L - (n + 1) /\ (n + 1) + 1 = 1 + n + 1 /\ 1 + n < L
      BY <1>3, <1>4, <1>6, <3>1
    <3>3. wire'[1] = wire[1 + n + 1]
      BY <1>6, <3>2
    <3> QED
      BY <1>4, <1>5, <3>2, <3>3 DEF Framed, L
  <2> QED
    BY <1>2, <1>8, <1>9, <1>10, <2>1 DEF CountOK
<1>12. ASSUME NEW i \in 1 .. Len(wire'), IsHead(wire'[i])
       PROVE  Framed(wire', rem, i) \/ Unfinished(i)'
  <2>1. /\ (n + 1) + i \in 1 .. Len(wire) /\ wire'[i] = wire[(n + 1) + i]
        /\ (n + 1) + i = L <=> i = Len(wire')
    BY <1>3, <1>4, <1>6 DEF L
  <2>2. CASE Framed(wire, count, (n + 1) + i)
    <3>1. /\ \A j \in 1 .. Len(wire') : wire'[j] = wire[(n + 1) + j]
          /\ Len(wire') = Len(wire) - (n + 1) /\ n + 1 \in Nat
      BY <1>4, <1>6 DEF L
    <3> QED
      BY <1>3, <1>6, <1>8, <1>12, <2>2, <3>1, FramedLater
  <2>3. CASE Unfinished((n + 1) + i)
    BY <1>2, <2>1, <2>3 DEF Unfinished, WmuFree, L
  <2> QED
    BY <1>1, <1>12, <2>1, <2>2, <2>3 DEF WireCounted
<1>13. ASSUME NEW op, NEW m \in Nat, m >= 1, Half(wire, count, op, m, Written)
       PROVE  Half(wire', rem, op, m, Written')
  <2>1. wire[L] = Head2(op, m) /\ count[L] = Written /\ wire[L].len = m
    BY <1>13, HeadFacts DEF Half, L
  <2>2. L # 1 /\ L # 1 + n
    <3>1. L = 1 => n = m
      BY <1>4, <2>1
    <3>2. ASSUME L = 1 + n PROVE L = 1
      <4>1. CASE n = 0
        BY <3>2, <4>1
      <4>2. CASE n # 0
        <5>1. n \in 1 .. wire[1].len
          BY <1>4, <4>2
        <5>2. ~ IsHead(wire[L])
          BY <1>5, <3>2, <5>1 DEF Framed
        <5> QED
          BY <2>1, <5>2, HeadFacts
      <4> QED
        BY <4>1, <4>2
    <3> QED
      BY <1>2, <1>3, <1>4, <1>13, <3>1, <3>2
  <2>3. Len(wire') >= 1 /\ Len(wire') \in 1 .. L - (n + 1) /\ (n + 1) + Len(wire') = L
    BY <1>2, <1>3, <1>4, <1>6, <2>2
  <2>4. wire'[Len(wire')] = wire[L] /\ rem[Len(wire')] = count[L]
    <3>1. Len(wire') \in 1 .. Len(wire') + 1
      BY <2>3
    <3> QED
      BY <1>6, <1>8, <2>3, <3>1
  <2>5. wire' # <<>>
    BY <1>6, <2>3, EmptyFacts
  <2> QED
    BY <1>2, <2>1, <2>4, <2>5 DEF Half
<1>14. tun' /\ up' = "body" => Half(wire', rem, "data", Len(pend'), Written')
  <2> SUFFICES ASSUME tun', up' = "body" PROVE Half(wire', rem, "data", Len(pend'), Written')
    OBVIOUS
  <2>1. Half(wire, count, "data", Len(pend), Written)
    BY <1>1, <1>2 DEF WireCounted
  <2>2. Len(pend) \in Nat
    BY Lengths
  <2>3. pend # <<>> /\ pend \in Seq(Bytes)
    BY <1>2 DEF PlaceInv, StreamTypeOK
  <2>4. Len(pend) >= 1
    BY <2>2, <2>3, EmptyFacts
  <2> QED
    BY <1>2, <1>13, <2>1, <2>2, <2>4
<1>15. tun' /\ down' = "pongbody" => Half(wire', rem, "pong", 1, Written')
  BY <1>1, <1>2, <1>13 DEF WireCounted
<1>16. tun' /\ WmuFree' => rem[Len(wire') + 1] = Written'
  BY <1>1, <1>2, <1>9 DEF WireCounted, WmuFree, L
<1> QED
  BY <1>10, <1>11, <1>12, <1>14, <1>15, <1>16 DEF WireInv, WireCounted

LEMMA WireInit == StreamInit => WireInv /\ TargetInv
<1> SUFFICES ASSUME StreamInit PROVE WireInv /\ TargetInv
  OBVIOUS
<1>1. /\ wire = <<>> /\ target = <<>> /\ tun = FALSE
      /\ said = 0 /\ sock = <<>> /\ br = <<>> /\ pend = <<>>
  BY DEF StreamInit
<1> DEFINE count == [i \in 1 .. 1 |-> 0]
<1>2. Len(<<>>) = 0 /\ count[1] = 0 /\ count \in [1 .. 0 + 1 -> 0 .. 0]
  OBVIOUS
<1> HIDE DEF count
<1>3. Len(wire) = 0 /\ Len(target) = 0 /\ Taken = 0 - 0 /\ Read = Taken - 0 /\ Pos = Read - 0
  BY <1>1, <1>2 DEF Taken, Read, Pos
<1>4. Written = 0
  BY <1>3 DEF Written
<1>5. CountOK(wire, count, Len(target), Written)
  BY <1>1, <1>2, <1>3, <1>4 DEF CountOK
<1>6. 1 .. Len(wire) = {} /\ 1 .. Len(target) = {}
  BY <1>3
<1>7. WireCounted(count)
  BY <1>1, <1>5, <1>6 DEF WireCounted
<1> QED
  BY <1>6, <1>7 DEF WireInv, TargetInv

LEMMA WireStep ==
  ASSUME StreamTypeOK, SourceInv, PlaceInv, TargetInv, WireInv, [StreamNext]_streamVars
  PROVE  WireInv' /\ TargetInv' /\ (SrvReads => target' \in Seq(Bytes))
<1> USE DEF appVars, upVars, downVars, srvVars
<1> SUFFICES ASSUME ~ SrvReads PROVE WireInv' /\ TargetInv'
  BY WireRead
\* Nothing is on the wire before the tunnel is open.
<1>1. CASE Greets \/ Requested \/ Reached
  <2>1. /\ up = "off" /\ down = "off" /\ wire = <<>> /\ target = <<>>
        /\ UNCHANGED <<wire, target>> /\ up' \in {"off", "read"} /\ down' \in {"off", "read"}
    BY <1>1 DEF Greets, Requested, Reached, PlaceInv
  <2>2. Pos' \in Int /\ Pos' <= 2
    <3>1. CASE Greets \/ Requested
      <4>1. pend = <<>> /\ br # <<>> /\ br' = Tail(br) /\ UNCHANGED <<said, sock, pend>>
            /\ (Pos = 0 \/ Pos = 1)
        BY <2>1, <3>1 DEF PlaceInv, Greets, Requested
      <4>2. Pos' = Pos + 1
        BY <4>1, SourceConsumed
      <4> QED
        BY <4>1, <4>2
    <3>2. CASE Reached
      <4>1. Pos' = Pos /\ Pos <= 2
        BY <2>1, <3>2, SourceSame DEF Reached, SourceKept, PlaceInv
      <4> QED
        BY <4>1, Lengths
    <3> QED
      BY <1>1, <3>1, <3>2
  <2>3. WireInv'
    BY <2>1, <2>2, WireEmpty
  <2> QED
    BY <2>1, <2>3 DEF TargetInv
<1>2. CASE AppSpeaks \/ AppLeaves \/ Fill \/ Refuse \/ Abandoned \/ UpReads
  <2>1. Pos' = Pos
    BY <1>2, SourceSpeaks, SourceFill, SourceUpReads, SourceSame
       DEF SourceKept, AppLeaves, Refuse, Abandoned
  <2>2. /\ UNCHANGED <<wire, target, tun, down>>
        /\ up' # "body" \/ UNCHANGED <<up, pend>>
        /\ up' = "body" <=> up = "body"
    BY <1>2 DEF AppSpeaks, AppLeaves, Fill, Refuse, Abandoned, UpReads
  <2>3. WireInv'
    BY <2>1, <2>2, WireSame DEF WmuFree
  <2> QED
    BY <2>2, <2>3 DEF TargetInv
<1>3. CASE UpEnds \/ DownEnds
  <2>1. Pos' = Pos
    BY <1>3, SourceSame DEF SourceKept, UpEnds, DownEnds
  <2>2. UNCHANGED <<wire, target>> /\ ~ tun'
    BY <1>3 DEF UpEnds, DownEnds
  <2>3. WireInv'
    BY <2>1, <2>2, WireSame
  <2> QED
    BY <2>2, <2>3 DEF TargetInv
<1>4. CASE DownRest \/ DownFrame \/ SrvSends \/ SrvEnds \/ UNCHANGED streamVars
  <2>1. /\ UNCHANGED <<said, sock, br, pend, wire, target, tun, up>>
        /\ down' = down \/ (down = "read" /\ down' = "pong")
    BY <1>4 DEF DownRest, DownFrame, SrvSends, SrvEnds, streamVars
  <2>2. Pos' = Pos
    BY <2>1, SourceSame DEF SourceKept
  <2>3. WireInv'
    BY <2>1, <2>2, WireSame DEF WmuFree
  <2> QED
    BY <2>1, <2>3 DEF TargetInv
<1>5. CASE UpHead
  <2>1. /\ tun /\ WmuFree /\ up = "write" /\ wire' = Append(wire, Head2("data", Len(pend)))
        /\ UNCHANGED <<said, sock, br, pend, target, tun, down>> /\ up' = "body"
    BY <1>5 DEF UpHead
  <2>2. Pos' = Pos /\ down' # "pongbody"
    BY <2>1, SourceSame DEF SourceKept, WmuFree
  <2>3. Len(pend) \in Nat /\ Len(pend) >= 1 /\ Len(pend') = Len(pend)
    BY <2>1, EmptyFacts DEF PlaceInv, StreamTypeOK
  <2>4. WireInv'
    BY <2>1, <2>2, <2>3, WireHead
  <2> QED
    BY <2>1, <2>4 DEF TargetInv
<1>6. CASE PongHead
  <2>1. /\ tun /\ WmuFree /\ wire' = Append(wire, Head2("pong", 1)) /\ down' = "pongbody"
        /\ UNCHANGED <<said, sock, br, pend, target, tun, up>>
    BY <1>6 DEF PongHead
  <2>2. Pos' = Pos /\ up' # "body"
    BY <2>1, SourceSame DEF SourceKept, WmuFree
  <2>3. WireInv'
    BY <2>1, <2>2, WireHead
  <2> QED
    BY <2>1, <2>3 DEF TargetInv
<1>7. CASE UpBody
  BY <1>7, WireUpBody DEF UpBody, TargetInv
<1>8. CASE PongBody
  BY <1>8, WirePongBody DEF PongBody, TargetInv
<1> QED
  BY <1>1, <1>2, <1>3, <1>4, <1>5, <1>6, <1>7, <1>8 DEF StreamNext, ProxyStep

(***************************************************************************)
(* The way down.  count[i] is the number of bytes the server sent before   *)
(* frame i; what is left of the last frame ends where the first begins.    *)
(***************************************************************************)
\* Frame f carries the bytes of the target from the one after `from` to `to`.
Carries(f, from, to) ==
  \/ /\ f.op = "data" /\ to = from + Len(f.payload)
     /\ \A k \in 1 .. Len(f.payload) : f.payload[k] = Byte(from + k)
  \/ f.op # "data" /\ to = from

FramesCounted(w, end, count) ==
  /\ count \in [1 .. Len(w) + 1 -> 0 .. end.bytes]
  /\ end.open => count[Len(w) + 1] = end.bytes
  /\ \A i \in 1 .. Len(w) : Carries(w[i], count[i], count[i + 1])

\* s ends with the byte number `to` of the target.
RestIs(s, to) == Len(s) <= to /\ \A i \in 1 .. Len(s) : s[i] = Byte((to - Len(s)) + i)

Hellos == {<<>>, <<Choice>>}
Answer(hello) == hello \o <<Granted>> \o Downward

\* After hello the application was told that the target is reached, and then n bytes.
Heard(s, hello, n) ==
  /\ Len(s) = Len(hello) + 1 + n
  /\ \A i \in 1 .. Len(s) : s[i] = Answer(hello)[i]

\* What the application heard, of which n bytes came from the target.
ToldInv(n) ==
  /\ st = "greet" => toApp = <<>>
  /\ \E hello \in Hellos :
       /\ up = "off" => toApp \in {hello, Append(hello, Refused)}
       /\ up = "off" /\ st # "closed" => toApp = hello
       /\ up # "off" => Heard(toApp, hello, n)

DownInv ==
  \E count : /\ FramesCounted(frames, srv, count)
             /\ RestIs(rest, count[1]) /\ ToldInv(count[1] - Len(rest))

-----------------------------------------------------------------------------
LEMMA AnswerFacts ==
  ASSUME NEW hello \in Hellos
  PROVE  /\ hello \in Seq(Bytes) /\ Len(hello) \in Nat
         /\ Answer(hello) \in Seq(Bytes) /\ Len(Answer(hello)) = Len(hello) + 1 + Reply
         /\ \A i \in 1 .. Len(hello) : Answer(hello)[i] = hello[i]
         /\ Answer(hello)[Len(hello) + 1] = Granted
         /\ \A k \in 1 .. Reply : Answer(hello)[Len(hello) + 1 + k] = Byte(k)
<1>1. hello \in Seq(Bytes) /\ Granted \in Bytes
  <2>1. Choice \in Bytes /\ Granted \in Bytes
    BY PieceTypes
  <2>2. <<>> \in Seq(Bytes) /\ <<Choice>> \in Seq(Bytes)
    BY <2>1
  <2> QED
    BY <2>1, <2>2 DEF Hellos
<1>2. <<Granted>> \in Seq(Bytes) /\ Len(<<Granted>>) = 1 /\ <<Granted>>[1] = Granted
  BY <1>1
<1> DEFINE first == hello \o <<Granted>>
<1>3. /\ first \in Seq(Bytes) /\ Len(first) = Len(hello) + Len(<<Granted>>)
      /\ \A i \in 1 .. Len(hello) : first[i] = hello[i]
      /\ \A i \in 1 .. Len(<<Granted>>) : first[Len(hello) + i] = <<Granted>>[i]
  BY <1>1, <1>2, JoinFacts
<1>4. Len(first) = Len(hello) + 1 /\ first[Len(hello) + 1] = Granted /\ Len(hello) \in Nat
  BY <1>1, <1>2, <1>3, LenProperties
<1> HIDE DEF first
<1>5. /\ first \o Downward \in Seq(Bytes)
      /\ Len(first \o Downward) = Len(first) + Len(Downward)
      /\ \A i \in 1 .. Len(first) : (first \o Downward)[i] = first[i]
      /\ \A i \in 1 .. Len(Downward) : (first \o Downward)[Len(first) + i] = Downward[i]
  <2>1. Downward \in Seq(Bytes) /\ first \in Seq(Bytes)
    BY <1>3, DownwardFacts, Zenon
  <2>2. \A s, t \in Seq(Bytes) :
           /\ s \o t \in Seq(Bytes) /\ Len(s \o t) = Len(s) + Len(t)
           /\ \A i \in 1 .. Len(s) : (s \o t)[i] = s[i]
           /\ \A i \in 1 .. Len(t) : (s \o t)[Len(s) + i] = t[i]
    BY JoinFacts
  <2> QED
    BY ONLY <2>1, <2>2, Zenon
<1>6. Answer(hello) = first \o Downward
  BY DEF Answer, first
<1>7. /\ \A i \in 1 .. Len(hello) : Answer(hello)[i] = hello[i]
      /\ Answer(hello)[Len(hello) + 1] = Granted
  <2>1. ASSUME NEW i \in 1 .. Len(hello) PROVE Answer(hello)[i] = hello[i]
    <3>1. i \in 1 .. Len(first)
      BY <1>4
    <3> QED
      BY <1>3, <1>5, <1>6, <3>1
  <2>2. Len(hello) + 1 \in 1 .. Len(first)
    BY <1>4
  <2> QED
    BY <1>4, <1>5, <1>6, <2>1, <2>2
<1>8. \A k \in 1 .. Reply : Answer(hello)[Len(hello) + 1 + k] = Byte(k)
  BY <1>4, <1>5, <1>6, DownwardFacts
<1> QED
  BY <1>1, <1>4, <1>5, <1>6, <1>7, <1>8, DownwardFacts, Amounts

LEMMA HeardMore ==
  ASSUME NEW hello \in Hellos, NEW n \in Nat, NEW s \in Seq(Bytes), NEW t \in Seq(Bytes),
         Heard(s, hello, n), n + Len(t) <= Reply,
         \A i \in 1 .. Len(t) : t[i] = Byte(n + i)
  PROVE  Heard(s \o t, hello, n + Len(t))
<1>1. Len(s) \in Nat /\ Len(t) \in Nat /\ Len(hello) \in Nat /\ Len(s) = Len(hello) + 1 + n
  BY LenProperties, AnswerFacts DEF Heard
<1>2. /\ Len(s \o t) = Len(s) + Len(t)
      /\ \A i \in 1 .. Len(s) : (s \o t)[i] = s[i]
      /\ \A i \in 1 .. Len(t) : (s \o t)[Len(s) + i] = t[i]
  BY JoinFacts
<1>3. ASSUME NEW i \in 1 .. Len(s \o t) PROVE (s \o t)[i] = Answer(hello)[i]
  <2>1. CASE i <= Len(s)
    <3>1. i \in 1 .. Len(s)
      BY <1>1, <1>2, <2>1
    <3> QED
      BY <1>2, <3>1 DEF Heard
  <2>2. CASE i > Len(s)
    <3>1. i - Len(s) \in 1 .. Len(t) /\ Len(s) + (i - Len(s)) = i
      BY <1>1, <1>2, <2>2
    <3>2. (s \o t)[i] = Byte(n + (i - Len(s)))
      BY <1>2, <3>1
    <3>3. n + (i - Len(s)) \in 1 .. Reply /\ Len(hello) + 1 + (n + (i - Len(s))) = i
      BY <1>1, <3>1, Amounts
    <3>4. Answer(hello)[i] = Byte(n + (i - Len(s)))
      BY <3>3, AnswerFacts
    <3> QED
      BY <3>2, <3>4
  <2> QED
    BY <1>1, <1>2, <2>1, <2>2
<1> QED
  BY <1>1, <1>2, <1>3 DEF Heard

LEMMA HeardGranted ==
  ASSUME NEW hello \in Hellos
  PROVE  Heard(Append(hello, Granted), hello, 0)
<1>1. hello \in Seq(Bytes) /\ Granted \in Bytes /\ Len(hello) \in Nat
  BY AnswerFacts, PieceTypes
<1>2. /\ Len(Append(hello, Granted)) = Len(hello) + 1
      /\ \A i \in 1 .. Len(hello) : Append(hello, Granted)[i] = hello[i]
      /\ Append(hello, Granted)[Len(hello) + 1] = Granted
  BY <1>1, AppendProperties
<1>3. ASSUME NEW i \in 1 .. Len(hello) + 1 PROVE Append(hello, Granted)[i] = Answer(hello)[i]
  <2>1. CASE i \in 1 .. Len(hello)
    BY <1>2, <2>1, AnswerFacts
  <2>2. CASE i = Len(hello) + 1
    BY <1>2, <2>2, AnswerFacts
  <2> QED
    BY <1>1, <2>1, <2>2
<1> QED
  BY <1>1, <1>2, <1>3 DEF Heard

\* Part of what is left is handed to the application.
LEMMA RestParts ==
  ASSUME NEW s \in Seq(Bytes), NEW to \in Nat, RestIs(s, to), NEW k \in 0 .. Len(s)
  PROVE  /\ RestIs(Drop(s, k), to) /\ Len(Drop(s, k)) = Len(s) - k
         /\ Take(s, k) \in Seq(Bytes) /\ Len(Take(s, k)) = k
         /\ \A i \in 1 .. k : Take(s, k)[i] = Byte((to - Len(s)) + i)
<1>1. Len(s) \in Nat /\ Len(s) <= to
  BY LenProperties DEF RestIs
<1>2. /\ Take(s, k) \in Seq(Bytes) /\ Len(Take(s, k)) = k
      /\ \A i \in 1 .. k : Take(s, k)[i] = s[i]
  BY TakeFacts
<1>3. Len(Drop(s, k)) = Len(s) - k /\ \A i \in 1 .. Len(s) - k : Drop(s, k)[i] = s[k + i]
  BY DropFacts
<1>4. ASSUME NEW i \in 1 .. k PROVE Take(s, k)[i] = Byte((to - Len(s)) + i)
  <2>1. i \in 1 .. Len(s)
    BY <1>1
  <2> QED
    BY <1>2, <2>1 DEF RestIs
<1>5. ASSUME NEW i \in 1 .. Len(s) - k
      PROVE  Drop(s, k)[i] = Byte((to - (Len(s) - k)) + i)
  <2>1. k + i \in 1 .. Len(s) /\ (to - Len(s)) + (k + i) = (to - (Len(s) - k)) + i
    BY <1>1
  <2> QED
    BY <1>3, <2>1 DEF RestIs
<1>6. RestIs(Drop(s, k), to)
  <2>1. Len(s) - k <= to
    BY <1>1
  <2> QED
    BY <1>3, <1>5, <2>1 DEF RestIs
<1> QED
  BY <1>2, <1>3, <1>4, <1>6

LEMMA DownInit == StreamInit => DownInv
<1> SUFFICES ASSUME StreamInit PROVE DownInv
  OBVIOUS
<1>1. /\ frames = <<>> /\ rest = <<>> /\ toApp = <<>> /\ st = "greet" /\ up = "off"
      /\ srv = [bytes |-> 0, pings |-> 0, open |-> TRUE]
  BY DEF StreamInit
<1> DEFINE count == [i \in 1 .. 1 |-> 0]
<1>2. Len(<<>>) = 0 /\ count[1] = 0 /\ count \in [1 .. 0 + 1 -> 0 .. 0] /\ srv.bytes = 0
  BY <1>1
<1> HIDE DEF count
<1>3. Len(frames) = 0 /\ Len(rest) = 0 /\ 1 .. Len(frames) = {} /\ 1 .. Len(rest) = {}
  BY <1>1, <1>2
<1>4. FramesCounted(frames, srv, count)
  BY <1>2, <1>3 DEF FramesCounted
<1>5. RestIs(rest, count[1])
  BY <1>2, <1>3 DEF RestIs
<1>6. ToldInv(count[1] - Len(rest))
  BY <1>1 DEF ToldInv, Hellos
<1> QED
  BY <1>4, <1>5, <1>6 DEF DownInv

LEMMA DownSame ==
  ASSUME DownInv, UNCHANGED <<frames, rest, toApp, srv>>,
         up' = "off" <=> up = "off", st' = "greet" => st = "greet",
         st' # "closed" => st # "closed"
  PROVE  DownInv'
<1>1. PICK count :
        FramesCounted(frames, srv, count) /\ RestIs(rest, count[1]) /\ ToldInv(count[1] - Len(rest))
  BY DEF DownInv
<1>2. FramesCounted(frames', srv', count) /\ RestIs(rest', count[1])
  BY <1>1 DEF FramesCounted, RestIs
<1>3. PICK hello \in Hellos :
       /\ up = "off" => toApp \in {hello, Append(hello, Refused)}
       /\ up = "off" /\ st # "closed" => toApp = hello
       /\ up # "off" => Heard(toApp, hello, count[1] - Len(rest))
  BY <1>1 DEF ToldInv
<1>4. /\ st' = "greet" => toApp' = <<>>
      /\ up' = "off" => toApp' \in {hello, Append(hello, Refused)}
      /\ up' = "off" /\ st' # "closed" => toApp' = hello
      /\ up' # "off" => Heard(toApp', hello, count[1] - Len(rest'))
  BY <1>1, <1>3 DEF ToldInv
<1> DEFINE n == count[1] - Len(rest')
<1>5. /\ st' = "greet" => toApp' = <<>>
      /\ \E h \in Hellos :
           /\ up' = "off" => toApp' \in {h, Append(h, Refused)}
           /\ up' = "off" /\ st' # "closed" => toApp' = h
           /\ up' # "off" => Heard(toApp', h, n)
  BY <1>4
<1> QED
  BY <1>2, <1>5 DEF DownInv, ToldInv

\* While the answer is not out: nothing has come down.
LEMMA DownEmpty ==
  ASSUME frames' = <<>>, rest' = <<>>, srv'.bytes = 0, st' # "greet",
         NEW hello \in Hellos,
         up' = "off" => toApp' \in {hello, Append(hello, Refused)},
         up' = "off" /\ st' # "closed" => toApp' = hello,
         up' # "off" => Heard(toApp', hello, 0)
  PROVE  DownInv'
<1> DEFINE count == [i \in 1 .. 1 |-> 0]
<1>1. Len(<<>>) = 0 /\ count[1] = 0 /\ count \in [1 .. 0 + 1 -> 0 .. 0]
  OBVIOUS
<1> HIDE DEF count
<1>2. Len(frames') = 0 /\ Len(rest') = 0 /\ 1 .. Len(frames') = {} /\ 1 .. Len(rest') = {}
  BY <1>1
<1>3. FramesCounted(frames', srv', count)
  BY <1>1, <1>2 DEF FramesCounted
<1>4. RestIs(rest', count[1]) /\ count[1] - Len(rest') = 0
  <2>1. count[1] = 0 /\ Len(rest') = 0
    BY <1>1, <1>2
  <2>2. \A i \in 1 .. Len(rest') : rest'[i] = Byte((count[1] - Len(rest')) + i)
    BY <1>2
  <2>3. Len(rest') <= count[1] /\ count[1] - Len(rest') = 0
    <3>1. \A a, b : a = 0 /\ b = 0 => b <= a /\ a - b = 0
      OBVIOUS
    <3> QED
      BY ONLY <2>1, <3>1, Zenon
  <2>4. RestIs(rest', count[1])
    BY ONLY <2>2, <2>3, Zenon DEF RestIs
  <2> QED
    BY ONLY <2>3, <2>4, Zenon
<1>5. /\ st' = "greet" => toApp' = <<>>
      /\ \E h \in Hellos :
           /\ up' = "off" => toApp' \in {h, Append(h, Refused)}
           /\ up' = "off" /\ st' # "closed" => toApp' = h
           /\ up' # "off" => Heard(toApp', h, count[1] - Len(rest'))
  BY <1>4
<1> QED
  BY <1>3, <1>4, <1>5 DEF DownInv, ToldInv

\* The application is handed part of s, of which the rest is kept.
LEMMA DownDelivers ==
  ASSUME StreamTypeOK, NEW count, FramesCounted(frames', srv', count), NEW s \in Seq(Bytes),
         RestIs(s, count[1]), ToldInv(count[1] - Len(s)), count[1] \in 0 .. Reply,
         Delivers(s), up # "off", st # "greet", UNCHANGED <<up, st>>
  PROVE  DownInv'
<1>1. PICK k \in Chunks(s) : toApp' = toApp \o Take(s, k) /\ rest' = Drop(s, k)
  BY DEF Delivers
<1>2. k \in 0 .. Len(s) /\ Len(s) \in Nat /\ toApp \in Seq(Bytes) /\ count[1] \in Nat
  BY LenProperties, Amounts DEF Chunks, StreamTypeOK
<1> DEFINE n == count[1] - Len(s)
<1>3. /\ RestIs(rest', count[1]) /\ Len(rest') = Len(s) - k
      /\ Take(s, k) \in Seq(Bytes) /\ Len(Take(s, k)) = k
      /\ \A i \in 1 .. k : Take(s, k)[i] = Byte(n + i)
  BY <1>1, <1>2, RestParts
<1>4. PICK hello \in Hellos : Heard(toApp, hello, n)
  BY DEF ToldInv
<1>5. n \in Nat /\ n + k <= Reply /\ count[1] - Len(rest') = n + k
  <2>1. Len(s) <= count[1]
    BY DEF RestIs
  <2> QED
    BY <1>2, <1>3, <2>1, Amounts
<1> HIDE DEF n
<1>6. Heard(toApp', hello, n + k)
  <2> DEFINE t == Take(s, k)
  <2>1. t \in Seq(Bytes) /\ Len(t) = k /\ \A i \in 1 .. Len(t) : t[i] = Byte(n + i)
    BY <1>3
  <2> HIDE DEF t
  <2>2. Heard(toApp \o t, hello, n + Len(t))
    BY <1>2, <1>4, <1>5, <2>1, HeardMore
  <2> QED
    BY <1>1, <2>1, <2>2 DEF t
<1>7. /\ st' = "greet" => toApp' = <<>>
      /\ \E h \in Hellos :
           /\ up' = "off" => toApp' \in {h, Append(h, Refused)}
           /\ up' = "off" /\ st' # "closed" => toApp' = h
           /\ up' # "off" => Heard(toApp', h, count[1] - Len(rest'))
  BY <1>5, <1>6
<1> QED
  BY <1>3, <1>7 DEF DownInv, ToldInv

\* The client reads the first frame.
LEMMA DownReads ==
  ASSUME StreamTypeOK, PlaceInv, DownInv, DownFrame
  PROVE  DownInv'
<1>1. PICK count :
        FramesCounted(frames, srv, count) /\ RestIs(rest, count[1]) /\ ToldInv(count[1] - Len(rest))
  BY DEF DownInv
<1>2. /\ frames # <<>> /\ rest = <<>> /\ frames' = Tail(frames) /\ down = "read"
      /\ UNCHANGED <<srv, up, st>>
  BY DEF DownFrame, upVars
<1>3. up # "off" /\ st # "greet"
  BY <1>2 DEF PlaceInv
<1> DEFINE L == Len(frames)
<1>4. /\ frames' \in Seq(Frames) /\ Len(frames') = L - 1 /\ L >= 1 /\ L \in Nat
      /\ \A i \in 1 .. L - 1 : frames'[i] = frames[i + 1]
      /\ Head(frames) = frames[1] /\ Head(frames) \in Frames
  <2>1. frames \in Seq(Frames)
    BY DEF StreamTypeOK
  <2> QED
    BY <1>2, <2>1, TailFacts, LenProperties
<1>5. srv.bytes \in 0 .. Reply /\ Len(rest) = 0
  BY <1>2, Lengths
<1>6. count \in [1 .. L + 1 -> 0 .. srv.bytes] /\ Carries(frames[1], count[1], count[1 + 1])
  BY <1>1, <1>4 DEF FramesCounted
<1> HIDE DEF L
<1>7. count[1] \in 0 .. Reply /\ count[2] \in 0 .. Reply /\ count[1] \in Nat /\ count[2] \in Nat
  <2>1. 1 \in 1 .. L + 1 /\ 2 \in 1 .. L + 1
    BY <1>4
  <2> QED
    BY <1>5, <1>6, <2>1, Amounts
<1> DEFINE rem == [j \in 1 .. L |-> count[j + 1]]
<1>8. rem \in [1 .. L -> 0 .. srv.bytes] /\ \A j \in 1 .. L : rem[j] = count[j + 1]
  <2>1. ASSUME NEW j \in 1 .. L PROVE j + 1 \in 1 .. L + 1
    BY <1>4
  <2> QED
    BY <1>6, <2>1
<1> HIDE DEF rem
<1>9. FramesCounted(frames', srv', rem)
  <2>1. rem \in [1 .. Len(frames') + 1 -> 0 .. srv'.bytes]
    BY <1>2, <1>4, <1>8
  <2>2. srv'.open => rem[Len(frames') + 1] = srv'.bytes
    <3>1. L \in 1 .. L /\ Len(frames') + 1 = L
      BY <1>4
    <3> QED
      BY <1>1, <1>2, <1>8, <3>1 DEF FramesCounted, L
  <2>3. ASSUME NEW i \in 1 .. Len(frames') PROVE Carries(frames'[i], rem[i], rem[i + 1])
    <3>1. i + 1 \in 1 .. L /\ i \in 1 .. L /\ i \in 1 .. L - 1
      BY <1>4
    <3>2. Carries(frames[i + 1], count[i + 1], count[(i + 1) + 1])
      BY <1>1, <3>1 DEF FramesCounted, L
    <3> QED
      BY <1>4, <1>8, <3>1, <3>2
  <2> QED
    BY <2>1, <2>2, <2>3 DEF FramesCounted
<1>10. rem[1] = count[2]
  <2>1. 1 \in 1 .. L
    BY <1>4
  <2> QED
    BY <1>8, <2>1
<1>11. CASE Head(frames).op = "data" /\ Delivers(Head(frames).payload)
  <2> DEFINE s == Head(frames).payload
  <2>1. s \in Seq(Bytes)
    BY <1>4 DEF Frames
  <2>2. /\ count[2] = count[1] + Len(s)
        /\ \A k \in 1 .. Len(s) : s[k] = Byte(count[1] + k)
    BY <1>4, <1>6, <1>11 DEF Carries
  <2> HIDE DEF s
  <2>3. Len(s) \in Nat /\ rem[1] - Len(s) = count[1] /\ count[1] - Len(rest) = count[1]
    BY <1>5, <1>7, <1>10, <2>1, <2>2, LenProperties
  <2>4. RestIs(s, rem[1])
    BY <1>7, <1>10, <2>2, <2>3 DEF RestIs
  <2>5. ToldInv(rem[1] - Len(s))
    BY <1>1, <2>3
  <2>6. Delivers(s) /\ UNCHANGED <<up, st>>
    BY <1>2, <1>11 DEF s
  <2> QED
    BY <1>3, <1>7, <1>9, <1>10, <2>1, <2>4, <2>5, <2>6, DownDelivers
<1>12. CASE Head(frames).op # "data"
  <2>1. UNCHANGED <<toApp, rest>>
    BY <1>12 DEF DownFrame, downVars
  <2>2. rem[1] = count[1]
    BY <1>4, <1>6, <1>10, <1>12 DEF Carries
  <2>3. RestIs(rest', rem[1])
    BY <1>1, <2>1, <2>2
  <2>4. PICK hello \in Hellos : Heard(toApp, hello, count[1] - Len(rest))
    BY <1>1, <1>3 DEF ToldInv
  <2>5. /\ st' = "greet" => toApp' = <<>>
        /\ \E h \in Hellos :
             /\ up' = "off" => toApp' \in {h, Append(h, Refused)}
             /\ up' = "off" /\ st' # "closed" => toApp' = h
             /\ up' # "off" => Heard(toApp', h, rem[1] - Len(rest'))
    BY <1>2, <1>3, <2>1, <2>2, <2>4
  <2> QED
    BY <1>9, <2>3, <2>5 DEF DownInv, ToldInv
<1> QED
  BY <1>11, <1>12 DEF DownFrame

\* The server sends a frame.
LEMMA DownSent ==
  ASSUME StreamTypeOK, PlaceInv, DownInv, tun, srv.open, srv'.open,
         NEW f \in Frames, frames' = Append(frames, f),
         srv'.bytes \in srv.bytes .. Reply, Carries(f, srv.bytes, srv'.bytes),
         UNCHANGED <<up, st, toApp, rest>>
  PROVE  DownInv'
<1>1. PICK count :
        FramesCounted(frames, srv, count) /\ RestIs(rest, count[1]) /\ ToldInv(count[1] - Len(rest))
  BY DEF DownInv
<1> DEFINE L == Len(frames)
<1>2. /\ frames' \in Seq(Frames) /\ Len(frames') = L + 1 /\ L \in Nat
      /\ \A i \in 1 .. L : frames'[i] = frames[i]
      /\ frames'[L + 1] = f
  <2>1. frames \in Seq(Frames)
    BY DEF StreamTypeOK
  <2> QED
    BY <2>1, AppendProperties, LenProperties
<1>3. srv.bytes \in Nat /\ srv'.bytes \in Nat /\ srv.bytes <= srv'.bytes
  BY Lengths, Amounts
<1>4. /\ count \in [1 .. L + 1 -> 0 .. srv.bytes] /\ count[L + 1] = srv.bytes
  BY <1>1 DEF FramesCounted
<1> HIDE DEF L
<1> DEFINE more == [j \in 1 .. L + 2 |-> IF j = L + 2 THEN srv'.bytes ELSE count[j]]
<1>5. /\ more \in [1 .. L + 2 -> 0 .. srv'.bytes]
      /\ \A j \in 1 .. L + 1 : more[j] = count[j]
      /\ more[L + 2] = srv'.bytes
  <2>1. ASSUME NEW j \in 1 .. L + 2 PROVE more[j] \in 0 .. srv'.bytes
    <3>1. CASE j = L + 2
      BY <1>2, <1>3, <3>1
    <3>2. CASE j # L + 2
      <4>1. j \in 1 .. L + 1 /\ more[j] = count[j]
        BY <1>2, <3>2
      <4>2. count[j] \in 0 .. srv.bytes
        BY <1>4, <4>1
      <4> QED
        BY <1>3, <4>1, <4>2
    <3> QED
      BY <3>1, <3>2
  <2>2. ASSUME NEW j \in 1 .. L + 1 PROVE more[j] = count[j]
    BY <1>2
  <2>3. more[L + 2] = srv'.bytes
    BY <1>2
  <2> QED
    BY <2>1, <2>2, <2>3
<1> HIDE DEF more
<1>6. FramesCounted(frames', srv', more)
  <2>1. more \in [1 .. Len(frames') + 1 -> 0 .. srv'.bytes]
    BY <1>2, <1>5
  <2>2. more[Len(frames') + 1] = srv'.bytes
    BY <1>2, <1>5
  <2>3. ASSUME NEW i \in 1 .. Len(frames') PROVE Carries(frames'[i], more[i], more[i + 1])
    <3>1. CASE i = L + 1
      <4>1. more[L + 1] = srv.bytes /\ more[(L + 1) + 1] = srv'.bytes
        <5>1. L + 1 \in 1 .. L + 1 /\ (L + 1) + 1 = L + 2
          BY <1>2
        <5> QED
          BY <1>4, <1>5, <5>1
      <4> QED
        BY <1>2, <3>1, <4>1
    <3>2. CASE i # L + 1
      <4>1. i \in 1 .. L /\ i \in 1 .. L + 1 /\ i + 1 \in 1 .. L + 1
        BY <1>2, <3>2
      <4>2. Carries(frames[i], count[i], count[i + 1])
        BY <1>1, <4>1 DEF FramesCounted, L
      <4> QED
        BY <1>2, <1>5, <4>1, <4>2
    <3> QED
      BY <3>1, <3>2
  <2> QED
    BY <2>1, <2>2, <2>3 DEF FramesCounted
<1>7. more[1] = count[1]
  <2>1. 1 \in 1 .. L + 1
    BY <1>2
  <2> QED
    BY <1>5, <2>1
<1>8. up # "off" /\ st # "greet"
  BY DEF PlaceInv
<1>9. PICK hello \in Hellos : Heard(toApp, hello, count[1] - Len(rest))
  BY <1>1, <1>8 DEF ToldInv
<1>10. RestIs(rest', more[1])
  BY <1>1, <1>7
<1>11. /\ st' = "greet" => toApp' = <<>>
       /\ \E h \in Hellos :
            /\ up' = "off" => toApp' \in {h, Append(h, Refused)}
            /\ up' = "off" /\ st' # "closed" => toApp' = h
            /\ up' # "off" => Heard(toApp', h, more[1] - Len(rest'))
  BY <1>7, <1>8, <1>9
<1> QED
  BY <1>6, <1>10, <1>11 DEF DownInv, ToldInv

\* The server's end closes; frames that are still on their way may be lost.
LEMMA DownCut ==
  ASSUME StreamTypeOK, PlaceInv, DownInv, SrvEnds
  PROVE  DownInv'
<1>1. PICK count :
        FramesCounted(frames, srv, count) /\ RestIs(rest, count[1]) /\ ToldInv(count[1] - Len(rest))
  BY DEF DownInv
<1>2. PICK k \in 0 .. Len(frames) : frames' = Take(frames, k)
  BY DEF SrvEnds
<1>3. /\ UNCHANGED <<up, st, toApp, rest>> /\ up # "off" /\ st # "greet"
      /\ srv' = [srv EXCEPT !.open = FALSE]
  BY DEF SrvEnds, PlaceInv, upVars, downVars
<1>4. srv'.bytes = srv.bytes /\ ~ srv'.open
  <2>1. srv \in [bytes : 0 .. Reply, pings : 0 .. Pings, open : BOOLEAN]
    BY DEF StreamTypeOK
  <2> QED
    BY <1>3, <2>1
<1>5. Len(frames') = k /\ \A i \in 1 .. k : frames'[i] = frames[i]
  <2>1. frames \in Seq(Frames)
    BY DEF StreamTypeOK
  <2> QED
    BY <1>2, <2>1, TakeFacts
<1> DEFINE L == Len(frames)
<1>6. L \in Nat /\ k \in 0 .. L /\ count \in [1 .. L + 1 -> 0 .. srv.bytes]
  BY <1>1, <1>2, Lengths DEF FramesCounted
<1> HIDE DEF L
<1> DEFINE rem == [j \in 1 .. k + 1 |-> count[j]]
<1>7. rem \in [1 .. k + 1 -> 0 .. srv.bytes] /\ \A j \in 1 .. k + 1 : rem[j] = count[j]
  <2>1. ASSUME NEW j \in 1 .. k + 1 PROVE j \in 1 .. L + 1
    BY <1>6
  <2> QED
    BY <1>6, <2>1
<1> HIDE DEF rem
<1>8. FramesCounted(frames', srv', rem)
  <2>1. rem \in [1 .. Len(frames') + 1 -> 0 .. srv'.bytes]
    BY <1>4, <1>5, <1>7
  <2>2. ASSUME NEW i \in 1 .. Len(frames') PROVE Carries(frames'[i], rem[i], rem[i + 1])
    <3>1. i \in 1 .. L /\ i \in 1 .. k /\ i \in 1 .. k + 1 /\ i + 1 \in 1 .. k + 1
      BY <1>5, <1>6
    <3>2. Carries(frames[i], count[i], count[i + 1])
      BY <1>1, <3>1 DEF FramesCounted, L
    <3> QED
      BY <1>5, <1>7, <3>1, <3>2
  <2> QED
    BY <1>4, <2>1, <2>2 DEF FramesCounted
<1>9. rem[1] = count[1]
  <2>1. 1 \in 1 .. k + 1
    BY <1>6
  <2> QED
    BY <1>7, <2>1
<1>10. PICK hello \in Hellos : Heard(toApp, hello, count[1] - Len(rest))
  BY <1>1, <1>3 DEF ToldInv
<1>11. RestIs(rest', rem[1])
  BY <1>1, <1>3, <1>9
<1>12. /\ st' = "greet" => toApp' = <<>>
       /\ \E h \in Hellos :
            /\ up' = "off" => toApp' \in {h, Append(h, Refused)}
            /\ up' = "off" /\ st' # "closed" => toApp' = h
            /\ up' # "off" => Heard(toApp', h, rem[1] - Len(rest'))
  BY <1>3, <1>9, <1>10
<1> QED
  BY <1>8, <1>11, <1>12 DEF DownInv, ToldInv

LEMMA DownStep ==
  ASSUME StreamTypeOK, PlaceInv, DownInv, [StreamNext]_streamVars
  PROVE  DownInv'
<1> USE DEF appVars, upVars, downVars, srvVars
<1>1. CASE AppSpeaks \/ AppLeaves \/ Fill \/ Requested \/ Abandoned
  BY <1>1, DownSame
     DEF AppSpeaks, AppLeaves, Fill, Requested, Abandoned, Negotiating
<1>2. CASE UpReads \/ UpHead \/ UpBody \/ UpEnds
  <2>1. /\ UNCHANGED <<frames, rest, toApp, srv, st>>
        /\ up # "off" /\ up' # "off"
    BY <1>2 DEF UpReads, UpHead, UpBody, UpEnds, UpOver
  <2> QED
    BY <2>1, DownSame
<1>3. CASE PongHead \/ PongBody \/ SrvReads \/ UNCHANGED streamVars
  <2>1. UNCHANGED <<frames, rest, toApp, srv, st, up>>
    BY <1>3 DEF PongHead, PongBody, SrvReads, streamVars
  <2> QED
    BY <2>1, DownSame
<1>4. CASE DownEnds
  <2>1. UNCHANGED <<frames, rest, toApp, srv, up>> /\ st' = "closed"
    BY <1>4 DEF DownEnds
  <2> QED
    BY <2>1, DownSame
<1>5. CASE Greets
  <2>1. /\ st = "greet" /\ up = "off" /\ frames = <<>> /\ rest = <<>> /\ srv.bytes = 0
        /\ UNCHANGED <<up, frames, rest, srv>> /\ st' = "request"
        /\ toApp' \in {toApp, Append(toApp, Choice)}
    BY <1>5 DEF Greets, PlaceInv
  <2>2. toApp = <<>>
    BY <2>1 DEF DownInv, ToldInv
  <2>3. Append(<<>>, Choice) = <<Choice>>
    BY PieceTypes
  <2>4. toApp' \in Hellos
    BY <2>1, <2>2, <2>3 DEF Hellos
  <2> QED
    BY <2>1, <2>4, DownEmpty
<1>6. CASE Reached
  <2>1. /\ st = "dial" /\ up = "off" /\ frames = <<>> /\ rest = <<>> /\ srv.bytes = 0
        /\ UNCHANGED <<frames, rest, srv>> /\ up' = "read" /\ st' = "relay"
        /\ toApp' = Append(toApp, Granted)
    BY <1>6 DEF Reached, PlaceInv
  <2>2. toApp \in Hellos
    BY <2>1 DEF DownInv, ToldInv
  <2>3. Heard(toApp', toApp, 0)
    BY <2>1, <2>2, HeardGranted
  <2> QED
    BY <2>1, <2>2, <2>3, DownEmpty
<1>7. CASE Refuse
  <2>1. /\ st \in {"greet", "request", "dial"} /\ up = "off" /\ frames = <<>> /\ rest = <<>>
        /\ srv.bytes = 0 /\ UNCHANGED <<up, frames, rest, srv>> /\ st' = "closed"
        /\ toApp' = Append(toApp, Refused)
    BY <1>7 DEF Refuse, Negotiating, PlaceInv
  <2>2. toApp \in Hellos
    BY <2>1 DEF DownInv, ToldInv
  <2> QED
    BY <2>1, <2>2, DownEmpty
<1>8. CASE DownRest
  <2>1. PICK count : /\ FramesCounted(frames, srv, count)
                     /\ RestIs(rest, count[1]) /\ ToldInv(count[1] - Len(rest))
    BY DEF DownInv
  <2>2. /\ UNCHANGED <<frames, srv, up, st>> /\ Delivers(rest)
        /\ up # "off" /\ st # "greet" /\ rest \in Seq(Bytes)
    BY <1>8 DEF DownRest, PlaceInv, StreamTypeOK
  <2>3. count[1] \in 0 .. Reply
    <3>1. 1 \in 1 .. Len(frames) + 1 /\ srv.bytes \in 0 .. Reply
      BY Lengths
    <3>2. count[1] \in 0 .. srv.bytes
      BY <2>1, <3>1 DEF FramesCounted
    <3> QED
      BY <3>1, <3>2, Amounts
  <2> QED
    BY <2>1, <2>2, <2>3, DownDelivers
<1>9. CASE DownFrame
  BY <1>9, DownReads
<1>10. CASE SrvSends
  <2>1. /\ tun /\ srv.open /\ UNCHANGED <<up, st, toApp, rest>>
    BY <1>10 DEF SrvSends
  <2>2. srv \in [bytes : 0 .. Reply, pings : 0 .. Pings, open : BOOLEAN]
    BY DEF StreamTypeOK
  <2>3. CASE \E k \in srv.bytes + 1 .. Reply : SendsData(k)
    <3>1. PICK k \in srv.bytes + 1 .. Reply : SendsData(k)
      BY <2>3
    <3> DEFINE s == SubSeq(Downward, srv.bytes + 1, k)
               f == [op |-> "data", payload |-> s]
    <3>2. srv.bytes \in Nat /\ k \in Nat /\ k > srv.bytes
      BY <2>2, Amounts
    <3>3. /\ s \in Seq(Bytes) /\ Len(s) = k - srv.bytes
          /\ \A i \in 1 .. k - srv.bytes : s[i] = Byte(srv.bytes + i)
      BY <3>1, <3>2, PayloadFacts, Zenon
    <3>4. frames' = Append(frames, f) /\ srv' = [srv EXCEPT !.bytes = k]
      BY <3>1 DEF SendsData
    <3>5. srv'.bytes = k /\ srv'.open = srv.open
      BY <2>2, <3>4
    <3> HIDE DEF s
    <3>6. f \in Frames /\ f.op = "data" /\ f.payload = s
      BY <3>3 DEF Frames
    <3> HIDE DEF f
    <3>7. k = srv.bytes + Len(s)
      BY <3>2, <3>3
    <3>8. Carries(f, srv.bytes, srv'.bytes)
      BY <3>3, <3>5, <3>6, <3>7 DEF Carries
    <3>9. srv'.bytes \in srv.bytes .. Reply
      BY <3>2, <3>5, Amounts
    <3> QED
      BY <2>1, <3>4, <3>5, <3>6, <3>8, <3>9, DownSent
  <2>4. CASE \E op \in {"ping", "pong", "close"} : SendsControl(op)
    <3>1. PICK op \in {"ping", "pong", "close"} : SendsControl(op)
      BY <2>4
    <3> DEFINE f == [op |-> op, payload |-> <<>>]
    <3>2. frames' = Append(frames, f) /\ srv' = [srv EXCEPT !.pings = srv.pings + 1]
      BY <3>1 DEF SendsControl
    <3>3. srv'.bytes = srv.bytes /\ srv'.open = srv.open /\ srv.bytes \in srv.bytes .. Reply
      BY <2>2, <3>2, Amounts
    <3>4. f \in Frames /\ f.op # "data"
      BY DEF Frames
    <3> HIDE DEF f
    <3>5. Carries(f, srv.bytes, srv'.bytes)
      BY <3>3, <3>4 DEF Carries
    <3> QED
      BY <2>1, <3>2, <3>3, <3>4, <3>5, DownSent
  <2> QED
    BY <1>10, <2>3, <2>4, SendsCases
<1>11. CASE SrvEnds
  BY <1>11, DownCut
<1> QED
  BY <1>1, <1>2, <1>3, <1>4, <1>5, <1>6, <1>7, <1>8, <1>9, <1>10, <1>11
     DEF StreamNext, ProxyStep

-----------------------------------------------------------------------------
\* What is written, framed, taken off and delivered, in one invariant.
StreamInv ==
  StreamTypeOK /\ SourceInv /\ PlaceInv /\ TargetInv /\ WireInv /\ DownInv

LEMMA StreamInvHolds == StreamSpec => []StreamInv
<1>1. StreamInit => StreamInv
  BY StreamTypesInit, StreamPlacesInit, WireInit, DownInit DEF StreamInv
<1>2. StreamInv /\ [StreamNext]_streamVars => StreamInv'
  <2> SUFFICES ASSUME StreamInv, [StreamNext]_streamVars PROVE StreamInv'
    OBVIOUS
  <2>1. StreamTypeOK /\ SourceInv /\ PlaceInv /\ TargetInv /\ WireInv /\ DownInv
    BY DEF StreamInv
  <2>2. SourceInv' /\ PlaceInv'
    BY <2>1, StreamPlacesStep
  <2>3. WireInv' /\ TargetInv' /\ (SrvReads => target' \in Seq(Bytes))
    BY <2>1, WireStep
  <2>4. StreamTypeOK'
    BY <2>1, <2>3, StreamTypesStep
  <2>5. DownInv'
    BY <2>1, DownStep
  <2> QED
    BY <2>2, <2>3, <2>4, <2>5 DEF StreamInv
<1> QED
  BY <1>1, <1>2, PTL DEF StreamSpec

LEMMA PrefixFacts ==
  ASSUME NEW s \in Seq(Bytes), NEW t \in Seq(Bytes), Len(s) <= Len(t),
         \A i \in 1 .. Len(s) : s[i] = t[i]
  PROVE  IsPrefix(s, t)
<1> DEFINE a == SubSeq(s, 1, Len(s))
           b == SubSeq(t, 1, Len(s))
<1>1. Len(s) \in 0 .. Len(s) /\ Len(s) \in 0 .. Len(t)
  BY LenProperties
<1>2. /\ a \in Seq(Bytes) /\ Len(a) = Len(s) /\ \A i \in 1 .. Len(s) : a[i] = s[i]
      /\ b \in Seq(Bytes) /\ Len(b) = Len(s) /\ \A i \in 1 .. Len(s) : b[i] = t[i]
  BY <1>1, TakeFacts DEF Take
<1> HIDE DEF a, b
<1>3. a = b
  BY <1>2, SeqEqual
<1> QED
  BY <1>3 DEF IsPrefix, a, b

\* What the application has sent after its request.
LEMMA SentDataFacts ==
  ASSUME StreamTypeOK
  PROVE  /\ SentData \in Seq(Bytes)
         /\ Len(SentData) = IF said <= 2 THEN 0 ELSE said - 2
         /\ \A i \in 1 .. Len(SentData) : SentData[i] = Byte(i)
<1> DEFINE s == Take(Script, said)
<1>1. said \in 0 .. Len(Script) /\ said \in Nat
  BY ScriptFacts, Lengths DEF StreamTypeOK
<1>2. s \in Seq(Bytes) /\ Len(s) = said /\ \A i \in 1 .. said : s[i] = Script[i]
  BY <1>1, ScriptFacts, TakeFacts
<1>3. SentData = SubSeq(s, 2 + 1, Len(s))
  BY DEF SentData, Drop
<1> HIDE DEF s
<1>4. \A i \in 3 .. said : s[i] \in Bytes
  BY <1>1, <1>2, ElementOfSeq
<1>5. /\ SentData \in Seq(Bytes)
      /\ Len(SentData) = (IF 3 <= said THEN said - 3 + 1 ELSE 0)
      /\ \A i \in 1 .. said - 3 + 1 : SentData[i] = s[3 + i - 1]
  BY <1>1, <1>2, <1>3, <1>4, SubSeqProperties
<1>6. Len(SentData) = IF said <= 2 THEN 0 ELSE said - 2
  BY <1>1, <1>5
<1>7. ASSUME NEW i \in 1 .. Len(SentData) PROVE SentData[i] = Byte(i)
  <2>1. i \in 1 .. said - 3 + 1 /\ 3 + i - 1 = i + 2 /\ i + 2 \in 1 .. said /\ i \in 1 .. Data
    BY <1>1, <1>6, ScriptFacts, Amounts
  <2> QED
    BY <1>2, <1>5, <2>1, ScriptFacts
<1> QED
  BY <1>5, <1>6, <1>7

(***************************************************************************)
(* The state of the relay keeps its types.                                 *)
(***************************************************************************)
THEOREM StreamTyped == StreamSpec => []StreamTypeOK
<1>1. StreamInv => StreamTypeOK
  BY DEF StreamInv
<1> QED
  BY <1>1, StreamInvHolds, PTL

(***************************************************************************)
(* For any number of bytes both ways and any number of pings: both ends    *)
(* get a prefix of what the other has sent, in order, and nothing else.    *)
(***************************************************************************)
THEOREM BytesAreCarried == StreamSpec => []Carried
<1>1. StreamInv => Carried
  <2> SUFFICES ASSUME StreamInv PROVE Carried
    OBVIOUS
  <2>1. StreamTypeOK /\ SourceInv /\ PlaceInv /\ TargetInv /\ WireInv /\ DownInv
    BY DEF StreamInv
  <2>2. IsPrefix(target, SentData)
    <3>1. Len(target) <= Written /\ Len(target) \in Nat /\ target \in Seq(Bytes)
      <4>1. PICK count : WireCounted(count)
        BY <2>1 DEF WireInv
      <4>2. 1 \in 1 .. Len(wire) + 1
        BY <2>1, Lengths
      <4>3. Len(target) \in 0 .. Written
        BY <4>1, <4>2 DEF WireCounted, CountOK
      <4>4. Written \in Nat
        BY <2>1, WrittenFacts
      <4>5. target \in Seq(Bytes)
        BY <2>1 DEF StreamTypeOK
      <4> QED
        BY <4>3, <4>4, <4>5
    <3>2. Written <= Len(SentData)
      <4>1. Pos = ((said - Len(sock)) - Len(br)) - Len(pend)
        BY DEF Pos, Read, Taken
      <4>2. Pos <= said /\ said \in Nat /\ Pos \in Int
        BY <2>1, <4>1, Lengths
      <4>3. Len(SentData) = IF said <= 2 THEN 0 ELSE said - 2
        BY <2>1, SentDataFacts
      <4> QED
        BY <4>2, <4>3 DEF Written
    <3>3. Written \in Nat /\ Len(SentData) \in Nat /\ SentData \in Seq(Bytes)
      BY <2>1, WrittenFacts, SentDataFacts, LenProperties
    <3>4. Len(target) <= Len(SentData)
      BY <3>1, <3>2, <3>3
    <3>5. ASSUME NEW i \in 1 .. Len(target) PROVE target[i] = SentData[i]
      <4>1. i \in 1 .. Len(SentData)
        BY <3>1, <3>3, <3>4
      <4> QED
        BY <2>1, <4>1, SentDataFacts DEF TargetInv
    <3> QED
      BY <3>1, <3>3, <3>4, <3>5, PrefixFacts
  <2>3. \E hello \in Hellos :
          \/ IsPrefix(toApp, Answer(hello))
          \/ toApp = Append(hello, Refused)
    <3>1. PICK count : /\ FramesCounted(frames, srv, count)
                       /\ RestIs(rest, count[1]) /\ ToldInv(count[1] - Len(rest))
      BY <2>1 DEF DownInv
    <3>2. toApp \in Seq(Bytes) /\ Len(toApp) \in Nat /\ Len(rest) \in Nat
      BY <2>1, Lengths DEF StreamTypeOK
    <3>3. count[1] \in 0 .. Reply
      <4>1. 1 \in 1 .. Len(frames) + 1 /\ srv.bytes \in 0 .. Reply
        BY <2>1, Lengths
      <4>2. count[1] \in 0 .. srv.bytes
        BY <3>1, <4>1 DEF FramesCounted
      <4> QED
        BY <4>1, <4>2, Amounts
    <3>4. PICK hello \in Hellos :
            /\ up = "off" => toApp \in {hello, Append(hello, Refused)}
            /\ up # "off" => Heard(toApp, hello, count[1] - Len(rest))
      BY <3>1 DEF ToldInv
    <3>5. CASE up = "off" /\ toApp = Append(hello, Refused)
      BY <3>5
    <3>6. CASE up = "off" /\ toApp = hello
      <4>1. Len(hello) <= Len(Answer(hello)) /\ hello \in Seq(Bytes) /\ Answer(hello) \in Seq(Bytes)
            /\ \A i \in 1 .. Len(hello) : hello[i] = Answer(hello)[i]
        BY AnswerFacts, Amounts
      <4> QED
        BY <3>6, <4>1, PrefixFacts
    <3>7. CASE up # "off"
      <4>1. Heard(toApp, hello, count[1] - Len(rest))
        BY <3>4, <3>7
      <4>2. Len(toApp) = Len(hello) + 1 + (count[1] - Len(rest))
        BY <4>1 DEF Heard
      <4>3. Len(Answer(hello)) = Len(hello) + 1 + Reply /\ Len(hello) \in Nat
            /\ Answer(hello) \in Seq(Bytes)
        BY AnswerFacts
      <4>4. Len(toApp) <= Len(Answer(hello))
        BY <3>2, <3>3, <4>2, <4>3, Amounts
      <4>5. \A i \in 1 .. Len(toApp) : toApp[i] = Answer(hello)[i]
        BY <4>1 DEF Heard
      <4> QED
        BY <3>2, <4>3, <4>4, <4>5, PrefixFacts
    <3> QED
      BY <3>4, <3>5, <3>6, <3>7
  <2> QED
    BY <2>2, <2>3 DEF Carried, Hellos, Answer
<1> QED
  BY <1>1, StreamInvHolds, PTL
=============================================================================
