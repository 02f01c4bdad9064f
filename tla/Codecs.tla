-------------------------------- MODULE Codecs --------------------------------
(***************************************************************************)
(* What the program reads and writes, as functions: the target address     *)
(* (protocol/protocol.go, and the proxy's two readers of a request in      *)
(* tunnel/client.go), the head of a WebSocket frame                        *)
(* (ws/ws.go), DNS questions as three parsers read them                    *)
(* (protocol/dns.go, server/dnsrelay.go, tun2sock/fakeip.go), the table of *)
(* CN ranges (cnroute) and the domain list (proxylist).  Bytes are numbers *)
(* 0..255, a stream is a sequence of them.                                 *)
(***************************************************************************)
EXTENDS Integers, Sequences, FiniteSets, SequencesExt

CONSTANTS
  Addresses,  \* SOCKS5 addresses: type, host bytes, port, and what follows
  Requests,   \* CONNECT requests: host, port and what follows the head
  Literal,    \* the address that a name spells, for names that are IP literals
  Frames,     \* opcode, payload length, mask, and what follows
  Queries,    \* identifier, labels, type, and additional records
  Tables,     \* lists of CIDR blocks <<base, ones>>
  Bits,       \* width of an address in a table
  Lists       \* a name, perhaps with a final dot, and a list of names, in labels

Byte8 == 0 .. 255
TwoTo16 == 65536

\* An address that was read in full, or readSocksAddr has failed.
Whole(a) ==
  /\ a.atyp \in {1, 3, 4} /\ a.body \in Seq(Byte8) /\ a.body # <<>>
  /\ Len(a.body) >= (IF a.atyp = 1 THEN 4 ELSE IF a.atyp = 4 THEN 16 ELSE 1 + a.body[1]) + 2

\* A block lies in the address space and begins at its first address.
Width(c) == 2 ^ (Bits - c[2])
Fitting(c) == c[1] \in Nat /\ (c[2] # 0 => Width(c) \in Nat \ {0} /\ c[1] + Width(c) <= 2 ^ Bits)

\* A label of a question; the labels of a name, in letters.
Letters == {"a", "b", "A", "B"}
Label == {l \in Seq(Byte8) : Len(l) \in 1 .. 63}
Spelled(ls) == ls \in Seq(Seq(Letters) \ {<<>>})

\* A frame's length has four bytes that are not zero at most; TLC's integers have no more.
ASSUME CodecsAssumption ==
  /\ \A a \in Addresses : Whole(a)
  /\ Requests \subseteq [host : Seq(Byte8), port : Seq(Int), rest : Seq(Byte8)]
  /\ \A n \in DOMAIN Literal : Literal[n] \in Seq(Byte8) /\ Len(Literal[n]) \in {4, 16}
  /\ \A f \in Frames : /\ f.op \in 0 .. 15 /\ f.mask \in BOOLEAN /\ f.rest \in Seq(Byte8)
                        /\ f.len \in Nat /\ f.len \div TwoTo16 < TwoTo16
  /\ Queries \subseteq [id : 0 .. TwoTo16 - 1, labels : Seq(Label), type : 0 .. TwoTo16 - 1,
                         extra : Seq(Byte8)]
  /\ 2 ^ Bits \in Nat \ {0}
  /\ \A t \in Tables : t \in Seq(Nat \X (0 .. Bits)) /\ \A i \in DOMAIN t : Fitting(t[i])
  /\ \A l \in Lists : /\ Spelled(l.labels) /\ l.labels # <<>> /\ l.dot \in BOOLEAN
                       /\ l.entries \in Seq(Seq(Seq(Letters) \ {<<>>}))

VARIABLES input, output

codecVars == <<input, output>>

CodecInit == input = [codec |-> "none"] /\ output = <<>>

Fail == <<>>
Bytes16(n) == <<n \div 256, n % 256>>
Value16(b, i) == 256 * b[i] + b[i + 1]
Part(b, i, n) == SubSeq(b, i, i + n - 1)
From(b, i) == SubSeq(b, i, Len(b))

-----------------------------------------------------------------------------
(***************************************************************************)
(* Targets.  A host is a string: kinds 1 and 4 stand for the string of an  *)
(* address of 4 or 16 bytes, kind 3 for any other.                         *)
(***************************************************************************)
Target(kind, host, port, rest) ==
  [kind |-> kind, host |-> host, port |-> port, rest |-> rest]

\* The three forms of an address after its type; a name has its length first.
ReadAddress(atyp, b) ==
  LET n == IF atyp = 1 THEN 4 ELSE IF atyp = 4 THEN 16 ELSE b[1]
      i == IF atyp = 3 THEN 2 ELSE 1 IN
  Target(atyp, Part(b, i, n), Value16(b, i + n), From(b, i + n + 2))

ReadTarget(b) == ReadAddress(b[1], Tail(b))

\* net.ParseIP and To4: nothing for a name, 4 bytes for an IPv4 address and for its IPv6 form.
Mapped(v4) == [i \in 1 .. 10 |-> 0] \o <<255, 255>> \o v4
To4(ip) == IF IsPrefix(Mapped(<<>>), ip) THEN From(ip, 13) ELSE ip
ParseIP(kind, host) ==
  IF kind # 3 THEN To4(host) ELSE IF host \in DOMAIN Literal THEN To4(Literal[host]) ELSE <<>>

WriteMapped(kind, host, port) ==  \* mutant: ip instead of ip.To4()
  LET ip == ParseIP(kind, host) IN
  (IF ip = <<>> THEN <<3, Len(host) % 256>> \o host
   ELSE IF Len(ip) = 4 THEN <<1>> \o Mapped(ip)
   ELSE <<4>> \o ip) \o Bytes16(port % TwoTo16)

\* The length of a name is cut to a byte, a port to two.
WriteTarget(kind, host, port) ==
  LET ip == ParseIP(kind, host) IN
  (IF ip = <<>> THEN <<3, Len(host) % 256>> \o host
   ELSE IF Len(ip) = 4 THEN <<1>> \o ip
   ELSE <<4>> \o ip) \o Bytes16(port % TwoTo16)

\* What the proxy passes to its dialer: SOCKS5's own address, or the host of a CONNECT, of any
\* length, with a port that is any number; what is not a number is 0, its error ignored.
ReadSocksAddr(a) == ReadAddress(a.atyp, a.body)
Atoi(port) == IF port = <<>> THEN 0 ELSE port[1]
ReadConnect(c) == Target(3, c.host, Atoi(c.port), c.rest)

Proxied(got) ==
  [asked |-> got, sent |-> ReadTarget(WriteTarget(got.kind, got.host, got.port) \o got.rest)]

-----------------------------------------------------------------------------
(***************************************************************************)
(* Frame heads: two bytes, an extended length of 2 or 8 bytes, a mask key. *)
(***************************************************************************)
Key == <<99, 98, 97, 96>>

Length(bit, n) ==
  IF n < 126 THEN <<bit + n>>
  ELSE IF n < TwoTo16 THEN <<bit + 126>> \o Bytes16(n)
  ELSE <<bit + 127, 0, 0, 0, 0>> \o Bytes16(n \div TwoTo16) \o Bytes16(n % TwoTo16)

WriteHeadLate(op, n, mask) ==  \* mutant: the mask bit is set after the length
  <<128 + op>> \o Length(0, n) \o (IF mask THEN Key ELSE <<>>)

WriteHead(op, n, mask) ==
  <<128 + op>> \o Length(IF mask THEN 128 ELSE 0, n) \o (IF mask THEN Key ELSE <<>>)

ReadHead(b) ==
  LET short == b[2] % 128
      ext == IF short = 126 THEN 2 ELSE IF short = 127 THEN 8 ELSE 0
      masked == b[2] >= 128 IN
  [op     |-> b[1] % 16,
   len    |-> IF ext = 2 THEN Value16(b, 3)
              ELSE IF ext = 8 THEN TwoTo16 * Value16(b, 7) + Value16(b, 9)
              ELSE short,
   key    |-> IF masked THEN Part(b, 3 + ext, 4) ELSE <<>>,
   rest   |-> From(b, 3 + ext + (IF masked THEN 4 ELSE 0))]

-----------------------------------------------------------------------------
(***************************************************************************)
(* DNS questions.  Walk: where the labels begin, where the walk over them  *)
(* ends, and whether it met the root label there.                          *)
(***************************************************************************)
Labels(ls) == FlattenSeq([i \in DOMAIN ls |-> <<Len(ls[i])>> \o ls[i]]) \o <<0>>

Message(q) ==
  Bytes16(q.id) \o <<1, 0, 0, 1, 0, 0, 0, 0, 0, IF q.extra = <<>> THEN 0 ELSE 1>>
    \o Labels(q.labels) \o Bytes16(q.type) \o <<0, 1>> \o q.extra

Step(b, walk, i) ==
  IF i > Len(b) THEN [at |-> <<>>, end |-> i, root |-> FALSE]
  ELSE IF b[i] = 0 THEN [at |-> <<>>, end |-> i + 1, root |-> TRUE]
  ELSE LET w == walk[i + 1 + b[i]] IN [at |-> <<i>> \o w.at, end |-> w.end, root |-> w.root]

Walk(b) ==
  LET walk[i \in 1 .. Len(b) + 256] == Step(b, walk, i) IN walk[13]

LabelsAt(b) == [k \in DOMAIN Walk(b).at |-> Part(b, Walk(b).at[k] + 1, b[Walk(b).at[k]])]

Complete(b) == Len(b) >= 12 /\ Walk(b).root /\ Walk(b).end + 3 <= Len(b)

\* The server's: queryType, and emptyAnswer for AAAA and HTTPS.
QueryType(b) == IF Complete(b) THEN Value16(b, Walk(b).end) ELSE 0

EmptyAnswerShort(b) ==  \* mutant: without qtype and qclass
  IF ~ Complete(b) THEN Fail
  ELSE [Part(b, 1, Walk(b).end - 1) EXCEPT ![3] = 129, ![4] = 128, ![7] = 0, ![8] = 0]

EmptyAnswer(b) ==
  IF ~ Complete(b) THEN Fail
  ELSE [Part(b, 1, Walk(b).end + 3) EXCEPT ![3] = 129, ![4] = 128, ![7] = 0, ![8] = 0]

\* The mobile engine's dnsQName: no compression.
DnsQName(b) ==
  IF Complete(b) /\ \A i \in DOMAIN LabelsAt(b) : Len(LabelsAt(b)[i]) < 64
  THEN [labels |-> LabelsAt(b), qtype |-> QueryType(b), qend |-> Walk(b).end + 3]
  ELSE [labels |-> <<>>, qtype |-> 0, qend |-> 0]

\* The forwarder's DNSQname does without the root label and the type.
DNSQname(b) ==
  IF Len(b) < 12 \/ (~ Walk(b).root /\ Walk(b).end > Len(b) + 1) THEN <<>>
  ELSE LabelsAt(b)

-----------------------------------------------------------------------------
(***************************************************************************)
(* The table of CN ranges: blocks sorted by start, merged when they touch. *)
(* Addresses have Bits bits and wrap around.                               *)
(***************************************************************************)
Size == 2 ^ Bits

\* ones = 0 is skipped; sort.Slice leaves blocks with the same start in any order.
Ranges(blocks) ==
  LET kept == {i \in DOMAIN blocks : blocks[i][2] # 0}
      range(c) == [start |-> c[1], end |-> c[1] + Width(c) - 1] IN
  {[k \in DOMAIN p |-> range(blocks[p[k]])] :
     p \in {p \in Bijection(1 .. Cardinality(kept), kept) :
             \A k, l \in DOMAIN p : k < l => blocks[p[k]][1] <= blocks[p[l]][1]}}

JoinInto(merged, r) ==  \* mutant: a range inside the last one shortens it
  LET last == Last(merged) IN
  IF r.start <= (last.end + 1) % Size
  THEN Front(merged) \o <<[last EXCEPT !.end = r.end]>>
  ELSE Append(merged, r)

Join(merged, r) ==
  LET last == Last(merged) IN
  IF r.start <= (last.end + 1) % Size
  THEN Front(merged) \o <<IF r.end > last.end THEN [last EXCEPT !.end = r.end] ELSE last>>
  ELSE Append(merged, r)

\* nil when no block is left.
LoadCN(rs) ==
  LET merged[k \in 1 .. Len(rs)] == IF k = 1 THEN <<rs[1]>> ELSE Join(merged[k - 1], rs[k]) IN
  IF rs = <<>> THEN <<>> ELSE merged[Len(rs)]

\* sort.Search, between w[1] and w[2].
Probe(table, u, search, w) ==
  LET mid == (w[1] + w[2]) \div 2 IN
  IF w[1] >= w[2] THEN w[1]
  ELSE IF table[mid].end >= u THEN search[<<w[1], mid>>]
  ELSE search[<<mid + 1, w[2]>>]

\* The first range that does not end before u.
IsCN(table, u) ==
  LET n == Len(table) + 1
      search[w \in (1 .. n) \X (1 .. n)] == Probe(table, u, search, w)
      i == search[<<1, n>>] IN
  i <= Len(table) /\ table[i].start <= u

-----------------------------------------------------------------------------
(***************************************************************************)
(* The domain list.  A name is a sequence of characters; Upper ones have a *)
(* lower-case form.                                                        *)
(***************************************************************************)
Dot == "."
Lower(s) == [i \in DOMAIN s |-> IF s[i] = "A" THEN "a" ELSE IF s[i] = "B" THEN "b" ELSE s[i]]

\* Labels with dots between them.
Name(ls) ==
  LET name[i \in 1 .. Len(ls)] ==
        IF i = Len(ls) THEN ls[i] ELSE ls[i] \o <<Dot>> \o name[i + 1] IN
  IF ls = <<>> THEN <<>> ELSE name[1]

Match(domain, list) ==
  LET d == Lower(IF domain # <<>> /\ Last(domain) = Dot THEN Front(domain) ELSE domain) IN
  /\ d # <<>>
  /\ \E i \in DOMAIN list :
       LET e == Lower(list[i]) IN
       e # <<>> /\ (d = e \/ IsSuffix(<<Dot>> \o e, d))

-----------------------------------------------------------------------------
(***************************************************************************)
(* One input, and what the code makes of it.                               *)
(***************************************************************************)
Feeds(codec, i, o) ==
  /\ input.codec = "none"
  /\ input' = [codec |-> codec, it |-> i]
  /\ output' = o

SocksTarget == \E a \in Addresses : Feeds("socks", a, Proxied(ReadSocksAddr(a)))
ConnectTarget == \E c \in Requests : Feeds("connect", c, Proxied(ReadConnect(c)))
SendHead ==
  \E f \in Frames : Feeds("head", f, ReadHead(WriteHead(f.op, f.len, f.mask) \o f.rest))
ParseQuery ==
  \E q \in Queries : \E n \in 0 .. Len(Message(q)) :
    LET b == Part(Message(q), 1, n) IN
    Feeds("query", [q |-> q, b |-> b],
          [type |-> QueryType(b), empty |-> EmptyAnswer(b),
           mobile |-> DnsQName(b), forwarder |-> DNSQname(b)])
LoadTable == \E t \in Tables : \E rs \in Ranges(t) : Feeds("table", t, LoadCN(rs))
MatchList ==
  \E l \in Lists :
    Feeds("list", l, Match(Name(l.labels) \o (IF l.dot THEN <<Dot>> ELSE <<>>),
                           [i \in DOMAIN l.entries |-> Name(l.entries[i])]))

CodecNext ==
  SocksTarget \/ ConnectTarget \/ SendHead \/ ParseQuery \/ LoadTable \/ MatchList

CodecSpec == CodecInit /\ [][CodecNext]_codecVars

Fed(codec) == input.codec = codec

-----------------------------------------------------------------------------
(***************************************************************************)
(* The server is asked for the host the application asked the proxy for -- *)
(* the same name, or the address that an address or an IP literal spells   *)
(* -- and for the port's last 16 bits, and the stream goes on where the    *)
(* application's request ends.  This holds of every SOCKS5 request, and of *)
(* CONNECT unless a name has 256 bytes or more: then its length is cut and *)
(* the name's end is taken for the port and the data                       *)
(* (client.go:216-271, protocol.go:26-83).                                 *)
(***************************************************************************)
SameTarget == Fed("socks") \/ Fed("connect") =>
  LET asked == output.asked
      ip == ParseIP(asked.kind, asked.host) IN
  Fed("socks") \/ ip # <<>> \/ Len(asked.host) < 256 =>
    output.sent = Target(IF ip = <<>> THEN 3 ELSE IF Len(ip) = 4 THEN 1 ELSE 4,
                         IF ip = <<>> THEN asked.host ELSE ip,
                         asked.port % TwoTo16, asked.rest)

(***************************************************************************)
(* The reader of a frame sees the opcode, the length and the mask that     *)
(* were written and goes on at the payload, at every step of the length's  *)
(* encoding (ws.go:52-80, 109-137).                                        *)
(***************************************************************************)
HeadCarried == Fed("head") =>
  LET f == input.it IN
  output = [op |-> f.op, len |-> f.len, key |-> IF f.mask THEN Key ELSE <<>>, rest |-> f.rest]

(***************************************************************************)
(* The three parsers agree on every complete question.  An empty answer    *)
(* repeats identifier, question and the number of additional records,      *)
(* though it carries none (dnsrelay.go:104 says that it is cleared).  Of a *)
(* question that is cut the server and the mobile engine make nothing; the *)
(* forwarder makes of it nothing or its first labels                       *)
(* (dnsrelay.go:81-127, fakeip.go:90-115, protocol/dns.go:35-56).          *)
(***************************************************************************)
QuestionsAgree == Fed("query") =>
  LET q == input.it.q
      b == input.it.b
      question == Len(Message([q EXCEPT !.extra = <<>>])) IN
  IF Len(b) >= question
  THEN /\ output.type = q.type /\ output.forwarder = q.labels
       /\ q.labels # <<>> =>
            output.mobile = [labels |-> q.labels, qtype |-> q.type, qend |-> question]
       /\ output.empty =
            Bytes16(q.id) \o <<129, 128, 0, 1, 0, 0, 0, 0>> \o Part(b, 11, question - 10)
  ELSE /\ output.type = 0 /\ output.empty = Fail /\ output.mobile.qend = 0
       /\ \E n \in 0 .. Len(q.labels) : output.forwarder = SubSeq(q.labels, 1, n)

(***************************************************************************)
(* An address is found in the table exactly when a block contains it,      *)
(* however blocks overlap, touch and repeat, as long as none ends at the   *)
(* last address (cnroute.go:43-97).  A name is on the list exactly when an *)
(* entry's labels are its last labels, in any case of letters and with or  *)
(* without the final dot (proxylist.go:22-38).                             *)
(***************************************************************************)
TableIsMembership == Fed("table") =>
  LET blocks == {input.it[i] : i \in DOMAIN input.it}
      covers(c, u) == c[2] # 0 /\ c[1] <= u /\ u < c[1] + Width(c) IN
  (\A c \in blocks : ~ covers(c, Size - 1)) =>
    \A u \in 0 .. Size - 1 : IsCN(output, u) <=> \E c \in blocks : covers(c, u)

MatchIsBySuffix == Fed("list") =>
  LET labels(ls) == [i \in DOMAIN ls |-> Lower(ls[i])] IN
  output = \E i \in DOMAIN input.it.entries :
             /\ input.it.entries[i] # <<>>
             /\ IsSuffix(labels(input.it.entries[i]), labels(input.it.labels))

ListsDecide == TableIsMembership /\ MatchIsBySuffix
=============================================================================
