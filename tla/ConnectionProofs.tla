-------------------------- MODULE ConnectionProofs --------------------------
(***************************************************************************)
(* Theorems about a connection: the handlers the server keeps for it       *)
(* (ServerConn), and the targets and frame heads that are written on it    *)
(* and read back (Codecs).                                                 *)
(*                                                                         *)
(* ServerConn, for any finite set of connections and any limit: the slot   *)
(* counter and the ownership of the target connection are inductive        *)
(* together with the types: the counter needs only to know which handlers  *)
(* are counted, and every step but Begin and Uncount keeps that.           *)
(*                                                                         *)
(* Codecs, for any addresses and frames that fit their fields: what is     *)
(* read is taken from known places of a sequence that was joined from      *)
(* known parts, so the proofs are about where the parts of it are found.   *)
(* Questions, tables and lists may have any length: what recursive         *)
(* functions make of them is shown by induction, over sets of numbers.     *)
(***************************************************************************)
EXTENDS ServerConn, Codecs, FiniteSetTheorems, SequenceTheorems, WellFoundedInduction, TLAPS

Live == {c \in Conns : pc[c] \in Counted}

Inv == TypeOK /\ ActiveIsExact /\ RemoteIsOwned

(***************************************************************************)
(* The set of counted handlers is finite, and it changes only with the     *)
(* connection that moves.                                                  *)
(***************************************************************************)
LEMMA LiveIsFinite == IsFiniteSet(Live) /\ Cardinality(Live) \in Nat
<1>1. IsFiniteSet(Live)
  BY ConnAssumption, FS_Subset, Live \subseteq Conns DEF Live
<1> QED BY <1>1, FS_CardinalityType

LEMMA LiveStays ==
  ASSUME TypeOK, NEW c \in Conns, NEW to, pc' = [pc EXCEPT ![c] = to],
         pc[c] \in Counted <=> to \in Counted
  PROVE  Live' = Live
BY DEF Live, TypeOK

(***************************************************************************)
(* The invariant holds when the server starts.                             *)
(***************************************************************************)
LEMMA InitInv == Init => Inv
<1> SUFFICES ASSUME Init PROVE Inv
    OBVIOUS
<1>1. TypeOK
  BY DEF Init, TypeOK, PCs
<1>2. {c \in Conns : pc[c] \in Counted} = {}
  BY DEF Init, Counted
<1>3. ActiveIsExact
  BY <1>2, FS_EmptySet DEF Init, ActiveIsExact
<1>4. RemoteIsOwned
  BY DEF Init, RemoteIsOwned
<1> QED BY <1>1, <1>3, <1>4 DEF Inv

(***************************************************************************)
(* The steps that neither count in nor out, and leave remote alone.        *)
(***************************************************************************)
LEMMA PlainMove ==
  ASSUME Inv, NEW c \in Conns, NEW from \in PCs, NEW to \in PCs, Go(c, from, to),
         from \in Counted <=> to \in Counted,
         from \notin {"relay", "close"},
         client' \in [Conns -> {"there", "gone"}],
         up' \in [Conns -> {"off", "copying"}],
         writing' \in [Conns -> BOOLEAN],
         UNCHANGED <<remote, active>>
  PROVE  Inv'
<1> USE DEF Inv
<1>1. Live' = Live
  BY LiveStays DEF Go
<1>2. TypeOK'
  BY DEF TypeOK, Go
<1>3. ActiveIsExact'
  BY <1>1 DEF ActiveIsExact, Live
<1>4. RemoteIsOwned'
  BY DEF RemoteIsOwned, Go, TypeOK
<1> QED BY <1>2, <1>3, <1>4

(***************************************************************************)
(* The steps of a client, a target or the upstream goroutine: no handler   *)
(* moves.                                                                  *)
(***************************************************************************)
LEMMA PeersMove ==
  ASSUME Inv, UNCHANGED <<pc, active>>,
         client' \in [Conns -> {"there", "gone"}],
         up' \in [Conns -> {"off", "copying"}],
         writing' \in [Conns -> BOOLEAN],
         remote' \in [Conns -> {"none", "open", "closed"}],
         \A c \in Conns : remote'[c] # "none" => remote[c] # "none"
  PROVE  Inv'
BY DEF Inv, TypeOK, ActiveIsExact, RemoteIsOwned

(***************************************************************************)
(* The steps that count in and out (server.go:129-133).                    *)
(***************************************************************************)
LEMMA BeginKeeps ==
  ASSUME Inv, NEW c \in Conns, Begin(c) PROVE Inv'
<1> USE DEF Inv
<1>1. c \notin Live /\ Live' = Live \cup {c}
  BY DEF Begin, Go, Live, Counted, TypeOK
<1>2. Cardinality(Live') = Cardinality(Live) + 1
  BY <1>1, LiveIsFinite, FS_AddElement
<1>3. ActiveIsExact'
  BY <1>2 DEF ActiveIsExact, Live, Begin
<1>4. TypeOK' /\ RemoteIsOwned'
  BY DEF TypeOK, RemoteIsOwned, Begin, Go, PCs
<1> QED BY <1>3, <1>4

LEMMA UncountKeeps ==
  ASSUME Inv, NEW c \in Conns, Uncount(c) PROVE Inv'
<1> USE DEF Inv
<1>1. c \in Live /\ Live' = Live \ {c}
  BY DEF Uncount, Go, Live, Counted, TypeOK
<1>2. IsFiniteSet(Live') /\ Cardinality(Live') = Cardinality(Live) - 1
  BY <1>1, LiveIsFinite, FS_RemoveElement
<1>3. ActiveIsExact'
  BY <1>2 DEF ActiveIsExact, Live, Uncount
<1>4. active' \in Nat
  BY <1>2, <1>3, FS_CardinalityType DEF ActiveIsExact, Live
<1>5. TypeOK' /\ RemoteIsOwned'
  BY <1>4 DEF TypeOK, RemoteIsOwned, Uncount, Go, PCs
<1> QED BY <1>3, <1>5

(***************************************************************************)
(* The steps around the connection to the target (server.go:184-205).      *)
(***************************************************************************)
LEMMA RelayKeeps ==
  ASSUME Inv, NEW c \in Conns,
         DialOK(c) \/ StatusFails(c) \/ DownEnds(c) \/ DownWriteFails(c) \/ CloseBoth(c)
  PROVE  Inv'
<1> USE DEF Inv
<1>1. \E from, to \in Counted : Go(c, from, to)
  BY DEF DialOK, StatusFails, DownEnds, DownWriteFails, CloseBoth, Counted
<1>2. Live' = Live
  BY <1>1, LiveStays DEF Go
<1>3. active' = active
  BY DEF DialOK, StatusFails, DownEnds, DownWriteFails, CloseBoth
<1>4. ActiveIsExact'
  BY <1>2, <1>3 DEF ActiveIsExact, Live
<1>5. TypeOK'
  BY DEF TypeOK, DialOK, StatusFails, DownEnds, DownWriteFails, CloseBoth, Go, PCs
<1>6. RemoteIsOwned'
  BY DEF TypeOK, RemoteIsOwned, DialOK, StatusFails, DownEnds, DownWriteFails, CloseBoth, Go
<1> QED BY <1>4, <1>5, <1>6

(***************************************************************************)
(* Every step keeps the invariant.                                         *)
(***************************************************************************)
LEMMA ServerStepKeeps ==
  ASSUME Inv, NEW c \in Conns, ServerStep(c) PROVE Inv'
<1> USE DEF PCs, Counted
<1>0. TypeOK BY DEF Inv
<1>1. CASE PeekFails(c)
  BY <1>0, <1>1, PlainMove DEF PeekFails, TypeOK
<1>2. CASE Upgrade(c)
  <2>1. PICK to \in {"spawned", "idle"} : Go(c, "upgrade", to)
    BY <1>2 DEF Upgrade
  <2> QED BY <1>0, <1>2, <2>1, PlainMove DEF Upgrade, TypeOK
<1>3. CASE Begin(c)
  BY <1>3, BeginKeeps
<1>4. CASE Expire(c)
  BY <1>0, <1>4, PlainMove DEF Expire, TypeOK
<1>5. CASE QuotaCheck(c)
  <2>1. PICK to \in {"target", "close"} : Go(c, "quota", to)
    BY <1>5 DEF QuotaCheck
  <2> QED BY <1>0, <1>5, <2>1, PlainMove DEF QuotaCheck, TypeOK
<1>6. CASE DialFails(c)
  BY <1>0, <1>6, PlainMove DEF DialFails, TypeOK
<1>7. CASE DialOK(c) \/ StatusFails(c) \/ DownEnds(c) \/ DownWriteFails(c) \/ CloseBoth(c)
  BY <1>7, RelayKeeps
<1>8. CASE DnsEnds(c)
  BY <1>0, <1>8, PlainMove DEF DnsEnds, TypeOK
<1>9. CASE Uncount(c)
  BY <1>9, UncountKeeps
<1> QED
  BY <1>1, <1>2, <1>3, <1>4, <1>5, <1>6, <1>7, <1>8, <1>9 DEF ServerStep

LEMMA PeerStepKeeps ==
  ASSUME Inv, NEW c \in Conns, PeerStep(c) \/ UpEnds(c) PROVE Inv'
<1> USE DEF PCs, Counted
<1>0. TypeOK BY DEF Inv
<1>1. CASE TlsAccept(c)
  BY <1>0, <1>1, PlainMove DEF TlsAccept, Arrives, TypeOK
<1>2. CASE WsAccept(c)
  BY <1>0, <1>2, PlainMove DEF WsAccept, Arrives, TypeOK
<1>3. CASE PeekRequest(c)
  <2>1. PICK to \in {"idle", "upgrade"} : Go(c, "peek", to)
    BY <1>3 DEF PeekRequest
  <2> QED BY <1>0, <1>3, <2>1, PlainMove DEF PeekRequest, TypeOK
<1>4. CASE GoodMac(c)
  BY <1>0, <1>4, PlainMove DEF GoodMac, TypeOK
<1>5. CASE BadInput(c)
  BY <1>0, <1>5, PlainMove DEF BadInput, TypeOK
<1>6. CASE GotTarget(c)
  <2>1. PICK to \in {"dial", "dns"} : Go(c, "target", to)
    BY <1>6 DEF GotTarget
  <2> QED BY <1>0, <1>6, <2>1, PlainMove DEF GotTarget, TypeOK
<1>7. CASE DnsServed(c)
  BY <1>0, <1>7, PlainMove DEF DnsServed, TypeOK
<1>8. CASE DownReads(c) \/ DownWritten(c) \/ UpEnds(c) \/ UpWriteFails(c)
  BY <1>0, <1>8, PeersMove DEF DownReads, DownWritten, UpEnds, UpWriteFails, TypeOK
<1>9. CASE ClientLeaves(c)
  BY <1>0, <1>9, PeersMove DEF ClientLeaves, TypeOK
<1>10. CASE RemoteCloses(c)
  <2>1. remote' \in [Conns -> {"none", "open", "closed"}]
    BY <1>0, <1>10 DEF RemoteCloses, TypeOK
  <2>2. \A d \in Conns : remote'[d] # "none" => remote[d] # "none"
    BY <1>0, <1>10 DEF RemoteCloses, TypeOK
  <2> QED BY <1>0, <1>10, <2>1, <2>2, PeersMove DEF RemoteCloses, TypeOK
<1> QED
  BY <1>1, <1>2, <1>3, <1>4, <1>5, <1>6, <1>7, <1>8, <1>9, <1>10 DEF PeerStep

LEMMA StepInv == Inv /\ [Next]_vars => Inv'
<1> SUFFICES ASSUME Inv, [Next]_vars PROVE Inv'
    OBVIOUS
<1>1. CASE Next
  BY <1>1, ServerStepKeeps, PeerStepKeeps DEF Next
<1>2. CASE UNCHANGED vars
  BY <1>2 DEF vars, Inv, TypeOK, ActiveIsExact, RemoteIsOwned
<1> QED BY <1>1, <1>2

LEMMA Invariance == Spec => []Inv
<1> QED BY InitInv, StepInv, PTL DEF Spec

(***************************************************************************)
(* Every reachable state is well typed; in particular active is never      *)
(* negative.                                                               *)
(***************************************************************************)
THEOREM TypeCorrect == Spec => []TypeOK
<1>1. Inv => TypeOK BY DEF Inv
<1> QED BY <1>1, Invariance, PTL

(***************************************************************************)
(* s.active counts the handlers that are running, for any number of        *)
(* connections and whichever way each returns (server.go:129-133).         *)
(***************************************************************************)
THEOREM SlotsAreExact == Spec => []ActiveIsExact
<1>1. Inv => ActiveIsExact BY DEF Inv
<1> QED BY <1>1, Invariance, PTL

(***************************************************************************)
(* No connection to a target survives its handler (server.go:187-191).     *)
(***************************************************************************)
THEOREM TargetsAreOwned == Spec => []RemoteIsOwned
<1>1. Inv => RemoteIsOwned BY DEF Inv
<1> QED BY <1>1, Invariance, PTL

-----------------------------------------------------------------------------
\* What is joined is as long as its parts and holds them in order.
LEMMA JoinFacts ==
  ASSUME NEW S, NEW s \in Seq(S), NEW t \in Seq(S)
  PROVE  /\ s \o t \in Seq(S) /\ Len(s \o t) = Len(s) + Len(t)
         /\ Len(s) \in Nat /\ Len(t) \in Nat
         /\ \A i \in 1 .. Len(s) : (s \o t)[i] = s[i]
         /\ \A i \in 1 .. Len(t) : (s \o t)[Len(s) + i] = t[i]
OBVIOUS

\* v is s and then t.
Joined(v, s, t) ==
  /\ v \in Seq(Byte8) /\ Len(v) = Len(s) + Len(t)
  /\ Len(s) \in Nat /\ Len(t) \in Nat
  /\ \A i \in 1 .. Len(s) : v[i] = s[i]
  /\ \A i \in 1 .. Len(t) : v[Len(s) + i] = t[i]

\* Joined, for bytes: the form in which the proofs below use JoinFacts.
LEMMA JoinBytes ==
  ASSUME NEW s \in Seq(Byte8), NEW t \in Seq(Byte8), NEW v, v = s \o t
  PROVE  Joined(v, s, t)
BY JoinFacts DEF Joined

\* x is what s holds from i on, n bytes of it.
IsPart(x, s, i, n) ==
  x \in Seq(Byte8) /\ Len(x) = n /\ \A k \in 1 .. n : x[k] = s[i + k - 1]

\* A part that lies inside.
LEMMA PartFacts ==
  ASSUME NEW s \in Seq(Byte8), NEW i \in Nat, i >= 1, NEW n \in Nat, i + n <= Len(s) + 1,
         NEW x, x = Part(s, i, n)
  PROVE  IsPart(x, s, i, n)
BY SubSeqProperties DEF Part, IsPart

\* What is left from a place on.
LEMMA FromFacts ==
  ASSUME NEW s \in Seq(Byte8), NEW i \in Nat, i >= 1, NEW n \in Nat, i + n = Len(s) + 1,
         NEW x, x = From(s, i)
  PROVE  IsPart(x, s, i, n)
BY SubSeqProperties DEF From, IsPart

\* Equal byte by byte.
LEMMA SameSeq ==
  ASSUME NEW s \in Seq(Byte8), NEW t \in Seq(Byte8), Len(s) = Len(t),
         \A i \in 1 .. Len(s) : s[i] = t[i]
  PROVE  s = t
BY SeqEqual

\* What is joined is found again.
Inside(v, r, s, t) ==
  Part(v, Len(r) + 1, Len(s)) = s /\ From(v, Len(r) + Len(s) + 1) = t

\* The second and the third part are where the first one ends.
LEMMA PartOfJoin ==
  ASSUME NEW r \in Seq(Byte8), NEW s \in Seq(Byte8), NEW t \in Seq(Byte8),
         NEW v, v = r \o s \o t
  PROVE  Inside(v, r, s, t)
<1> DEFINE a == r \o s
           x == Part(v, Len(r) + 1, Len(s))
           y == From(v, Len(r) + Len(s) + 1)
<1>0. a = r \o s /\ v = a \o t
  OBVIOUS
<1> HIDE DEF a
<1>1. Joined(a, r, s)
  BY <1>0, JoinBytes
<1>2. Joined(v, a, t)
  <2>1. a \in Seq(Byte8)
    BY <1>1 DEF Joined
  <2> QED
    BY <1>0, <2>1, JoinBytes
<1>3. /\ Len(r) \in Nat /\ Len(s) \in Nat /\ Len(t) \in Nat /\ v \in Seq(Byte8)
      /\ Len(a) = Len(r) + Len(s) /\ Len(v) = Len(r) + Len(s) + Len(t)
  BY <1>1, <1>2 DEF Joined
<1>4. x = s
  <2>1. IsPart(x, v, Len(r) + 1, Len(s))
    <3>1. Len(r) + 1 \in Nat /\ Len(r) + 1 >= 1 /\ (Len(r) + 1) + Len(s) <= Len(v) + 1
      BY <1>3
    <3> QED
      BY <1>3, <3>1, PartFacts
  <2> HIDE DEF x
  <2>2. ASSUME NEW k \in 1 .. Len(s) PROVE x[k] = s[k]
    <3>1. Len(r) + 1 + k - 1 = Len(r) + k /\ Len(r) + k \in 1 .. Len(a)
      BY <1>3
    <3>2. x[k] = v[Len(r) + k] /\ v[Len(r) + k] = a[Len(r) + k] /\ a[Len(r) + k] = s[k]
      BY <1>1, <1>2, <2>1, <3>1, Zenon DEF Joined, IsPart
    <3> QED
      BY <3>2
  <2> QED
    BY <2>1, <2>2, SameSeq DEF IsPart
<1>5. y = t
  <2>1. IsPart(y, v, Len(r) + Len(s) + 1, Len(t))
    <3>1. /\ Len(r) + Len(s) + 1 \in Nat /\ Len(r) + Len(s) + 1 >= 1
          /\ (Len(r) + Len(s) + 1) + Len(t) = Len(v) + 1
      BY <1>3
    <3> QED
      BY <1>3, <3>1, FromFacts
  <2> HIDE DEF y
  <2>2. ASSUME NEW k \in 1 .. Len(t) PROVE y[k] = t[k]
    <3>1. Len(r) + Len(s) + 1 + k - 1 = Len(a) + k
      BY <1>3
    <3>2. y[k] = v[Len(a) + k] /\ v[Len(a) + k] = t[k]
      BY <1>2, <2>1, <3>1, Zenon DEF Joined, IsPart
    <3> QED
      BY <3>2
  <2> QED
    BY <2>1, <2>2, SameSeq DEF IsPart
<1> QED
  BY <1>4, <1>5 DEF Inside

\* A 16-bit word is two bytes.
LEMMA Word == TwoTo16 \in Nat /\ TwoTo16 = 256 * 256
BY DEF TwoTo16

\* A number and its two 16-bit words.
LEMMA Halves ==
  ASSUME NEW n \in Nat, n \div TwoTo16 < TwoTo16
  PROVE  /\ n \div TwoTo16 \in Nat /\ n % TwoTo16 \in Nat /\ n % TwoTo16 < TwoTo16
         /\ TwoTo16 * (n \div TwoTo16) + (n % TwoTo16) = n
BY DEF TwoTo16

\* Two bytes for a number that fits.
LEMMA SixteenBits ==
  ASSUME NEW n \in Nat, n < TwoTo16
  PROVE  /\ Bytes16(n) \in Seq(Byte8) /\ Len(Bytes16(n)) = 2
         /\ 256 * Bytes16(n)[1] + Bytes16(n)[2] = n
<1>1. n \div 256 \in 0 .. 255 /\ n % 256 \in 0 .. 255 /\ 256 * (n \div 256) + (n % 256) = n
  BY DEF TwoTo16
<1> QED
  BY <1>1 DEF Bytes16, Byte8

\* u is s and then the two bytes of n.
Longer(u, s, n) ==
  /\ u \in Seq(Byte8) /\ Len(u) = Len(s) + 2 /\ Value16(u, Len(s) + 1) = n
  /\ \A i \in 1 .. Len(s) : u[i] = s[i]

\* A 16-bit number at the end is read where it was written.
LEMMA TwoMore ==
  ASSUME NEW s \in Seq(Byte8), NEW n \in Nat, n < TwoTo16, NEW v, v = s \o Bytes16(n)
  PROVE  Longer(v, s, n)
<1> DEFINE t == Bytes16(n)
           u == s \o t
<1>1. t \in Seq(Byte8) /\ Len(t) = 2 /\ 256 * t[1] + t[2] = n
  BY SixteenBits
<1> HIDE DEF t
<1>0. u = s \o t
  OBVIOUS
<1> HIDE DEF u
<1>2. Joined(u, s, t)
  BY <1>0, <1>1, JoinBytes
<1>3. u[(Len(s) + 1) + 1] = t[2] /\ u[Len(s) + 1] = t[1]
  <2>1. (Len(s) + 1) + 1 = Len(s) + 2 /\ 1 \in 1 .. Len(t) /\ 2 \in 1 .. Len(t)
    BY <1>1, <1>2 DEF Joined
  <2> QED
    BY <1>2, <2>1, Zenon DEF Joined
<1>4. Value16(u, Len(s) + 1) = n
  BY <1>1, <1>3 DEF Value16
<1> QED
  BY <1>0, <1>1, <1>2, <1>4 DEF t, Joined, Longer

\* The three forms of a length: what their first byte says, and where the rest is.
Reads(b, bit, n) ==
  /\ b \in Seq(Byte8) /\ b[1] \in 0 .. 255 /\ (b[1] >= 128 <=> bit = 128)
  /\ \/ b[1] % 128 = n /\ n < 126 /\ Len(b) = 1
     \/ b[1] % 128 = 126 /\ Len(b) = 3 /\ Value16(b, 2) = n
     \/ b[1] % 128 = 127 /\ Len(b) = 9 /\ TwoTo16 * Value16(b, 6) + Value16(b, 8) = n

\* Each of the three forms of a length reads as what was written (ws.go:111-122).
LEMMA Lengths ==
  ASSUME NEW n \in Nat, n \div TwoTo16 < TwoTo16, NEW bit \in {0, 128}
  PROVE  Reads(Length(bit, n), bit, n)
<1> DEFINE b == Length(bit, n)
<1>1. CASE n < 126
  <2>1. b = <<bit + n>>
    BY <1>1, Zenon DEF Length
  <2>2. bit + n \in 0 .. 255 /\ (bit + n) % 128 = n /\ (bit + n >= 128 <=> bit = 128)
    BY <1>1
  <2> QED
    BY <1>1, <2>1, <2>2 DEF Byte8, Reads
<1>2. CASE n >= 126 /\ n < TwoTo16
  <2> DEFINE s == <<bit + 126>>
  <2>1. b = s \o Bytes16(n)
    <3>1. ~ (n < 126) /\ n < TwoTo16
      BY <1>2
    <3> QED
      BY <3>1, Zenon DEF Length
  <2>2. bit + 126 \in 0 .. 255 /\ (bit + 126) % 128 = 126 /\ (bit + 126 >= 128 <=> bit = 128)
    OBVIOUS
  <2>3. s \in Seq(Byte8) /\ Len(s) = 1 /\ s[1] = bit + 126
    BY <2>2 DEF Byte8
  <2> HIDE DEF s, b
  <2>4. /\ b \in Seq(Byte8) /\ Len(b) = 3 /\ Value16(b, 2) = n /\ b[1] = bit + 126
    <3>1. Longer(b, s, n)
      BY <1>2, <2>1, <2>3, TwoMore
    <3>2. Len(s) + 2 = 3 /\ Len(s) + 1 = 2 /\ 1 \in 1 .. Len(s)
      BY <2>3
    <3> QED
      BY <2>3, <3>1, <3>2, Zenon DEF Longer
  <2>5. Reads(b, bit, n)
    BY <2>2, <2>4 DEF Reads
  <2> QED
    BY <2>5 DEF b
<1>3. CASE n >= TwoTo16
  <2> DEFINE h == n \div TwoTo16
             l == n % TwoTo16
             s == <<bit + 127, 0, 0, 0, 0>>
             t == s \o Bytes16(h)
  <2>1. h \in Nat /\ h < TwoTo16 /\ l \in Nat /\ l < TwoTo16 /\ TwoTo16 * h + l = n
    BY Halves
  <2>2. b = t \o Bytes16(l)
    <3>1. ~ (n < 126) /\ ~ (n < TwoTo16)
      BY <1>3, Word
    <3> QED
      BY <3>1, Zenon DEF Length
  <2>3. bit + 127 \in 0 .. 255 /\ (bit + 127) % 128 = 127 /\ (bit + 127 >= 128 <=> bit = 128)
    OBVIOUS
  <2>4. s \in Seq(Byte8) /\ Len(s) = 5 /\ s[1] = bit + 127
    BY <2>3 DEF Byte8
  <2> HIDE DEF h, l, s, b
  <2>5. /\ t \in Seq(Byte8) /\ Len(t) = 7 /\ Value16(t, 6) = h /\ t[1] = bit + 127
    <3>1. Longer(t, s, h)
      BY <2>1, <2>4, TwoMore
    <3>2. Len(s) + 2 = 7 /\ Len(s) + 1 = 6 /\ 1 \in 1 .. Len(s)
      BY <2>4
    <3> QED
      BY <2>4, <3>1, <3>2, Zenon DEF Longer
  <2> HIDE DEF t
  <2>6. /\ b \in Seq(Byte8) /\ Len(b) = 9 /\ Value16(b, 8) = l
        /\ \A i \in 1 .. 7 : b[i] = t[i]
    <3>1. Longer(b, t, l)
      BY <2>1, <2>2, <2>5, TwoMore
    <3>2. Len(t) + 2 = 9 /\ Len(t) + 1 = 8 /\ 1 .. Len(t) = 1 .. 7
      BY <2>5
    <3> QED
      BY <3>1, <3>2, Zenon DEF Longer
  <2>7. Value16(b, 6) = h /\ b[1] = bit + 127
    BY <2>5, <2>6 DEF Value16
  <2>8. (b[1] >= 128 <=> bit = 128) /\ b[1] % 128 = 127 /\ b[1] \in 0 .. 255
    BY <2>3, <2>7
  <2>9. TwoTo16 * Value16(b, 6) + Value16(b, 8) = n
    BY <2>1, <2>6, <2>7
  <2>10. Reads(b, bit, n)
    BY <2>6, <2>8, <2>9, Zenon DEF Reads
  <2> QED
    BY <2>10 DEF b
<1> QED
  BY <1>1, <1>2, <1>3, Word

\* The mask key has four bytes; an unmasked frame has none.
LEMMA KeyFacts == Key \in Seq(Byte8) /\ Len(Key) = 4 /\ <<>> \in Seq(Byte8) /\ Len(<<>>) = 0
BY DEF Key, Byte8

\* A head of four parts, read from the front and from behind.
HasParts(b, op, l, k, rest) ==
  /\ b[1] = 128 + op /\ \A i \in 1 .. Len(l) : b[i + 1] = l[i]
  /\ Part(b, Len(l) + 2, Len(k)) = k /\ From(b, Len(l) + Len(k) + 2) = rest

\* A head is opcode, length, key, and then the payload.
LEMMA HeadParts ==
  ASSUME NEW op \in 0 .. 15, NEW l \in Seq(Byte8), NEW k \in Seq(Byte8), NEW rest \in Seq(Byte8),
         NEW b, b = <<128 + op>> \o l \o k \o rest
  PROVE  HasParts(b, op, l, k, rest)
<1> DEFINE x == <<128 + op>>
           y == x \o l
           h == y \o k
<1>1. x \in Seq(Byte8) /\ Len(x) = 1 /\ x[1] = 128 + op
  BY DEF Byte8
<1>2. y = x \o l /\ h = y \o k /\ b = h \o rest
  OBVIOUS
<1> HIDE DEF x, y, h
<1>3. Joined(y, x, l)
  BY <1>1, <1>2, JoinBytes
<1>4. Joined(h, y, k)
  <2>1. y \in Seq(Byte8)
    BY <1>3 DEF Joined
  <2> QED
    BY <1>2, <2>1, JoinBytes
<1>5. Joined(b, h, rest)
  <2>1. h \in Seq(Byte8)
    BY <1>4 DEF Joined
  <2> QED
    BY <1>2, <2>1, JoinBytes
<1>6. Part(b, Len(y) + 1, Len(k)) = k /\ From(b, Len(y) + Len(k) + 1) = rest
  <2>1. y \in Seq(Byte8) /\ b = y \o k \o rest
    BY <1>2, <1>3 DEF Joined
  <2>2. Inside(b, y, k, rest)
    BY <2>1, PartOfJoin
  <2> QED
    BY <2>2 DEF Inside
<1>7. ASSUME NEW i \in 1 .. Len(l) PROVE b[i + 1] = l[i]
  <2>1. i + 1 = Len(x) + i /\ i + 1 \in 1 .. Len(y) /\ i + 1 \in 1 .. Len(h)
    BY <1>1, <1>3, <1>4 DEF Joined
  <2>2. b[i + 1] = h[i + 1] /\ h[i + 1] = y[i + 1] /\ y[Len(x) + i] = l[i]
    BY <1>3, <1>4, <1>5, <2>1, Zenon DEF Joined
  <2> QED
    BY ONLY <2>1, <2>2, Zenon
<1>8. b[1] = 128 + op
  <2>1. 1 \in 1 .. Len(x) /\ 1 \in 1 .. Len(y) /\ 1 \in 1 .. Len(h)
    BY <1>1, <1>3, <1>4 DEF Joined
  <2> QED
    BY <1>1, <1>3, <1>4, <1>5, <2>1, Zenon DEF Joined
<1>9. Len(y) + 1 = Len(l) + 2 /\ Len(y) + Len(k) + 1 = Len(l) + Len(k) + 2
  BY <1>1, <1>3, <1>4 DEF Joined
<1> QED
  BY <1>6, <1>7, <1>8, <1>9, Zenon DEF HasParts

\* Read takes from writeFrame's head what was put into it (ws.go:42-73, 102-137).
LEMMA HeadIsRead ==
  ASSUME NEW op \in 0 .. 15, NEW n \in Nat, n \div TwoTo16 < TwoTo16, NEW mask \in BOOLEAN,
         NEW rest \in Seq(Byte8)
  PROVE  ReadHead(WriteHead(op, n, mask) \o rest)
           = [op |-> op, len |-> n, key |-> IF mask THEN Key ELSE <<>>, rest |-> rest]
<1> DEFINE bit == IF mask THEN 128 ELSE 0
           l == Length(bit, n)
           k == IF mask THEN Key ELSE <<>>
           b == WriteHead(op, n, mask) \o rest
           short == b[2] % 128
           ext == IF short = 126 THEN 2 ELSE IF short = 127 THEN 8 ELSE 0
<1>1. bit \in {0, 128} /\ (bit = 128 <=> mask)
  OBVIOUS
<1>2. k \in Seq(Byte8) /\ Len(k) = (IF mask THEN 4 ELSE 0)
  <2>1. CASE mask
    BY <2>1, KeyFacts
  <2>2. CASE ~ mask
    BY <2>2, KeyFacts
  <2> QED
    BY <2>1, <2>2
<1>3. Reads(l, bit, n)
  BY <1>1, Lengths
<1>4. b = <<128 + op>> \o l \o k \o rest
  BY Zenon DEF WriteHead
<1> HIDE DEF bit, k, l, b
<1>5. l \in Seq(Byte8)
  BY <1>3 DEF Reads
<1>6. /\ b[1] = 128 + op /\ \A i \in 1 .. Len(l) : b[i + 1] = l[i]
      /\ Part(b, Len(l) + 2, Len(k)) = k /\ From(b, Len(l) + Len(k) + 2) = rest
  <2>1. HasParts(b, op, l, k, rest)
    BY <1>2, <1>4, <1>5, HeadParts
  <2> QED
    BY <2>1 DEF HasParts
<1>7. b[1] % 16 = op
  <2>1. (128 + op) % 16 = op
    OBVIOUS
  <2> QED
    BY <1>6, <2>1
<1>8. b[2] = l[1] /\ (b[2] >= 128 <=> mask) /\ Len(l) \in {1, 3, 9}
  <2>1. 1 \in 1 .. Len(l) /\ 1 + 1 = 2 /\ Len(l) \in {1, 3, 9}
    BY <1>3 DEF Reads
  <2>2. b[2] = l[1]
    BY <1>6, <2>1, Zenon
  <2> QED
    BY <1>1, <1>3, <2>1, <2>2 DEF Reads
<1>9. /\ Len(l) = 1 + ext
      /\ (IF ext = 2 THEN Value16(b, 3)
          ELSE IF ext = 8 THEN TwoTo16 * Value16(b, 7) + Value16(b, 9)
          ELSE short) = n
  <2>1. CASE l[1] % 128 = n /\ n < 126 /\ Len(l) = 1
    BY <1>8, <2>1
  <2>2. CASE l[1] % 128 = 126 /\ Len(l) = 3 /\ Value16(l, 2) = n
    <3>1. b[3] = l[2] /\ b[3 + 1] = l[2 + 1]
      BY <1>6, <2>2
    <3>2. Value16(b, 3) = n
      BY <2>2, <3>1, Zenon DEF Value16
    <3> QED
      BY <1>8, <2>2, <3>2
  <2>3. CASE l[1] % 128 = 127 /\ Len(l) = 9 /\ TwoTo16 * Value16(l, 6) + Value16(l, 8) = n
    <3>1. b[7] = l[6] /\ b[7 + 1] = l[6 + 1] /\ b[9] = l[8] /\ b[9 + 1] = l[8 + 1]
      BY <1>6, <2>3
    <3>2. Value16(b, 7) = Value16(l, 6) /\ Value16(b, 9) = Value16(l, 8)
      BY <3>1, Zenon DEF Value16
    <3>3. TwoTo16 * Value16(b, 7) + Value16(b, 9) = n
      BY <2>3, <3>2, Zenon
    <3> QED
      BY <1>8, <2>3, <3>3
  <2> QED
    BY <1>3, <2>1, <2>2, <2>3 DEF Reads
<1>10. (IF b[2] >= 128 THEN Part(b, 3 + ext, 4) ELSE <<>>) = k
  <2>1. CASE mask
    <3>1. Len(l) + 2 = 3 + ext /\ Len(k) = 4
      BY <1>2, <1>9, <2>1
    <3> QED
      BY <1>6, <1>8, <2>1, <3>1
  <2>2. CASE ~ mask
    BY <1>8, <2>2 DEF k
  <2> QED
    BY <2>1, <2>2
<1>11. From(b, 3 + ext + (IF b[2] >= 128 THEN 4 ELSE 0)) = rest
  <2>1. 3 + ext + (IF b[2] >= 128 THEN 4 ELSE 0) = Len(l) + Len(k) + 2
    BY <1>2, <1>8, <1>9
  <2> QED
    BY <1>6, <2>1
<1>12. ReadHead(b) = [op |-> op, len |-> n, key |-> k, rest |-> rest]
  <2>1. ReadHead(b) =
          [op   |-> b[1] % 16,
           len  |-> IF ext = 2 THEN Value16(b, 3)
                    ELSE IF ext = 8 THEN TwoTo16 * Value16(b, 7) + Value16(b, 9)
                    ELSE short,
           key  |-> IF b[2] >= 128 THEN Part(b, 3 + ext, 4) ELSE <<>>,
           rest |-> From(b, 3 + ext + (IF b[2] >= 128 THEN 4 ELSE 0))]
    BY Zenon DEF ReadHead
  <2> HIDE DEF short, ext
  <2> QED
    BY <1>7, <1>9, <1>10, <1>11, <2>1, Zenon
<1> QED
  BY <1>12 DEF b, k

\* v is r, s, t and u, one after the other.
FourParts(v, r, s, t, u) ==
  /\ v \in Seq(Byte8) /\ Len(v) = Len(r) + Len(s) + Len(t) + Len(u)
  /\ \A i \in 1 .. Len(r) : v[i] = r[i]
  /\ Part(v, Len(r) + 1, Len(s)) = s
  /\ \A i \in 1 .. Len(t) : v[Len(r) + Len(s) + i] = t[i]
  /\ From(v, Len(r) + Len(s) + Len(t) + 1) = u

\* The same for four parts.
LEMMA JoinFour ==
  ASSUME NEW r \in Seq(Byte8), NEW s \in Seq(Byte8), NEW t \in Seq(Byte8), NEW u \in Seq(Byte8),
         NEW v, v = r \o s \o t \o u
  PROVE  FourParts(v, r, s, t, u)
<1> DEFINE p == r \o s
           q == p \o t
<1>0. p = r \o s /\ q = p \o t /\ v = q \o u
  OBVIOUS
<1> HIDE DEF p, q
<1>1. Joined(p, r, s)
  BY <1>0, JoinBytes
<1>2. p \in Seq(Byte8)
  BY <1>1 DEF Joined
<1>3. Joined(q, p, t)
  BY <1>0, <1>2, JoinBytes
<1>4. q \in Seq(Byte8)
  BY <1>3 DEF Joined
<1>5. Joined(v, q, u)
  BY <1>0, <1>4, JoinBytes
<1>6. Inside(v, p, t, u)
  <2>1. v = p \o t \o u
    BY <1>0
  <2> QED
    BY <1>2, <2>1, PartOfJoin
<1>7. /\ Len(r) \in Nat /\ Len(s) \in Nat /\ Len(t) \in Nat /\ Len(u) \in Nat
      /\ Len(p) = Len(r) + Len(s) /\ Len(q) = Len(r) + Len(s) + Len(t)
      /\ Len(v) = Len(r) + Len(s) + Len(t) + Len(u) /\ v \in Seq(Byte8)
  BY <1>1, <1>3, <1>5 DEF Joined
<1>8. ASSUME NEW i \in 1 .. Len(p) PROVE v[i] = p[i]
  <2>1. i \in 1 .. Len(q)
    BY <1>7
  <2>2. v[i] = q[i] /\ q[i] = p[i]
    BY <1>3, <1>5, <2>1, Zenon DEF Joined
  <2> QED
    BY <2>2
<1>9. \A i \in 1 .. Len(r) : v[i] = r[i]
  <2>1. ASSUME NEW i \in 1 .. Len(r) PROVE v[i] = r[i]
    <3>1. i \in 1 .. Len(p)
      BY <1>7
    <3>2. v[i] = p[i] /\ p[i] = r[i]
      BY <1>1, <1>8, <3>1, Zenon DEF Joined
    <3> QED
      BY <3>2
  <2> QED
    BY <2>1
<1>10. \A i \in 1 .. Len(t) : v[Len(r) + Len(s) + i] = t[i]
  <2>1. ASSUME NEW i \in 1 .. Len(t) PROVE v[Len(r) + Len(s) + i] = t[i]
    <3>1. Len(r) + Len(s) + i = Len(p) + i /\ Len(p) + i \in 1 .. Len(q)
      BY <1>7
    <3>2. v[Len(p) + i] = q[Len(p) + i] /\ q[Len(p) + i] = t[i]
      BY <1>3, <1>5, <3>1, Zenon DEF Joined
    <3> QED
      BY <3>1, <3>2
  <2> QED
    BY <2>1
<1>11. Part(v, Len(r) + 1, Len(s)) = s
  <2> DEFINE x == Part(v, Len(r) + 1, Len(s))
  <2>1. IsPart(x, v, Len(r) + 1, Len(s))
    <3>1. Len(r) + 1 \in Nat /\ Len(r) + 1 >= 1 /\ (Len(r) + 1) + Len(s) <= Len(v) + 1
      BY <1>7
    <3> QED
      BY <1>7, <3>1, PartFacts
  <2> HIDE DEF x
  <2>2. ASSUME NEW k \in 1 .. Len(s) PROVE x[k] = s[k]
    <3>1. Len(r) + 1 + k - 1 = Len(r) + k /\ Len(r) + k \in 1 .. Len(p)
      BY <1>7
    <3>2. x[k] = v[Len(r) + k] /\ v[Len(r) + k] = p[Len(r) + k] /\ p[Len(r) + k] = s[k]
      BY <1>1, <1>8, <2>1, <3>1, Zenon DEF Joined, IsPart
    <3> QED
      BY <3>2
  <2>3. x = s
    BY <2>1, <2>2, SameSeq DEF IsPart
  <2> QED
    BY <2>3 DEF x
<1>12. From(v, Len(r) + Len(s) + Len(t) + 1) = u
  <2>1. Len(r) + Len(s) + Len(t) + 1 = Len(p) + Len(t) + 1
    BY <1>7
  <2> QED
    BY <1>6, <2>1 DEF Inside
<1> QED
  BY <1>7, <1>9, <1>10, <1>11, <1>12 DEF FourParts

\* Reading from the second byte on.
LEMMA AfterFirst ==
  ASSUME NEW b \in Seq(Byte8), NEW i \in Nat \ {0}, NEW n \in Nat, i + n + 2 <= Len(b)
  PROVE  /\ Part(Tail(b), i, n) = Part(b, i + 1, n)
         /\ Value16(Tail(b), i + n) = Value16(b, i + n + 1)
         /\ From(Tail(b), i + n + 2) = From(b, i + n + 3)
<1> DEFINE t == Tail(b)
<1>1. /\ t \in Seq(Byte8) /\ Len(t) = Len(b) - 1 /\ Len(b) \in Nat
      /\ \A k \in 1 .. Len(b) - 1 : t[k] = b[k + 1]
  <2>1. b # <<>> /\ Len(b) \in Nat
    BY LenProperties
  <2> QED
    BY <2>1, HeadTailProperties
<1> HIDE DEF t
<1>2. Part(t, i, n) = Part(b, i + 1, n)
  <2> DEFINE x == Part(t, i, n)
             y == Part(b, i + 1, n)
  <2>1. IsPart(x, t, i, n)
    <3>1. i + n <= Len(t) + 1 /\ i >= 1
      BY <1>1
    <3> QED
      BY <1>1, <3>1, PartFacts
  <2>2. IsPart(y, b, i + 1, n)
    <3>1. (i + 1) + n <= Len(b) + 1 /\ i + 1 \in Nat /\ i + 1 >= 1
      BY <1>1
    <3> QED
      BY <3>1, PartFacts
  <2> HIDE DEF x, y
  <2>3. ASSUME NEW k \in 1 .. n PROVE x[k] = y[k]
    <3>1. (i + k - 1) + 1 = (i + 1) + k - 1 /\ i + k - 1 \in 1 .. Len(b) - 1
      BY <1>1
    <3>2. x[k] = t[i + k - 1] /\ y[k] = b[(i + 1) + k - 1]
      BY <2>1, <2>2, Zenon DEF IsPart
    <3> QED
      BY <1>1, <3>1, <3>2
  <2>4. x = y
    BY <2>1, <2>2, <2>3, SameSeq DEF IsPart
  <2> QED
    BY <2>4 DEF x, y
<1>3. Value16(t, i + n) = Value16(b, i + n + 1)
  <2>1. i + n \in 1 .. Len(b) - 1 /\ i + n + 1 \in 1 .. Len(b) - 1
    BY <1>1
  <2> QED
    BY <1>1, <2>1 DEF Value16
<1>4. From(t, i + n + 2) = From(b, i + n + 3)
  <2> DEFINE x == From(t, i + n + 2)
             y == From(b, i + n + 3)
             m == Len(b) - (i + n + 2)
  <2>0. m \in Nat
    BY <1>1
  <2>1. IsPart(x, t, i + n + 2, m)
    <3>1. i + n + 2 \in Nat /\ i + n + 2 >= 1 /\ (i + n + 2) + m = Len(t) + 1
      BY <1>1
    <3> HIDE DEF m
    <3> QED
      BY <1>1, <2>0, <3>1, FromFacts
  <2>2. IsPart(y, b, i + n + 3, m)
    <3>1. i + n + 3 \in Nat /\ i + n + 3 >= 1 /\ (i + n + 3) + m = Len(b) + 1
      BY <1>1
    <3> HIDE DEF m
    <3> QED
      BY <2>0, <3>1, FromFacts
  <2>3. \A k \in 1 .. m : (i + n + 2) + k - 1 \in 1 .. Len(b) - 1
    BY <1>1
  <2> HIDE DEF x, y, m
  <2>4. ASSUME NEW k \in 1 .. m PROVE x[k] = y[k]
    <3>1. ((i + n + 2) + k - 1) + 1 = (i + n + 3) + k - 1
      BY <2>0
    <3>2. x[k] = t[(i + n + 2) + k - 1] /\ y[k] = b[(i + n + 3) + k - 1]
      BY <2>1, <2>2, Zenon DEF IsPart
    <3> QED
      BY <1>1, <2>3, <3>1, <3>2
  <2>5. x = y
    BY <2>1, <2>2, <2>4, SameSeq DEF IsPart
  <2> QED
    BY <2>5 DEF x, y
<1> QED
  BY <1>2, <1>3, <1>4 DEF t

\* A host that has the length its kind asks for.
Fits(kind, host, port) ==
  /\ kind \in {1, 3, 4} /\ host \in Seq(Byte8) /\ port \in Nat /\ port < TwoTo16
  /\ kind = 1 => Len(host) = 4
  /\ kind = 4 => Len(host) = 16
  /\ kind = 3 => Len(host) < 256

\* What comes before a host: its type and, of a name, its length.
Before(kind, host) == IF kind = 3 THEN <<3, Len(host)>> ELSE <<kind>>

\* ReadTarget finds type, host, port and the rest (protocol.go:26-63).
LEMMA ReadBack ==
  ASSUME NEW kind, NEW host, NEW port, Fits(kind, host, port), NEW rest \in Seq(Byte8),
         NEW b, b = Before(kind, host) \o host \o Bytes16(port) \o rest
  PROVE  ReadTarget(b) = Target(kind, host, port, rest)
<1> DEFINE r == Before(kind, host)
           t == Bytes16(port)
           n == Len(host)
           i == Len(r)
<1>1. /\ kind \in {1, 3, 4} /\ host \in Seq(Byte8) /\ port \in Nat /\ port < TwoTo16 /\ n \in Nat
      /\ kind = 1 => n = 4
      /\ kind = 4 => n = 16
      /\ kind = 3 => n < 256
  BY LenProperties DEF Fits
<1>2. /\ r \in Seq(Byte8) /\ i = (IF kind = 3 THEN 2 ELSE 1) /\ r[1] = kind
      /\ kind = 3 => r[2] = n
  <2>1. CASE kind = 3
    <3>1. r = <<3, n>>
      BY <2>1 DEF Before
    <3>2. n \in Byte8 /\ 3 \in Byte8
      <4> HIDE DEF n
      <4>1. n \in 0 .. 255 /\ 3 \in 0 .. 255
        BY <1>1, <2>1
      <4> QED
        BY <4>1 DEF Byte8
    <3> HIDE DEF r, n
    <3> QED
      BY <2>1, <3>1, <3>2
  <2>2. CASE kind # 3
    <3>1. r = <<kind>> /\ kind \in 0 .. 255
      BY <1>1, <2>2 DEF Before
    <3> QED
      BY <2>2, <3>1 DEF Byte8
  <2> QED
    BY <2>1, <2>2
<1>3. t \in Seq(Byte8) /\ Len(t) = 2 /\ 256 * t[1] + t[2] = port
  BY <1>1, SixteenBits
<1>4. b = r \o host \o t \o rest
  OBVIOUS
<1> HIDE DEF r, t
<1>5. FourParts(b, r, host, t, rest)
  BY <1>1, <1>2, <1>3, <1>4, JoinFour
<1>6. /\ b \in Seq(Byte8) /\ Len(b) = i + n + 2 + Len(rest) /\ Len(rest) \in Nat
      /\ i \in Nat \ {0} /\ i + n + 2 <= Len(b)
  <2>1. b \in Seq(Byte8) /\ Len(b) = i + n + 2 + Len(rest) /\ Len(rest) \in Nat
    BY <1>3, <1>5, LenProperties DEF FourParts
  <2> QED
    BY <1>1, <1>2, <2>1
<1>7. b[1] = kind /\ (kind = 3 => b[2] = n)
  <2>1. 1 \in 1 .. i /\ (kind = 3 => 2 \in 1 .. i)
    BY <1>2
  <2>2. b[1] = r[1] /\ (kind = 3 => b[2] = r[2])
    BY <1>5, <2>1, Zenon DEF FourParts
  <2> QED
    BY <1>2, <2>2
<1>8. Part(Tail(b), i, n) = host
  <2>1. Part(b, i + 1, n) = host
    BY <1>5 DEF FourParts
  <2> QED
    BY <1>1, <1>6, <2>1, AfterFirst
<1>9. Value16(Tail(b), i + n) = port
  <2>1. 1 \in 1 .. Len(t) /\ 2 \in 1 .. Len(t) /\ (i + n + 1) + 1 = i + n + 2
    BY <1>1, <1>3, <1>6
  <2>2. b[i + n + 1] = t[1] /\ b[i + n + 2] = t[2]
    BY <1>5, <2>1, Zenon DEF FourParts
  <2>3. Value16(b, i + n + 1) = port
    BY <1>3, <2>1, <2>2 DEF Value16
  <2> QED
    BY <1>1, <1>6, <2>3, AfterFirst
<1>10. From(Tail(b), i + n + 2) = rest
  <2>1. From(b, i + n + 2 + 1) = rest /\ i + n + 2 + 1 = i + n + 3
    BY <1>1, <1>3, <1>5, <1>6 DEF FourParts
  <2>2. From(Tail(b), i + n + 2) = From(b, i + n + 3)
    BY <1>1, <1>6, AfterFirst
  <2> QED
    BY <2>1, <2>2
<1>11. (kind = 3 => Tail(b)[1] = n)
  <2>1. kind = 3 => Tail(b)[1] = b[2]
    BY <1>1, <1>2, <1>6
  <2> QED
    BY <1>7, <2>1
<1>12. /\ n = (IF kind = 1 THEN 4 ELSE IF kind = 4 THEN 16 ELSE Tail(b)[1])
       /\ i = (IF kind = 3 THEN 2 ELSE 1)
  BY <1>1, <1>2, <1>11
<1> HIDE DEF n, i
<1>13. ReadAddress(kind, Tail(b)) = Target(kind, host, port, rest)
  BY <1>8, <1>9, <1>10, <1>12, Zenon DEF ReadAddress
<1> QED
  BY <1>7, <1>13, Zenon DEF ReadTarget

\* What readSocksAddr makes of an address that was read in full fits its fields (client.go:216-246).
LEMMA AddressFits ==
  ASSUME NEW a, Whole(a)
  PROVE  LET got == ReadSocksAddr(a)
         IN  /\ Fits(got.kind, got.host, got.port) /\ got.rest \in Seq(Byte8)
             /\ got = Target(got.kind, got.host, got.port, got.rest)
<1> DEFINE b == a.body
           kind == a.atyp
           n == IF kind = 1 THEN 4 ELSE IF kind = 4 THEN 16 ELSE b[1]
           i == IF kind = 3 THEN 2 ELSE 1
           host == Part(b, i, n)
           port == Value16(b, i + n)
           rest == From(b, i + n + 2)
<1>1. /\ kind \in {1, 3, 4} /\ b \in Seq(Byte8) /\ Len(b) \in Nat
      /\ n \in Nat /\ i \in Nat /\ i >= 1
      /\ Len(b) >= i + n + 1
      /\ kind = 1 => n = 4
      /\ kind = 4 => n = 16
      /\ kind = 3 => n < 256
  <2>1. kind \in {1, 3, 4} /\ b \in Seq(Byte8) /\ b # <<>> /\ Len(b) \in Nat
    BY LenProperties DEF Whole
  <2>2. b[1] \in 0 .. 255
    <3>1. 1 \in 1 .. Len(b)
      BY <2>1
    <3> QED
      BY <2>1, <3>1, ElementOfSeq DEF Byte8
  <2>3. Len(b) >= (IF kind = 1 THEN 4 ELSE IF kind = 4 THEN 16 ELSE 1 + b[1]) + 2
    BY DEF Whole
  <2> HIDE DEF b, kind
  <2>4. CASE kind = 1
    BY <2>1, <2>3, <2>4
  <2>5. CASE kind = 4
    BY <2>1, <2>3, <2>5
  <2>6. CASE kind = 3
    <3>1. n = b[1] /\ i = 2 /\ kind # 1 /\ kind # 4
      BY <2>6
    <3> HIDE DEF n, i
    <3>2. Len(b) >= (1 + b[1]) + 2
      BY <2>3, <3>1
    <3>3. n \in 0 .. 255 /\ Len(b) >= (1 + n) + 2
      BY ONLY <2>2, <3>1, <3>2, Zenon
    <3>4. /\ n \in Nat /\ i \in Nat /\ i >= 1 /\ n < 256 /\ Len(b) >= i + n + 1
      <4>1. i = 2 /\ Len(b) \in Nat
        BY ONLY <2>1, <3>1
      <4> QED
        BY ONLY <3>3, <4>1
    <3> QED
      BY ONLY <2>1, <3>1, <3>4
  <2> QED
    BY <2>1, <2>4, <2>5, <2>6
<1>2. ReadSocksAddr(a) = Target(kind, host, port, rest)
  BY Zenon DEF ReadSocksAddr, ReadAddress
<1> HIDE DEF b, kind, n, i
<1>3. host \in Seq(Byte8) /\ Len(host) = n
  <2>1. i + n <= Len(b) + 1
    BY <1>1
  <2>2. IsPart(host, b, i, n)
    BY <1>1, <2>1, PartFacts
  <2> QED
    BY <2>2 DEF IsPart
<1>4. rest \in Seq(Byte8)
  <2> DEFINE j == i + n + 2
             m == Len(b) + 1 - j
  <2>1. j \in Nat /\ j >= 1 /\ m \in Nat /\ j + m = Len(b) + 1 /\ rest = From(b, j)
    BY <1>1
  <2> HIDE DEF j, m, rest
  <2>2. IsPart(rest, b, j, m)
    BY <1>1, <2>1, FromFacts
  <2> QED
    BY <2>2 DEF IsPart
<1>5. port \in Nat /\ port < TwoTo16
  <2>1. i + n \in 1 .. Len(b) /\ i + n + 1 \in 1 .. Len(b)
    BY <1>1
  <2>2. b[i + n] \in 0 .. 255 /\ b[i + n + 1] \in 0 .. 255
    BY <1>1, <2>1, ElementOfSeq DEF Byte8
  <2>3. \A x, y \in 0 .. 255 : 256 * x + y \in Nat /\ 256 * x + y < TwoTo16
    BY DEF TwoTo16
  <2> QED
    BY <2>2, <2>3, Zenon DEF Value16
<1> HIDE DEF host, port, rest
<1>6. Fits(kind, host, port)
  BY <1>1, <1>3, <1>5 DEF Fits
<1> QED
  BY <1>2, <1>4, <1>6 DEF Target

\* What stands before the four bytes of a mapped address has twelve.
LEMMA PrefixFacts ==
  /\ Mapped(<<>>) \in Seq(Byte8) /\ Len(Mapped(<<>>)) = 12
<1> DEFINE z == [i \in 1 .. 10 |-> 0]
           s == <<255, 255>>
           e == <<>>
           p == z \o s
           q == p \o e
<1>1. /\ z \in Seq(Byte8) /\ Len(z) = 10 /\ s \in Seq(Byte8) /\ Len(s) = 2
      /\ e \in Seq(Byte8) /\ Len(e) = 0
  <2>1. 0 \in Byte8 /\ 255 \in Byte8
    BY DEF Byte8
  <2> QED
    BY <2>1
<1>2. p = z \o s /\ q = p \o e /\ q = Mapped(<<>>)
  BY DEF Mapped
<1> HIDE DEF z, s, e, p, q
<1>3. p \in Seq(Byte8) /\ Len(p) = 12
  <2>1. Joined(p, z, s)
    BY <1>1, <1>2, JoinBytes
  <2> QED
    BY <1>1, <2>1 DEF Joined
<1>4. Joined(q, p, e)
  BY <1>1, <1>2, <1>3, JoinBytes
<1> QED
  BY <1>1, <1>2, <1>3, <1>4 DEF Joined

\* A host as the proxy has it: an address has its length.
Hosted(kind, host) ==
  /\ kind \in {1, 3, 4} /\ host \in Seq(Byte8)
  /\ kind = 1 => Len(host) = 4
  /\ kind = 4 => Len(host) = 16

\* An address has 4 bytes or 16, before To4 and after it.
LEMMA To4Is ==
  ASSUME NEW ip \in Seq(Byte8), Len(ip) \in {4, 16}, NEW v, v = To4(ip)
  PROVE  v \in Seq(Byte8) /\ Len(v) \in {4, 16}
<1>1. CASE IsPrefix(Mapped(<<>>), ip)
  <2>1. v = From(ip, 13)
    BY <1>1, Zenon DEF To4
  <2>2. Len(Mapped(<<>>)) <= Len(ip)
    BY <1>1 DEF IsPrefix
  <2>3. Len(ip) = 16
    <3> DEFINE n == Len(Mapped(<<>>))
               y == Len(ip)
    <3>1. n = 12 /\ n <= y /\ y \in {4, 16}
      BY <2>2, PrefixFacts
    <3> HIDE DEF n, y
    <3>2. y = 16
      BY ONLY <3>1
    <3> QED
      BY <3>2 DEF y
  <2>4. 13 \in Nat /\ 13 >= 1 /\ 4 \in Nat /\ 13 + 4 = Len(ip) + 1
    BY <2>3
  <2>5. IsPart(v, ip, 13, 4)
    BY <2>1, <2>4, FromFacts
  <2> QED
    BY <2>5 DEF IsPart
<1>2. CASE ~ IsPrefix(Mapped(<<>>), ip)
  BY <1>2, Zenon DEF To4
<1> QED
  BY <1>1, <1>2

\* net.ParseIP gives nothing or an address, and nothing only for names.
Parsed(ip, kind) ==
  ip \in Seq(Byte8) /\ (ip = <<>> => kind = 3) /\ (ip # <<>> => Len(ip) \in {4, 16})

LEMMA ParsedIs ==
  ASSUME NEW kind, NEW host, Hosted(kind, host), NEW ip, ip = ParseIP(kind, host)
  PROVE  Parsed(ip, kind)
<1>1. ASSUME NEW a \in Seq(Byte8), Len(a) \in {4, 16}, ip = To4(a) PROVE Parsed(ip, kind)
  <2>1. ip \in Seq(Byte8) /\ Len(ip) \in {4, 16}
    BY <1>1, To4Is
  <2>2. ip # <<>>
    <3> DEFINE y == Len(ip)
    <3>1. (ip = <<>> => y = 0) /\ y \in {4, 16}
      BY <2>1, KeyFacts
    <3> HIDE DEF y
    <3>2. y # 0
      BY ONLY <3>1
    <3> QED
      BY ONLY <3>1, <3>2, Zenon
  <2> QED
    BY <2>1, <2>2, Zenon DEF Parsed
<1>2. CASE kind # 3
  <2>1. ip = To4(host) /\ host \in Seq(Byte8) /\ Len(host) \in {4, 16}
    BY <1>2 DEF ParseIP, Hosted
  <2> QED
    BY <1>1, <2>1, Zenon
<1>3. CASE kind = 3 /\ host \in DOMAIN Literal
  <2>1. ip = To4(Literal[host]) /\ Literal[host] \in Seq(Byte8) /\ Len(Literal[host]) \in {4, 16}
    BY <1>3, CodecsAssumption DEF ParseIP
  <2> QED
    BY <1>1, <2>1
<1>4. CASE kind = 3 /\ host \notin DOMAIN Literal
  <2>1. ip = <<>> /\ <<>> \in Seq(Byte8)
    BY <1>4, KeyFacts, Zenon DEF ParseIP
  <2> QED
    BY <1>4, <2>1, Zenon DEF Parsed
<1> QED
  BY <1>2, <1>3, <1>4

\* What is read of a target: the address where there is one, else the name.
KindOf(ip) == IF ip = <<>> THEN 3 ELSE IF Len(ip) = 4 THEN 1 ELSE 4
HostOf(ip, host) == IF ip = <<>> THEN host ELSE ip

\* What is left of a number fits its field, and what fits is not cut.
LEMMA NothingCut ==
  ASSUME NEW n \in Int
  PROVE  /\ n % TwoTo16 \in Nat /\ n % TwoTo16 < TwoTo16
         /\ n \in Nat /\ n < 256 => n % 256 = n
BY DEF TwoTo16

\* What WriteTarget writes of an address, and of a name that fits (protocol.go:66-83).
LEMMA AsWritten ==
  ASSUME NEW kind, NEW host, NEW port \in Int, Hosted(kind, host),
         NEW ip, ip = ParseIP(kind, host), ip # <<>> \/ Len(host) < 256,
         NEW k, k = KindOf(ip), NEW h, h = HostOf(ip, host), NEW p, p = port % TwoTo16
  PROVE  /\ Fits(k, h, p)
         /\ WriteTarget(kind, host, port) = Before(k, h) \o h \o Bytes16(p)
<1>1. Parsed(ip, kind) /\ host \in Seq(Byte8) /\ Len(host) \in Nat
  BY ParsedIs, LenProperties DEF Hosted
<1>2. p \in Nat /\ p < TwoTo16
  BY NothingCut
<1>3. CASE ip = <<>>
  <2>1. k = 3 /\ h = host /\ Len(host) < 256
    BY <1>3 DEF KindOf, HostOf
  <2>2. Len(host) % 256 = Len(host)
    <3> DEFINE n == Len(host)
    <3>1. n \in Nat /\ n < 256
      BY <1>1, <2>1
    <3> HIDE DEF n
    <3>2. n % 256 = n
      BY <3>1, NothingCut
    <3> QED
      BY <3>2 DEF n
  <2>3. Before(k, h) = <<3, Len(host) % 256>>
    BY <2>1, <2>2 DEF Before
  <2>4. WriteTarget(kind, host, port) = Before(k, h) \o h \o Bytes16(p)
    BY <1>3, <2>1, <2>3, Zenon DEF WriteTarget
  <2> QED
    BY <1>1, <1>2, <2>1, <2>4 DEF Fits
<1>4. CASE ip # <<>> /\ Len(ip) = 4
  <2>1. k = 1 /\ h = ip /\ Before(k, h) = <<1>>
    BY <1>4 DEF KindOf, HostOf, Before
  <2>2. WriteTarget(kind, host, port) = Before(k, h) \o h \o Bytes16(p)
    BY <1>4, <2>1, Zenon DEF WriteTarget
  <2>3. Len(ip) = 4 /\ ip \in Seq(Byte8)
    BY <1>1, <1>4 DEF Parsed
  <2>4. Fits(k, h, p)
    BY <1>2, <2>1, <2>3 DEF Fits
  <2> QED
    BY <2>2, <2>4
<1>5. CASE ip # <<>> /\ Len(ip) # 4
  <2>1. k = 4 /\ h = ip /\ Before(k, h) = <<4>>
    BY <1>5 DEF KindOf, HostOf, Before
  <2>2. WriteTarget(kind, host, port) = Before(k, h) \o h \o Bytes16(p)
    BY <1>5, <2>1, Zenon DEF WriteTarget
  <2>3. Len(ip) = 16 /\ ip \in Seq(Byte8)
    BY <1>1, <1>5 DEF Parsed
  <2>4. Fits(k, h, p)
    BY <1>2, <2>1, <2>3 DEF Fits
  <2> QED
    BY <2>2, <2>4
<1> QED
  BY <1>3, <1>4, <1>5

\* What the server reads of a target.
Read(asked, sent) ==
  LET ip == ParseIP(asked.kind, asked.host) IN
  ip # <<>> \/ Len(asked.host) < 256 =>
    sent = Target(KindOf(ip), HostOf(ip, asked.host), asked.port % TwoTo16, asked.rest)

\* It reads the host that the proxy dials, unless the length of a name is cut
\* (client.go:200-204, 265-271, protocol.go:26-83).
LEMMA Asked ==
  ASSUME NEW kind, NEW host, Hosted(kind, host), NEW port \in Int, NEW rest \in Seq(Byte8),
         NEW got, got = Target(kind, host, port, rest), NEW o, o = Proxied(got)
  PROVE  o.asked = got /\ Read(o.asked, o.sent)
<1> DEFINE ip == ParseIP(kind, host)
           k == KindOf(ip)
           h == HostOf(ip, host)
           p == port % TwoTo16
           w == WriteTarget(kind, host, port)
           b == w \o rest
<1>1. got.kind = kind /\ got.host = host /\ got.port = port /\ got.rest = rest
  BY DEF Target
<1>2. o.asked = got /\ o.sent = ReadTarget(b)
  BY <1>1 DEF Proxied
<1>3. ASSUME ip # <<>> \/ Len(host) < 256 PROVE ReadTarget(b) = Target(k, h, p, rest)
  <2>1. Fits(k, h, p) /\ w = Before(k, h) \o h \o Bytes16(p)
    BY <1>3, AsWritten
  <2>2. b = Before(k, h) \o h \o Bytes16(p) \o rest
    BY <2>1, Zenon
  <2> HIDE DEF b, w, k, h, p, ip
  <2> QED
    BY <2>1, <2>2, ReadBack
<1> HIDE DEF b, w
<1> QED
  BY <1>1, <1>2, <1>3, Zenon DEF Read

(***************************************************************************)
(* The reader of a frame sees the opcode, the length and the mask that     *)
(* were written and goes on at the payload, for every length whose high    *)
(* four bytes are zero (ws.go:52-80, 109-137).                             *)
(***************************************************************************)
THEOREM HeadsAreCarried == CodecSpec => []HeadCarried
<1>1. CodecInit => HeadCarried
  BY DEF CodecInit, HeadCarried, Fed
<1>2. HeadCarried /\ [CodecNext]_codecVars => HeadCarried'
  <2> SUFFICES ASSUME HeadCarried, [CodecNext]_codecVars PROVE HeadCarried'
    OBVIOUS
  <2>1. CASE SocksTarget \/ ConnectTarget
    BY <2>1 DEF SocksTarget, ConnectTarget, Feeds, HeadCarried, Fed
  <2>2. CASE SendHead
    <3>1. PICK f \in Frames : Feeds("head", f, ReadHead(WriteHead(f.op, f.len, f.mask) \o f.rest))
      BY <2>2 DEF SendHead
    <3>2. /\ f.op \in 0 .. 15 /\ f.mask \in BOOLEAN /\ f.rest \in Seq(Byte8)
          /\ f.len \in Nat /\ f.len \div TwoTo16 < TwoTo16
      BY CodecsAssumption
    <3>3. input'.it = f /\ output' = ReadHead(WriteHead(f.op, f.len, f.mask) \o f.rest)
      BY <3>1 DEF Feeds
    <3> QED
      BY <3>2, <3>3, HeadIsRead DEF HeadCarried
  <2>3. CASE ParseQuery
    BY <2>3 DEF ParseQuery, Feeds, HeadCarried, Fed
  <2>4. CASE LoadTable
    BY <2>4 DEF LoadTable, Feeds, HeadCarried, Fed
  <2>5. CASE MatchList
    BY <2>5 DEF MatchList, Feeds, HeadCarried, Fed
  <2>6. CASE UNCHANGED codecVars
    BY <2>6 DEF codecVars, HeadCarried, Fed
  <2> QED
    BY <2>1, <2>2, <2>3, <2>4, <2>5, <2>6 DEF CodecNext
<1> QED
  BY <1>1, <1>2, PTL DEF CodecSpec

(***************************************************************************)
(* The server is asked for the host the application asked the proxy for,   *)
(* and the stream goes on where the request ends, for every SOCKS5 request *)
(* and for every CONNECT whose name is an IP literal or shorter than 256   *)
(* bytes, whatever the table of literals (client.go:216-271,               *)
(* protocol.go:26-83).                                                     *)
(***************************************************************************)
THEOREM TargetsAreTheSame == CodecSpec => []SameTarget
<1>1. CodecInit => SameTarget
  BY DEF CodecInit, SameTarget, Fed
<1>2. SameTarget /\ [CodecNext]_codecVars => SameTarget'
  <2> SUFFICES ASSUME SameTarget, [CodecNext]_codecVars PROVE SameTarget'
    OBVIOUS
  <2>0. ASSUME Read(output'.asked, output'.sent),
               Fed("socks")' => \/ ParseIP(output'.asked.kind, output'.asked.host) # <<>>
                                \/ Len(output'.asked.host) < 256
        PROVE  SameTarget'
    BY <2>0, Zenon DEF SameTarget, Read, KindOf, HostOf
  <2>1. CASE SocksTarget
    <3>1. PICK a \in Addresses : Feeds("socks", a, Proxied(ReadSocksAddr(a)))
      BY <2>1 DEF SocksTarget
    <3> DEFINE got == ReadSocksAddr(a)
    <3>2. /\ Fits(got.kind, got.host, got.port) /\ got.rest \in Seq(Byte8)
          /\ got = Target(got.kind, got.host, got.port, got.rest)
      BY AddressFits, CodecsAssumption
    <3>3. output' = Proxied(got)
      BY <3>1 DEF Feeds
    <3> HIDE DEF got
    <3>4. Hosted(got.kind, got.host) /\ got.port \in Int
      BY <3>2 DEF Fits, Hosted
    <3>5. output'.asked = got /\ Read(output'.asked, output'.sent)
      BY <3>2, <3>3, <3>4, Asked
    <3>6. ParseIP(got.kind, got.host) # <<>> \/ Len(got.host) < 256
      <4>1. Parsed(ParseIP(got.kind, got.host), got.kind)
        BY <3>4, ParsedIs
      <4> QED
        BY <3>2, <4>1 DEF Parsed, Fits
    <3> QED
      BY <2>0, <3>5, <3>6
  <2>2. CASE ConnectTarget
    <3>1. PICK c \in Requests : Feeds("connect", c, Proxied(ReadConnect(c)))
      BY <2>2 DEF ConnectTarget
    <3>2. c.host \in Seq(Byte8) /\ c.port \in Seq(Int) /\ c.rest \in Seq(Byte8)
      BY CodecsAssumption
    <3> DEFINE p == Atoi(c.port)
               got == ReadConnect(c)
    <3>3. p \in Int
      <4>1. CASE c.port = <<>>
        BY <4>1 DEF Atoi
      <4>2. CASE c.port # <<>>
        <5>1. 1 \in 1 .. Len(c.port)
          BY <3>2, <4>2, LenProperties, EmptySeq
        <5> QED
          BY <3>2, <4>2, <5>1, ElementOfSeq DEF Atoi
      <4> QED
        BY <4>1, <4>2
    <3>4. got = Target(3, c.host, p, c.rest) /\ output' = Proxied(got) /\ ~ Fed("socks")'
      BY <3>1 DEF ReadConnect, Feeds, Fed
    <3>5. Hosted(3, c.host)
      BY <3>2 DEF Hosted
    <3> HIDE DEF p, got
    <3>6. Read(output'.asked, output'.sent)
      BY <3>2, <3>3, <3>4, <3>5, Asked
    <3> QED
      BY <2>0, <3>4, <3>6
  <2>3. CASE SendHead
    BY <2>3 DEF SendHead, Feeds, SameTarget, Fed
  <2>4. CASE ParseQuery
    BY <2>4 DEF ParseQuery, Feeds, SameTarget, Fed
  <2>5. CASE LoadTable
    BY <2>5 DEF LoadTable, Feeds, SameTarget, Fed
  <2>6. CASE MatchList
    BY <2>6 DEF MatchList, Feeds, SameTarget, Fed
  <2>7. CASE UNCHANGED codecVars
    BY <2>7 DEF codecVars, SameTarget, Fed
  <2> QED
    BY <2>1, <2>2, <2>3, <2>4, <2>5, <2>6, <2>7 DEF CodecNext
<1> QED
  BY <1>1, <1>2, PTL DEF CodecSpec

-----------------------------------------------------------------------------
(***************************************************************************)
(* Induction: a set of numbers has a least one, so that what holds of the  *)
(* first and passes from each to the next holds of all, upward or          *)
(* downward. Recursive functions get their equations from it.              *)
(***************************************************************************)

\* A set of numbers that is not empty has a least one: induction, for sets.
LEMMA Least ==
  ASSUME NEW T \in SUBSET Nat, T # {}
  PROVE  \E x \in T : \A y \in T : x <= y
<1> DEFINE R == OpToRel(<, Nat)
<1>0. IsWellFoundedOn(R, Nat)
  BY NatLessThanWellFounded
<1>1. \A x, y \in Nat : <<x, y>> \in R <=> x < y
  BY DEF OpToRel
<1> HIDE DEF R
<1>2. PICK x \in T : \A y \in T : ~ (<<y, x>> \in R)
  BY <1>0, WFMin
<1>3. ASSUME NEW y \in T PROVE x <= y
  <2>1. x \in Nat /\ y \in Nat /\ ~ (<<y, x>> \in R)
    BY <1>2
  <2>2. ~ (y < x)
    BY <1>1, <2>1
  <2> QED
    BY <2>1, <2>2
<1> QED
  BY <1>3

\* Every number up to n is in T, when 0 is and each brings the next.
LEMMA UpTo ==
  ASSUME NEW n \in Nat, NEW T, 0 \in T, \A k \in 0 .. n - 1 : k \in T => k + 1 \in T
  PROVE  0 .. n \subseteq T
<1> DEFINE U == {k \in 0 .. n : k \notin T}
<1> SUFFICES ASSUME U # {} PROVE FALSE
  OBVIOUS
<1>1. PICK x \in U : \A y \in U : x <= y
  <2>1. U \in SUBSET Nat
    OBVIOUS
  <2> HIDE DEF U
  <2> QED
    BY <2>1, Least
<1>2. x \in 0 .. n /\ x \notin T /\ x # 0
  OBVIOUS
<1>3. x - 1 \in 0 .. n - 1 /\ ~ (x <= x - 1) /\ (x - 1) + 1 = x
  BY <1>2
<1>4. x - 1 \notin U
  BY <1>1, <1>3
<1>5. x - 1 \in T
  BY <1>3, <1>4
<1> QED
  BY <1>2, <1>3, <1>5

\* A function whose values follow from the one before exists.
Climbs(f, n, V, a, F) ==
  f \in [1 .. n -> V] /\ f[1] = a /\ \A i \in 2 .. n : f[i] = F[<<f[i - 1], i>>]

LEMMA Upward ==
  ASSUME NEW n \in Nat \ {0}, NEW V, NEW a \in V, NEW F \in [V \X (1 .. n) -> V]
  PROVE  \E f : Climbs(f, n, V, a, F)
<1> DEFINE Good(f, k) == f[1] = a /\ \A i \in 2 .. k : f[i] = F[<<f[i - 1], i>>]
           T == {k \in Nat : \E f \in [1 .. n -> V] : Good(f, k)}
<1>1. 0 \in T
  <2> DEFINE f == [i \in 1 .. n |-> a]
  <2>1. f \in [1 .. n -> V] /\ f[1] = a /\ 2 .. 0 = {}
    OBVIOUS
  <2>2. Good(f, 0)
    BY <2>1
  <2> QED
    BY <2>1, <2>2
<1>2. ASSUME NEW k \in 0 .. n - 1, k \in T PROVE k + 1 \in T
  <2>1. PICK f \in [1 .. n -> V] : Good(f, k)
    BY <1>2
  <2> DEFINE g == IF k = 0 THEN f ELSE [f EXCEPT ![k + 1] = F[<<f[k], k + 1>>]]
  <2>2. CASE k = 0
    <3>1. 2 .. k + 1 = {}
      BY <2>2
    <3>2. Good(f, k + 1)
      BY <2>1, <3>1
    <3> QED
      BY <3>2
  <2>3. CASE k # 0
    <3> DEFINE h == [f EXCEPT ![k + 1] = F[<<f[k], k + 1>>]]
    <3>1. h \in [1 .. n -> V] /\ h[k + 1] = F[<<f[k], k + 1>>] /\ \A i \in 1 .. k : h[i] = f[i]
      BY <2>3
    <3> HIDE DEF h
    <3>2. h[1] = a
      BY <2>1, <2>3, <3>1
    <3>3. ASSUME NEW i \in 2 .. k + 1 PROVE h[i] = F[<<h[i - 1], i>>]
      <4>1. CASE i = k + 1
        <5>1. i - 1 = k /\ k \in 1 .. k
          BY <2>3, <4>1
        <5>2. h[k] = f[k]
          BY <3>1, <5>1
        <5> QED
          BY <3>1, <4>1, <5>1, <5>2
      <4>2. CASE i # k + 1
        <5>1. i \in 2 .. k /\ i \in 1 .. k /\ i - 1 \in 1 .. k
          BY <4>2
        <5>2. h[i] = f[i] /\ h[i - 1] = f[i - 1] /\ f[i] = F[<<f[i - 1], i>>]
          BY <2>1, <3>1, <5>1
        <5> QED
          BY <5>2
      <4> QED
        BY <4>1, <4>2
    <3>4. Good(h, k + 1)
      BY <3>2, <3>3
    <3> HIDE DEF Good
    <3> QED
      BY <3>1, <3>4
  <2> QED
    BY <2>2, <2>3
<1> HIDE DEF T
<1>3. n \in T
  <2>1. 0 .. n \subseteq T /\ n \in 0 .. n
    BY <1>1, <1>2, UpTo
  <2> QED
    BY <2>1
<1> QED
  BY <1>3 DEF T, Climbs

-----------------------------------------------------------------------------
(***************************************************************************)
(* DNS questions. The places of the labels in a message are a function of  *)
(* the labels; the walk meets them one by one, from the root label back to *)
(* the first.                                                              *)
(***************************************************************************)

\* A walk is a function that follows its steps.
Walks(b, g) == \A i \in 1 .. Len(b) + 256 : g[i] = Step(b, g, i)

\* A step depends on the walk at one later place only.
LEMMA SameStep ==
  ASSUME NEW b, NEW g, NEW h, NEW i,
         i <= Len(b) => g[i + 1 + b[i]] = h[i + 1 + b[i]], i \in Nat, Len(b) \in Nat
  PROVE  Step(b, g, i) = Step(b, h, i)
<1>1. CASE i > Len(b)
  BY <1>1, Zenon DEF Step
<1>2. CASE i <= Len(b)
  BY <1>2, Zenon DEF Step
<1> QED
  BY <1>1, <1>2

\* It exists: a step asks for a later place only.
LEMMA WalkExists ==
  ASSUME NEW b \in Seq(Byte8)
  PROVE  \E g : g = [i \in 1 .. Len(b) + 256 |-> Step(b, g, i)]
<1> DEFINE n == Len(b) + 256
           Good(g, d) == \A i \in n - d + 1 .. n : g[i] = Step(b, g, i)
           D == {d \in Nat : \E g : DOMAIN g = 1 .. n /\ g = [i \in 1 .. n |-> g[i]] /\ Good(g, d)}
<1>0. n \in Nat /\ Len(b) \in Nat
  BY LenProperties
<1>a. ASSUME NEW i \in 1 .. n, i <= Len(b) PROVE i + 1 + b[i] \in i + 1 .. n
  <2>1. b[i] \in 0 .. 255
    <3>1. i \in 1 .. Len(b)
      BY <1>0, <1>a
    <3> QED
      BY <3>1, ElementOfSeq DEF Byte8
  <2> DEFINE x == b[i]
  <2>2. x \in 0 .. 255
    BY <2>1
  <2> HIDE DEF x
  <2>3. i + 1 + x \in i + 1 .. n
    BY <1>0, <1>a, <2>2
  <2> QED
    BY <2>3 DEF x
<1> HIDE DEF n
<1>1. 0 \in D
  <2> DEFINE g == [i \in 1 .. n |-> 0]
  <2>1. DOMAIN g = 1 .. n /\ g = [i \in 1 .. n |-> g[i]]
    OBVIOUS
  <2>2. n - 0 + 1 .. n = {}
    BY <1>0
  <2>3. Good(g, 0)
    BY <2>2
  <2> HIDE DEF g, Good
  <2> QED
    BY <2>1, <2>3
<1>2. ASSUME NEW d \in 0 .. n - 1, d \in D PROVE d + 1 \in D
  <2>1. PICK g : DOMAIN g = 1 .. n /\ Good(g, d)
    BY <1>2
  <2> DEFINE at == n - d
             h == [i \in 1 .. n |-> IF i = at THEN Step(b, g, at) ELSE g[i]]
  <2>2. /\ DOMAIN h = 1 .. n /\ h = [i \in 1 .. n |-> h[i]] /\ at \in 1 .. n
        /\ h[at] = Step(b, g, at) /\ \A i \in at + 1 .. n : h[i] = g[i]
    BY <1>0
  <2> HIDE DEF h, at
  <2>3. ASSUME NEW i \in at .. n PROVE Step(b, g, i) = Step(b, h, i)
    <3>1. i \in 1 .. n
      BY <2>2, <1>0
    <3>2. i <= Len(b) => i + 1 + b[i] \in at + 1 .. n
      BY <1>0, <1>a, <2>2, <3>1
    <3>3. i <= Len(b) => g[i + 1 + b[i]] = h[i + 1 + b[i]]
      BY <2>2, <3>2
    <3> QED
      BY <1>0, <3>1, <3>3, SameStep
  <2>4. ASSUME NEW i \in n - (d + 1) + 1 .. n PROVE h[i] = Step(b, h, i)
    <3>1. i \in at .. n /\ (i # at => i \in at + 1 .. n /\ i \in n - d + 1 .. n)
      BY <1>0, <2>2 DEF at
    <3>2. CASE i = at
      BY <2>2, <2>3, <3>1, <3>2
    <3>3. CASE i # at
      BY <2>1, <2>2, <2>3, <3>1, <3>3
    <3> QED
      BY <3>2, <3>3
  <2>5. Good(h, d + 1)
    BY <2>4
  <2> HIDE DEF Good
  <2> QED
    BY <2>2, <2>5, d + 1 \in Nat
<1> HIDE DEF D
<1>3. n \in D
  <2>1. 0 .. n \subseteq D /\ n \in 0 .. n
    BY <1>0, <1>1, <1>2, UpTo
  <2> QED
    BY <2>1
<1>4. PICK g : g = [i \in 1 .. n |-> g[i]] /\ Good(g, n)
  BY <1>3 DEF D
<1>5. n - n + 1 .. n = 1 .. n
  BY <1>0
<1>6. g = [i \in 1 .. n |-> Step(b, g, i)]
  <2>1. \A i \in 1 .. n : g[i] = Step(b, g, i)
    BY <1>4, <1>5
  <2> QED
    BY <1>4, <2>1
<1> QED
  BY <1>6 DEF n

\* The walk of the code is such a function.
LEMMA WalkIs ==
  ASSUME NEW b \in Seq(Byte8)
  PROVE  \E g : Walk(b) = g[13] /\ Walks(b, g)
<1> DEFINE g == CHOOSE g : g = [i \in 1 .. Len(b) + 256 |-> Step(b, g, i)]
<1>1. Walk(b) = g[13]
  BY Zenon DEF Walk
<1>2. g = [i \in 1 .. Len(b) + 256 |-> Step(b, g, i)]
  BY WalkExists, Zenon
<1> HIDE DEF g
<1>3. Walks(b, g)
  <2>1. \A i \in 1 .. Len(b) + 256 : g[i] = Step(b, g, i)
    <3> DEFINE h == [i \in 1 .. Len(b) + 256 |-> Step(b, g, i)]
    <3>1. \A i \in 1 .. Len(b) + 256 : h[i] = Step(b, g, i)
      OBVIOUS
    <3>2. h = g
      BY <1>2
    <3> HIDE DEF h
    <3> QED
      BY <3>1, <3>2, Zenon
  <2> QED
    BY <2>1 DEF Walks
<1> QED
  BY <1>1, <1>3

\* The pieces of a sequence of sequences, and where each of them ends.
Runs(f, s, v) ==
  /\ f \in [1 .. Len(s) -> Seq(Byte8)] /\ f[1] = s[1] /\ f[Len(s)] = v
  /\ \A i \in 2 .. Len(s) : f[i] = f[i - 1] \o s[i]

\* FlattenSeq adds one piece after the other.
LEMMA FlatIs ==
  ASSUME NEW s \in Seq(Seq(Byte8)), Len(s) # 0
  PROVE  \E f : Runs(f, s, FlattenSeq(s))
<1> DEFINE n == Len(s)
           V == Seq(Byte8)
           F == [p \in V \X (1 .. n) |-> p[1] \o s[p[2]]]
           g == CHOOSE g : g = [i \in 1 .. n |-> IF i = 1 THEN s[i] ELSE g[i - 1] \o s[i]]
<1>1. n \in Nat \ {0} /\ \A i \in 1 .. n : s[i] \in V
  BY LenProperties, ElementOfSeq
<1>2. FlattenSeq(s) = g[n]
  BY Zenon DEF FlattenSeq
<1> HIDE DEF n
<1>3. F \in [V \X (1 .. n) -> V]
  <2>1. ASSUME NEW p \in V \X (1 .. n) PROVE p[1] \o s[p[2]] \in V
    <3>1. p[1] \in V /\ s[p[2]] \in V
      BY <1>1
    <3> QED
      BY <3>1, JoinFacts
  <2> QED
    BY <2>1
<1>4. \A v \in V, i \in 1 .. n : F[<<v, i>>] = v \o s[i]
  OBVIOUS
<1> HIDE DEF V, F
<1>5. PICK f : f \in [1 .. n -> V] /\ f[1] = s[1] /\ \A i \in 2 .. n : f[i] = F[<<f[i - 1], i>>]
  <2> DEFINE a == s[1]
  <2>1. a \in V
    BY <1>1
  <2> HIDE DEF a
  <2>2. \E f : Climbs(f, n, V, a, F)
    BY <1>1, <1>3, <2>1, Upward, Zenon
  <2> QED
    BY <2>2 DEF a, Climbs
<1>6. \A i \in 2 .. n : f[i] = f[i - 1] \o s[i]
  <2>1. \A i \in 2 .. n : i \in 1 .. n /\ i - 1 \in 1 .. n
    BY <1>1
  <2> QED
    BY <1>4, <1>5, <2>1
<1>7. f = [i \in 1 .. n |-> IF i = 1 THEN s[i] ELSE f[i - 1] \o s[i]]
  <2>1. \A i \in 1 .. n : i = 1 \/ i \in 2 .. n
    BY <1>1
  <2> QED
    BY <1>5, <1>6, <2>1
<1>8. g = [i \in 1 .. n |-> IF i = 1 THEN s[i] ELSE g[i - 1] \o s[i]]
  BY <1>7, Zenon
<1> HIDE DEF g
<1>9. /\ g[1] = s[1] /\ \A i \in 2 .. n : g[i] = g[i - 1] \o s[i]
  <2> DEFINE h == [i \in 1 .. n |-> IF i = 1 THEN s[i] ELSE g[i - 1] \o s[i]]
  <2>1. h[1] = s[1] /\ \A i \in 2 .. n : h[i] = g[i - 1] \o s[i]
    <3>1. 1 \in 1 .. n /\ \A i \in 2 .. n : i \in 1 .. n /\ i # 1
      BY <1>1
    <3> QED
      BY <3>1, Zenon
  <2>2. h = g
    BY <1>8
  <2> HIDE DEF h
  <2> QED
    BY ONLY <2>1, <2>2, Zenon
<1>10. \A i \in 1 .. n : g[i] = f[i]
  <2> DEFINE T == {0} \cup {i \in 1 .. n : g[i] = f[i]}
  <2>1. 0 \in T
    OBVIOUS
  <2>2. ASSUME NEW k \in 0 .. n - 1, k \in T PROVE k + 1 \in T
    <3>1. CASE k = 0
      BY <1>1, <1>5, <1>9, <3>1
    <3>2. CASE k # 0
      <4>1. k + 1 \in 2 .. n /\ (k + 1) - 1 = k /\ k + 1 \in 1 .. n /\ g[k] = f[k]
        BY <1>1, <2>2, <3>2
      <4>2. g[k + 1] = f[k + 1]
        <5>1. g[k + 1] = g[(k + 1) - 1] \o s[k + 1] /\ f[k + 1] = f[(k + 1) - 1] \o s[k + 1]
          BY <1>6, <1>9, <4>1, Zenon
        <5> QED
          BY ONLY <4>1, <5>1, Zenon
      <4> QED
        BY <4>1, <4>2
    <3> QED
      BY <3>1, <3>2
  <2> HIDE DEF T
  <2>3. 0 .. n \subseteq T
    BY <1>1, <2>1, <2>2, UpTo
  <2> QED
    BY <1>1, <2>3 DEF T
<1>11. Runs(f, s, FlattenSeq(s))
  <2>1. n \in 1 .. n
    BY <1>1
  <2> QED
    BY <1>2, <1>5, <1>6, <1>10, <2>1 DEF Runs, n, V
<1> QED
  BY <1>11

\* A label of l at place i: its length, then its bytes.
LabelAt(b, i, l) ==
  /\ i \in Nat \ {0} /\ i + Len(l) <= Len(b) /\ b[i] = Len(l)
  /\ \A j \in 1 .. Len(l) : b[i + j] = l[j]

\* It stays where it is when something follows.
LEMMA LabelStays ==
  ASSUME NEW b, NEW t, NEW v, Joined(v, b, t), NEW i, NEW l \in Seq(Byte8), LabelAt(b, i, l)
  PROVE  LabelAt(v, i, l)
<1>1. /\ Len(l) \in Nat /\ Len(b) \in Nat /\ Len(t) \in Nat /\ Len(v) = Len(b) + Len(t)
      /\ i \in Nat \ {0} /\ i + Len(l) <= Len(b)
  BY LenProperties DEF Joined, LabelAt
<1>2. v[i] = Len(l)
  <2>1. i \in 1 .. Len(b)
    BY <1>1
  <2> QED
    BY <2>1 DEF Joined, LabelAt
<1>3. ASSUME NEW j \in 1 .. Len(l) PROVE v[i + j] = l[j]
  <2>1. i + j \in 1 .. Len(b)
    BY <1>1
  <2> QED
    BY <2>1 DEF Joined, LabelAt
<1>4. i + Len(l) <= Len(v)
  BY <1>1
<1> QED
  BY <1>1, <1>2, <1>3, <1>4 DEF LabelAt

\* It is moved by what comes before.
LEMMA LabelMoves ==
  ASSUME NEW b, NEW h, NEW v, Joined(v, h, b), NEW i, NEW l \in Seq(Byte8), LabelAt(b, i, l)
  PROVE  LabelAt(v, Len(h) + i, l)
<1>1. /\ Len(l) \in Nat /\ Len(b) \in Nat /\ Len(h) \in Nat /\ Len(v) = Len(h) + Len(b)
      /\ i \in Nat \ {0} /\ i + Len(l) <= Len(b)
  BY LenProperties DEF Joined, LabelAt
<1>2. v[Len(h) + i] = Len(l)
  <2>1. i \in 1 .. Len(b)
    BY <1>1
  <2> QED
    BY <2>1 DEF Joined, LabelAt
<1>3. ASSUME NEW j \in 1 .. Len(l) PROVE v[(Len(h) + i) + j] = l[j]
  <2>1. i + j \in 1 .. Len(b) /\ (Len(h) + i) + j = Len(h) + (i + j)
    BY <1>1
  <2>2. v[Len(h) + (i + j)] = b[i + j] /\ b[i + j] = l[j]
    BY <2>1, Zenon DEF Joined, LabelAt
  <2> QED
    BY ONLY <2>1, <2>2, Zenon
<1>4. (Len(h) + i) + Len(l) <= Len(v) /\ Len(h) + i \in Nat \ {0}
  BY <1>1
<1> QED
  BY <1>2, <1>3, <1>4 DEF LabelAt

\* Labels one after the other from place o + 1 on, and the root label behind them.
Places(pos, ls, o) ==
  /\ pos \in [1 .. Len(ls) + 1 -> Nat \ {0}] /\ pos[1] = o + 1
  /\ \A k \in 1 .. Len(ls) : pos[k + 1] = pos[k] + 1 + Len(ls[k])

Laid(v, pos, ls) ==
  /\ \A k \in 1 .. Len(ls) : LabelAt(v, pos[k], ls[k])
  /\ v[pos[Len(ls) + 1]] = 0

Labelled(ls) == ls \in Seq(Label)

\* The labels of a question, one by one.
LEMMA Lengths63 ==
  ASSUME NEW ls, Labelled(ls)
  PROVE  /\ Len(ls) \in Nat /\ DOMAIN ls = 1 .. Len(ls)
         /\ \A k \in 1 .. Len(ls) : ls[k] \in Seq(Byte8) /\ Len(ls[k]) \in 1 .. 63
<1>1. Len(ls) \in Nat /\ DOMAIN ls = 1 .. Len(ls) /\ \A k \in 1 .. Len(ls) : ls[k] \in Label
  BY LenProperties, ElementOfSeq DEF Labelled
<1> QED
  BY <1>1 DEF Label

Pieces(ls) == [i \in DOMAIN ls |-> <<Len(ls[i])>> \o ls[i]]

\* A label with its length before it.
LEMMA PieceIs ==
  ASSUME NEW l \in Seq(Byte8), Len(l) \in 1 .. 63, NEW v, v = <<Len(l)>> \o l
  PROVE  v \in Seq(Byte8) /\ Len(v) = 1 + Len(l) /\ LabelAt(v, 1, l)
<1> DEFINE s == <<Len(l)>>
<1>1. s \in Seq(Byte8) /\ Len(s) = 1 /\ s[1] = Len(l)
  <2>1. Len(l) \in Byte8
    BY ONLY Len(l) \in 1 .. 63 DEF Byte8
  <2> QED
    BY <2>1
<1>2. v = s \o l
  OBVIOUS
<1> HIDE DEF s
<1>3. Joined(v, s, l)
  BY <1>1, <1>2, JoinBytes
<1>4. v[1] = Len(l) /\ \A j \in 1 .. Len(l) : v[1 + j] = l[j]
  <2>1. 1 \in 1 .. Len(s)
    BY <1>1
  <2> QED
    BY <1>1, <1>3, <2>1 DEF Joined
<1>5. v \in Seq(Byte8) /\ Len(v) = 1 + Len(l)
  BY <1>1, <1>3 DEF Joined
<1> QED
  BY <1>4, <1>5 DEF LabelAt

\* The labels of a question lie one after the other.
LEMMA LabelsLaid ==
  ASSUME NEW ls, Labelled(ls), NEW v, v = Labels(ls)
  PROVE  \E pos : /\ v \in Seq(Byte8) /\ Places(pos, ls, 0) /\ Laid(v, pos, ls)
                  /\ Len(v) = pos[Len(ls) + 1]
<1> DEFINE n == Len(ls)
           s == Pieces(ls)
           w == FlattenSeq(s)
           z == <<0>>
<1>1. /\ n \in Nat /\ DOMAIN ls = 1 .. n
      /\ \A k \in 1 .. n : ls[k] \in Seq(Byte8) /\ Len(ls[k]) \in 1 .. 63
  BY Lengths63
<1>2. v = w \o z
  BY Zenon DEF Labels, Pieces
<1>3. z \in Seq(Byte8) /\ Len(z) = 1 /\ z[1] = 0
  <2>1. 0 \in Byte8
    BY DEF Byte8
  <2> QED
    BY <2>1
<1>4. /\ s \in Seq(Seq(Byte8)) /\ Len(s) = n
      /\ \A k \in 1 .. n : /\ s[k] \in Seq(Byte8) /\ Len(s[k]) = 1 + Len(ls[k])
                            /\ LabelAt(s[k], 1, ls[k])
  <2>1. /\ DOMAIN s = 1 .. n /\ s = [k \in 1 .. n |-> s[k]]
        /\ \A k \in 1 .. n : s[k] = <<Len(ls[k])>> \o ls[k]
    BY <1>1 DEF Pieces
  <2> HIDE DEF s, n
  <2>2. \A k \in 1 .. n : /\ s[k] \in Seq(Byte8) /\ Len(s[k]) = 1 + Len(ls[k])
                           /\ LabelAt(s[k], 1, ls[k])
    BY <1>1, <2>1, PieceIs
  <2> QED
    BY <1>1, <2>1, <2>2
<1> HIDE DEF n, s, z, w
<1>5. ASSUME NEW pos, w \in Seq(Byte8), Places(pos, ls, 0), Len(w) + 1 = pos[n + 1],
             \A k \in 1 .. n : LabelAt(w, pos[k], ls[k])
      PROVE  v \in Seq(Byte8) /\ Laid(v, pos, ls) /\ Len(v) = pos[n + 1]
  <2>1. Joined(v, w, z)
    BY <1>2, <1>3, <1>5, JoinBytes
  <2>2. \A k \in 1 .. n : LabelAt(v, pos[k], ls[k])
    BY <1>1, <1>5, <2>1, LabelStays
  <2>3. v[Len(w) + 1] = 0 /\ Len(v) = Len(w) + 1 /\ v \in Seq(Byte8)
    BY <1>3, <2>1 DEF Joined
  <2> QED
    BY <1>5, <2>2, <2>3 DEF Laid, n
<1>6. CASE n = 0
  <2> DEFINE pos == [k \in {1} |-> 1]
  <2>1. s = <<>>
    BY <1>4, <1>6
  <2>2. w = <<>>
    BY <1>4, <1>6, <2>1, Zenon DEF FlattenSeq, w
  <2>3. w \in Seq(Byte8) /\ Len(w) = 0
    BY <2>2
  <2>4. Places(pos, ls, 0) /\ pos[n + 1] = 1
    <3>1. 1 .. n + 1 = {1} /\ 1 .. n = {} /\ n + 1 = 1
      BY <1>6
    <3> QED
      BY <3>1 DEF Places, n
  <2>5. \A k \in 1 .. n : LabelAt(w, pos[k], ls[k])
    BY <1>6
  <2> HIDE DEF pos
  <2> QED
    BY <1>5, <2>3, <2>4, <2>5 DEF n
<1>7. CASE n # 0
  <2>1. PICK f : Runs(f, s, w)
    BY <1>4, <1>7, FlatIs DEF w
  <2> DEFINE pos == [k \in 1 .. n + 1 |-> IF k = 1 THEN 1 ELSE Len(f[k - 1]) + 1]
  <2>2. /\ f \in [1 .. n -> Seq(Byte8)] /\ f[1] = s[1] /\ f[n] = w
        /\ \A i \in 2 .. n : f[i] = f[i - 1] \o s[i]
        /\ \A i \in 1 .. n : f[i] \in Seq(Byte8) /\ Len(f[i]) \in Nat
    BY <1>4, <2>1, LenProperties DEF Runs
  <2>3. /\ pos \in [1 .. n + 1 -> Nat \ {0}] /\ pos[1] = 1
        /\ \A k \in 1 .. n : pos[k + 1] = Len(f[k]) + 1
    <3>1. ASSUME NEW k \in 1 .. n PROVE pos[k + 1] = Len(f[k]) + 1
      <4>1. k + 1 \in 1 .. n + 1 /\ k + 1 # 1 /\ (k + 1) - 1 = k
        BY <1>1
      <4> QED
        BY <4>1
    <3>2. \A k \in 1 .. n + 1 : k = 1 \/ (k - 1 \in 1 .. n)
      BY <1>1
    <3> QED
      BY <1>1, <2>2, <3>1, <3>2
  <2> HIDE DEF pos
  <2>4. ASSUME NEW i \in 1 .. n, i # 1 PROVE Joined(f[i], f[i - 1], s[i])
    <3>1. i \in 2 .. n /\ i - 1 \in 1 .. n
      BY <1>1, <2>4
    <3> QED
      BY <1>4, <2>2, <3>1, JoinBytes
  <2>5. \A k \in 1 .. n : pos[k + 1] = pos[k] + 1 + Len(ls[k])
    <3>1. ASSUME NEW k \in 1 .. n PROVE pos[k + 1] = pos[k] + 1 + Len(ls[k])
      <4>1. CASE k = 1
        <5>1. pos[k + 1] = Len(s[1]) + 1 /\ Len(s[1]) = 1 + Len(ls[1]) /\ Len(ls[1]) \in Nat
          BY <1>1, <1>4, <2>2, <2>3, <4>1
        <5> QED
          BY <2>3, <4>1, <5>1
      <4>2. CASE k # 1
        <5>1. k - 1 \in 1 .. n /\ (k - 1) + 1 = k
          BY <1>1, <4>2
        <5>2. pos[k] = Len(f[k - 1]) + 1 /\ pos[k + 1] = Len(f[k]) + 1
          BY <2>3, <5>1
        <5>3. Len(f[k]) = Len(f[k - 1]) + Len(s[k]) /\ Len(s[k]) = 1 + Len(ls[k])
          BY <1>4, <2>4, <4>2 DEF Joined
        <5>4. Len(f[k - 1]) \in Nat /\ Len(ls[k]) \in Nat
          BY <1>1, <2>2, <5>1
        <5> DEFINE x == Len(f[k - 1])
                   y == Len(ls[k])
        <5>5. x \in Nat /\ y \in Nat /\ pos[k] = x + 1 /\ pos[k + 1] = Len(f[k]) + 1
          BY <5>2, <5>4
        <5>6. Len(f[k]) = x + Len(s[k]) /\ Len(s[k]) = 1 + y
          BY <5>3
        <5> HIDE DEF x, y
        <5>7. pos[k + 1] = pos[k] + 1 + y
          BY ONLY <5>5, <5>6
        <5> QED
          BY <5>7 DEF y
      <4> QED
        BY <4>1, <4>2
    <3> QED
      BY <3>1
  <2>6. Places(pos, ls, 0)
    BY <2>3, <2>5 DEF Places, n
  <2> DEFINE T == {m \in 0 .. n : m # 0 => \A k \in 1 .. m : LabelAt(f[m], pos[k], ls[k])}
  <2>7. 0 \in T
    BY <1>1
  <2>8. ASSUME NEW m \in 0 .. n - 1, m \in T PROVE m + 1 \in T
    <3>1. m + 1 \in 1 .. n /\ m + 1 \in 0 .. n
      BY <1>1
    <3>2. LabelAt(f[m + 1], pos[m + 1], ls[m + 1])
      <4>1. CASE m = 0
        BY <1>1, <1>4, <2>2, <2>3, <3>1, <4>1
      <4>2. CASE m # 0
        <5>1. m \in 1 .. n /\ (m + 1) - 1 = m /\ m + 1 # 1
          BY <1>1, <4>2
        <5>2. Joined(f[m + 1], f[m], s[m + 1])
          BY <2>4, <3>1, <5>1
        <5>3. LabelAt(s[m + 1], 1, ls[m + 1]) /\ ls[m + 1] \in Seq(Byte8)
          BY <1>1, <1>4, <3>1
        <5>4. LabelAt(f[m + 1], Len(f[m]) + 1, ls[m + 1])
          BY <5>2, <5>3, LabelMoves
        <5>5. pos[m + 1] = Len(f[m]) + 1
          BY <2>3, <5>1
        <5> QED
          BY <5>4, <5>5
      <4> QED
        BY <4>1, <4>2
    <3>3. ASSUME NEW k \in 1 .. m PROVE LabelAt(f[m + 1], pos[k], ls[k])
      <4>1. m # 0 /\ m \in 1 .. n /\ (m + 1) - 1 = m /\ m + 1 # 1 /\ k \in 1 .. n
        BY <1>1
      <4>2. LabelAt(f[m], pos[k], ls[k])
        BY <2>8, <4>1
      <4>3. Joined(f[m + 1], f[m], s[m + 1])
        BY <2>4, <3>1, <4>1
      <4> QED
        BY <1>1, <4>1, <4>2, <4>3, LabelStays
    <3>4. \A k \in 1 .. m + 1 : k = m + 1 \/ k \in 1 .. m
      OBVIOUS
    <3> QED
      BY <3>1, <3>2, <3>3, <3>4
  <2> HIDE DEF T
  <2>9. n \in T
    <3>1. 0 .. n \subseteq T /\ n \in 0 .. n
      <4>1. \A k \in 0 .. n - 1 : k \in T => k + 1 \in T
        BY <2>8
      <4>2. n \in Nat /\ n \in 0 .. n
        BY <1>1
      <4>3. 0 .. n \subseteq T
        BY ONLY <2>7, <4>1, <4>2, UpTo
      <4> QED
        BY <4>2, <4>3
    <3> QED
      BY <3>1
  <2>10. \A k \in 1 .. n : LabelAt(w, pos[k], ls[k])
    BY <1>7, <2>2, <2>9 DEF T
  <2>11. w \in Seq(Byte8) /\ Len(w) + 1 = pos[n + 1]
    <3>1. n \in 1 .. n
      BY <1>1, <1>7
    <3> QED
      BY <2>2, <2>3, <3>1
  <2> QED
    BY <1>5, <2>6, <2>10, <2>11 DEF n
<1> QED
  BY <1>6, <1>7

\* The fixed part of the header.
Fixed(q) == <<1, 0, 0, 1, 0, 0, 0, 0, 0, IF q.extra = <<>> THEN 0 ELSE 1>>

\* What a message holds: its parts at their places, and its length.
Holds(m, q, pos) ==
  /\ m \in Seq(Byte8) /\ Places(pos, q.labels, 12) /\ Laid(m, pos, q.labels)
  /\ pos[Len(q.labels) + 1] = 12 + Len(Labels(q.labels))
  /\ Len(m) = pos[Len(q.labels) + 1] + 4 + Len(q.extra)
  /\ Value16(m, pos[Len(q.labels) + 1] + 1) = q.type
  /\ m[1] = Bytes16(q.id)[1] /\ m[2] = Bytes16(q.id)[2]
  /\ \A k \in 1 .. 10 : m[2 + k] = Fixed(q)[k]

Asks(q) ==
  q \in [id : 0 .. TwoTo16 - 1, labels : Seq(Label), type : 0 .. TwoTo16 - 1, extra : Seq(Byte8)]

\* The parts of a question, one by one.
LEMMA AsksOf ==
  ASSUME NEW q, Asks(q)
  PROVE  /\ q.id \in Nat /\ q.id < TwoTo16 /\ q.type \in Nat /\ q.type < TwoTo16
         /\ Labelled(q.labels) /\ q.extra \in Seq(Byte8)
<1>1. TwoTo16 \in Nat
  BY Word
<1> QED
  BY <1>1 DEF Asks, Labelled

\* Ten bytes.
LEMMA FixedIs == ASSUME NEW q PROVE Fixed(q) \in Seq(Byte8) /\ Len(Fixed(q)) = 10
BY DEF Fixed, Byte8

\* A message holds its identifier, its labels and its type at their places.
LEMMA MessageIs ==
  ASSUME NEW q, Asks(q), NEW m, m = Message(q)
  PROVE  \E pos : Holds(m, q, pos)
<1> DEFINE ls == q.labels
           n == Len(ls)
           i == Bytes16(q.id)
           a == Fixed(q)
           h == i \o a
           l == Labels(ls)
           t == Bytes16(q.type)
           c == <<0, 1>>
           v == h \o l \o t \o c
           x == q.extra
<1>1. /\ i \in Seq(Byte8) /\ Len(i) = 2 /\ t \in Seq(Byte8) /\ Len(t) = 2
      /\ 256 * t[1] + t[2] = q.type
  BY AsksOf, SixteenBits
<1>2. a \in Seq(Byte8) /\ Len(a) = 10
  BY FixedIs
<1>3. c \in Seq(Byte8) /\ Len(c) = 2
  BY DEF Byte8
<1>4. PICK p : l \in Seq(Byte8) /\ Places(p, ls, 0) /\ Laid(l, p, ls) /\ Len(l) = p[n + 1]
  BY AsksOf, LabelsLaid
<1>5. m = v \o x /\ h = i \o a /\ v = h \o l \o t \o c /\ x \in Seq(Byte8)
  BY AsksOf, Zenon DEF Message, Fixed
<1>6. /\ n \in Nat /\ \A k \in 1 .. n : ls[k] \in Seq(Byte8) /\ Len(ls[k]) \in 1 .. 63
      /\ Len(x) \in Nat
  BY <1>5, AsksOf, Lengths63, LenProperties
<1> HIDE DEF n, i, a, h, l, t, c, v, x, ls
<1>7. Joined(h, i, a)
  BY <1>1, <1>2, <1>5, JoinBytes
<1>8. /\ h \in Seq(Byte8) /\ Len(h) = 12 /\ h[1] = i[1] /\ h[2] = i[2]
      /\ \A k \in 1 .. 10 : h[2 + k] = a[k]
  <2>1. 1 \in 1 .. Len(i) /\ 2 \in 1 .. Len(i)
    BY <1>1
  <2> QED
    BY <1>1, <1>2, <1>7, <2>1 DEF Joined
<1>9. FourParts(v, h, l, t, c)
  BY <1>1, <1>3, <1>4, <1>5, <1>8, JoinFour
<1>10. Joined(m, v, x)
  <2>1. v \in Seq(Byte8)
    BY <1>9 DEF FourParts
  <2> QED
    BY <1>5, <2>1, JoinBytes
<1>11. /\ Len(l) \in Nat /\ Len(v) = 12 + Len(l) + 4 /\ m \in Seq(Byte8)
       /\ Len(m) = 12 + Len(l) + 4 + Len(x)
       /\ \A k \in 1 .. Len(v) : m[k] = v[k]
  <2>1. Len(l) \in Nat
    BY <1>4, LenProperties
  <2>2. Len(v) = Len(h) + Len(l) + Len(t) + Len(c)
    BY <1>9 DEF FourParts
  <2>3. Len(m) = Len(v) + Len(x) /\ m \in Seq(Byte8) /\ \A k \in 1 .. Len(v) : m[k] = v[k]
    BY <1>10 DEF Joined
  <2> QED
    BY <1>1, <1>3, <1>6, <1>8, <2>1, <2>2, <2>3
<1>12. ASSUME NEW k \in 1 .. Len(l) PROVE m[12 + k] = l[k]
  <2> DEFINE y == Part(v, 13, Len(l))
  <2>1. y = l
    BY <1>8, <1>9 DEF FourParts
  <2>2. IsPart(y, v, 13, Len(l))
    <3>1. 13 \in Nat /\ 13 >= 1 /\ 13 + Len(l) <= Len(v) + 1 /\ v \in Seq(Byte8)
      BY <1>9, <1>11 DEF FourParts
    <3> QED
      BY <1>11, <3>1, PartFacts
  <2> HIDE DEF y
  <2>3. 13 + k - 1 = 12 + k /\ 12 + k \in 1 .. Len(v)
    BY <1>11
  <2>4. y[k] = v[13 + k - 1]
    BY <2>2 DEF IsPart
  <2> QED
    BY <1>11, <2>1, <2>3, <2>4
<1>13. Value16(m, 12 + Len(l) + 1) = q.type
  <2>1. /\ 1 \in 1 .. Len(t) /\ 2 \in 1 .. Len(t)
        /\ Len(h) + Len(l) + 1 = 12 + Len(l) + 1 /\ Len(h) + Len(l) + 2 = (12 + Len(l) + 1) + 1
        /\ 12 + Len(l) + 1 \in 1 .. Len(v) /\ (12 + Len(l) + 1) + 1 \in 1 .. Len(v)
    BY <1>1, <1>8, <1>11
  <2>2. v[12 + Len(l) + 1] = t[1] /\ v[(12 + Len(l) + 1) + 1] = t[2]
    BY <1>9, <2>1 DEF FourParts
  <2>3. m[12 + Len(l) + 1] = t[1] /\ m[(12 + Len(l) + 1) + 1] = t[2]
    BY <1>11, <2>1, <2>2
  <2> QED
    BY <1>1, <2>3 DEF Value16
<1>14. /\ m[1] = i[1] /\ m[2] = i[2]
       /\ \A k \in 1 .. 10 : m[2 + k] = a[k]
  <2>1. /\ 1 \in 1 .. Len(h) /\ 2 \in 1 .. Len(h) /\ 1 \in 1 .. Len(v) /\ 2 \in 1 .. Len(v)
        /\ \A k \in 1 .. 10 : 2 + k \in 1 .. Len(h) /\ 2 + k \in 1 .. Len(v)
    BY <1>8, <1>11
  <2>2. \A k \in 1 .. Len(h) : k \in 1 .. Len(v) => m[k] = h[k]
    BY <1>9, <1>11 DEF FourParts
  <2> QED
    BY <1>8, <2>1, <2>2
<1> DEFINE pos == [k \in 1 .. n + 1 |-> 12 + p[k]]
<1>15. /\ p \in [1 .. n + 1 -> Nat \ {0}] /\ p[1] = 1
       /\ \A k \in 1 .. n : p[k + 1] = p[k] + 1 + Len(ls[k])
  BY <1>4 DEF Places, n
<1>16. Places(pos, ls, 12)
  <2>1. pos \in [1 .. n + 1 -> Nat \ {0}] /\ pos[1] = 13 /\ \A k \in 1 .. n + 1 : pos[k] = 12 + p[k]
    <3>1. 1 \in 1 .. n + 1
      BY <1>6
    <3> QED
      BY <1>15, <3>1
  <2>2. ASSUME NEW k \in 1 .. n PROVE pos[k + 1] = pos[k] + 1 + Len(ls[k])
    <3>1. k \in 1 .. n + 1 /\ k + 1 \in 1 .. n + 1
      BY <1>6
    <3>2. pos[k] = 12 + p[k] /\ pos[k + 1] = 12 + p[k + 1] /\ p[k + 1] = p[k] + 1 + Len(ls[k])
      BY <1>15, <2>1, <3>1
    <3>3. p[k] \in Nat /\ Len(ls[k]) \in Nat
      BY <1>6, <1>15, <3>1
    <3> HIDE DEF pos
    <3> QED
      BY <3>2, <3>3
  <2> HIDE DEF pos
  <2> QED
    BY <2>1, <2>2 DEF Places, n
<1>17. \A k \in 1 .. n + 1 : pos[k] = 12 + p[k]
  OBVIOUS
<1> HIDE DEF pos
<1>18. ASSUME NEW k \in 1 .. n PROVE LabelAt(m, pos[k], ls[k])
  <2>1. LabelAt(l, p[k], ls[k]) /\ k \in 1 .. n + 1
    BY <1>4, <1>6 DEF Laid, n
  <2>2. /\ p[k] \in Nat \ {0} /\ p[k] + Len(ls[k]) <= Len(l) /\ l[p[k]] = Len(ls[k])
        /\ \A j \in 1 .. Len(ls[k]) : l[p[k] + j] = ls[k][j]
    BY <2>1 DEF LabelAt
  <2>3. pos[k] = 12 + p[k] /\ Len(ls[k]) \in Nat
    BY <1>6, <1>17, <2>1
  <2>7. p[k] \in 1 .. Len(l) /\ p[k] \in Nat /\ p[k] + Len(ls[k]) <= Len(l)
    <3> DEFINE y == p[k]
               z == Len(ls[k])
    <3>1. y \in Nat \ {0} /\ z \in Nat /\ y + z <= Len(l) /\ Len(l) \in Nat
      BY <1>11, <2>2, <2>3
    <3> HIDE DEF y, z
    <3>2. y \in 1 .. Len(l) /\ y \in Nat /\ y + z <= Len(l)
      BY ONLY <3>1
    <3> QED
      BY ONLY <3>2 DEF y, z
  <2>4. m[12 + p[k]] = Len(ls[k])
    <3>1. p[k] \in 1 .. Len(l)
      BY ONLY <2>7
    <3> QED
      BY <1>12, <2>2, <3>1
  <2>5. ASSUME NEW j \in 1 .. Len(ls[k]) PROVE m[(12 + p[k]) + j] = ls[k][j]
    <3>1. p[k] + j \in 1 .. Len(l) /\ (12 + p[k]) + j = 12 + (p[k] + j)
      <4> DEFINE y == p[k]
                 z == Len(ls[k])
      <4>1. y \in Nat \ {0} /\ z \in Nat /\ y + z <= Len(l) /\ j \in 1 .. z /\ Len(l) \in Nat
        BY <1>11, <2>2, <2>3
      <4> HIDE DEF y, z
      <4>2. y + j \in 1 .. Len(l) /\ (12 + y) + j = 12 + (y + j)
        BY ONLY <4>1
      <4> QED
        BY <4>2 DEF y
    <3>2. m[12 + (p[k] + j)] = l[p[k] + j] /\ l[p[k] + j] = ls[k][j]
      BY <1>12, <2>2, <3>1
    <3> QED
      BY ONLY <3>1, <3>2, Zenon
  <2>6. (12 + p[k]) + Len(ls[k]) <= Len(m) /\ 12 + p[k] \in Nat \ {0}
    <3> DEFINE y == p[k]
               z == Len(ls[k])
    <3>1. /\ y \in Nat \ {0} /\ z \in Nat /\ y + z <= Len(l) /\ Len(l) \in Nat
          /\ 12 + Len(l) <= Len(m) /\ Len(m) \in Nat
      BY <1>11, <2>2, <2>3
    <3> HIDE DEF y, z
    <3>2. (12 + y) + z <= Len(m) /\ 12 + y \in Nat \ {0}
      BY ONLY <3>1
    <3> QED
      BY ONLY <3>2 DEF y, z
  <2> QED
    BY <2>3, <2>4, <2>5, <2>6 DEF LabelAt
<1>19. pos[n + 1] = 12 + Len(l) /\ m[pos[n + 1]] = 0
  <2>1. n + 1 \in 1 .. n + 1 /\ p[n + 1] \in 1 .. Len(l)
    BY <1>4, <1>6, <1>11, <1>15
  <2>2. pos[n + 1] = 12 + p[n + 1] /\ p[n + 1] = Len(l)
    BY <1>4, <1>17, <2>1
  <2>3. l[p[n + 1]] = 0 /\ m[12 + p[n + 1]] = l[p[n + 1]]
    BY <1>4, <1>12, <2>1 DEF Laid, n
  <2> QED
    BY <2>2, <2>3
<1>20. Laid(m, pos, ls)
  BY <1>18, <1>19 DEF Laid, n
<1>21. Holds(m, q, pos)
  <2>1. Len(m) = pos[n + 1] + 4 + Len(x) /\ Value16(m, pos[n + 1] + 1) = q.type
    BY <1>11, <1>13, <1>19
  <2> QED
    BY <1>11, <1>14, <1>16, <1>19, <1>20, <2>1 DEF Holds, n, ls, l, x, i, a
<1> QED
  BY <1>21

\* b is m, or what is left of it when it is cut.
CutOf(b, m) == b \in Seq(Byte8) /\ Len(b) <= Len(m) /\ \A i \in 1 .. Len(b) : b[i] = m[i]

\* Every label begins before the root label.
LEMMA PlacesGrow ==
  ASSUME NEW pos, NEW ls, NEW o \in Nat, Labelled(ls), Places(pos, ls, o)
  PROVE  \A k \in 1 .. Len(ls) + 1 : pos[k] \in Nat \ {0} /\ pos[k] <= pos[Len(ls) + 1]
<1> DEFINE n == Len(ls)
           T == {d \in 0 .. n : pos[n + 1 - d] <= pos[n + 1]}
<1>1. /\ n \in Nat /\ pos \in [1 .. n + 1 -> Nat \ {0}]
      /\ \A k \in 1 .. n : pos[k + 1] = pos[k] + 1 + Len(ls[k]) /\ Len(ls[k]) \in Nat
  BY Lengths63 DEF Places
<1> HIDE DEF n
<1>2. \A k \in 1 .. n + 1 : pos[k] \in Nat \ {0}
  BY <1>1
<1>3. 0 \in T
  <2>1. n + 1 - 0 = n + 1 /\ n + 1 \in 1 .. n + 1
    BY <1>1
  <2>2. pos[n + 1] \in Nat
    BY <1>2, <2>1
  <2> QED
    BY <1>1, <2>1, <2>2
<1>4. ASSUME NEW d \in 0 .. n - 1, d \in T PROVE d + 1 \in T
  <2> DEFINE k == n - d
             x == pos[k]
             y == Len(ls[k])
             z == pos[n + 1]
  <2>1. k \in 1 .. n /\ k \in 1 .. n + 1 /\ n + 1 \in 1 .. n + 1
        /\ n + 1 - d = k + 1 /\ n + 1 - (d + 1) = k
    BY <1>1
  <2>2. x \in Nat /\ y \in Nat /\ z \in Nat
    BY <1>1, <1>2, <2>1
  <2>3. pos[k + 1] = x + 1 + y /\ pos[k + 1] <= z
    BY <1>1, <1>4, <2>1
  <2>6. d + 1 \in 0 .. n
    BY <1>1
  <2> HIDE DEF k, x, y, z
  <2>4. x <= z
    BY ONLY <2>2, <2>3
  <2>5. pos[n + 1 - (d + 1)] <= pos[n + 1]
    BY ONLY <2>1, <2>4, Zenon DEF x, z
  <2> QED
    BY ONLY <2>5, <2>6
<1> HIDE DEF T
<1>5. 0 .. n \subseteq T
  <2>1. \A d \in 0 .. n - 1 : d \in T => d + 1 \in T
    BY <1>4
  <2> QED
    BY ONLY <1>1, <1>3, <2>1, UpTo
<1>6. ASSUME NEW k \in 1 .. n + 1 PROVE pos[k] <= pos[n + 1]
  <2>1. n + 1 - k \in 0 .. n /\ n + 1 - (n + 1 - k) = k
    BY <1>1
  <2>2. n + 1 - k \in T
    BY <1>5, <2>1
  <2> QED
    BY <2>1, <2>2 DEF T
<1> QED
  BY <1>2, <1>6 DEF n

\* One element before a sequence.
LEMMA PutOne ==
  ASSUME NEW S, NEW x \in S, NEW t \in Seq(S), NEW v, v = <<x>> \o t
  PROVE  v \in Seq(S) /\ Len(v) = Len(t) + 1 /\ v[1] = x /\ \A i \in 1 .. Len(t) : v[1 + i] = t[i]
<1> DEFINE s == <<x>>
<1>1. s \in Seq(S) /\ Len(s) = 1 /\ s[1] = x
  OBVIOUS
<1>2. v = s \o t
  OBVIOUS
<1> HIDE DEF s
<1>3. /\ v \in Seq(S) /\ Len(v) = Len(s) + Len(t) /\ Len(t) \in Nat
      /\ \A i \in 1 .. Len(s) : v[i] = s[i]
      /\ \A i \in 1 .. Len(t) : v[Len(s) + i] = t[i]
  BY <1>1, <1>2, JoinFacts
<1> QED
  BY <1>1, <1>3

\* A place before the others.
LEMMA ConsPlaces ==
  ASSUME NEW x \in Nat, NEW d \in Nat, NEW t \in [1 .. d -> Nat], NEW u \in [1 .. d + 1 -> Nat],
         u[1] = x, \A j \in 1 .. d : u[j + 1] = t[j]
  PROVE  <<x>> \o t = u
<1> DEFINE v == <<x>> \o t
<1>1. t \in Seq(Nat) /\ Len(t) = d
  OBVIOUS
<1>2. u \in Seq(Nat) /\ Len(u) = d + 1
  OBVIOUS
<1> HIDE DEF v
<1>3. v \in Seq(Nat) /\ Len(v) = Len(t) + 1 /\ v[1] = x /\ \A i \in 1 .. Len(t) : v[1 + i] = t[i]
  <2>1. v = <<x>> \o t
    BY DEF v
  <2> QED
    BY ONLY x \in Nat, <1>1, <2>1, PutOne
<1>4. ASSUME NEW i \in 1 .. d + 1 PROVE v[i] = u[i]
  <2>1. CASE i = 1
    BY <1>3, <2>1
  <2>2. CASE i # 1
    <3> DEFINE j == i - 1
    <3>1. j \in 1 .. d /\ i = 1 + j /\ i = j + 1
      BY <2>2
    <3> HIDE DEF j
    <3>2. v[1 + j] = t[j] /\ u[j + 1] = t[j]
      BY <1>1, <1>3, <3>1
    <3> QED
      BY ONLY <3>1, <3>2, Zenon
  <2> QED
    BY <2>1, <2>2
<1>5. v = u
  <2>1. Len(v) = Len(u)
    BY <1>1, <1>2, <1>3
  <2>2. \A i \in 1 .. Len(u) : v[i] = u[i]
    BY <1>2, <1>4
  <2> QED
    BY ONLY <1>2, <1>3, <2>1, <2>2, SeqEqual
<1> QED
  BY <1>5 DEF v

\* What the places and the bytes of a question give the walk, label by label.
Row(b, pos, ls, k) ==
  /\ pos[k] \in Nat \ {0} /\ pos[k + 1] = pos[k] + 1 + Len(ls[k]) /\ Len(ls[k]) \in 1 .. 63
  /\ pos[k] <= Len(b) => b[pos[k]] = Len(ls[k])

\* A message, complete or cut, gives the walk a row for each label that is left.
LEMMA Around ==
  ASSUME NEW q, Asks(q), NEW m, NEW pos, Holds(m, q, pos), NEW b, CutOf(b, m)
  PROVE  /\ Len(q.labels) \in Nat /\ Len(b) \in Nat /\ b \in Seq(Byte8)
         /\ \A k \in 1 .. Len(q.labels) + 1 :
              pos[k] \in Nat \ {0} /\ pos[k] <= pos[Len(q.labels) + 1]
         /\ pos[1] = 13 /\ \A k \in 1 .. Len(q.labels) : Row(b, pos, q.labels, k)
         /\ pos[Len(q.labels) + 1] <= Len(b) => b[pos[Len(q.labels) + 1]] = 0
<1> DEFINE n == Len(q.labels)
<1>1. /\ Labelled(q.labels) /\ Places(pos, q.labels, 12) /\ Laid(m, pos, q.labels)
      /\ b \in Seq(Byte8) /\ Len(b) \in Nat /\ \A i \in 1 .. Len(b) : b[i] = m[i]
  BY AsksOf, LenProperties DEF Holds, CutOf
<1>2. n \in Nat /\ \A k \in 1 .. n : Len(q.labels[k]) \in 1 .. 63
  BY <1>1, Lengths63
<1>3. \A k \in 1 .. n + 1 : pos[k] \in Nat \ {0} /\ pos[k] <= pos[n + 1]
  BY <1>1, PlacesGrow
<1>4. pos[1] = 13 /\ \A k \in 1 .. n : pos[k + 1] = pos[k] + 1 + Len(q.labels[k])
  BY <1>1 DEF Places
<1>5. m[pos[n + 1]] = 0 /\ \A k \in 1 .. n : m[pos[k]] = Len(q.labels[k])
  BY <1>1 DEF Laid, LabelAt
<1> HIDE DEF n
<1>6. ASSUME NEW k \in 1 .. n + 1, pos[k] <= Len(b) PROVE b[pos[k]] = m[pos[k]]
  <2>1. pos[k] \in 1 .. Len(b)
    BY <1>1, <1>3, <1>6
  <2> QED
    BY <1>1, <2>1
<1>7. n + 1 \in 1 .. n + 1 /\ \A k \in 1 .. n : k \in 1 .. n + 1
  BY <1>2
<1> QED
  BY <1>1, <1>2, <1>3, <1>4, <1>5, <1>6, <1>7 DEF n, Row

\* Where the labels begin.
Starts(pos, n) == [k \in 1 .. n |-> pos[k]]

\* A walk over a whole question finds every label and the root.
LEMMA WalkWhole ==
  ASSUME NEW q, Asks(q), NEW m, NEW pos, Holds(m, q, pos), NEW b, CutOf(b, m),
         pos[Len(q.labels) + 1] <= Len(b)
  PROVE  Walk(b) = [at   |-> Starts(pos, Len(q.labels)),
                    end  |-> pos[Len(q.labels) + 1] + 1,
                    root |-> TRUE]
<1> DEFINE n == Len(q.labels)
           e == pos[n + 1]
           At(d) == [j \in 1 .. d |-> pos[n - d + j]]
<1>0. /\ n \in Nat /\ Len(b) \in Nat /\ b \in Seq(Byte8)
      /\ \A k \in 1 .. n + 1 : pos[k] \in Nat \ {0} /\ pos[k] <= e
      /\ pos[1] = 13 /\ e <= Len(b) /\ (e <= Len(b) => b[e] = 0)
      /\ \A k \in 1 .. n : Row(b, pos, q.labels, k)
  BY Around
<1> HIDE DEF n, e
<1>1. /\ n \in Nat /\ Len(b) \in Nat /\ b \in Seq(Byte8)
      /\ \A k \in 1 .. n + 1 : pos[k] \in Nat \ {0} /\ pos[k] <= Len(b)
      /\ pos[1] = 13 /\ b[e] = 0 /\ e \in Nat \ {0} /\ e <= Len(b)
  <2>1. n + 1 \in 1 .. n + 1
    BY <1>0
  <2>2. e \in Nat \ {0}
    BY <1>0, <2>1 DEF e
  <2> QED
    BY <1>0, <2>2
<1>2. PICK g : Walk(b) = g[13] /\ Walks(b, g)
  BY <1>1, WalkIs
<1>3. ASSUME NEW i \in Nat \ {0}, i <= Len(b) PROVE g[i] = Step(b, g, i)
  <2>1. i \in 1 .. Len(b) + 256
    BY <1>1, <1>3
  <2> QED
    BY <1>2, <2>1 DEF Walks
<1> DEFINE T == {d \in 0 .. n : g[pos[n + 1 - d]] = [at |-> At(d), end |-> e + 1, root |-> TRUE]}
<1>4. 0 \in T
  <2>1. n + 1 - 0 = n + 1 /\ At(0) = <<>> /\ 0 \in 0 .. n
    BY <1>1
  <2>2. g[e] = [at |-> <<>>, end |-> e + 1, root |-> TRUE]
    <3>1. ~ (e > Len(b))
      BY <1>1
    <3> QED
      BY <1>1, <1>3, <3>1, Zenon DEF Step
  <2> QED
    BY <2>1, <2>2 DEF e
<1>5. ASSUME NEW d \in 0 .. n - 1, d \in T PROVE d + 1 \in T
  <2> DEFINE k == n - d
             x == pos[k]
             y == Len(q.labels[k])
             w == g[pos[k + 1]]
  <2>1. /\ k \in 1 .. n /\ k \in 1 .. n + 1 /\ d + 1 \in 0 .. n
        /\ n + 1 - d = k + 1 /\ n + 1 - (d + 1) = k
    BY <1>1
  <2>2. x \in Nat \ {0} /\ x <= Len(b) /\ b[x] = y /\ y \in 1 .. 63 /\ pos[k + 1] = x + 1 + y
    <3>1. Row(b, pos, q.labels, k) /\ pos[k] <= Len(b)
      BY <1>0, <1>1, <2>1
    <3> HIDE DEF k
    <3> QED
      BY ONLY <3>1 DEF Row, x, y
  <2>3. w = [at |-> At(d), end |-> e + 1, root |-> TRUE]
    BY <1>5, <2>1
  <2>4. g[x] = [at |-> <<x>> \o w.at, end |-> w.end, root |-> w.root]
    <3> HIDE DEF x, y
    <3>1. ~ (x > Len(b)) /\ y # 0
      <4>1. x \in Nat /\ x <= Len(b) /\ Len(b) \in Nat /\ y \in 1 .. 63
        BY <1>1, <2>2
      <4> QED
        BY ONLY <4>1
    <3>2. g[x] = Step(b, g, x) /\ x + 1 + b[x] = pos[k + 1]
      BY <1>3, <2>2
    <3> QED
      BY <2>2, <3>1, <3>2, Zenon DEF Step
  <2>5. <<x>> \o At(d) = At(d + 1)
    <3> DEFINE t == At(d)
               u == At(d + 1)
    <3>1. t \in [1 .. d -> Nat]
      <4>1. \A j \in 1 .. d : n - d + j \in 1 .. n + 1
        BY <1>1
      <4> QED
        BY <1>1, <4>1
    <3>2. u \in [1 .. d + 1 -> Nat]
      <4>1. \A j \in 1 .. d + 1 : n - (d + 1) + j \in 1 .. n + 1
        BY <1>1
      <4> QED
        BY <1>1, <4>1
    <3>3. u[1] = x
      <4>1. 1 \in 1 .. d + 1 /\ n - (d + 1) + 1 = k
        BY <1>1
      <4> QED
        BY <4>1
    <3>4. \A j \in 1 .. d : u[j + 1] = t[j]
      <4>1. \A j \in 1 .. d : j + 1 \in 1 .. d + 1 /\ n - (d + 1) + (j + 1) = n - d + j
        BY <1>1
      <4> QED
        BY <4>1
    <3> HIDE DEF t, u, x
    <3>5. <<x>> \o t = u
      <4>1. x \in Nat /\ d \in Nat
        BY <2>2
      <4> QED
        BY <4>1, <3>1, <3>2, <3>3, <3>4, ConsPlaces
    <3> QED
      BY <3>5 DEF t, u
  <2> HIDE DEF At, w
  <2>6. g[x] = [at |-> At(d + 1), end |-> e + 1, root |-> TRUE]
    BY <2>3, <2>4, <2>5
  <2> QED
    BY <2>1, <2>6
<1> HIDE DEF T
<1>6. n \in T
  <2>1. \A d \in 0 .. n - 1 : d \in T => d + 1 \in T
    BY <1>5
  <2>2. n \in Nat /\ n \in 0 .. n
    BY <1>1
  <2>3. 0 .. n \subseteq T
    BY ONLY <1>4, <2>1, <2>2, UpTo
  <2> QED
    BY <2>2, <2>3
<1>7. At(n) = Starts(pos, n)
  <2>1. \A j \in 1 .. n : n - n + j = j
    BY <1>1
  <2> QED
    BY <2>1 DEF Starts
<1> HIDE DEF At
<1>8. g[pos[n + 1 - n]] = [at |-> At(n), end |-> e + 1, root |-> TRUE] /\ n + 1 - n = 1
  BY <1>1, <1>6 DEF T
<1>9. Walk(b) = [at |-> Starts(pos, n), end |-> e + 1, root |-> TRUE]
  BY <1>1, <1>2, <1>7, <1>8
<1> QED
  BY <1>9 DEF n, e

\* c labels from the i-th on, and a walk that meets the end of the bytes behind them.
Chain(pos, i, c) == [j \in 1 .. c |-> pos[i - 1 + j]]
Stops(b, pos, i, c, w) ==
  /\ w = [at |-> Chain(pos, i, c), end |-> pos[i + c], root |-> FALSE]
  /\ pos[i + c] > Len(b)
  /\ \A j \in i .. i + c - 1 : pos[j] <= Len(b)

\* A walk that begins behind the bytes stops there.
LEMMA StopsAtOnce ==
  ASSUME NEW b, NEW pos, NEW i \in Nat \ {0}, pos[i] > Len(b),
         NEW w, w = [at |-> <<>>, end |-> pos[i], root |-> FALSE]
  PROVE  Stops(b, pos, i, 0, w)
<1>1. Chain(pos, i, 0) = <<>> /\ i + 0 = i /\ i .. i + 0 - 1 = {}
  BY DEF Chain
<1> QED
  BY <1>1, Zenon DEF Stops

\* A label more before the others.
LEMMA StopsBefore ==
  ASSUME NEW b, NEW pos, NEW i \in Nat \ {0}, NEW c \in Nat, NEW w, Stops(b, pos, i + 1, c, w),
         \A j \in i .. i + c : pos[j] \in Nat, pos[i] <= Len(b),
         NEW v, v = [at |-> <<pos[i]>> \o w.at, end |-> w.end, root |-> w.root]
  PROVE  Stops(b, pos, i, c + 1, v)
<1> DEFINE x == pos[i]
           t == Chain(pos, i + 1, c)
           u == Chain(pos, i, c + 1)
<1>1. w = [at |-> t, end |-> pos[(i + 1) + c], root |-> FALSE]
  BY DEF Stops
<1>2. (i + 1) + c = i + (c + 1)
  OBVIOUS
<1>3. <<x>> \o t = u
  <2>1. \A j \in 1 .. c : (i + 1) - 1 + j \in i .. i + c
    OBVIOUS
  <2>2. t \in [1 .. c -> Nat]
    BY <2>1 DEF Chain
  <2>3. \A j \in 1 .. c + 1 : i - 1 + j \in i .. i + c
    OBVIOUS
  <2>4. u \in [1 .. c + 1 -> Nat]
    BY <2>3 DEF Chain
  <2>5. 1 \in 1 .. c + 1 /\ i - 1 + 1 = i /\ i \in i .. i + c
    OBVIOUS
  <2>6. u[1] = x /\ x \in Nat
    BY <2>5 DEF Chain
  <2>7. \A j \in 1 .. c : j + 1 \in 1 .. c + 1 /\ i - 1 + (j + 1) = (i + 1) - 1 + j
    OBVIOUS
  <2>8. \A j \in 1 .. c : u[j + 1] = t[j]
    BY <2>7 DEF Chain
  <2> HIDE DEF t, u, x
  <2> QED
    BY <2>2, <2>4, <2>6, <2>8, ConsPlaces
<1>4. v = [at |-> u, end |-> pos[i + (c + 1)], root |-> FALSE]
  <2> HIDE DEF t, u
  <2> QED
    BY <1>1, <1>2, <1>3
<1>5. pos[i + (c + 1)] > Len(b)
  BY <1>2 DEF Stops
<1>6. \A j \in i .. i + (c + 1) - 1 : pos[j] <= Len(b)
  <2>1. \A j \in i .. i + (c + 1) - 1 : j = i \/ j \in i + 1 .. (i + 1) + c - 1
    OBVIOUS
  <2>2. \A j \in i + 1 .. (i + 1) + c - 1 : pos[j] <= Len(b)
    BY DEF Stops
  <2> QED
    BY <2>1, <2>2
<1> QED
  BY <1>4, <1>5, <1>6, Zenon DEF Stops

\* A walk over a question that is cut before its root label meets its first labels, and the cut.
LEMMA WalkCut ==
  ASSUME NEW q, Asks(q), NEW m, NEW pos, Holds(m, q, pos), NEW b, CutOf(b, m),
         Len(b) < pos[Len(q.labels) + 1]
  PROVE  \E c \in 0 .. Len(q.labels) : Stops(b, pos, 1, c, Walk(b))
<1> DEFINE n == Len(q.labels)
           e == pos[n + 1]
           z == Len(b)
<1>1. /\ n \in Nat /\ z \in Nat /\ b \in Seq(Byte8) /\ z < e
      /\ \A k \in 1 .. n + 1 : pos[k] \in Nat \ {0}
      /\ pos[1] = 13 /\ \A k \in 1 .. n : Row(b, pos, q.labels, k)
  BY Around
<1> HIDE DEF n
<1>2. PICK g : Walk(b) = g[13] /\ Walks(b, g)
  BY <1>1, WalkIs
<1>3. ASSUME NEW i \in Nat \ {0}, i <= z + 64 PROVE g[i] = Step(b, g, i)
  <2>1. i \in 1 .. Len(b) + 256
    BY <1>1, <1>3
  <2> QED
    BY <1>2, <2>1 DEF Walks
<1> HIDE DEF z
<1>4. ASSUME NEW k \in 1 .. n + 1, pos[k] <= z + 64, pos[k] > z
      PROVE  Stops(b, pos, k, 0, g[pos[k]])
  <2>1. g[pos[k]] = Step(b, g, pos[k])
    BY <1>1, <1>3, <1>4
  <2>2. g[pos[k]] = [at |-> <<>>, end |-> pos[k], root |-> FALSE]
    BY <1>4, <2>1, Zenon DEF Step, z
  <2>3. k \in Nat \ {0} /\ pos[k] > Len(b)
    BY <1>1, <1>4 DEF z
  <2> QED
    BY <2>2, <2>3, StopsAtOnce
<1> DEFINE T == {d \in 0 .. n : pos[n + 1 - d] <= z + 64 =>
                  \E c \in 0 .. d : Stops(b, pos, n + 1 - d, c, g[pos[n + 1 - d]])}
<1>5. 0 \in T
  <2>1. n + 1 - 0 = n + 1 /\ n + 1 \in 1 .. n + 1 /\ 0 \in 0 .. n /\ 0 \in 0 .. 0
    BY <1>1
  <2>2. e \in Nat \ {0} /\ e > z
    BY <1>1, <2>1
  <2>3. e <= z + 64 => Stops(b, pos, n + 1, 0, g[e])
    BY <1>4, <2>1, <2>2
  <2> HIDE DEF e
  <2> QED
    BY <2>1, <2>3 DEF e
<1>6. ASSUME NEW d \in 0 .. n - 1, d \in T PROVE d + 1 \in T
  <2> DEFINE k == n - d
             x == pos[k]
             y == Len(q.labels[k])
             w == g[pos[k + 1]]
  <2>1. /\ k \in 1 .. n /\ k \in 1 .. n + 1 /\ d + 1 \in 0 .. n
        /\ n + 1 - d = k + 1 /\ n + 1 - (d + 1) = k
    BY <1>1
  <2>2. x \in Nat \ {0} /\ (x <= z => b[x] = y) /\ y \in 1 .. 63 /\ pos[k + 1] = x + 1 + y
    <3>1. Row(b, pos, q.labels, k)
      BY <1>1, <2>1
    <3> HIDE DEF k
    <3> QED
      BY ONLY <3>1 DEF Row, x, y, z
  <2>3. ASSUME x > z, x <= z + 64 PROVE \E c \in 0 .. d + 1 : Stops(b, pos, k, c, g[x])
    <3>1. Stops(b, pos, k, 0, g[x])
      BY <1>4, <2>1, <2>3
    <3>2. 0 \in 0 .. d + 1
      OBVIOUS
    <3> HIDE DEF k, x
    <3> QED
      BY <3>1, <3>2
  <2>4. ASSUME x <= z PROVE \E c \in 0 .. d + 1 : Stops(b, pos, k, c, g[x])
    <3>0. ~ (x > z) /\ y # 0 /\ x <= z + 64 /\ x + 1 + y <= z + 64
      <4> HIDE DEF x, y
      <4> QED
        BY <1>1, <2>2, <2>4
    <3>1. pos[k + 1] <= z + 64
      BY <2>2, <3>0
    <3>2. \E c \in 0 .. d : Stops(b, pos, k + 1, c, w)
      BY <1>6, <2>1, <3>1
    <3>3. PICK c \in 0 .. d : Stops(b, pos, k + 1, c, w)
      BY <3>2
    <3>4. g[x] = Step(b, g, x) /\ x + 1 + b[x] = pos[k + 1]
      BY <1>3, <2>2, <2>4, <3>0
    <3> HIDE DEF x, y
    <3>5. g[x] = [at |-> <<x>> \o w.at, end |-> w.end, root |-> w.root]
      BY <2>2, <2>4, <3>0, <3>4, Zenon DEF Step, z
    <3>6. /\ k \in Nat \ {0} /\ c \in Nat /\ c + 1 \in 0 .. d + 1
          /\ \A j \in k .. k + c : j \in 1 .. n + 1
      BY <1>1, <2>1
    <3>7. \A j \in k .. k + c : pos[j] \in Nat
      BY <1>1, <3>6
    <3>8. pos[k] <= Len(b)
      BY <2>4 DEF x, z
    <3> HIDE DEF w, k
    <3>9. Stops(b, pos, k, c + 1, g[x])
      BY <3>3, <3>5, <3>6, <3>7, <3>8, StopsBefore DEF x
    <3> QED
      BY <3>6, <3>9
  <2>5. x > z \/ x <= z
    <3> HIDE DEF x
    <3> QED
      BY <1>1, <2>2
  <2>6. x <= z + 64 => \E c \in 0 .. d + 1 : Stops(b, pos, k, c, g[x])
    <3> HIDE DEF x, k
    <3> QED
      BY <2>3, <2>4, <2>5
  <2> HIDE DEF k
  <2> QED
    BY <2>1, <2>6 DEF x
<1> HIDE DEF T
<1>7. n \in T
  <2>1. \A d \in 0 .. n - 1 : d \in T => d + 1 \in T
    BY <1>6
  <2>2. n \in Nat /\ n \in 0 .. n
    BY <1>1
  <2>3. 0 .. n \subseteq T
    BY ONLY <1>5, <2>1, <2>2, UpTo
  <2> QED
    BY <2>2, <2>3
<1>8. n + 1 - n = 1 /\ 13 <= z + 64
  BY <1>1
<1>9. \E c \in 0 .. n : Stops(b, pos, 1, c, g[13])
  BY <1>1, <1>7, <1>8 DEF T
<1> QED
  BY <1>2, <1>9 DEF n

\* The first c labels, which lie before the cut, are read back.
LEMMA LabelsAreRead ==
  ASSUME NEW q, Asks(q), NEW m, NEW pos, Holds(m, q, pos), NEW b, CutOf(b, m),
         NEW c \in 0 .. Len(q.labels), Walk(b).at = Starts(pos, c),
         \A k \in 1 .. c + 1 : pos[k] <= Len(b) + 1
  PROVE  LabelsAt(b) = SubSeq(q.labels, 1, c)
<1> DEFINE ls == q.labels
           n == Len(ls)
<1>1. /\ n \in Nat /\ Len(b) \in Nat /\ b \in Seq(Byte8) /\ c \in Nat
      /\ \A k \in 1 .. n + 1 : pos[k] \in Nat \ {0}
      /\ \A k \in 1 .. n : Row(b, pos, ls, k)
      /\ \A k \in 1 .. c : k \in 1 .. n /\ k \in 1 .. c + 1 /\ k + 1 \in 1 .. c + 1
  <2>1. c \in 0 .. n /\ n \in Nat
    BY Around
  <2> HIDE DEF n
  <2> QED
    BY <2>1, Around DEF n
<1>2. Walk(b).at = Starts(pos, c)
  OBVIOUS
<1>3. DOMAIN ls = 1 .. n /\ \A k \in 1 .. n : ls[k] \in Seq(Byte8)
  BY AsksOf, Lengths63
<1>4. Laid(m, pos, ls) /\ \A i \in 1 .. Len(b) : b[i] = m[i]
  BY DEF Holds, CutOf
<1>s. SubSeq(ls, 1, c) = [k \in 1 .. c |-> ls[k]]
  <2>1. ls \in Seq(Label)
    BY AsksOf DEF Labelled
  <2>2. \A k \in 1 .. c : 1 + k - 1 = k
    BY <1>1
  <2> QED
    BY <1>1, <2>1, <2>2, SubSeqProperties
<1> HIDE DEF ls, n
<1>5. ASSUME NEW k \in 1 .. c PROVE Part(b, pos[k] + 1, b[pos[k]]) = ls[k]
  <2> DEFINE x == pos[k]
             l == ls[k]
             y == Len(l)
             z == Len(b)
             p == Part(b, x + 1, y)
  <2>1. /\ x \in Nat \ {0} /\ y \in Nat /\ z \in Nat /\ x + 1 + y <= z + 1 /\ x <= z
        /\ (x <= z => b[x] = y) /\ l \in Seq(Byte8)
    <3>1. /\ x \in Nat \ {0} /\ pos[k + 1] = x + 1 + y /\ y \in 1 .. 63
          /\ (x <= z => b[x] = y)
      BY <1>1 DEF Row
    <3>2. pos[k + 1] <= z + 1 /\ z \in Nat /\ l \in Seq(Byte8)
      BY <1>1, <1>3
    <3> HIDE DEF x, y, z, l
    <3>3. x + 1 + y <= z + 1 /\ x <= z /\ y \in Nat
      BY ONLY <3>1, <3>2
    <3> QED
      BY <3>1, <3>2, <3>3
  <2>2. \A j \in 1 .. y : m[x + j] = l[j]
    BY <1>1, <1>4 DEF Laid, LabelAt, n
  <2> HIDE DEF x, y, z, p, l
  <2>3. b[x] = y
    BY <2>1
  <2>4. IsPart(p, b, x + 1, y)
    <3>1. x + 1 \in Nat /\ x + 1 >= 1 /\ y \in Nat /\ (x + 1) + y <= Len(b) + 1
      BY <2>1 DEF z
    <3> QED
      BY <1>1, <3>1, PartFacts DEF p
  <2>5. ASSUME NEW j \in 1 .. y PROVE p[j] = l[j]
    <3>1. (x + 1) + j - 1 = x + j /\ x + j \in 1 .. z
      BY <2>1
    <3>2. p[j] = b[(x + 1) + j - 1] /\ b[x + j] = m[x + j] /\ m[x + j] = l[j]
      BY <1>4, <2>2, <2>4, <3>1 DEF IsPart, z
    <3> QED
      BY ONLY <3>1, <3>2, Zenon
  <2>6. p = l
    <3>1. p \in Seq(Byte8) /\ Len(p) = y /\ Len(l) = y
      BY <2>4 DEF IsPart, y
    <3> QED
      BY <2>1, <2>5, <3>1, SameSeq
  <2> QED
    BY ONLY <2>3, <2>6, Zenon DEF x, l, p
<1>6. \A k \in 1 .. c : Starts(pos, c)[k] = pos[k]
  BY DEF Starts
<1>7. LabelsAt(b) = [k \in 1 .. c |-> Part(b, Starts(pos, c)[k] + 1, b[Starts(pos, c)[k]])]
  <2>1. DOMAIN Starts(pos, c) = 1 .. c
    BY DEF Starts
  <2> QED
    BY <1>2, <2>1, Zenon DEF LabelsAt
<1>8. LabelsAt(b) = [k \in 1 .. c |-> ls[k]]
  BY <1>5, <1>6, <1>7
<1> QED
  BY <1>s, <1>8 DEF ls

\* All of them, when the root label is there.
LEMMA AllLabelsAreRead ==
  ASSUME NEW q, Asks(q), NEW m, NEW pos, Holds(m, q, pos), NEW b, CutOf(b, m),
         pos[Len(q.labels) + 1] <= Len(b)
  PROVE  LabelsAt(b) = q.labels
<1> DEFINE n == Len(q.labels)
           e == pos[n + 1]
<1>1. /\ n \in Nat /\ Len(b) \in Nat /\ e <= Len(b)
      /\ \A k \in 1 .. n + 1 : pos[k] \in Nat \ {0} /\ pos[k] <= e
  BY Around
<1>2. Walk(b).at = Starts(pos, n)
  BY WalkWhole
<1>3. SubSeq(q.labels, 1, n) = q.labels
  <2>1. q.labels \in Seq(Label)
    BY AsksOf DEF Labelled
  <2> QED
    BY <2>1
<1> HIDE DEF n, e
<1>4. n \in 0 .. n /\ n + 1 \in 1 .. n + 1
  BY <1>1
<1>5. ASSUME NEW k \in 1 .. n + 1 PROVE pos[k] <= Len(b) + 1
  <2> DEFINE x == pos[k]
             z == Len(b)
  <2>1. x \in Nat /\ x <= e /\ e <= z /\ e \in Nat /\ z \in Nat
    BY <1>1, <1>4 DEF e
  <2> HIDE DEF x, z
  <2>2. x <= z + 1
    BY ONLY <2>1
  <2> QED
    BY <2>2 DEF x, z
<1>6. LabelsAt(b) = SubSeq(q.labels, 1, n)
  BY <1>2, <1>4, <1>5, LabelsAreRead DEF n
<1> QED
  BY <1>3, <1>6

\* The forwarder makes of a cut question nothing or its first labels.
LEMMA CutName ==
  ASSUME NEW q, Asks(q), NEW m, NEW pos, Holds(m, q, pos), NEW b, CutOf(b, m)
  PROVE  \E k \in 0 .. Len(q.labels) : DNSQname(b) = SubSeq(q.labels, 1, k)
<1> DEFINE n == Len(q.labels)
           e == pos[n + 1]
           z == Len(b)
<1>0. q.labels \in Seq(Label) /\ n \in Nat
  BY AsksOf, LenProperties DEF Labelled
<1>1. /\ SubSeq(q.labels, 1, 0) = <<>> /\ SubSeq(q.labels, 1, n) = q.labels
      /\ 0 \in 0 .. n /\ n \in 0 .. n
  BY <1>0
<1>2. /\ z \in Nat /\ \A k \in 1 .. n + 1 : pos[k] \in Nat \ {0}
  BY Around
<1>3. CASE DNSQname(b) = <<>>
  BY <1>1, <1>3
<1>4. CASE DNSQname(b) # <<>>
  <2>1. DNSQname(b) = LabelsAt(b) /\ (Walk(b).root \/ ~ (Walk(b).end > z + 1))
    BY <1>4, Zenon DEF DNSQname
  <2>2. CASE e <= z
    <3>1. LabelsAt(b) = q.labels
      BY <2>2, AllLabelsAreRead
    <3> QED
      BY <1>1, <2>1, <3>1
  <2>3. CASE z < e
    <3>1. PICK c \in 0 .. n : Stops(b, pos, 1, c, Walk(b))
      BY <2>3, WalkCut
    <3>2. /\ Walk(b) = [at |-> Chain(pos, 1, c), end |-> pos[1 + c], root |-> FALSE]
          /\ \A j \in 1 .. 1 + c - 1 : pos[j] <= z
      BY <3>1 DEF Stops
    <3>3. Walk(b).at = Starts(pos, c)
      <4>1. \A j \in 1 .. c : 1 - 1 + j = j
        OBVIOUS
      <4>2. Chain(pos, 1, c) = Starts(pos, c)
        BY <4>1 DEF Chain, Starts
      <4> QED
        BY <3>2, <4>2
    <3>4. ~ Walk(b).root /\ Walk(b).end = pos[1 + c]
      BY <3>2
    <3> HIDE DEF n, z, e
    <3>5. c \in Nat /\ 1 + c \in 1 .. n + 1 /\ 1 + c = c + 1 /\ 1 + c - 1 = c
      BY <1>0
    <3>6. pos[c + 1] <= z + 1
      <4> DEFINE x == pos[c + 1]
      <4>1. x \in Nat /\ ~ (x > z + 1) /\ z \in Nat
        BY <1>2, <2>1, <3>4, <3>5
      <4> HIDE DEF x
      <4>2. x <= z + 1
        BY <4>1
      <4> QED
        BY <4>2 DEF x
    <3>7. ASSUME NEW k \in 1 .. c + 1 PROVE pos[k] <= z + 1
      <4>1. CASE k = c + 1
        BY <3>6, <4>1
      <4>2. CASE k # c + 1
        <5>1. k \in 1 .. 1 + c - 1 /\ k \in 1 .. n + 1
          BY <1>0, <3>5, <4>2
        <5> DEFINE x == pos[k]
        <5>2. x \in Nat /\ x <= z /\ z \in Nat
          BY <1>2, <3>2, <5>1
        <5> HIDE DEF x
        <5>3. x <= z + 1
          BY <5>2
        <5> QED
          BY <5>3 DEF x
      <4> QED
        BY <4>1, <4>2
    <3>8. LabelsAt(b) = SubSeq(q.labels, 1, c)
      BY <3>3, <3>7, LabelsAreRead DEF n, z
    <3> QED
      BY <2>1, <3>8 DEF n
  <2>4. e <= z \/ z < e
    <3>1. e \in Nat
      <4>1. n + 1 \in 1 .. n + 1
        BY <1>0
      <4> QED
        BY <1>2, <4>1
    <3> HIDE DEF e, z
    <3> QED
      BY <1>2, <3>1
  <2> QED
    BY <2>2, <2>3, <2>4
<1> QED
  BY <1>3, <1>4

\* t is s, except for flags and counts.
Near(s, t) ==
  /\ t \in [1 .. Len(s) -> Byte8]
  /\ \A i \in 1 .. Len(s) : i < 3 \/ i > 8 => t[i] = s[i]

\* A byte of it is written.
Puts(v, t, k, x) == v = [t EXCEPT ![k] = x]

\* It stays so when a flag or a count is written.
LEMMA NearStays ==
  ASSUME NEW s, Len(s) \in Nat, NEW t, Near(s, t), NEW k \in 3 .. 8, NEW x \in 0 .. 255,
         NEW v, Puts(v, t, k, x)
  PROVE  Near(s, v)
<1>1. v \in [1 .. Len(s) -> Byte8]
  BY DEF Near, Byte8, Puts
<1>2. \A i \in 1 .. Len(s) : i # k => v[i] = t[i]
  BY DEF Near, Puts
<1> QED
  BY <1>1, <1>2 DEF Near

\* The flags of an answer and its count of answers are written over the query's.
Patch(s, v) ==
  /\ v \in Seq(Byte8) /\ Len(v) = Len(s) /\ Near(s, v)
  /\ Len(s) >= 8 => v[3] = 129 /\ v[4] = 128 /\ v[7] = 0 /\ v[8] = 0

LEMMA Patched ==
  ASSUME NEW s \in Seq(Byte8), NEW v,
         v = [s EXCEPT ![3] = 129, ![4] = 128, ![7] = 0, ![8] = 0]
  PROVE  Patch(s, v)
<1> DEFINE a == [s EXCEPT ![3] = 129]
           c == [a EXCEPT ![4] = 128]
           d == [c EXCEPT ![7] = 0]
           f == [d EXCEPT ![8] = 0]
<1>1. v = f
  OBVIOUS
<1>2. Len(s) \in Nat /\ s \in [1 .. Len(s) -> Byte8]
  BY LenProperties
<1>3. Near(s, s)
  BY <1>2 DEF Near
<1>4. Near(s, a)
  <2>1. Puts(a, s, 3, 129) /\ 3 \in 3 .. 8 /\ 129 \in 0 .. 255
    BY DEF Puts
  <2> HIDE DEF a
  <2> QED
    BY ONLY <1>2, <1>3, <2>1, NearStays
<1> HIDE DEF a
<1>5. Near(s, c)
  <2>1. Puts(c, a, 4, 128) /\ 4 \in 3 .. 8 /\ 128 \in 0 .. 255
    BY DEF Puts
  <2> HIDE DEF c
  <2> QED
    BY ONLY <1>2, <1>4, <2>1, NearStays
<1> HIDE DEF c
<1>6. Near(s, d)
  <2>1. Puts(d, c, 7, 0) /\ 7 \in 3 .. 8 /\ 0 \in 0 .. 255
    BY DEF Puts
  <2> HIDE DEF d
  <2> QED
    BY ONLY <1>2, <1>5, <2>1, NearStays
<1> HIDE DEF d
<1>7. Near(s, f)
  <2>1. Puts(f, d, 8, 0) /\ 8 \in 3 .. 8 /\ 0 \in 0 .. 255
    BY DEF Puts
  <2> HIDE DEF f
  <2> QED
    BY ONLY <1>2, <1>6, <2>1, NearStays
<1>8. v \in Seq(Byte8) /\ Len(v) = Len(s)
  <2>1. v \in [1 .. Len(s) -> Byte8]
    BY <1>1, <1>7 DEF Near
  <2> QED
    BY <1>2, <2>1
<1>9. ASSUME Len(s) >= 8 PROVE v[3] = 129 /\ v[4] = 128 /\ v[7] = 0 /\ v[8] = 0
  <2> DEFINE D == 1 .. Len(s)
  <2>1. DOMAIN s = D /\ 3 \in D /\ 4 \in D /\ 7 \in D /\ 8 \in D
    BY <1>2, <1>9
  <2> HIDE DEF D
  <2>2. a[3] = 129 /\ DOMAIN a = D
    BY <2>1 DEF a
  <2>3. c[3] = 129 /\ c[4] = 128 /\ DOMAIN c = D
    BY <2>1, <2>2 DEF c
  <2>4. d[3] = 129 /\ d[4] = 128 /\ d[7] = 0 /\ DOMAIN d = D
    BY <2>1, <2>3 DEF d
  <2>5. f[3] = 129 /\ f[4] = 128 /\ f[7] = 0 /\ f[8] = 0
    BY <2>1, <2>4 DEF f
  <2> QED
    BY <1>1, <2>5
<1> QED
  BY <1>1, <1>7, <1>8, <1>9 DEF Patch

\* A question is complete when its type and class are there.
LEMMA CompleteIs ==
  ASSUME NEW q, Asks(q), NEW m, NEW pos, Holds(m, q, pos), NEW b, CutOf(b, m)
  PROVE  /\ pos[Len(q.labels) + 1] \in Nat /\ pos[Len(q.labels) + 1] >= 13
         /\ Len(b) \in Nat
         /\ Complete(b) <=> Len(b) >= pos[Len(q.labels) + 1] + 4
         /\ Complete(b) => Walk(b) = [at   |-> Starts(pos, Len(q.labels)),
                                      end  |-> pos[Len(q.labels) + 1] + 1,
                                      root |-> TRUE]
<1> DEFINE n == Len(q.labels)
           e == pos[n + 1]
<1>1. /\ n \in Nat /\ Len(b) \in Nat /\ b \in Seq(Byte8)
      /\ \A k \in 1 .. n + 1 : pos[k] \in Nat \ {0} /\ pos[k] <= e
      /\ pos[1] = 13
  BY Around
<1>2. Len(b) < e => ~ Walk(b).root
  <2> SUFFICES ASSUME Len(b) < e PROVE ~ Walk(b).root
    OBVIOUS
  <2>1. PICK c \in 0 .. n : Stops(b, pos, 1, c, Walk(b))
    BY WalkCut
  <2> QED
    BY <2>1 DEF Stops
<1>3. e <= Len(b) => Walk(b) = [at |-> Starts(pos, n), end |-> e + 1, root |-> TRUE]
  BY WalkWhole
<1> HIDE DEF n, e
<1>4. e \in Nat /\ e >= 13
  <2>1. 1 \in 1 .. n + 1 /\ n + 1 \in 1 .. n + 1
    BY <1>1
  <2> QED
    BY <1>1, <2>1 DEF e
<1>5. CASE e <= Len(b)
  <2>1. Walk(b).root /\ Walk(b).end = e + 1
    BY <1>3, <1>5
  <2>2. Len(b) >= 12
    BY <1>1, <1>4, <1>5
  <2>3. Complete(b) <=> e + 1 + 3 <= Len(b)
    BY ONLY <2>1, <2>2, Zenon DEF Complete
  <2>4. e + 1 + 3 <= Len(b) <=> Len(b) >= e + 4
    BY <1>1, <1>4
  <2> QED
    BY <1>1, <1>3, <1>4, <1>5, <2>3, <2>4 DEF n, e
<1>6. CASE ~ (e <= Len(b))
  <2>1. Len(b) < e /\ ~ (Len(b) >= e + 4)
    BY <1>1, <1>4, <1>6
  <2>2. ~ Complete(b)
    BY <1>2, <2>1 DEF Complete
  <2> QED
    BY <1>1, <1>4, <2>1, <2>2 DEF n, e
<1> QED
  BY <1>5, <1>6

\* What an empty answer is made of: the identifier, flags and counts, and what it copies.
Copied == <<129, 128, 0, 1, 0, 0, 0, 0>>

Answered(q, b, z) == Bytes16(q.id) \o Copied \o Part(b, 11, z - 10)

LEMMA CopiedIs == Copied \in Seq(Byte8) /\ Len(Copied) = 8
BY DEF Copied, Byte8

\* An empty answer repeats the identifier, the number of additional records and the question.
LEMMA AnswerRepeats ==
  ASSUME NEW q, Asks(q), NEW m, NEW pos, Holds(m, q, pos), NEW b, CutOf(b, m), Complete(b),
         NEW v, v = EmptyAnswer(b), NEW z, z = pos[Len(q.labels) + 1] + 4
  PROVE  v = Answered(q, b, z)
<1> DEFINE e == pos[Len(q.labels) + 1]
           s == Part(b, 1, z)
           i == Bytes16(q.id)
           a == Fixed(q)
           y == Part(b, 11, z - 10)
           h == i \o Copied
           w == h \o y
<1>1. e \in Nat /\ e >= 13 /\ Len(b) \in Nat /\ Len(b) >= z /\ Walk(b).end = e + 1
  BY CompleteIs
<1>2. /\ b \in Seq(Byte8) /\ (\A k \in 1 .. Len(b) : b[k] = m[k]) /\ m[1] = i[1] /\ m[2] = i[2]
      /\ \A k \in 1 .. 10 : m[2 + k] = a[k]
  BY DEF CutOf, Holds
<1>3. i \in Seq(Byte8) /\ Len(i) = 2
  BY AsksOf, SixteenBits
<1>z. z = e + 4
  OBVIOUS
<1> HIDE DEF e, i
<1>4. Walk(b).end + 3 = z
  BY <1>1, <1>z
<1>5. v = [s EXCEPT ![3] = 129, ![4] = 128, ![7] = 0, ![8] = 0]
  BY <1>4, Zenon DEF EmptyAnswer
<1>6. z \in Nat /\ z >= 17 /\ z <= Len(b)
  BY <1>1, <1>z
<1> HIDE DEF s
<1>7. IsPart(s, b, 1, z)
  <2>1. 1 \in Nat /\ 1 >= 1 /\ 1 + z <= Len(b) + 1
    BY <1>1, <1>6
  <2> QED
    BY <1>2, <1>6, <2>1, PartFacts DEF s
<1>8. s \in Seq(Byte8) /\ Len(s) = z /\ \A k \in 1 .. z : s[k] = b[k]
  <2>1. \A k \in 1 .. z : 1 + k - 1 = k
    BY <1>6
  <2> QED
    BY <1>7, <2>1 DEF IsPart
<1>9. /\ v \in Seq(Byte8) /\ Len(v) = z /\ \A k \in 1 .. z : k < 3 \/ k > 8 => v[k] = b[k]
      /\ v[3] = 129 /\ v[4] = 128 /\ v[7] = 0 /\ v[8] = 0
  <2>1. /\ v \in Seq(Byte8) /\ Len(v) = Len(s) /\ Near(s, v)
        /\ Len(s) >= 8 => v[3] = 129 /\ v[4] = 128 /\ v[7] = 0 /\ v[8] = 0
    <3>1. Patch(s, v)
      BY <1>5, <1>8, Patched
    <3> QED
      BY <3>1 DEF Patch
  <2>2. Len(s) >= 8
    BY <1>6, <1>8
  <2> QED
    BY <1>8, <2>1, <2>2 DEF Near
<1>10. \A k \in 5 .. 6 : v[k] = b[k]
  <2>2. v[5] = s[5] /\ v[6] = s[6]
    <3> DEFINE D == 1 .. z
    <3>1. DOMAIN s = D /\ 3 \in D /\ 4 \in D /\ 5 \in D /\ 6 \in D /\ 7 \in D /\ 8 \in D
      BY <1>6, <1>8
    <3> HIDE DEF D
    <3> QED
      BY <1>5, <3>1
  <2>3. 5 \in 1 .. z /\ 6 \in 1 .. z /\ \A k \in 5 .. 6 : k = 5 \/ k = 6
    BY <1>6
  <2> QED
    BY <1>8, <2>2, <2>3
<1>11. /\ b[1] = i[1] /\ b[2] = i[2] /\ b[5] = 0 /\ b[6] = 1 /\ b[9] = 0 /\ b[10] = 0
  <2>1. /\ 1 \in 1 .. Len(b) /\ 2 \in 1 .. Len(b) /\ 5 \in 1 .. Len(b) /\ 6 \in 1 .. Len(b)
        /\ 9 \in 1 .. Len(b) /\ 10 \in 1 .. Len(b)
    BY <1>1, <1>6
  <2>2. /\ 3 \in 1 .. 10 /\ 4 \in 1 .. 10 /\ 7 \in 1 .. 10 /\ 8 \in 1 .. 10
        /\ 2 + 3 = 5 /\ 2 + 4 = 6 /\ 2 + 7 = 9 /\ 2 + 8 = 10
    OBVIOUS
  <2>3. a[3] = 0 /\ a[4] = 1 /\ a[7] = 0 /\ a[8] = 0
    BY DEF Fixed
  <2> HIDE DEF a
  <2>4. m[5] = 0 /\ m[6] = 1 /\ m[9] = 0 /\ m[10] = 0
    BY <1>2, <2>2, <2>3
  <2> QED
    BY <1>2, <2>1, <2>4
<1>12. IsPart(y, b, 11, z - 10)
  <2> DEFINE d == z - 10
  <2>1. d \in Nat /\ 11 \in Nat /\ 11 >= 1 /\ 11 + d <= Len(b) + 1
    BY <1>1, <1>6
  <2>2. y = Part(b, 11, d)
    OBVIOUS
  <2> HIDE DEF y, d
  <2>3. IsPart(y, b, 11, d)
    BY <1>2, <2>1, <2>2, PartFacts
  <2> QED
    BY <2>3 DEF d
<1> HIDE DEF y
<1>13. y \in Seq(Byte8) /\ Len(y) = z - 10 /\ \A k \in 1 .. z - 10 : y[k] = b[10 + k]
  <2>1. \A k \in 1 .. z - 10 : 11 + k - 1 = 10 + k
    BY <1>6
  <2> QED
    BY <1>12, <2>1 DEF IsPart
<1> HIDE DEF a
<1>14. Joined(h, i, Copied)
  <2>1. h = i \o Copied
    OBVIOUS
  <2> QED
    BY <1>3, <2>1, CopiedIs, JoinBytes
<1>15. /\ h \in Seq(Byte8) /\ Len(h) = 10 /\ h[1] = i[1] /\ h[2] = i[2]
       /\ h[3] = 129 /\ h[4] = 128 /\ h[5] = 0 /\ h[6] = 1
       /\ h[7] = 0 /\ h[8] = 0 /\ h[9] = 0 /\ h[10] = 0
  <2>1. /\ Copied[1] = 129 /\ Copied[2] = 128 /\ Copied[3] = 0 /\ Copied[4] = 1
        /\ Copied[5] = 0 /\ Copied[6] = 0 /\ Copied[7] = 0 /\ Copied[8] = 0
    BY DEF Copied
  <2>2. h \in Seq(Byte8) /\ Len(h) = 10
    BY <1>3, <1>14, CopiedIs DEF Joined
  <2>3. (\A k \in 1 .. 2 : h[k] = i[k]) /\ \A k \in 1 .. 8 : h[2 + k] = Copied[k]
    BY <1>3, <1>14, CopiedIs DEF Joined
  <2> HIDE DEF h
  <2>4. h[1] = i[1] /\ h[2] = i[2]
    BY <2>3
  <2>5. h[2 + 1] = 129 /\ h[2 + 2] = 128 /\ h[2 + 3] = 0 /\ h[2 + 4] = 1
    BY <2>1, <2>3
  <2>6. h[2 + 5] = 0 /\ h[2 + 6] = 0 /\ h[2 + 7] = 0 /\ h[2 + 8] = 0
    BY <2>1, <2>3
  <2> QED
    BY <2>2, <2>4, <2>5, <2>6
<1>16. Joined(w, h, y)
  <2>1. w = h \o y
    OBVIOUS
  <2> HIDE DEF w, h
  <2> QED
    BY <1>13, <1>15, <2>1, JoinBytes
<1> HIDE DEF w, h
<1>17. w \in Seq(Byte8) /\ Len(w) = z
  <2>1. w \in Seq(Byte8) /\ Len(w) = Len(h) + Len(y)
    BY <1>16 DEF Joined
  <2>a. Len(h) = 10 /\ Len(y) = z - 10
    BY <1>13, <1>15
  <2>b. z \in Nat
    BY <1>6
  <2>2. Len(h) + Len(y) = z
    BY ONLY <2>a, <2>b
  <2> QED
    BY ONLY <2>1, <2>2
<1>18. ASSUME NEW k \in 1 .. 10 PROVE v[k] = w[k]
  <2>1. w[k] = h[k]
    BY <1>15, <1>16, <1>18 DEF Joined
  <2>2. v[1] = b[1] /\ v[2] = b[2] /\ v[9] = b[9] /\ v[10] = b[10]
    <3>1. 1 \in 1 .. z /\ 2 \in 1 .. z /\ 9 \in 1 .. z /\ 10 \in 1 .. z
      BY <1>6
    <3>2. 1 < 3 /\ 2 < 3 /\ 9 > 8 /\ 10 > 8
      OBVIOUS
    <3> QED
      BY <1>9, <3>1, <3>2
  <2>3. v[5] = b[5] /\ v[6] = b[6]
    BY <1>10
  <2>4. /\ v[1] = h[1] /\ v[2] = h[2] /\ v[3] = h[3] /\ v[4] = h[4] /\ v[5] = h[5]
        /\ v[6] = h[6] /\ v[7] = h[7] /\ v[8] = h[8] /\ v[9] = h[9] /\ v[10] = h[10]
    BY <1>9, <1>11, <1>15, <2>2, <2>3, Zenon
  <2>5. v[k] = h[k]
    BY ONLY k \in 1 .. 10, <2>4
  <2> QED
    BY <2>1, <2>5
<1>19. ASSUME NEW k \in 1 .. z PROVE v[k] = w[k]
  <2>1. CASE k \in 1 .. 10
    BY <1>18, <2>1
  <2>2. CASE k \notin 1 .. 10
    <3> DEFINE j == k - 10
    <3>1. j \in 1 .. z - 10 /\ k = 10 + j /\ k > 8
      BY <1>6, <2>2
    <3> HIDE DEF j
    <3>2. w[10 + j] = y[j]
      BY <1>13, <1>15, <1>16, <3>1 DEF Joined
    <3>3. y[j] = b[10 + j] /\ v[k] = b[k]
      BY <1>9, <1>13, <3>1
    <3> QED
      BY <3>1, <3>2, <3>3
  <2> QED
    BY <2>1, <2>2
<1>20. v = w
  BY <1>9, <1>17, <1>19, SameSeq
<1> QED
  BY <1>20 DEF w, h, i, y, Answered

\* What QuestionsAgree says of a question, of the bytes that are left and of what is made of them.
Agree(q, b, o) ==
  LET question == Len(Message([q EXCEPT !.extra = <<>>])) IN
  IF Len(b) >= question
  THEN /\ o.type = q.type /\ o.forwarder = q.labels
       /\ q.labels # <<>> => o.mobile = [labels |-> q.labels, qtype |-> q.type, qend |-> question]
       /\ o.empty = Bytes16(q.id) \o <<129, 128, 0, 1, 0, 0, 0, 0>> \o Part(b, 11, question - 10)
  ELSE /\ o.type = 0 /\ o.empty = Fail /\ o.mobile.qend = 0
       /\ \E n \in 0 .. Len(q.labels) : o.forwarder = SubSeq(q.labels, 1, n)

\* A question ends where its type and class do.
LEMMA QuestionEnds ==
  ASSUME NEW q, Asks(q), NEW m, NEW pos, Holds(m, q, pos)
  PROVE  Len(Message([q EXCEPT !.extra = <<>>])) = pos[Len(q.labels) + 1] + 4
<1> DEFINE r == [q EXCEPT !.extra = <<>>]
           w == Message(r)
<1>1. Asks(r) /\ r.labels = q.labels /\ r.extra = <<>>
  <2> DEFINE N == 0 .. TwoTo16 - 1
             L == Seq(Label)
             X == Seq(Byte8)
  <2>1. <<>> \in X
    BY KeyFacts
  <2>2. q \in [id : N, labels : L, type : N, extra : X]
    BY DEF Asks
  <2> HIDE DEF N, L, X
  <2>3. /\ r \in [id : N, labels : L, type : N, extra : X]
        /\ r.labels = q.labels /\ r.extra = <<>>
    BY <2>1, <2>2
  <2> QED
    BY <2>3 DEF Asks, N, L, X
<1> HIDE DEF r
<1>2. PICK p : Holds(w, r, p)
  BY <1>1, MessageIs
<1>3. Len(<<>>) = 0
  OBVIOUS
<1> DEFINE d == 12 + Len(Labels(q.labels))
<1>4. Len(w) = d + 4 + 0
  BY <1>1, <1>2, <1>3 DEF Holds
<1>5. pos[Len(q.labels) + 1] = d
  BY DEF Holds
<1>6. d \in Nat
  <2>1. Len(q.labels) \in Nat /\ pos \in [1 .. Len(q.labels) + 1 -> Nat \ {0}]
    BY AsksOf, Lengths63 DEF Holds, Places
  <2>2. Len(q.labels) + 1 \in 1 .. Len(q.labels) + 1
    BY <2>1
  <2> HIDE DEF d
  <2> QED
    BY <1>5, <2>1, <2>2
<1> HIDE DEF w, d
<1>7. Len(w) = pos[Len(q.labels) + 1] + 4
  BY <1>4, <1>5, <1>6
<1> QED
  BY <1>7 DEF w, r

\* A question cut anywhere, read by the three parsers.
LEMMA QuestionIsRead ==
  ASSUME NEW q, Asks(q), NEW k \in 0 .. Len(Message(q)), NEW b, b = Part(Message(q), 1, k), NEW o,
         o = [type |-> QueryType(b), empty |-> EmptyAnswer(b),
              mobile |-> DnsQName(b), forwarder |-> DNSQname(b)]
  PROVE  Agree(q, b, o)
<1> DEFINE m == Message(q)
           ls == q.labels
           question == Len(Message([q EXCEPT !.extra = <<>>]))
<1>1. PICK pos : Holds(m, q, pos)
  BY MessageIs
<1>2. m \in Seq(Byte8) /\ k \in 0 .. Len(m) /\ b = Part(m, 1, k)
  BY <1>1 DEF Holds
<1> HIDE DEF m
<1>3. CutOf(b, m)
  <2>0. Len(m) \in Nat
    BY <1>2, LenProperties
  <2>1. k \in Nat /\ 1 \in Nat /\ 1 >= 1 /\ 1 + k <= Len(m) + 1 /\ k <= Len(m)
    BY <1>2, <2>0
  <2>2. IsPart(b, m, 1, k)
    BY <1>2, <2>1, PartFacts
  <2>3. \A i \in 1 .. k : 1 + i - 1 = i
    BY <2>1
  <2> QED
    BY <2>1, <2>2, <2>3 DEF IsPart, CutOf
<1> DEFINE e == pos[Len(ls) + 1]
<1>4. question = e + 4
  BY <1>1, QuestionEnds
<1>5. e \in Nat /\ e >= 13 /\ Len(b) \in Nat
  BY <1>1, <1>3, CompleteIs
<1>6. Complete(b) <=> Len(b) >= question
  BY <1>1, <1>3, <1>4, CompleteIs
<1>7. /\ o.type = QueryType(b) /\ o.empty = EmptyAnswer(b)
      /\ o.mobile = DnsQName(b) /\ o.forwarder = DNSQname(b)
  OBVIOUS
<1>8. CASE Complete(b)
  <2>1. Walk(b).end = e + 1 /\ Walk(b).root
    BY <1>1, <1>3, <1>8, CompleteIs
  <2> HIDE DEF question, e, ls
  <2>2. LabelsAt(b) = ls
    <3>1. e <= Len(b)
      BY <1>4, <1>5, <1>6, <1>8
    <3> QED
      BY <1>1, <1>3, <3>1, AllLabelsAreRead DEF ls, e
  <2>3. QueryType(b) = q.type
    <3>1. e + 1 \in 1 .. Len(b) /\ (e + 1) + 1 \in 1 .. Len(b)
      BY <1>4, <1>5, <1>6, <1>8
    <3>2. b[e + 1] = m[e + 1] /\ b[(e + 1) + 1] = m[(e + 1) + 1]
      BY <1>3, <3>1 DEF CutOf
    <3>3. Value16(m, e + 1) = q.type
      BY <1>1 DEF Holds, e, ls
    <3> QED
      BY <1>8, <2>1, <3>2, <3>3 DEF QueryType, Value16
  <2>4. DNSQname(b) = ls
    <3>1. ~ (Len(b) < 12)
      BY <1>4, <1>5, <1>6, <1>8
    <3> QED
      BY <2>1, <2>2, <3>1, Zenon DEF DNSQname
  <2>5. DnsQName(b) = [labels |-> ls, qtype |-> q.type, qend |-> question]
    <3>1. \A i \in DOMAIN ls : Len(ls[i]) < 64
      <4>1. DOMAIN ls = 1 .. Len(ls) /\ \A i \in 1 .. Len(ls) : Len(ls[i]) \in 1 .. 63
        BY AsksOf, Lengths63 DEF ls
      <4>2. \A x \in 1 .. 63 : x < 64
        OBVIOUS
      <4> QED
        BY ONLY <4>1, <4>2, Zenon
    <3>2. Walk(b).end + 3 = question
      BY <1>4, <1>5, <2>1
    <3> QED
      BY <1>8, <2>2, <2>3, <3>1, <3>2, Zenon DEF DnsQName
  <2>6. o.empty = Bytes16(q.id) \o <<129, 128, 0, 1, 0, 0, 0, 0>> \o Part(b, 11, question - 10)
    <3>1. o.empty = Answered(q, b, question)
      BY <1>1, <1>3, <1>4, <1>7, <1>8, AnswerRepeats DEF e, ls
    <3> QED
      BY <3>1 DEF Answered, Copied
  <2>7. Len(b) >= question
    BY <1>6, <1>8
  <2> QED
    BY <1>7, <2>3, <2>4, <2>5, <2>6, <2>7, Zenon DEF Agree, question, ls
<1>9. CASE ~ Complete(b)
  <2>1. o.type = 0 /\ o.empty = Fail /\ o.mobile.qend = 0
    BY <1>7, <1>9 DEF QueryType, EmptyAnswer, DnsQName
  <2>2. \E n \in 0 .. Len(q.labels) : o.forwarder = SubSeq(q.labels, 1, n)
    BY <1>1, <1>3, <1>7, CutName
  <2> QED
    BY <1>6, <1>9, <2>1, <2>2, Zenon DEF Agree
<1> QED
  BY <1>8, <1>9

(***************************************************************************)
(* The three parsers agree on every complete question, whatever its        *)
(* labels, its type and what follows it; an empty answer is the question   *)
(* with its header; and of a question cut anywhere the forwarder alone     *)
(* makes something, its first labels (dnsrelay.go:81-127,                  *)
(* fakeip.go:90-115, protocol/dns.go:35-56).                               *)
(***************************************************************************)
THEOREM QuestionsAreRead == CodecSpec => []QuestionsAgree
<1>1. CodecInit => QuestionsAgree
  BY DEF CodecInit, QuestionsAgree, Fed
<1>2. QuestionsAgree /\ [CodecNext]_codecVars => QuestionsAgree'
  <2> SUFFICES ASSUME QuestionsAgree, [CodecNext]_codecVars PROVE QuestionsAgree'
    OBVIOUS
  <2>1. CASE SocksTarget \/ ConnectTarget
    <3>1. input'.codec # "query"
      BY <2>1 DEF SocksTarget, ConnectTarget, Feeds
    <3> QED
      BY ONLY <3>1 DEF QuestionsAgree, Fed
  <2>2. CASE SendHead
    <3>1. input'.codec # "query"
      BY <2>2 DEF SendHead, Feeds
    <3> QED
      BY ONLY <3>1 DEF QuestionsAgree, Fed
  <2>3. CASE ParseQuery
    <3> DEFINE B(q, k) == Part(Message(q), 1, k)
               Made(b) == [type |-> QueryType(b), empty |-> EmptyAnswer(b),
                           mobile |-> DnsQName(b), forwarder |-> DNSQname(b)]
    <3>1. PICK q \in Queries : \E k \in 0 .. Len(Message(q)) :
            Feeds("query", [q |-> q, b |-> B(q, k)], Made(B(q, k)))
      BY <2>3 DEF ParseQuery
    <3>k. PICK k \in 0 .. Len(Message(q)) :
            Feeds("query", [q |-> q, b |-> B(q, k)], Made(B(q, k)))
      BY <3>1
    <3>2. Asks(q)
      BY CodecsAssumption DEF Asks
    <3> DEFINE b == B(q, k)
               o == Made(b)
    <3>3. Agree(q, b, o)
      BY <3>2, QuestionIsRead
    <3>4. input' = [codec |-> "query", it |-> [q |-> q, b |-> b]] /\ output' = o
      BY <3>k DEF Feeds
    <3> HIDE DEF b, o
    <3>5. input'.it.q = q /\ input'.it.b = b
      BY <3>4
    <3> QED
      BY ONLY <3>3, <3>4, <3>5, Zenon DEF QuestionsAgree, Agree
  <2>4. CASE LoadTable
    BY <2>4 DEF LoadTable, Feeds, QuestionsAgree, Fed
  <2>5. CASE MatchList
    BY <2>5 DEF MatchList, Feeds, QuestionsAgree, Fed
  <2>6. CASE UNCHANGED codecVars
    BY <2>6 DEF codecVars, QuestionsAgree, Fed
  <2> QED
    BY <2>1, <2>2, <2>3, <2>4, <2>5, <2>6 DEF CodecNext
<1> QED
  BY <1>1, <1>2, PTL DEF CodecSpec

-----------------------------------------------------------------------------
(***************************************************************************)
(* Tables. Merging keeps the ranges apart and in order, so the search      *)
(* finds the only one that can hold an address.                            *)
(***************************************************************************)

\* A range of addresses, and what a list of them holds.
Spans == [start : Nat, end : Nat]
In(s, u) == \E i \in 1 .. Len(s) : s[i].start <= u /\ u <= s[i].end

\* What LoadCN merges: ranges below the last address, by their start.
ByStart(rs, M) ==
  /\ rs \in Seq(Spans)
  /\ \A k \in 1 .. Len(rs) : rs[k].start <= rs[k].end /\ rs[k].end < M
  /\ \A k, l \in 1 .. Len(rs) : k < l => rs[k].start <= rs[l].start

\* What it makes: ranges with a gap between any two of them.
Apart(s, M) ==
  /\ s \in Seq(Spans)
  /\ \A i \in 1 .. Len(s) : s[i].start <= s[i].end /\ s[i].end < M
  /\ \A i, j \in 1 .. Len(s) : i < j => s[i].end + 1 < s[j].start

\* A small number is its own remainder.
LEMMA Small == ASSUME NEW N \in Nat \ {0}, NEW x \in 0 .. N - 1 PROVE x % N = x
OBVIOUS

\* What is at the end of a sequence, and what is before it.
LEMMA EndOf ==
  ASSUME NEW S, NEW s \in Seq(S), s # <<>>
  PROVE  /\ Len(s) \in Nat \ {0} /\ Last(s) = s[Len(s)] /\ Last(s) \in S
         /\ Front(s) \in Seq(S) /\ Len(Front(s)) = Len(s) - 1
         /\ \A i \in 1 .. Len(s) - 1 : Front(s)[i] = s[i]
<1>1. Len(s) \in Nat \ {0}
  BY EmptySeq, LenProperties
<1>2. s[Len(s)] \in S
  <2>1. Len(s) \in 1 .. Len(s)
    BY <1>1
  <2> QED
    BY <2>1, ElementOfSeq
<1>3. /\ Front(s) \in Seq(S) /\ Len(Front(s)) = Len(s) - 1
      /\ \A i \in 1 .. Len(s) - 1 : Front(s)[i] = s[i]
  <2> DEFINE n == Len(s)
             f == SubSeq(s, 1, n - 1)
  <2>1. n \in Nat \ {0} /\ Front(s) = f
    BY <1>1 DEF Front
  <2>2. 1 \in 1 .. Len(s) + 1 /\ n - 1 \in 1 - 1 .. Len(s) /\ 1 .. (n - 1) - 1 + 1 = 1 .. n - 1
        /\ (n - 1) - 1 + 1 = n - 1 /\ \A i \in 1 .. n - 1 : 1 + i - 1 = i
    BY <1>1
  <2> HIDE DEF n
  <2>3. /\ f \in Seq(S) /\ Len(f) = (n - 1) - 1 + 1
        /\ \A i \in 1 .. (n - 1) - 1 + 1 : f[i] = s[1 + i - 1]
    BY ONLY s \in Seq(S), <2>2, SubSeqProperties
  <2> HIDE DEF f
  <2>4. f \in Seq(S) /\ Len(f) = n - 1 /\ \A i \in 1 .. n - 1 : f[i] = s[i]
    BY ONLY <2>2, <2>3
  <2> QED
    BY ONLY <2>1, <2>4, Zenon DEF n
<1> QED
  BY <1>1, <1>2, <1>3 DEF Last

\* Joined, for any elements.
JoinedIn(S, v, s, t) ==
  /\ v \in Seq(S) /\ Len(v) = Len(s) + Len(t)
  /\ Len(s) \in Nat /\ Len(t) \in Nat
  /\ \A i \in 1 .. Len(s) : v[i] = s[i]
  /\ \A i \in 1 .. Len(t) : v[Len(s) + i] = t[i]

LEMMA JoinAny ==
  ASSUME NEW S, NEW s \in Seq(S), NEW t \in Seq(S), NEW v, v = s \o t
  PROVE  JoinedIn(S, v, s, t)
BY JoinFacts DEF JoinedIn

\* A sequence with its last element replaced.
EndsIn(S, v, s, x) ==
  /\ v \in Seq(S) /\ Len(v) = Len(s) /\ Len(s) \in Nat \ {0} /\ v[Len(s)] = x
  /\ \A i \in 1 .. Len(s) - 1 : v[i] = s[i]

LEMMA Replaced ==
  ASSUME NEW S, NEW s \in Seq(S), s # <<>>, NEW x \in S, NEW v, v = Front(s) \o <<x>>
  PROVE  EndsIn(S, v, s, x)
<1> DEFINE f == Front(s)
           o == <<x>>
           n == Len(s)
<1>1. n \in Nat \ {0} /\ f \in Seq(S) /\ Len(f) = n - 1 /\ \A i \in 1 .. n - 1 : f[i] = s[i]
  BY EndOf
<1>2. o \in Seq(S) /\ Len(o) = 1 /\ o[1] = x /\ v = f \o o
  OBVIOUS
<1> HIDE DEF f, o, n
<1>3. JoinedIn(S, v, f, o)
  BY <1>1, <1>2, JoinAny
<1>4. v \in Seq(S) /\ Len(v) = n /\ \A i \in 1 .. n - 1 : v[i] = s[i]
  <2>1. Len(f) + Len(o) = n
    BY <1>1, <1>2
  <2> QED
    BY ONLY <1>1, <1>2, <1>3, <2>1 DEF JoinedIn
<1>5. v[n] = x
  <2>1. 1 \in 1 .. Len(o) /\ Len(f) + 1 = n
    BY <1>1, <1>2
  <2> QED
    BY <1>2, <1>3, <2>1 DEF JoinedIn
<1> QED
  BY <1>1, <1>4, <1>5 DEF n, EndsIn

\* A range that starts no earlier than the last one keeps the ranges apart, and is added to them.
Joins(s, r, v, M) ==
  /\ Apart(v, M) /\ v # <<>> /\ Last(v).start <= r.start
  /\ \A u \in Nat : In(v, u) <=> In(s, u) \/ (r.start <= u /\ u <= r.end)

LEMMA JoinMerges ==
  ASSUME NEW M \in Nat, Size = M + 1, NEW s, Apart(s, M), s # <<>>,
         NEW r \in Spans, r.start <= r.end, r.end < M, Last(s).start <= r.start,
         NEW v, v = Join(s, r)
  PROVE  Joins(s, r, v, M)
<1> DEFINE n == Len(s)
           last == Last(s)
           a == last.start
           e == last.end
           x == r.start
           y == r.end
<1>1. /\ s \in Seq(Spans) /\ n \in Nat \ {0} /\ last = s[n] /\ last \in Spans
      /\ \A i \in 1 .. n : s[i] \in Spans /\ s[i].start <= s[i].end /\ s[i].end < M
      /\ \A i, j \in 1 .. n : i < j => s[i].end + 1 < s[j].start
  BY EndOf, ElementOfSeq DEF Apart
<1>2. /\ a \in Nat /\ e \in Nat /\ x \in Nat /\ y \in Nat
      /\ a <= e /\ e < M /\ x <= y /\ y < M /\ a <= x
  <2>1. n \in 1 .. n
    BY <1>1
  <2> QED
    BY <1>1, <2>1 DEF Spans
<1>3. (e + 1) % Size = e + 1
  <2>1. Size \in Nat \ {0} /\ e + 1 \in 0 .. Size - 1
    BY <1>2
  <2> HIDE DEF e
  <2> QED
    BY <2>1, Small
<1>4. v = IF x <= (e + 1) % Size
          THEN Front(s) \o <<IF y > e THEN [last EXCEPT !.end = y] ELSE last>>
          ELSE Append(s, r)
  BY Zenon DEF Join
<1>5. n \in 1 .. n /\ s[n].start = a /\ s[n].end = e
  BY <1>1
<1> HIDE DEF n, last, a, e, x, y
<1>6. CASE x <= e + 1
  <2> DEFINE t == IF y > e THEN [last EXCEPT !.end = y] ELSE last
             z == IF y > e THEN y ELSE e
  <2>1. t \in Spans /\ t.start = a /\ t.end = z
    BY <1>1, <1>2 DEF Spans, a, e
  <2>2. z \in Nat /\ a <= z /\ z < M
    BY <1>2
  <2>3. v = Front(s) \o <<t>>
    BY <1>3, <1>4, <1>6
  <2>z. \A u \in Nat : (a <= u /\ u <= z) <=> (a <= u /\ u <= e) \/ (x <= u /\ u <= y)
    BY <1>2, <1>6
  <2> HIDE DEF t, z
  <2>4. /\ v \in Seq(Spans) /\ Len(v) = n /\ v[n] = t
        /\ \A i \in 1 .. n - 1 : v[i] = s[i]
    <3>1. s \in Seq(Spans) /\ s # <<>> /\ t \in Spans
      BY <1>1, <2>1
    <3>2. EndsIn(Spans, v, s, t)
      BY ONLY <2>3, <3>1, Replaced
    <3> QED
      BY <3>2 DEF EndsIn, n
  <2>5. \A i \in 1 .. n : (i # n => v[i] = s[i]) /\ v[i].start = s[i].start
    <3>1. \A i \in 1 .. n : i # n => i \in 1 .. n - 1
      BY <1>1
    <3> QED
      BY <1>5, <2>1, <2>4, <3>1
  <2>6. \A i \in 1 .. n : v[i].start <= v[i].end /\ v[i].end < M
    <3> SUFFICES ASSUME NEW i \in 1 .. n PROVE v[i].start <= v[i].end /\ v[i].end < M
      OBVIOUS
    <3>1. CASE i = n
      BY <2>1, <2>2, <2>4, <3>1
    <3>2. CASE i # n
      BY <1>1, <2>5, <3>2
    <3> QED
      BY <3>1, <3>2
  <2>7. \A i, j \in 1 .. n : i < j => v[i].end + 1 < v[j].start
    <3> SUFFICES ASSUME NEW i \in 1 .. n, NEW j \in 1 .. n, i < j PROVE v[i].end + 1 < v[j].start
      OBVIOUS
    <3>1. i # n
      BY <1>1
    <3> QED
      BY <1>1, <2>5, <3>1
  <2>8. v # <<>> /\ Last(v).start = a
    BY <1>1, <2>1, <2>4 DEF Last
  <2>9. ASSUME NEW u \in Nat
        PROVE  In(v, u) <=> In(s, u) \/ (x <= u /\ u <= y)
    <3> DEFINE At(f, i) == f[i].start <= u /\ u <= f[i].end
    <3>1. At(v, n) <=> At(s, n) \/ (x <= u /\ u <= y)
      BY <1>5, <2>1, <2>4, <2>z
    <3>2. \A i \in 1 .. n : i # n => (At(v, i) <=> At(s, i))
      BY <2>5
    <3>3. /\ In(v, u) <=> \E i \in 1 .. n : At(v, i)
          /\ In(s, u) <=> \E i \in 1 .. n : At(s, i)
      BY <2>4 DEF In, n
    <3> HIDE DEF At
    <3> QED
      BY <1>5, <3>1, <3>2, <3>3, Zenon
  <2> QED
    BY <1>2, <2>4, <2>6, <2>7, <2>8, <2>9 DEF Joins, Apart, x, y
<1>7. CASE ~ (x <= e + 1)
  <2>1. v = Append(s, r) /\ e + 1 < x
    BY <1>2, <1>3, <1>4, <1>7
  <2>2. /\ v \in Seq(Spans) /\ Len(v) = n + 1 /\ v[n + 1] = r
        /\ \A i \in 1 .. n : v[i] = s[i]
    BY <1>1, <2>1, AppendProperties DEF n
  <2>3. \A i \in 1 .. n + 1 : i # n + 1 => i \in 1 .. n
    BY <1>1
  <2>4. \A i \in 1 .. n + 1 : v[i].start <= v[i].end /\ v[i].end < M
    <3> SUFFICES ASSUME NEW i \in 1 .. n + 1 PROVE v[i].start <= v[i].end /\ v[i].end < M
      OBVIOUS
    <3>1. CASE i = n + 1
      BY <1>2, <2>2, <3>1 DEF x, y
    <3>2. CASE i # n + 1
      BY <1>1, <2>2, <2>3, <3>2
    <3> QED
      BY <3>1, <3>2
  <2>5. \A i, j \in 1 .. n + 1 : i < j => v[i].end + 1 < v[j].start
    <3> SUFFICES ASSUME NEW i \in 1 .. n + 1, NEW j \in 1 .. n + 1, i < j
                 PROVE  v[i].end + 1 < v[j].start
      OBVIOUS
    <3>1. i \in 1 .. n /\ v[i] = s[i]
      BY <1>1, <2>2
    <3>2. CASE j = n + 1
      <4> DEFINE d == s[i].end
      <4>1. d \in Nat /\ d + 1 < x
        <5>1. CASE i = n
          BY <1>2, <1>5, <2>1, <5>1
        <5>2. CASE i # n
          <6>1. i < n
            BY <1>1, <3>1, <5>2
          <6>2. d + 1 < a /\ d \in Nat
            BY <1>1, <1>5, <3>1, <6>1 DEF Spans
          <6> HIDE DEF d
          <6> QED
            BY <1>2, <6>2
        <5> QED
          BY <5>1, <5>2
      <4> QED
        BY <2>2, <3>1, <3>2, <4>1 DEF x
    <3>3. CASE j # n + 1
      <4>1. j \in 1 .. n /\ v[j] = s[j]
        BY <2>2, <2>3, <3>3
      <4> QED
        BY <1>1, <3>1, <4>1
    <3> QED
      BY <3>2, <3>3
  <2>6. v # <<>> /\ Last(v).start = x
    BY <1>1, <2>2 DEF Last, x
  <2>7. ASSUME NEW u \in Nat
        PROVE  In(v, u) <=> In(s, u) \/ (x <= u /\ u <= y)
    <3> DEFINE At(f, i) == f[i].start <= u /\ u <= f[i].end
    <3>1. At(v, n + 1) <=> x <= u /\ u <= y
      BY <2>2 DEF x, y
    <3>2. \A i \in 1 .. n : At(v, i) <=> At(s, i)
      BY <2>2
    <3>3. /\ In(v, u) <=> \E i \in 1 .. n + 1 : At(v, i)
          /\ In(s, u) <=> \E i \in 1 .. n : At(s, i)
      BY <2>2 DEF In, n
    <3>4. n + 1 \in 1 .. n + 1 /\ \A i \in 1 .. n : i \in 1 .. n + 1
      BY <1>1
    <3> HIDE DEF At
    <3> QED
      BY <2>3, <3>1, <3>2, <3>3, <3>4, Zenon
  <2> QED
    BY <1>2, <2>2, <2>4, <2>5, <2>6, <2>7 DEF Joins, Apart, x, y
<1> QED
  BY <1>6, <1>7

\* Join makes a list of ranges.
LEMMA JoinIn ==
  ASSUME NEW s \in Seq(Spans) \ {<<>>}, NEW r \in Spans
  PROVE  Join(s, r) \in Seq(Spans) \ {<<>>}
<1> DEFINE last == Last(s)
           t == IF r.end > last.end THEN [last EXCEPT !.end = r.end] ELSE last
           a == Front(s) \o <<t>>
           c == Append(s, r)
<1>1. s \in Seq(Spans) /\ s # <<>> /\ last \in Spans /\ Len(s) \in Nat \ {0}
  BY EndOf
<1>2. t \in Spans
  BY <1>1 DEF Spans
<1>3. Join(s, r) = a \/ Join(s, r) = c
  BY Zenon DEF Join
<1> HIDE DEF t, last, a, c
<1>4. a \in Seq(Spans) /\ a # <<>>
  <2>1. a = Front(s) \o <<t>>
    BY DEF a
  <2>2. EndsIn(Spans, a, s, t)
    BY ONLY <1>1, <1>2, <2>1, Replaced
  <2>3. a \in Seq(Spans) /\ Len(a) # 0
    BY <2>2 DEF EndsIn
  <2> QED
    BY <2>3
<1>5. c \in Seq(Spans) /\ c # <<>>
  BY <1>1, AppendProperties DEF c
<1> QED
  BY <1>3, <1>4, <1>5

\* LoadCN's table grows by one range after the other.
Grows(g, rs) ==
  /\ g[1] = <<rs[1]>> /\ g[Len(rs)] = LoadCN(rs)
  /\ \A i \in 2 .. Len(rs) : g[i] = Join(g[i - 1], rs[i])

LEMMA LoadIs ==
  ASSUME NEW rs \in Seq(Spans), rs # <<>>
  PROVE  \E g : Grows(g, rs)
<1> DEFINE n == Len(rs)
           V == Seq(Spans) \ {<<>>}
           F == [p \in V \X (1 .. n) |-> Join(p[1], rs[p[2]])]
           a == <<rs[1]>>
           g == CHOOSE g : g = [i \in 1 .. n |-> IF i = 1 THEN <<rs[1]>> ELSE Join(g[i - 1], rs[i])]
<1>1. n \in Nat \ {0} /\ \A i \in 1 .. n : rs[i] \in Spans
  BY EmptySeq, ElementOfSeq
<1>2. LoadCN(rs) = g[n]
  BY Zenon DEF LoadCN
<1> HIDE DEF n
<1>3. F \in [V \X (1 .. n) -> V]
  <2>1. ASSUME NEW p \in V \X (1 .. n) PROVE Join(p[1], rs[p[2]]) \in V
    <3>1. p[1] \in V /\ rs[p[2]] \in Spans
      BY <1>1
    <3> QED
      BY <3>1, JoinIn
  <2> QED
    BY <2>1
<1>4. \A v \in V, i \in 1 .. n : F[<<v, i>>] = Join(v, rs[i])
  OBVIOUS
<1>5. a \in V
  <2>1. rs[1] \in Spans
    BY <1>1
  <2> DEFINE x == rs[1]
  <2> HIDE DEF x
  <2>2. <<x>> \in Seq(Spans) /\ <<x>> # <<>>
    BY <2>1 DEF x
  <2> QED
    BY <2>2 DEF x
<1> HIDE DEF V, F, a
<1>6. PICK f : f \in [1 .. n -> V] /\ f[1] = a /\ \A i \in 2 .. n : f[i] = F[<<f[i - 1], i>>]
  <2>1. \E f : Climbs(f, n, V, a, F)
    BY <1>1, <1>3, <1>5, Upward, Zenon
  <2> QED
    BY <2>1 DEF Climbs
<1>7. \A i \in 2 .. n : f[i] = Join(f[i - 1], rs[i])
  <2>1. \A i \in 2 .. n : i \in 1 .. n /\ i - 1 \in 1 .. n
    BY <1>1
  <2> QED
    BY <1>4, <1>6, <2>1
<1>8. f = [i \in 1 .. n |-> IF i = 1 THEN <<rs[1]>> ELSE Join(f[i - 1], rs[i])]
  <2>1. \A i \in 1 .. n : i = 1 \/ i \in 2 .. n
    BY <1>1
  <2>2. f[1] = <<rs[1]>>
    BY <1>6 DEF a
  <2> QED
    BY <1>6, <1>7, <2>1, <2>2
<1>9. g = [i \in 1 .. n |-> IF i = 1 THEN <<rs[1]>> ELSE Join(g[i - 1], rs[i])]
  BY <1>8, Zenon
<1> HIDE DEF g
<1>10. g[1] = <<rs[1]>> /\ \A i \in 2 .. n : g[i] = Join(g[i - 1], rs[i])
  <2> DEFINE h == [i \in 1 .. n |-> IF i = 1 THEN <<rs[1]>> ELSE Join(g[i - 1], rs[i])]
  <2>1. h[1] = <<rs[1]>> /\ \A i \in 2 .. n : h[i] = Join(g[i - 1], rs[i])
    <3>1. 1 \in 1 .. n /\ \A i \in 2 .. n : i \in 1 .. n /\ i # 1
      BY <1>1
    <3> QED
      BY <3>1, Zenon
  <2>2. h = g
    BY <1>9
  <2> HIDE DEF h
  <2> QED
    BY ONLY <2>1, <2>2, Zenon
<1> QED
  BY <1>2, <1>10 DEF Grows, n

\* The table holds what the ranges hold, and keeps them apart.
LEMMA LoadMerges ==
  ASSUME NEW M \in Nat, Size = M + 1, NEW rs, ByStart(rs, M), NEW s, s = LoadCN(rs)
  PROVE  Apart(s, M) /\ \A u \in Nat : In(s, u) <=> In(rs, u)
<1> DEFINE n == Len(rs)
<1>1. /\ rs \in Seq(Spans) /\ n \in Nat
      /\ \A k \in 1 .. n : rs[k] \in Spans /\ rs[k].start <= rs[k].end /\ rs[k].end < M
      /\ \A k, l \in 1 .. n : k < l => rs[k].start <= rs[l].start
  BY LenProperties, ElementOfSeq DEF ByStart
<1>2. CASE rs = <<>>
  <2>1. s = <<>> /\ n = 0 /\ Len(s) = 0 /\ s \in Seq(Spans)
    <3>1. s = <<>>
      BY <1>2, Zenon DEF LoadCN
    <3> QED
      BY <1>2, <3>1, EmptySeq
  <2>2. 1 .. 0 = {}
    OBVIOUS
  <2> QED
    BY <2>1, <2>2 DEF Apart, In
<1>3. CASE rs # <<>>
  <2>1. PICK g : Grows(g, rs)
    BY <1>1, <1>3, LoadIs
  <2>2. n # 0
    BY <1>1, <1>3, EmptySeq
  <2> DEFINE Covers(k, u) == rs[k].start <= u /\ u <= rs[k].end
             Good(k) == /\ Apart(g[k], M) /\ g[k] # <<>> /\ Last(g[k]).start <= rs[k].start
                        /\ \A u \in Nat : In(g[k], u) <=> \E i \in 1 .. k : Covers(i, u)
             T == {k \in 0 .. n : k # 0 => Good(k)}
  <2>3. 0 \in T
    BY <1>1
  <2>4. Good(1)
    <3> DEFINE x == rs[1]
               v == <<x>>
    <3>1. x \in Spans /\ x.start <= x.end /\ x.end < M /\ g[1] = v
      <4>1. 1 \in 1 .. n
        BY <1>1, <2>2
      <4> QED
        BY <1>1, <2>1, <4>1 DEF Grows
    <3>2. x.start \in Nat /\ x.end \in Nat
      BY <3>1 DEF Spans
    <3> HIDE DEF x
    <3>3. v \in Seq(Spans) /\ Len(v) = 1 /\ v[1] = x /\ v # <<>> /\ Last(v) = x
      BY <3>1 DEF Last
    <3> HIDE DEF v
    <3>4. \A i \in 1 .. Len(v) : i = 1
      BY <3>3
    <3>5. Apart(v, M)
      BY <3>1, <3>3, <3>4 DEF Apart
    <3>6. \A u \in Nat : In(v, u) <=> x.start <= u /\ u <= x.end
      BY <3>3 DEF In
    <3>7. \A u \in Nat : (\E i \in 1 .. 1 : Covers(i, u)) <=> x.start <= u /\ u <= x.end
      BY DEF x
    <3>8. Last(v).start <= rs[1].start
      BY <3>2, <3>3 DEF x
    <3> QED
      BY <3>1, <3>3, <3>5, <3>6, <3>7, <3>8
  <2>5. ASSUME NEW k \in 0 .. n - 1, k \in T PROVE k + 1 \in T
    <3>1. k + 1 \in 0 .. n
      BY <1>1
    <3>2. CASE k = 0
      BY <2>4, <3>1, <3>2
    <3>3. CASE k # 0
      <4> DEFINE x == rs[k + 1]
                 v == g[k + 1]
      <4>1. k \in 1 .. n /\ k + 1 \in 1 .. n /\ k + 1 \in 2 .. n /\ (k + 1) - 1 = k /\ k < k + 1
        BY <1>1, <3>3
      <4>2. x \in Spans /\ x.start <= x.end /\ x.end < M /\ rs[k].start <= x.start
        BY <1>1, <4>1
      <4>3. v = Join(g[k], x)
        BY <2>1, <4>1 DEF Grows
      <4>4. Good(k)
        BY <2>5, <3>3
      <4>5. Last(g[k]).start <= x.start
        <5> DEFINE a == Last(g[k])
        <5>1. a.start \in Nat /\ rs[k].start \in Nat /\ x.start \in Nat
          <6>1. a \in Spans
            BY <4>4, EndOf DEF Apart
          <6> QED
            BY <1>1, <4>1, <4>2, <6>1 DEF Spans
        <5> HIDE DEF a, x
        <5> QED
          BY <4>2, <4>4, <5>1 DEF a
      <4> HIDE DEF x, v
      <4>6. Joins(g[k], x, v, M)
        BY <4>2, <4>3, <4>4, <4>5, JoinMerges
      <4>7. ASSUME NEW u \in Nat PROVE In(v, u) <=> \E i \in 1 .. k + 1 : Covers(i, u)
        <5>1. In(v, u) <=> (\E i \in 1 .. k : Covers(i, u)) \/ Covers(k + 1, u)
          BY <4>4, <4>6 DEF Joins, x
        <5>2. \A i \in 1 .. k + 1 : i \in 1 .. k \/ i = k + 1
          BY <4>1
        <5>3. k + 1 \in 1 .. k + 1 /\ \A i \in 1 .. k : i \in 1 .. k + 1
          BY <4>1
        <5> HIDE DEF Covers
        <5> QED
          BY ONLY <5>1, <5>2, <5>3, Zenon
      <4>8. Good(k + 1)
        BY <4>6, <4>7 DEF Joins, v, x
      <4> HIDE DEF Good
      <4> QED
        BY <3>1, <4>8
    <3> QED
      BY <3>2, <3>3
  <2> HIDE DEF T
  <2>6. n \in T
    <3>1. \A k \in 0 .. n - 1 : k \in T => k + 1 \in T
      BY <2>5
    <3>2. n \in Nat /\ n \in 0 .. n
      BY <1>1
    <3> HIDE DEF n
    <3>3. 0 .. n \subseteq T
      BY ONLY <2>3, <3>1, <3>2, UpTo
    <3> QED
      BY <3>2, <3>3
  <2>7. Good(n)
    BY <2>2, <2>6 DEF T
  <2>8. g[n] = s
    BY <2>1 DEF Grows
  <2> QED
    BY <2>7, <2>8 DEF In
<1> QED
  BY <1>2, <1>3

\* A search is a function that follows its probes.
Pairs(N) == (1 .. N) \X (1 .. N)
Searches(table, u, g, N) == \A w \in Pairs(N) : g[w] = Probe(table, u, g, w)

\* Half of what is left, on either side.
LEMMA Halved ==
  ASSUME NEW N \in Nat, NEW lo \in 1 .. N, NEW hi \in 1 .. N, lo < hi,
         NEW mid, mid = (lo + hi) \div 2
  PROVE  /\ mid \in 1 .. N /\ mid + 1 \in 1 .. N /\ lo <= mid /\ mid < hi
         /\ mid - lo < hi - lo /\ hi - (mid + 1) < hi - lo
OBVIOUS

\* A probe asks for one of two parts only.
AgreeBelow(g, h, lo, hi) ==
  LET mid == (lo + hi) \div 2 IN
  lo < hi => g[<<lo, mid>>] = h[<<lo, mid>>] /\ g[<<mid + 1, hi>>] = h[<<mid + 1, hi>>]

LEMMA SameProbe ==
  ASSUME NEW table, NEW u, NEW g, NEW h, NEW lo \in Nat, NEW hi \in Nat, AgreeBelow(g, h, lo, hi)
  PROVE  Probe(table, u, g, <<lo, hi>>) = Probe(table, u, h, <<lo, hi>>)
<1> DEFINE w == <<lo, hi>>
           mid == (lo + hi) \div 2
<1>1. w[1] = lo /\ w[2] = hi /\ mid = (w[1] + w[2]) \div 2
  OBVIOUS
<1>2. CASE lo >= hi
  <2>1. w[1] >= w[2]
    BY <1>1, <1>2
  <2> HIDE DEF w
  <2>2. Probe(table, u, g, w) = w[1] /\ Probe(table, u, h, w) = w[1]
    BY <2>1, Zenon DEF Probe
  <2> QED
    BY <2>2 DEF w
<1>3. CASE lo < hi
  <2>1. g[<<lo, mid>>] = h[<<lo, mid>>] /\ g[<<mid + 1, hi>>] = h[<<mid + 1, hi>>]
    BY <1>3 DEF AgreeBelow
  <2>2. ~ (w[1] >= w[2])
    BY <1>1, <1>3
  <2> HIDE DEF w, mid
  <2>3. \A f : Probe(table, u, f, w) =
                IF table[mid].end >= u THEN f[<<lo, mid>>] ELSE f[<<mid + 1, hi>>]
    BY ONLY <1>1, <2>2, Zenon DEF Probe
  <2> QED
    BY <2>1, <2>3 DEF w
<1> QED
  BY <1>2, <1>3

\* It exists: a probe asks for a smaller part only.
Searchable(table, u, N) == \E g : g = [w \in Pairs(N) |-> Probe(table, u, g, w)]

LEMMA SearchExists ==
  ASSUME NEW table, NEW u, NEW N \in Nat \ {0}
  PROVE  Searchable(table, u, N)
<1> DEFINE W == Pairs(N)
           Rank(w) == w[2] - w[1] + N
           Good(g, d) == \A w \in W : Rank(w) < d => g[w] = Probe(table, u, g, w)
           Fun(g) == DOMAIN g = W /\ g = [w \in W |-> g[w]]
           D == {d \in Nat : \E g : Fun(g) /\ Good(g, d)}
           n == 2 * N
<1>1. \A w \in W : Rank(w) \in Nat /\ Rank(w) < n
  BY DEF Pairs
<1>2. n \in Nat
  OBVIOUS
<1>3. ASSUME NEW g, NEW h, NEW w \in W, \A z \in W : Rank(z) < Rank(w) => g[z] = h[z]
      PROVE  Probe(table, u, g, w) = Probe(table, u, h, w)
  <2> DEFINE lo == w[1]
             hi == w[2]
             mid == (lo + hi) \div 2
  <2>1. w = <<lo, hi>> /\ lo \in 1 .. N /\ hi \in 1 .. N
    BY DEF Pairs
  <2>2. lo < hi => g[<<lo, mid>>] = h[<<lo, mid>>] /\ g[<<mid + 1, hi>>] = h[<<mid + 1, hi>>]
    <3> SUFFICES ASSUME lo < hi
                 PROVE  g[<<lo, mid>>] = h[<<lo, mid>>] /\ g[<<mid + 1, hi>>] = h[<<mid + 1, hi>>]
      OBVIOUS
    <3> HIDE DEF lo, hi
    <3>1. /\ mid \in 1 .. N /\ mid + 1 \in 1 .. N
          /\ mid - lo < hi - lo /\ hi - (mid + 1) < hi - lo
      BY <2>1, Halved
    <3> HIDE DEF mid
    <3>2. Rank(<<lo, mid>>) < Rank(<<lo, hi>>) /\ Rank(<<mid + 1, hi>>) < Rank(<<lo, hi>>)
      BY <2>1, <3>1
    <3>3. <<lo, mid>> \in W /\ <<mid + 1, hi>> \in W
      BY <2>1, <3>1 DEF Pairs
    <3> HIDE DEF W, Rank
    <3> QED
      BY <1>3, <2>1, <3>2, <3>3
  <2> HIDE DEF lo, hi, W, Rank
  <2>3. Probe(table, u, g, <<lo, hi>>) = Probe(table, u, h, <<lo, hi>>)
    <3>1. lo \in Nat /\ hi \in Nat
      BY <2>1
    <3>2. AgreeBelow(g, h, lo, hi)
      BY <2>2 DEF AgreeBelow
    <3> QED
      BY ONLY <3>1, <3>2, SameProbe
  <2> QED
    BY <2>1, <2>3
<1> HIDE DEF W, Rank, n
<1>4. 0 \in D
  <2> DEFINE g == [w \in W |-> 0]
  <2>1. Fun(g)
    OBVIOUS
  <2>2. \A w \in W : ~ (Rank(w) < 0)
    BY <1>1
  <2>3. Good(g, 0)
    BY <2>2
  <2> HIDE DEF g, Good, Fun
  <2> QED
    BY <2>1, <2>3
<1>5. ASSUME NEW d \in 0 .. n - 1, d \in D PROVE d + 1 \in D
  <2>1. PICK g : Fun(g) /\ Good(g, d)
    BY <1>5
  <2> DEFINE h == [w \in W |-> IF Rank(w) = d THEN Probe(table, u, g, w) ELSE g[w]]
  <2>2. /\ Fun(h) /\ \A w \in W : Rank(w) = d => h[w] = Probe(table, u, g, w)
        /\ \A w \in W : Rank(w) # d => h[w] = g[w]
    OBVIOUS
  <2> HIDE DEF h
  <2>3. ASSUME NEW w \in W, Rank(w) < d + 1 PROVE h[w] = Probe(table, u, h, w)
    <3>1. Rank(w) <= d
      BY <1>1, <2>3
    <3>2. ASSUME NEW z \in W, Rank(z) < Rank(w) PROVE g[z] = h[z]
      <4>1. Rank(z) # d
        BY <1>1, <3>1, <3>2
      <4> QED
        BY <2>2, <4>1
    <3>3. Probe(table, u, g, w) = Probe(table, u, h, w)
      BY <1>3, <3>2
    <3>4. CASE Rank(w) = d
      BY <2>2, <3>3, <3>4
    <3>5. CASE Rank(w) # d
      <4>1. Rank(w) < d
        BY <1>1, <3>1, <3>5
      <4> QED
        BY <2>1, <2>2, <3>3, <3>5, <4>1
    <3> QED
      BY <3>4, <3>5
  <2>4. Good(h, d + 1)
    BY <2>3
  <2>5. d + 1 \in Nat /\ Fun(h)
    BY <2>2
  <2> HIDE DEF Good, Fun
  <2> QED
    BY <2>4, <2>5
<1> HIDE DEF D
<1>6. n \in D
  <2>1. \A d \in 0 .. n - 1 : d \in D => d + 1 \in D
    BY <1>5
  <2>2. n \in 0 .. n
    BY <1>2
  <2>3. 0 .. n \subseteq D
    BY ONLY <1>2, <1>4, <2>1, UpTo
  <2> QED
    BY <2>2, <2>3
<1>7. PICK g : Fun(g) /\ Good(g, n)
  BY <1>6 DEF D
<1>8. \A w \in W : g[w] = Probe(table, u, g, w)
  BY <1>1, <1>7
<1>9. g = [w \in W |-> Probe(table, u, g, w)]
  BY <1>7, <1>8
<1> QED
  BY <1>9, Zenon DEF W, Searchable

\* The search of the code is such a function, and IsCN asks for what it finds.
LEMMA SearchIs ==
  ASSUME NEW table, NEW u, NEW N \in Nat \ {0}, N = Len(table) + 1
  PROVE  \E g : /\ Searches(table, u, g, N)
                /\ IsCN(table, u) <=> /\ g[<<1, N>>] <= Len(table)
                                      /\ table[g[<<1, N>>]].start <= u
<1> DEFINE n == Len(table) + 1
           g == CHOOSE g : g = [w \in (1 .. n) \X (1 .. n) |-> Probe(table, u, g, w)]
<1>1. IsCN(table, u) <=> g[<<1, n>>] <= Len(table) /\ table[g[<<1, n>>]].start <= u
  BY Zenon DEF IsCN
<1> HIDE DEF n
<1>2. n = N
  BY DEF n
<1>3. g = [w \in (1 .. n) \X (1 .. n) |-> Probe(table, u, g, w)]
  <2>1. \E f : f = [w \in (1 .. n) \X (1 .. n) |-> Probe(table, u, f, w)]
    <3>1. n \in Nat \ {0}
      BY <1>2
    <3> QED
      <4>1. Searchable(table, u, n)
        BY <3>1, SearchExists
      <4> QED
        BY <4>1, Zenon DEF Pairs, Searchable
  <2> QED
    BY <2>1, Zenon
<1> HIDE DEF g
<1>4. Searches(table, u, g, n)
  <2> DEFINE h == [w \in (1 .. n) \X (1 .. n) |-> Probe(table, u, g, w)]
  <2>1. \A w \in (1 .. n) \X (1 .. n) : h[w] = Probe(table, u, g, w)
    BY Zenon
  <2>2. h = g
    BY <1>3
  <2> HIDE DEF h
  <2> QED
    BY ONLY <2>1, <2>2, Zenon DEF Searches, Pairs
<1> QED
  BY <1>1, <1>2, <1>4

\* The search finds the first range that does not end before u.
First(table, u, lo, hi, i) ==
  /\ i \in lo .. hi /\ \A j \in lo .. i - 1 : table[j].end < u
  /\ i < hi => table[i].end >= u

LEMMA SearchFinds ==
  ASSUME NEW table, NEW u \in Nat, NEW N \in Nat \ {0}, NEW g, Searches(table, u, g, N),
         \A j \in 1 .. N - 1 : table[j].end \in Nat,
         \A j, k \in 1 .. N - 1 : j <= k => table[j].end <= table[k].end
  PROVE  First(table, u, 1, N, g[<<1, N>>])
<1> DEFINE Good(d) == \A lo, hi \in 1 .. N :
                        lo <= hi /\ hi - lo <= d => First(table, u, lo, hi, g[<<lo, hi>>])
           T == {d \in Nat : Good(d)}
<1>0. ASSUME NEW lo \in 1 .. N, NEW hi \in 1 .. N
      PROVE  g[<<lo, hi>>] = IF lo >= hi THEN lo
                             ELSE IF table[(lo + hi) \div 2].end >= u
                             THEN g[<<lo, (lo + hi) \div 2>>]
                             ELSE g[<<(lo + hi) \div 2 + 1, hi>>]
  <2> DEFINE w == <<lo, hi>>
  <2>1. w \in Pairs(N) /\ w[1] = lo /\ w[2] = hi
    BY DEF Pairs
  <2> HIDE DEF w
  <2>2. g[w] = Probe(table, u, g, w)
    BY <2>1 DEF Searches
  <2>3. Probe(table, u, g, w) =
          IF lo >= hi THEN lo
          ELSE IF table[(lo + hi) \div 2].end >= u THEN g[<<lo, (lo + hi) \div 2>>]
          ELSE g[<<(lo + hi) \div 2 + 1, hi>>]
    BY ONLY <2>1, Zenon DEF Probe
  <2> QED
    BY <2>2, <2>3 DEF w
<1>1. ASSUME NEW lo \in 1 .. N, NEW hi \in 1 .. N, lo = hi
      PROVE  First(table, u, lo, hi, g[<<lo, hi>>])
  <2>1. g[<<lo, hi>>] = lo
    <3>1. lo >= hi
      BY <1>1
    <3> QED
      BY <1>0, <3>1, Zenon
  <2>2. lo \in lo .. hi /\ lo .. lo - 1 = {} /\ ~ (lo < hi)
    BY <1>1
  <2> QED
    BY <2>1, <2>2 DEF First
<1>2. 0 \in T
  <2>1. \A lo, hi \in 1 .. N : lo <= hi /\ hi - lo <= 0 => lo = hi
    OBVIOUS
  <2> QED
    BY <1>1, <2>1
<1>3. ASSUME NEW d \in 0 .. N - 1, d \in T PROVE d + 1 \in T
  <2>1. ASSUME NEW lo \in 1 .. N, NEW hi \in 1 .. N, lo < hi, hi - lo <= d + 1
        PROVE  First(table, u, lo, hi, g[<<lo, hi>>])
    <3> DEFINE mid == (lo + hi) \div 2
    <3>1. /\ mid \in 1 .. N /\ mid + 1 \in 1 .. N /\ lo <= mid /\ mid < hi
          /\ mid - lo < hi - lo /\ hi - (mid + 1) < hi - lo
      BY <2>1, Halved
    <3>2. g[<<lo, hi>>] = IF table[mid].end >= u THEN g[<<lo, mid>>] ELSE g[<<mid + 1, hi>>]
      <4>1. ~ (lo >= hi)
        BY <2>1
      <4> QED
        BY <1>0, <4>1
    <3> HIDE DEF mid
    <3>3. mid \in 1 .. N - 1 /\ mid - lo <= d /\ hi - (mid + 1) <= d /\ mid + 1 <= hi
      BY <2>1, <3>1
    <3>4. CASE table[mid].end >= u
      <4> DEFINE i == g[<<lo, mid>>]
      <4>1. First(table, u, lo, mid, i)
        BY <1>3, <3>1, <3>3
      <4>2. g[<<lo, hi>>] = i
        BY <3>2, <3>4
      <4> HIDE DEF i
      <4>3. /\ i \in lo .. mid /\ (i < mid => table[i].end >= u)
            /\ \A j \in lo .. i - 1 : table[j].end < u
        BY <4>1 DEF First
      <4>4. i \in lo .. hi /\ (i = mid \/ i < mid)
        BY <3>1, <4>3
      <4>5. table[i].end >= u
        BY <3>4, <4>3, <4>4
      <4> QED
        BY <4>2, <4>3, <4>4, <4>5 DEF First
    <3>5. CASE ~ (table[mid].end >= u)
      <4> DEFINE i == g[<<mid + 1, hi>>]
      <4>1. First(table, u, mid + 1, hi, i)
        BY <1>3, <3>1, <3>3
      <4>2. g[<<lo, hi>>] = i
        BY <3>2, <3>5
      <4> HIDE DEF i
      <4>3. /\ i \in mid + 1 .. hi /\ (i < hi => table[i].end >= u)
            /\ \A j \in mid + 1 .. i - 1 : table[j].end < u
        BY <4>1 DEF First
      <4>4. i \in lo .. hi
        BY <3>1, <4>3
      <4>5. ASSUME NEW j \in lo .. i - 1 PROVE table[j].end < u
        <5>1. CASE j > mid
          <6>1. j \in mid + 1 .. i - 1
            BY <3>1, <4>4, <5>1
          <6> QED
            BY <4>3, <6>1
        <5>2. CASE j <= mid
          <6>1. j \in 1 .. N - 1
            BY <3>3, <5>2
          <6> DEFINE x == table[j].end
                     y == table[mid].end
          <6>2. x <= y /\ ~ (y >= u) /\ x \in Nat /\ y \in Nat
            BY <3>3, <3>5, <5>2, <6>1
          <6> HIDE DEF x, y
          <6>3. x < u
            BY <6>2
          <6> QED
            BY <6>3 DEF x
        <5> QED
          BY <3>1, <5>1, <5>2
      <4> QED
        BY <4>2, <4>3, <4>4, <4>5 DEF First
    <3> QED
      BY <3>4, <3>5
  <2>2. \A lo, hi \in 1 .. N : lo <= hi => lo = hi \/ lo < hi
    OBVIOUS
  <2>3. Good(d + 1)
    BY <1>1, <2>1, <2>2
  <2> HIDE DEF Good
  <2> QED
    BY <2>3
<1> HIDE DEF T
<1>4. N \in T
  <2>1. \A d \in 0 .. N - 1 : d \in T => d + 1 \in T
    BY <1>3
  <2>2. N \in Nat /\ N \in 0 .. N
    OBVIOUS
  <2>3. 0 .. N \subseteq T
    BY ONLY <1>2, <2>1, <2>2, UpTo
  <2> QED
    BY <2>2, <2>3
<1>5. 1 \in 1 .. N /\ N \in 1 .. N /\ 1 <= N /\ N - 1 <= N
  OBVIOUS
<1> QED
  BY <1>4, <1>5 DEF T

\* An address is found in a table whose ranges are apart exactly when one of them holds it.
LEMMA TableDecides ==
  ASSUME NEW M \in Nat, NEW s, Apart(s, M), NEW u \in Nat
  PROVE  IsCN(s, u) <=> In(s, u)
<1> DEFINE n == Len(s)
           N == n + 1
<1>1. /\ n \in Nat /\ N \in Nat \ {0}
      /\ \A i \in 1 .. n : /\ s[i].start \in Nat /\ s[i].end \in Nat
                          /\ s[i].start <= s[i].end
      /\ \A i, j \in 1 .. n : i < j => s[i].end + 1 < s[j].start
  <2>1. s \in Seq(Spans) /\ n \in Nat /\ \A i \in 1 .. n : s[i] \in Spans
    BY LenProperties, ElementOfSeq DEF Apart
  <2> QED
    BY <2>1 DEF Apart, Spans
<1>2. PICK g : /\ Searches(s, u, g, N)
               /\ IsCN(s, u) <=> g[<<1, N>>] <= Len(s) /\ s[g[<<1, N>>]].start <= u
  BY <1>1, SearchIs
<1> DEFINE k == g[<<1, N>>]
<1> HIDE DEF n
<1>3. N - 1 = n
  BY <1>1
<1>4. \A i, j \in 1 .. n : i <= j => s[i].end <= s[j].end
  <2> SUFFICES ASSUME NEW i \in 1 .. n, NEW j \in 1 .. n, i <= j PROVE s[i].end <= s[j].end
    OBVIOUS
  <2> DEFINE a == s[i].end
             b == s[j].start
             c == s[j].end
  <2>1. a \in Nat /\ b \in Nat /\ c \in Nat /\ b <= c /\ (i < j => a + 1 < b) /\ (i = j => a = c)
    BY <1>1
  <2> HIDE DEF a, b, c
  <2>2. a <= c
    BY <2>1
  <2> QED
    BY <2>2 DEF a, c
<1> HIDE DEF N
<1>5. First(s, u, 1, N, k)
  BY <1>1, <1>2, <1>3, <1>4, SearchFinds
<1>6. /\ k \in 1 .. N /\ (k < N => s[k].end >= u)
      /\ \A j \in 1 .. k - 1 : s[j].end < u
  BY <1>5 DEF First
<1>7. IsCN(s, u) <=> k <= n /\ s[k].start <= u
  BY <1>2 DEF n
<1> HIDE DEF k
<1>8. ASSUME k <= n, s[k].start <= u PROVE In(s, u)
  <2>1. k \in 1 .. n /\ k < N
    BY <1>1, <1>3, <1>6, <1>8
  <2>2. s[k].end >= u /\ s[k].end \in Nat
    BY <1>1, <1>6, <2>1
  <2> DEFINE e == s[k].end
  <2> HIDE DEF e
  <2>3. u <= e
    BY <2>2 DEF e
  <2> QED
    BY <1>8, <2>1, <2>3 DEF In, n, e
<1>9. ASSUME In(s, u) PROVE k <= n /\ s[k].start <= u
  <2>1. PICK j \in 1 .. n : s[j].start <= u /\ u <= s[j].end
    BY <1>9 DEF In, n
  <2> DEFINE a == s[j].start
             e == s[j].end
  <2>2. a \in Nat /\ e \in Nat /\ a <= u /\ u <= e
    BY <1>1, <2>1
  <2>3. k <= j
    <3> SUFFICES ASSUME j <= k - 1 PROVE FALSE
      BY <1>1, <1>3, <1>6
    <3>1. j \in 1 .. k - 1
      BY <1>1, <1>3, <1>6
    <3>2. e < u
      BY <1>6, <3>1
    <3> HIDE DEF e
    <3> QED
      BY <2>2, <3>2
  <2>4. k \in 1 .. n /\ k <= n /\ k < N
    BY <1>1, <1>3, <1>6, <2>3
  <2>5. k = j
    <3> SUFFICES ASSUME k < j PROVE FALSE
      BY <1>1, <1>3, <1>6, <2>3
    <3> DEFINE z == s[k].end
    <3>1. z \in Nat /\ z + 1 < a /\ z >= u
      BY <1>1, <1>6, <2>4
    <3> HIDE DEF z, a
    <3> QED
      BY <2>2, <3>1
  <2> QED
    BY <2>1, <2>4, <2>5
<1> QED
  BY <1>7, <1>8, <1>9

\* A block holds an address.
Covers(c, u) == c[2] # 0 /\ c[1] <= u /\ u < c[1] + Width(c)

\* The ranges hold what the blocks hold, in whichever order the sort leaves them.
LEMMA RangesAre ==
  ASSUME NEW t \in Tables, NEW rs \in Ranges(t), NEW M \in Nat, Size = M + 1,
         \A i \in DOMAIN t : ~ Covers(t[i], M)
  PROVE  ByStart(rs, M) /\ \A u \in Nat : In(rs, u) <=> \E i \in DOMAIN t : Covers(t[i], u)
<1> DEFINE kept == {i \in DOMAIN t : t[i][2] # 0}
           n == Cardinality(kept)
           start(i) == t[i][1]
           width(i) == Width(t[i])
<1>1. PICK p : /\ p \in Bijection(1 .. n, kept)
               /\ rs = [k \in DOMAIN p |-> [start |-> t[p[k]][1],
                                             end |-> t[p[k]][1] + Width(t[p[k]]) - 1]]
               /\ \A k, l \in DOMAIN p : k < l => t[p[k]][1] <= t[p[l]][1]
  BY Zenon DEF Ranges
<1>2. n \in Nat
  <2>1. t \in Seq(Nat \X (0 .. Bits))
    BY CodecsAssumption
  <2>2. DOMAIN t = 1 .. Len(t) /\ Len(t) \in Nat
    BY <2>1, LenProperties
  <2>3. IsFiniteSet(1 .. Len(t))
    BY <2>2, FS_Interval
  <2>4. IsFiniteSet(kept)
    <3>1. kept \subseteq 1 .. Len(t)
      BY <2>2
    <3> HIDE DEF kept
    <3> QED
      BY <2>3, <3>1, FS_Subset
  <2> HIDE DEF kept
  <2> QED
    BY <2>4, FS_CardinalityType
<1>3. ASSUME NEW i \in kept
      PROVE  start(i) \in Nat /\ width(i) \in Nat \ {0} /\ start(i) + width(i) <= Size
  <2>1. Fitting(t[i]) /\ t[i][2] # 0
    BY CodecsAssumption
  <2> QED
    BY <2>1, Zenon DEF Fitting, Size
<1>4. \A i \in DOMAIN t, u \in Nat :
        Covers(t[i], u) <=> i \in kept /\ start(i) <= u /\ u < start(i) + width(i)
  BY Zenon DEF Covers
<1>5. p \in [1 .. n -> kept] /\ DOMAIN p = 1 .. n /\ \A i \in kept : \E k \in 1 .. n : p[k] = i
  <2> HIDE DEF kept, n
  <2> QED
    BY <1>1 DEF Bijection, Surjection
<1>6. \A i \in kept : i \in DOMAIN t
  OBVIOUS
<1> HIDE DEF kept, n
<1>7. ASSUME NEW k \in 1 .. n
      PROVE  /\ rs[k] \in Spans
             /\ rs[k].start = start(p[k]) /\ rs[k].end = start(p[k]) + width(p[k]) - 1
             /\ rs[k].start <= rs[k].end /\ rs[k].end < M
             /\ \A u \in Nat : Covers(t[p[k]], u) <=> rs[k].start <= u /\ u <= rs[k].end
  <2> DEFINE i == p[k]
             a == start(i)
             w == width(i)
  <2>1. i \in kept /\ rs[k] = [start |-> a, end |-> a + w - 1]
    BY <1>1, <1>5
  <2>2. a \in Nat /\ w \in Nat \ {0} /\ a + w <= Size
    BY <1>3, <2>1
  <2>3. \A u \in Nat : Covers(t[i], u) <=> a <= u /\ u < a + w
    BY <1>4, <1>6, <2>1
  <2>4. ~ Covers(t[i], M)
    BY <1>6, <2>1
  <2> HIDE DEF i, a, w
  <2>5. ~ (a <= M /\ M < a + w)
    BY <2>3, <2>4
  <2>6. a + w - 1 < M /\ a <= a + w - 1 /\ a + w - 1 \in Nat
    BY <2>2, <2>5
  <2>7. rs[k].start = a /\ rs[k].end = a + w - 1 /\ rs[k] \in Spans
    BY <2>1, <2>2, <2>6 DEF Spans
  <2>8. \A u \in Nat : a <= u /\ u < a + w <=> a <= u /\ u <= a + w - 1
    BY <2>2
  <2>9. \A u \in Nat : Covers(t[i], u) <=> rs[k].start <= u /\ u <= rs[k].end
    BY <2>3, <2>7, <2>8
  <2> QED
    BY <2>6, <2>7, <2>9 DEF i, a, w
<1>8. rs \in Seq(Spans) /\ Len(rs) = n
  <2>1. DOMAIN rs = 1 .. n /\ rs = [k \in 1 .. n |-> rs[k]]
    BY <1>1, <1>5
  <2> QED
    BY <1>2, <1>7, <2>1
<1>9. \A k, l \in 1 .. n : k < l => rs[k].start <= rs[l].start
  BY <1>1, <1>5, <1>7
<1>10. ASSUME NEW u \in Nat PROVE In(rs, u) <=> \E i \in DOMAIN t : Covers(t[i], u)
  <2>1. ASSUME In(rs, u) PROVE \E i \in DOMAIN t : Covers(t[i], u)
    <3>1. PICK k \in 1 .. n : rs[k].start <= u /\ u <= rs[k].end
      BY <1>8, <2>1 DEF In
    <3>2. p[k] \in DOMAIN t /\ Covers(t[p[k]], u)
      BY <1>5, <1>6, <1>7, <3>1
    <3> QED
      BY <3>2
  <2>2. ASSUME NEW i \in DOMAIN t, Covers(t[i], u) PROVE In(rs, u)
    <3>1. i \in kept
      BY <1>4, <2>2
    <3>2. PICK k \in 1 .. n : p[k] = i
      BY <1>5, <3>1
    <3>3. rs[k].start <= u /\ u <= rs[k].end
      BY <1>7, <2>2, <3>2
    <3> QED
      BY <1>8, <3>3 DEF In
  <2> QED
    BY <2>1, <2>2
<1> QED
  BY <1>7, <1>8, <1>9, <1>10 DEF ByStart

\* What TableIsMembership says of a list of blocks and of the table made of it.
Member(t, o) ==
  LET blocks == {t[i] : i \in DOMAIN t}
      covers(c, u) == c[2] # 0 /\ c[1] <= u /\ u < c[1] + Width(c) IN
  (\A c \in blocks : ~ covers(c, Size - 1)) =>
    \A u \in 0 .. Size - 1 : IsCN(o, u) <=> \E c \in blocks : covers(c, u)

LEMMA TableIsRight ==
  ASSUME NEW t \in Tables, NEW rs \in Ranges(t)
  PROVE  Member(t, LoadCN(rs))
<1> DEFINE M == Size - 1
           o == LoadCN(rs)
           blocks == {t[i] : i \in DOMAIN t}
<1>1. Size \in Nat \ {0}
  BY CodecsAssumption, Zenon DEF Size
<1>2. M \in Nat /\ Size = M + 1 /\ \A u \in 0 .. M : u \in Nat
  BY <1>1
<1>3. \A u : (\E c \in blocks : Covers(c, u)) <=> \E i \in DOMAIN t : Covers(t[i], u)
  OBVIOUS
<1>4. ASSUME \A c \in blocks : ~ Covers(c, M), NEW u \in 0 .. M
      PROVE  IsCN(o, u) <=> \E c \in blocks : Covers(c, u)
  <2>1. \A i \in DOMAIN t : ~ Covers(t[i], M)
    BY <1>4
  <2>2. u \in Nat
    BY <1>2
  <2> HIDE DEF M, o, blocks
  <2>3. ByStart(rs, M) /\ (In(rs, u) <=> \E i \in DOMAIN t : Covers(t[i], u))
    BY <1>2, <2>1, <2>2, RangesAre
  <2>4. Apart(o, M) /\ (In(o, u) <=> In(rs, u))
    BY <1>2, <2>2, <2>3, LoadMerges DEF o
  <2>5. IsCN(o, u) <=> In(o, u)
    BY <1>2, <2>2, <2>4, TableDecides
  <2> QED
    BY <1>3, <2>3, <2>4, <2>5
<1> QED
  BY <1>4, Zenon DEF Member, Covers

(***************************************************************************)
(* An address is found in the table exactly when a block contains it, for  *)
(* every list of blocks, however they overlap, touch and repeat, and       *)
(* whichever way the sort leaves those with the same start, as long as     *)
(* none ends at the last address (cnroute.go:43-97).                       *)
(***************************************************************************)
THEOREM TableIsRead == CodecSpec => []TableIsMembership
<1>1. CodecInit => TableIsMembership
  BY DEF CodecInit, TableIsMembership, Fed
<1>2. TableIsMembership /\ [CodecNext]_codecVars => TableIsMembership'
  <2> SUFFICES ASSUME TableIsMembership, [CodecNext]_codecVars PROVE TableIsMembership'
    OBVIOUS
  <2>0. ASSUME input'.codec # "table" PROVE TableIsMembership'
    BY ONLY <2>0 DEF TableIsMembership, Fed
  <2>1. CASE SocksTarget \/ ConnectTarget
    BY <2>0, <2>1 DEF SocksTarget, ConnectTarget, Feeds
  <2>2. CASE SendHead
    BY <2>0, <2>2 DEF SendHead, Feeds
  <2>3. CASE ParseQuery
    BY <2>0, <2>3 DEF ParseQuery, Feeds
  <2>4. CASE LoadTable
    <3>1. PICK t \in Tables : \E rs \in Ranges(t) : Feeds("table", t, LoadCN(rs))
      BY <2>4 DEF LoadTable
    <3>2. PICK rs \in Ranges(t) : Feeds("table", t, LoadCN(rs))
      BY <3>1
    <3>3. Member(t, LoadCN(rs))
      BY TableIsRight
    <3>4. input'.it = t /\ output' = LoadCN(rs)
      BY <3>2 DEF Feeds
    <3> QED
      BY ONLY <3>3, <3>4, Zenon DEF TableIsMembership, Member
  <2>5. CASE MatchList
    BY <2>0, <2>5 DEF MatchList, Feeds
  <2>6. CASE UNCHANGED codecVars
    BY <2>6 DEF codecVars, TableIsMembership, Fed
  <2> QED
    BY <2>1, <2>2, <2>3, <2>4, <2>5, <2>6 DEF CodecNext
<1> QED
  BY <1>1, <1>2, PTL DEF CodecSpec

-----------------------------------------------------------------------------
(***************************************************************************)
(* Lists of names. What follows a dot in a name is the name of its later   *)
(* labels, since no label holds a dot.                                     *)
(***************************************************************************)

\* The end of t is s.
EndsWith(s, t) ==
  /\ Len(s) <= Len(t)
  /\ \A i \in 1 .. Len(s) : t[Len(t) - Len(s) + i] = s[i]

\* A sequence from its end.
LEMMA ReverseIs ==
  ASSUME NEW S, NEW s \in Seq(S), NEW r, r = Reverse(s)
  PROVE  /\ r \in Seq(S) /\ Len(r) = Len(s) /\ Len(s) \in Nat
         /\ \A i \in 1 .. Len(s) : r[i] = s[Len(s) - i + 1]
<1> DEFINE n == Len(s)
<1>1. n \in Nat /\ \A i \in 1 .. n : s[i] \in S
  BY LenProperties, ElementOfSeq
<1>2. r = [i \in 1 .. n |-> s[(n - i) + 1]]
  BY Zenon DEF Reverse
<1> HIDE DEF n
<1>3. \A i \in 1 .. n : n - i + 1 \in 1 .. n
  BY <1>1
<1>4. r \in [1 .. n -> S] /\ \A i \in 1 .. n : r[i] = s[n - i + 1]
  BY <1>1, <1>2, <1>3
<1>5. r \in Seq(S) /\ Len(r) = n
  BY <1>1, <1>4
<1> QED
  BY <1>1, <1>4, <1>5 DEF n

\* A prefix is what the sequence begins with.
LEMMA PrefixIs ==
  ASSUME NEW S, NEW s \in Seq(S), NEW t \in Seq(S)
  PROVE  IsPrefix(s, t) <=> Len(s) <= Len(t) /\ \A i \in 1 .. Len(s) : t[i] = s[i]
<1> DEFINE n == Len(s)
           a == SubSeq(s, 1, n)
           c == SubSeq(t, 1, n)
<1>1. n \in Nat /\ Len(t) \in Nat /\ \A i \in 1 .. n : s[i] \in S
  BY LenProperties, ElementOfSeq
<1>2. IsPrefix(s, t) <=> n <= Len(t) /\ a = c
  BY Zenon DEF IsPrefix
<1>3. CASE n <= Len(t)
  <2>1. \A i \in 1 .. n : t[i] \in S
    <3>1. \A i \in 1 .. n : i \in 1 .. Len(t)
      BY <1>1, <1>3
    <3> QED
      BY <3>1, ElementOfSeq
  <2> HIDE DEF n
  <2>2. /\ a \in Seq(S) /\ Len(a) = n /\ \A i \in 1 .. n : a[i] = s[i]
        /\ c \in Seq(S) /\ Len(c) = n /\ \A i \in 1 .. n : c[i] = t[i]
    <3>1. /\ a \in Seq(S) /\ Len(a) = IF 1 <= n THEN n - 1 + 1 ELSE 0
          /\ \A i \in 1 .. n - 1 + 1 : a[i] = s[1 + i - 1]
      BY <1>1, SubSeqProperties
    <3>2. /\ c \in Seq(S) /\ Len(c) = IF 1 <= n THEN n - 1 + 1 ELSE 0
          /\ \A i \in 1 .. n - 1 + 1 : c[i] = t[1 + i - 1]
      BY <1>1, <2>1, SubSeqProperties
    <3>3. n - 1 + 1 = n /\ (IF 1 <= n THEN n - 1 + 1 ELSE 0) = n /\ \A i \in 1 .. n : 1 + i - 1 = i
      BY <1>1
    <3> HIDE DEF a, c
    <3> QED
      BY ONLY <3>1, <3>2, <3>3
  <2> HIDE DEF a, c
  <2>3. (\A i \in 1 .. n : t[i] = s[i]) => a = c
    BY <2>2, SeqEqual
  <2>4. a = c => \A i \in 1 .. n : t[i] = s[i]
    BY <2>2
  <2> QED
    BY <1>2, <1>3, <2>3, <2>4 DEF n
<1> QED
  BY <1>2, <1>3

\* A suffix is what the sequence ends with.
LEMMA SuffixIs ==
  ASSUME NEW S, NEW s \in Seq(S), NEW t \in Seq(S)
  PROVE  IsSuffix(s, t) <=> EndsWith(s, t)
<1> DEFINE a == Reverse(s)
           c == Reverse(t)
           n == Len(s)
           m == Len(t)
<1>1. /\ a \in Seq(S) /\ Len(a) = n /\ n \in Nat /\ \A i \in 1 .. n : a[i] = s[n - i + 1]
      /\ c \in Seq(S) /\ Len(c) = m /\ m \in Nat /\ \A i \in 1 .. m : c[i] = t[m - i + 1]
  BY ReverseIs
<1> HIDE DEF a, c
<1>2. IsSuffix(s, t) <=> n <= m /\ \A i \in 1 .. n : c[i] = a[i]
  <2>1. IsSuffix(s, t) <=> IsPrefix(a, c)
    BY DEF IsSuffix, a, c
  <2>2. IsPrefix(a, c) <=> Len(a) <= Len(c) /\ \A i \in 1 .. Len(a) : c[i] = a[i]
    BY <1>1, PrefixIs
  <2> HIDE DEF n, m
  <2> QED
    BY <1>1, <2>1, <2>2
<1> HIDE DEF n, m
<1>3. ASSUME n <= m, \A i \in 1 .. n : c[i] = a[i], NEW i \in 1 .. n PROVE t[m - n + i] = s[i]
  <2> DEFINE j == n - i + 1
  <2>1. j \in 1 .. n /\ j \in 1 .. m /\ n - j + 1 = i /\ m - j + 1 = m - n + i
    BY <1>1, <1>3
  <2> HIDE DEF j
  <2>2. c[j] = a[j] /\ a[j] = s[n - j + 1] /\ c[j] = t[m - j + 1]
    BY <1>1, <1>3, <2>1
  <2> QED
    BY <2>1, <2>2
<1>4. ASSUME n <= m, \A i \in 1 .. n : t[m - n + i] = s[i], NEW i \in 1 .. n PROVE c[i] = a[i]
  <2> DEFINE j == n - i + 1
  <2>1. j \in 1 .. n /\ i \in 1 .. m /\ m - n + j = m - i + 1
    BY <1>1, <1>4
  <2>2. t[m - n + j] = s[j] /\ a[i] = s[j] /\ c[i] = t[m - i + 1]
    BY <1>1, <1>4, <2>1
  <2> HIDE DEF j
  <2> QED
    BY <2>1, <2>2
<1> QED
  BY <1>2, <1>3, <1>4 DEF EndsWith, n, m

Chars == Letters \cup {Dot}

\* The dot is none of the letters.
LEMMA DotIsNoLetter == Dot \notin Letters /\ Dot \in Chars /\ Letters \subseteq Chars
BY DEF Dot, Letters, Chars

\* A word of letters is one of characters.
LEMMA LettersAreChars ==
  ASSUME NEW s \in Seq(Letters)
  PROVE  s \in Seq(Chars) /\ Len(s) \in Nat /\ \A i \in 1 .. Len(s) : s[i] \in Letters
<1>1. Len(s) \in Nat /\ s \in [1 .. Len(s) -> Letters]
  BY LenProperties
<1>2. s \in [1 .. Len(s) -> Chars]
  BY <1>1, DotIsNoLetter
<1> HIDE DEF Chars
<1>3. s \in Seq(Chars)
  BY <1>1, <1>2
<1> QED
  BY <1>1, <1>3

\* The labels of a name, one by one.
LEMMA WordsAre ==
  ASSUME NEW ls, Spelled(ls)
  PROVE  /\ Len(ls) \in Nat /\ (ls # <<>> => Len(ls) \in Nat \ {0})
         /\ \A k \in 1 .. Len(ls) : /\ ls[k] \in Seq(Letters) /\ ls[k] \in Seq(Chars)
                                   /\ Len(ls[k]) \in Nat \ {0}
                                   /\ \A j \in 1 .. Len(ls[k]) : ls[k][j] \in Letters
<1> DEFINE W == Seq(Letters) \ {<<>>}
<1>1. ls \in Seq(W)
  BY DEF Spelled
<1> HIDE DEF W
<1>2. Len(ls) \in Nat /\ (ls # <<>> => Len(ls) \in Nat \ {0}) /\ \A k \in 1 .. Len(ls) : ls[k] \in W
  BY <1>1, EmptySeq, LenProperties, ElementOfSeq
<1>3. ASSUME NEW w \in W
      PROVE  /\ w \in Seq(Letters) /\ w \in Seq(Chars) /\ Len(w) \in Nat \ {0}
             /\ \A j \in 1 .. Len(w) : w[j] \in Letters
  BY EmptySeq, LettersAreChars DEF W
<1> QED
  BY <1>2, <1>3

\* v is l, a dot, and w.
Dotted(v, l, w) ==
  /\ v \in Seq(Chars) /\ Len(v) = Len(l) + 1 + Len(w)
  /\ \A j \in 1 .. Len(l) : v[j] = l[j]
  /\ v[Len(l) + 1] = Dot
  /\ \A j \in 1 .. Len(w) : v[Len(l) + 1 + j] = w[j]

LEMMA DottedIs ==
  ASSUME NEW l \in Seq(Chars), NEW w \in Seq(Chars), NEW v, v = l \o <<Dot>> \o w
  PROVE  Dotted(v, l, w)
<1> DEFINE d == <<Dot>>
           a == l \o d
<1>1. d \in Seq(Chars) /\ Len(d) = 1 /\ d[1] = Dot
  <2>1. Dot \in Chars
    BY DotIsNoLetter
  <2> HIDE DEF Dot, Chars
  <2> QED
    BY <2>1
<1>2. a = l \o d /\ v = a \o w
  OBVIOUS
<1> HIDE DEF d, a, Chars, Dot
<1>3. JoinedIn(Chars, a, l, d)
  BY <1>1, <1>2, JoinAny
<1>4. JoinedIn(Chars, v, a, w)
  <2>1. a \in Seq(Chars)
    BY <1>3 DEF JoinedIn
  <2> QED
    BY <1>2, <2>1, JoinAny
<1>5. /\ v \in Seq(Chars) /\ Len(l) \in Nat /\ Len(w) \in Nat /\ Len(a) = Len(l) + 1
      /\ Len(v) = Len(l) + 1 + Len(w)
      /\ \A j \in 1 .. Len(l) : a[j] = l[j]
      /\ \A j \in 1 .. Len(a) : v[j] = a[j]
      /\ \A j \in 1 .. Len(w) : v[Len(a) + j] = w[j]
  BY <1>1, <1>3, <1>4 DEF JoinedIn
<1>6. a[Len(l) + 1] = Dot
  <2>1. 1 \in 1 .. Len(d)
    BY <1>1
  <2> QED
    BY <1>1, <1>3, <2>1 DEF JoinedIn
<1>7. Len(l) + 1 \in 1 .. Len(a) /\ \A j \in 1 .. Len(l) : j \in 1 .. Len(a)
  BY <1>5
<1> QED
  BY <1>5, <1>6, <1>7 DEF Dotted

\* There is one such v.
LEMMA DottedOnce ==
  ASSUME NEW l \in Seq(Chars), NEW w \in Seq(Chars), NEW v, Dotted(v, l, w), NEW u, Dotted(u, l, w)
  PROVE  v = u
<1>1. /\ v \in Seq(Chars) /\ u \in Seq(Chars) /\ Len(v) = Len(u) /\ Len(v) = Len(l) + 1 + Len(w)
      /\ Len(l) \in Nat /\ Len(w) \in Nat
  BY LenProperties DEF Dotted
<1>2. ASSUME NEW i \in 1 .. Len(v) PROVE v[i] = u[i]
  <2>1. CASE i <= Len(l)
    <3>1. i \in 1 .. Len(l)
      BY <1>1, <2>1
    <3> QED
      BY <3>1 DEF Dotted
  <2>2. CASE i = Len(l) + 1
    BY <2>2 DEF Dotted
  <2>3. CASE i > Len(l) + 1
    <3> DEFINE j == i - (Len(l) + 1)
    <3>1. j \in 1 .. Len(w) /\ i = Len(l) + 1 + j
      BY <1>1, <2>3
    <3> HIDE DEF j
    <3>2. v[Len(l) + 1 + j] = w[j] /\ u[Len(l) + 1 + j] = w[j]
      BY <3>1 DEF Dotted
    <3> QED
      BY <3>1, <3>2
  <2> QED
    BY <1>1, <2>1, <2>2, <2>3
<1> HIDE DEF Chars
<1> QED
  BY <1>1, <1>2, SeqEqual

\* f[i] spells the labels from the i-th on.
Spells(f, ls) ==
  /\ \A i \in 1 .. Len(ls) : f[i] \in Seq(Chars)
  /\ f[Len(ls)] = ls[Len(ls)]
  /\ \A i \in 1 .. Len(ls) - 1 : Dotted(f[i], ls[i], f[i + 1])

\* The name is spelled by a function on its labels.
LEMMA NameIs ==
  ASSUME NEW ls, Spelled(ls), ls # <<>>
  PROVE  \E f : Spells(f, ls) /\ Name(ls) = f[1]
<1> DEFINE m == Len(ls)
           V == Seq(Chars)
           F == [p \in V \X (1 .. m) |-> ls[m + 1 - p[2]] \o <<Dot>> \o p[1]]
           a == ls[m]
           g == CHOOSE g : g = [i \in 1 .. m |->
                                  IF i = m THEN ls[i] ELSE ls[i] \o <<Dot>> \o g[i + 1]]
<1>1. m \in Nat \ {0} /\ \A k \in 1 .. m : ls[k] \in V
  BY WordsAre
<1>2. Name(ls) = g[1]
  BY Zenon DEF Name
<1>3. ASSUME NEW v \in V, NEW k \in 1 .. m
      PROVE  ls[k] \o <<Dot>> \o v \in V /\ Dotted(ls[k] \o <<Dot>> \o v, ls[k], v)
  <2> DEFINE x == ls[k] \o <<Dot>> \o v
  <2>1. ls[k] \in Seq(Chars) /\ v \in Seq(Chars) /\ x = ls[k] \o <<Dot>> \o v
    BY <1>1
  <2> HIDE DEF x
  <2>2. Dotted(x, ls[k], v)
    BY ONLY <2>1, DottedIs
  <2> QED
    BY <2>2 DEF Dotted, x
<1> HIDE DEF m, V, g
<1>4. F \in [V \X (1 .. m) -> V]
  <2>1. ASSUME NEW p \in V \X (1 .. m) PROVE ls[m + 1 - p[2]] \o <<Dot>> \o p[1] \in V
    <3>1. p[1] \in V /\ m + 1 - p[2] \in 1 .. m
      BY <1>1
    <3> QED
      BY <1>3, <3>1
  <2> QED
    BY <2>1
<1>5. \A v \in V, i \in 1 .. m : F[<<v, i>>] = ls[m + 1 - i] \o <<Dot>> \o v
  OBVIOUS
<1>6. a \in V
  <2>1. m \in 1 .. m
    BY <1>1
  <2> QED
    BY <1>1, <2>1
<1> HIDE DEF F, a
<1>7. PICK h : h \in [1 .. m -> V] /\ h[1] = a /\ \A i \in 2 .. m : h[i] = F[<<h[i - 1], i>>]
  <2>1. \E h : Climbs(h, m, V, a, F)
    BY <1>1, <1>4, <1>6, Upward, Zenon
  <2> QED
    BY <2>1 DEF Climbs
<1> DEFINE f == [i \in 1 .. m |-> h[m + 1 - i]]
<1>8. \A i \in 1 .. m : f[i] = IF i = m THEN ls[i] ELSE ls[i] \o <<Dot>> \o f[i + 1]
  <2> SUFFICES ASSUME NEW i \in 1 .. m
               PROVE  f[i] = IF i = m THEN ls[i] ELSE ls[i] \o <<Dot>> \o f[i + 1]
    OBVIOUS
  <2>1. CASE i = m
    <3>1. m + 1 - m = 1
      BY <1>1
    <3> QED
      BY <1>7, <2>1, <3>1 DEF a
  <2>2. CASE i # m
    <3> DEFINE k == m + 1 - i
    <3>1. /\ k \in 2 .. m /\ k \in 1 .. m /\ k - 1 \in 1 .. m /\ m + 1 - k = i
          /\ i + 1 \in 1 .. m /\ m + 1 - (i + 1) = k - 1
      BY <1>1, <2>2
    <3>2. f[i] = h[k] /\ f[i + 1] = h[k - 1]
      BY <3>1
    <3> HIDE DEF k, f
    <3>3. h[k] = ls[m + 1 - k] \o <<Dot>> \o h[k - 1]
      BY <1>5, <1>7, <3>1
    <3> QED
      BY ONLY <2>2, <3>1, <3>2, <3>3
  <2> QED
    BY <2>1, <2>2
<1>9. f = [i \in 1 .. m |-> IF i = m THEN ls[i] ELSE ls[i] \o <<Dot>> \o f[i + 1]]
  <2>1. f = [i \in 1 .. m |-> f[i]]
    OBVIOUS
  <2> HIDE DEF f
  <2> QED
    BY <1>8, <2>1
<1> HIDE DEF f
<1>10. g = [i \in 1 .. m |-> IF i = m THEN ls[i] ELSE ls[i] \o <<Dot>> \o g[i + 1]]
  BY <1>9, Zenon DEF g
<1>11. \A i \in 1 .. m : g[i] = IF i = m THEN ls[i] ELSE ls[i] \o <<Dot>> \o g[i + 1]
  <2> DEFINE e == [i \in 1 .. m |-> IF i = m THEN ls[i] ELSE ls[i] \o <<Dot>> \o g[i + 1]]
  <2>1. \A i \in 1 .. m : e[i] = IF i = m THEN ls[i] ELSE ls[i] \o <<Dot>> \o g[i + 1]
    BY Zenon
  <2>2. e = g
    BY <1>10
  <2> HIDE DEF e
  <2> QED
    BY ONLY <2>1, <2>2, Zenon
<1>12. g[m] = ls[m] /\ \A i \in 1 .. m - 1 : g[i] = ls[i] \o <<Dot>> \o g[i + 1]
  <2>1. m \in 1 .. m /\ \A i \in 1 .. m - 1 : i \in 1 .. m /\ i # m
    BY <1>1
  <2> QED
    BY <1>11, <2>1, Zenon
<1> DEFINE T == {d \in 0 .. m - 1 : g[m - d] \in V}
<1>13. 0 \in T
  BY <1>1, <1>6, <1>12 DEF a
<1>14. ASSUME NEW d \in 0 .. (m - 1) - 1, d \in T PROVE d + 1 \in T
  <2> DEFINE i == m - (d + 1)
  <2>1. i \in 1 .. m - 1 /\ i \in 1 .. m /\ i + 1 = m - d /\ d + 1 \in 0 .. m - 1
    BY <1>1
  <2> HIDE DEF i
  <2>2. g[i] = ls[i] \o <<Dot>> \o g[i + 1] /\ g[i + 1] \in V
    BY <1>12, <1>14, <2>1
  <2>3. g[i] \in V
    BY <1>3, <2>1, <2>2
  <2> QED
    BY <2>1, <2>3 DEF i
<1> HIDE DEF T
<1>15. 0 .. m - 1 \subseteq T
  <2>1. \A d \in 0 .. (m - 1) - 1 : d \in T => d + 1 \in T
    BY <1>14
  <2>2. m - 1 \in Nat
    BY <1>1
  <2> QED
    BY ONLY <1>13, <2>1, <2>2, UpTo
<1>16. \A i \in 1 .. m : g[i] \in V
  <2>1. \A i \in 1 .. m : m - i \in 0 .. m - 1 /\ m - (m - i) = i
    BY <1>1
  <2> QED
    BY <1>15, <2>1 DEF T
<1>17. \A i \in 1 .. m - 1 : Dotted(g[i], ls[i], g[i + 1])
  <2>1. \A i \in 1 .. m - 1 : i \in 1 .. m /\ i + 1 \in 1 .. m
    BY <1>1
  <2> QED
    BY <1>3, <1>12, <1>16, <2>1
<1>18. Spells(g, ls)
  BY <1>12, <1>16, <1>17 DEF Spells, m, V
<1> QED
  BY <1>2, <1>18

\* Every number from m down to 1 is in T, when m is and each brings the one before.
LEMMA DownTo ==
  ASSUME NEW m \in Nat \ {0}, NEW T, m \in T, \A i \in 1 .. m - 1 : i + 1 \in T => i \in T
  PROVE  1 .. m \subseteq T
<1> DEFINE U == {d \in Nat : m - d \in T}
           n == m - 1
<1>1. n \in Nat /\ 0 \in U
  OBVIOUS
<1>2. ASSUME NEW d \in 0 .. n - 1, d \in U PROVE d + 1 \in U
  <2> DEFINE i == m - (d + 1)
  <2>1. i \in 1 .. m - 1 /\ i + 1 = m - d /\ d + 1 \in Nat
    OBVIOUS
  <2>2. i + 1 \in T
    BY <1>2, <2>1
  <2> HIDE DEF i
  <2>3. i \in T
    BY <2>1, <2>2
  <2> QED
    BY <2>1, <2>3 DEF i
<1> HIDE DEF U, n
<1>3. 0 .. n \subseteq U
  <2>1. \A d \in 0 .. n - 1 : d \in U => d + 1 \in U
    BY <1>2
  <2> QED
    BY ONLY <1>1, <2>1, UpTo
<1>4. \A i \in 1 .. m : m - i \in 0 .. n /\ m - (m - i) = i
  BY DEF n
<1> QED
  BY <1>3, <1>4 DEF U

\* Labels, and what spells them.
Spelling(f, ls) == Spelled(ls) /\ ls # <<>> /\ Spells(f, ls)

\* The labels and the names of a spelling, one by one.
LEMMA SpellingIs ==
  ASSUME NEW f, NEW ls, Spelling(f, ls)
  PROVE  /\ Len(ls) \in Nat \ {0} /\ f[Len(ls)] = ls[Len(ls)]
         /\ \A i \in 1 .. Len(ls) : /\ f[i] \in Seq(Chars) /\ Len(f[i]) \in Nat
                                   /\ ls[i] \in Seq(Letters) /\ ls[i] \in Seq(Chars)
                                   /\ Len(ls[i]) \in Nat \ {0}
                                   /\ \A j \in 1 .. Len(ls[i]) : ls[i][j] \in Letters
         /\ \A i \in 1 .. Len(ls) - 1 : /\ i \in 1 .. Len(ls) /\ i + 1 \in 1 .. Len(ls)
                                       /\ Dotted(f[i], ls[i], f[i + 1])
<1> DEFINE n == Len(ls)
<1>1. n \in Nat \ {0}
  BY WordsAre DEF Spelling
<1>2. \A i \in 1 .. n : f[i] \in Seq(Chars) /\ Len(f[i]) \in Nat
  BY LenProperties DEF Spelling, Spells
<1>3. \A i \in 1 .. n - 1 : i \in 1 .. n /\ i + 1 \in 1 .. n
  BY <1>1
<1>4. f[n] = ls[n] /\ \A i \in 1 .. n - 1 : Dotted(f[i], ls[i], f[i + 1])
  BY DEF Spelling, Spells
<1> QED
  BY <1>1, <1>2, <1>3, <1>4, WordsAre DEF Spelling

\* A name ends in a letter.
LEMMA LastIsLetter ==
  ASSUME NEW f, NEW ls, Spelling(f, ls)
  PROVE  Len(f[1]) \in Nat \ {0} /\ f[1] \in Seq(Chars) /\ f[1][Len(f[1])] \in Letters
<1> DEFINE m == Len(ls)
           T == {i \in 1 .. m : Len(f[i]) \in Nat \ {0} /\ f[i][Len(f[i])] \in Letters}
<1>1. m \in Nat \ {0} /\ f[m] = ls[m]
  BY SpellingIs
<1>2. m \in T
  <2>1. m \in 1 .. m
    BY <1>1
  <2>2. Len(ls[m]) \in Nat \ {0} /\ \A j \in 1 .. Len(ls[m]) : ls[m][j] \in Letters
    BY <2>1, SpellingIs
  <2> QED
    BY <1>1, <2>1, <2>2
<1>3. ASSUME NEW i \in 1 .. m - 1, i + 1 \in T PROVE i \in T
  <2> DEFINE v == f[i]
             l == ls[i]
             w == f[i + 1]
  <2>1. i \in 1 .. m /\ Dotted(v, l, w) /\ Len(l) \in Nat
    BY SpellingIs
  <2>2. Len(w) \in Nat \ {0} /\ w[Len(w)] \in Letters
    BY <1>3
  <2> HIDE DEF v, l, w
  <2>3. Len(v) = Len(l) + 1 + Len(w) /\ Len(w) \in 1 .. Len(w)
    BY <2>1, <2>2 DEF Dotted
  <2>4. v[Len(l) + 1 + Len(w)] = w[Len(w)]
    BY <2>1, <2>3 DEF Dotted
  <2>5. Len(v) \in Nat \ {0} /\ v[Len(v)] \in Letters
    BY <2>1, <2>2, <2>3, <2>4
  <2> QED
    BY <2>1, <2>5 DEF v
<1>4. 1 .. m \subseteq T
  <2> HIDE DEF T, m
  <2>1. \A i \in 1 .. m - 1 : i + 1 \in T => i \in T
    BY <1>3
  <2> QED
    BY ONLY <1>1, <1>2, <2>1, DownTo
<1>5. 1 \in 1 .. m
  BY <1>1
<1> QED
  BY <1>4, <1>5, SpellingIs

\* x is the end of v, and a dot stands before it.
DotEnds(x, v) ==
  /\ Len(x) + 1 <= Len(v) /\ v[Len(v) - Len(x)] = Dot
  /\ \A i \in 1 .. Len(x) : v[Len(v) - Len(x) + i] = x[i]

\* What ends w ends v.
LEMMA DotEndsOn ==
  ASSUME NEW v, NEW l \in Seq(Chars), NEW w \in Seq(Chars), Dotted(v, l, w), NEW x \in Seq(Chars),
         DotEnds(x, w)
  PROVE  DotEnds(x, v)
<1> DEFINE a == Len(l) + 1
           p == Len(w) - Len(x)
<1>1. /\ Len(l) \in Nat /\ Len(w) \in Nat /\ Len(x) \in Nat /\ Len(v) = a + Len(w)
      /\ Len(x) + 1 <= Len(w)
  BY LenProperties DEF Dotted, DotEnds
<1>2. /\ \A j \in 1 .. Len(w) : v[a + j] = w[j]
      /\ w[p] = Dot /\ \A i \in 1 .. Len(x) : w[p + i] = x[i]
  BY DEF Dotted, DotEnds
<1>3. a \in Nat /\ p \in 1 .. Len(w) /\ Len(v) - Len(x) = a + p /\ Len(x) + 1 <= Len(v)
  BY <1>1
<1> HIDE DEF a, p
<1>4. v[a + p] = Dot
  BY <1>2, <1>3
<1>5. ASSUME NEW i \in 1 .. Len(x) PROVE v[a + p + i] = x[i]
  <2>1. p + i \in 1 .. Len(w)
    BY <1>1, <1>3 DEF p
  <2>2. v[a + (p + i)] = w[p + i] /\ w[p + i] = x[i] /\ a + (p + i) = a + p + i
    BY <1>1, <1>2, <1>3, <2>1
  <2> QED
    BY <2>2
<1> QED
  BY <1>3, <1>4, <1>5 DEF DotEnds

\* Every later name ends the first.
LEMMA LaterEnds ==
  ASSUME NEW f, NEW ls, Spelling(f, ls), NEW o \in 1 .. Len(ls) - 1
  PROVE  DotEnds(f[o + 1], f[1])
<1> DEFINE m == Len(ls)
           x == f[o + 1]
           T == {i \in 1 .. m : i <= o => DotEnds(x, f[i])}
<1>1. m \in Nat \ {0} /\ x \in Seq(Chars) /\ o \in 1 .. m - 1
  BY SpellingIs
<1> HIDE DEF x
<1>2. m \in T
  BY <1>1
<1>3. ASSUME NEW i \in 1 .. m - 1, i + 1 \in T PROVE i \in T
  <2> DEFINE v == f[i]
             l == ls[i]
             w == f[i + 1]
  <2>1. /\ i \in 1 .. m /\ Dotted(v, l, w) /\ l \in Seq(Chars) /\ w \in Seq(Chars)
        /\ Len(l) \in Nat /\ Len(w) \in Nat
    BY SpellingIs
  <2> HIDE DEF v, l, w
  <2>2. CASE i = o
    <3>1. x = w
      BY <2>2 DEF x, w
    <3>2. Len(v) = Len(l) + 1 + Len(w) /\ v[Len(l) + 1] = Dot
          /\ \A j \in 1 .. Len(w) : v[Len(l) + 1 + j] = w[j]
      BY <2>1 DEF Dotted
    <3>3. Len(v) - Len(w) = Len(l) + 1 /\ Len(w) + 1 <= Len(v)
      BY <2>1, <3>2
    <3>4. DotEnds(w, v)
      BY <3>2, <3>3 DEF DotEnds
    <3> QED
      BY <2>1, <3>1, <3>4 DEF v
  <2>3. CASE i < o
    <3>1. DotEnds(x, w)
      BY <1>1, <1>3, <2>3 DEF w
    <3>2. DotEnds(x, v)
      BY <1>1, <2>1, <3>1, DotEndsOn
    <3> QED
      BY <2>1, <3>2 DEF v
  <2>4. CASE i > o
    BY <1>1, <2>1, <2>4
  <2> QED
    BY <1>1, <2>2, <2>3, <2>4
<1>4. 1 .. m \subseteq T
  <2> HIDE DEF T, m
  <2>1. \A i \in 1 .. m - 1 : i + 1 \in T => i \in T
    BY <1>3
  <2> QED
    BY ONLY <1>1, <1>2, <2>1, DownTo
<1>5. 1 \in 1 .. m /\ 1 <= o
  BY <1>1
<1> QED
  BY <1>4, <1>5 DEF x

\* What ends a name after a dot is a later name.
LEMMA EndIsLater ==
  ASSUME NEW f, NEW ls, Spelling(f, ls), NEW x \in Seq(Chars), DotEnds(x, f[1])
  PROVE  \E o \in 1 .. Len(ls) : x = f[o]
<1> DEFINE m == Len(ls)
           P == \E o \in 1 .. m : x = f[o]
           T == {i \in 1 .. m : DotEnds(x, f[i]) => P}
<1>1. m \in Nat \ {0} /\ f[m] = ls[m] /\ Len(x) \in Nat
  BY SpellingIs, LenProperties
<1>2. m \in T
  <2> DEFINE v == ls[m]
             p == Len(v) - Len(x)
  <2>1. m \in 1 .. m /\ Len(v) \in Nat /\ \A j \in 1 .. Len(v) : v[j] \in Letters
    BY <1>1, SpellingIs
  <2>2. ~ DotEnds(x, v)
    <3> SUFFICES ASSUME DotEnds(x, v) PROVE FALSE
      OBVIOUS
    <3> HIDE DEF v
    <3>1. p \in 1 .. Len(v) /\ v[p] = Dot
      BY <1>1, <2>1 DEF DotEnds
    <3> QED
      BY <2>1, <3>1, DotIsNoLetter
  <2> QED
    BY <1>1, <2>1, <2>2
<1> HIDE DEF P
<1>3. ASSUME NEW i \in 1 .. m - 1, i + 1 \in T PROVE i \in T
  <2> DEFINE v == f[i]
             l == ls[i]
             w == f[i + 1]
  <2>1. /\ i \in 1 .. m /\ i + 1 \in 1 .. m /\ Dotted(v, l, w)
        /\ l \in Seq(Chars) /\ w \in Seq(Chars)
        /\ Len(l) \in Nat /\ Len(w) \in Nat /\ \A j \in 1 .. Len(l) : l[j] \in Letters
    BY SpellingIs
  <2>2. ASSUME DotEnds(x, v) PROVE P
    <3> DEFINE p == Len(v) - Len(x)
               q == Len(w) - Len(x)
    <3> HIDE DEF v, l, w
    <3>1. /\ Len(v) = Len(l) + 1 + Len(w) /\ v[Len(l) + 1] = Dot
          /\ \A j \in 1 .. Len(l) : v[j] = l[j]
          /\ \A j \in 1 .. Len(w) : v[Len(l) + 1 + j] = w[j]
      BY <2>1 DEF Dotted
    <3>2. /\ Len(x) + 1 <= Len(v) /\ v[p] = Dot
          /\ \A j \in 1 .. Len(x) : v[p + j] = x[j]
      BY <2>2 DEF DotEnds
    <3>3. p \in Nat \ {0} /\ p = Len(l) + 1 + q
      BY <1>1, <2>1, <3>1, <3>2
    <3>4. ~ (p <= Len(l))
      <4> SUFFICES ASSUME p \in 1 .. Len(l) PROVE FALSE
        BY <2>1, <3>3
      <4>1. v[p] = l[p] /\ l[p] \in Letters
        BY <2>1, <3>1
      <4> QED
        BY <3>2, <4>1, DotIsNoLetter
    <3>5. CASE p = Len(l) + 1
      <4>1. Len(x) = Len(w)
        BY <1>1, <2>1, <3>1, <3>5
      <4>2. \A j \in 1 .. Len(x) : x[j] = w[j]
        <5> HIDE DEF p
        <5> QED
          BY <3>1, <3>2, <3>5, <4>1
      <4>3. x = w
        BY <2>1, <4>1, <4>2, SeqEqual
      <4> QED
        BY <2>1, <4>3 DEF P, w
    <3>6. CASE p > Len(l) + 1
      <4>1. q \in 1 .. Len(w) /\ Len(x) + 1 <= Len(w) /\ Len(x) = Len(w) - q
        BY <1>1, <2>1, <3>3, <3>6
      <4> HIDE DEF p, q
      <4>2. w[q] = Dot
        BY <3>1, <3>2, <3>3, <4>1
      <4>3. ASSUME NEW j \in 1 .. Len(x) PROVE w[q + j] = x[j]
        <5>1. q + j \in 1 .. Len(w) /\ Len(l) + 1 + (q + j) = p + j
          BY <2>1, <3>3, <4>1
        <5>2. v[Len(l) + 1 + (q + j)] = w[q + j] /\ v[p + j] = x[j]
          BY <3>1, <3>2, <5>1
        <5> QED
          BY <5>1, <5>2
      <4>4. DotEnds(x, w)
        BY <4>1, <4>2, <4>3 DEF DotEnds, q
      <4> QED
        BY <1>3, <4>4 DEF w
    <3> QED
      BY <2>1, <3>3, <3>4, <3>5, <3>6
  <2> QED
    BY <2>1, <2>2
<1>4. 1 .. m \subseteq T
  <2> HIDE DEF T, m
  <2>1. \A i \in 1 .. m - 1 : i + 1 \in T => i \in T
    BY <1>3
  <2> QED
    BY ONLY <1>1, <1>2, <2>1, DownTo
<1>5. 1 \in 1 .. m
  BY <1>1
<1> QED
  BY <1>4, <1>5 DEF P

\* The first dot of a name ends its first label.
LEMMA SplitsOnce ==
  ASSUME NEW v, NEW l \in Seq(Chars), NEW w \in Seq(Chars), Dotted(v, l, w),
         NEW k \in Seq(Chars), NEW u \in Seq(Chars), Dotted(v, k, u),
         \A j \in 1 .. Len(l) : l[j] \in Letters, \A j \in 1 .. Len(k) : k[j] \in Letters
  PROVE  l = k /\ w = u
<1>1. /\ Len(l) \in Nat /\ Len(k) \in Nat /\ Len(w) \in Nat /\ Len(u) \in Nat
      /\ Len(v) = Len(l) + 1 + Len(w) /\ Len(v) = Len(k) + 1 + Len(u)
      /\ v[Len(l) + 1] = Dot /\ v[Len(k) + 1] = Dot
  BY LenProperties DEF Dotted
<1>2. (\A j \in 1 .. Len(l) : v[j] = l[j]) /\ (\A j \in 1 .. Len(k) : v[j] = k[j])
  BY DEF Dotted
<1>3. ~ (Len(l) < Len(k))
  <2> SUFFICES ASSUME Len(l) < Len(k) PROVE FALSE
    OBVIOUS
  <2>1. Len(l) + 1 \in 1 .. Len(k)
    BY <1>1
  <2>2. k[Len(l) + 1] \in Letters /\ k[Len(l) + 1] = Dot
    BY <1>1, <1>2, <2>1
  <2> QED
    BY <2>2, DotIsNoLetter
<1>4. ~ (Len(k) < Len(l))
  <2> SUFFICES ASSUME Len(k) < Len(l) PROVE FALSE
    OBVIOUS
  <2>1. Len(k) + 1 \in 1 .. Len(l)
    BY <1>1
  <2>2. l[Len(k) + 1] \in Letters /\ l[Len(k) + 1] = Dot
    BY <1>1, <1>2, <2>1
  <2> QED
    BY <2>2, DotIsNoLetter
<1>5. Len(l) = Len(k) /\ Len(w) = Len(u)
  BY <1>1, <1>3, <1>4
<1>6. \A j \in 1 .. Len(k) : l[j] = k[j]
  BY <1>2, <1>5
<1>7. \A j \in 1 .. Len(u) : w[j] = u[j]
  BY <1>5 DEF Dotted
<1> HIDE DEF Chars
<1> QED
  BY <1>5, <1>6, <1>7, SeqEqual

\* A name without its first labels is another name: so are the labels.
LEMMA SameNames ==
  ASSUME NEW f, NEW as, Spelling(f, as), NEW g, NEW bs, Spelling(g, bs),
         NEW o \in 1 .. Len(as), f[o] = g[1]
  PROVE  EndsWith(bs, as)
<1> DEFINE m == Len(as)
           n == Len(bs)
           e == m - n
           Aligned(p, j) == p = e + j /\ \A i \in j .. n : as[e + i] = bs[i]
           T == {j \in 1 .. n : \A p \in 1 .. m : f[p] = g[j] => Aligned(p, j)}
<1>0. m \in Nat \ {0} /\ n \in Nat \ {0} /\ f[m] = as[m] /\ g[n] = bs[n]
  BY SpellingIs
<1>1. /\ m \in Nat \ {0} /\ n \in Nat \ {0} /\ f[m] = as[m] /\ g[n] = bs[n]
      /\ e \in Int /\ e + n = m /\ m \in 1 .. m /\ n \in 1 .. n
  <2> HIDE DEF m, n
  <2> QED
    BY <1>0
<1>2. ASSUME NEW p \in 1 .. m, \A j \in 1 .. Len(f[p]) : f[p][j] \in Letters PROVE p = m
  <2> SUFFICES ASSUME p # m PROVE FALSE
    OBVIOUS
  <2> DEFINE v == f[p]
             l == as[p]
             w == f[p + 1]
  <2>1. p \in 1 .. m - 1
    <3> HIDE DEF m, e
    <3> QED
      BY <1>1
  <2>2. Dotted(v, l, w) /\ Len(l) \in Nat /\ Len(w) \in Nat
    BY <2>1, SpellingIs
  <2> HIDE DEF l, w
  <2>3. Len(l) + 1 \in 1 .. Len(v) /\ v[Len(l) + 1] = Dot
    BY <2>2 DEF Dotted
  <2> QED
    BY <1>2, <2>3, DotIsNoLetter
<1>3. n \in T
  <2>1. n \in 1 .. n
    BY <1>1
  <2> SUFFICES ASSUME NEW p \in 1 .. m, f[p] = g[n] PROVE Aligned(p, n)
    BY <2>1, Zenon
  <2>2. \A j \in 1 .. Len(bs[n]) : bs[n][j] \in Letters
    BY <2>1, SpellingIs
  <2>6. f[p] = bs[n]
    BY ONLY <1>1, f[p] = g[n], Zenon
  <2>7. \A j \in 1 .. Len(f[p]) : f[p][j] \in Letters
    BY ONLY <2>2, <2>6, Zenon
  <2>3. p = m
    BY <1>2, <2>7, Zenon
  <2>4. as[m] = bs[n]
    <3> HIDE DEF m, n
    <3> QED
      BY <1>1, <2>3
  <2> HIDE DEF e, m
  <2>5. \A i \in n .. n : i = n
    BY <1>1
  <2> QED
    BY <1>1, <2>3, <2>4, <2>5
<1>4. ASSUME NEW j \in 1 .. n - 1, j + 1 \in T PROVE j \in T
  <2>0. j \in 1 .. n
    <3> HIDE DEF n, T
    <3> QED
      BY <1>1
  <2> SUFFICES ASSUME NEW p \in 1 .. m, f[p] = g[j] PROVE Aligned(p, j)
    BY <2>0, Zenon
  <2> DEFINE v == g[j]
             l == bs[j]
             w == g[j + 1]
             k == as[p]
             u == f[p + 1]
  <2>1. /\ Dotted(v, l, w) /\ l \in Seq(Chars) /\ w \in Seq(Chars)
        /\ Len(l) \in Nat /\ Len(w) \in Nat
        /\ \A i \in 1 .. Len(l) : l[i] \in Letters
    BY SpellingIs
  <2>2. p \in 1 .. m - 1
    <3> SUFFICES ASSUME p = m PROVE FALSE
      <4> HIDE DEF m, e
      <4> QED
        BY <1>1
    <3>1. v = as[m] /\ \A i \in 1 .. Len(as[m]) : as[m][i] \in Letters
      BY <1>1, SpellingIs
    <3> HIDE DEF v, l, w
    <3>2. Len(l) + 1 \in 1 .. Len(v) /\ v[Len(l) + 1] = Dot
      BY <2>1 DEF Dotted
    <3> QED
      BY <3>1, <3>2, DotIsNoLetter
  <2>3. /\ Dotted(f[p], k, u) /\ k \in Seq(Chars) /\ u \in Seq(Chars) /\ p + 1 \in 1 .. m
        /\ \A i \in 1 .. Len(k) : k[i] \in Letters
    BY <2>2, SpellingIs
  <2>4. l = k /\ w = u
    <3>1. Dotted(v, k, u)
      BY <2>3
    <3> HIDE DEF v, l, w, k, u
    <3> QED
      BY <2>1, <2>3, <3>1, SplitsOnce
  <2>5. Aligned(p + 1, j + 1)
    <3>1. f[p + 1] = g[j + 1]
      BY <2>4
    <3> HIDE DEF Aligned
    <3> QED
      BY <1>4, <2>3, <3>1
  <2>6. as[p] = bs[j]
    BY <2>4
  <2> HIDE DEF v, l, w, k, u
  <2>7. p = e + j
    <3>1. e \in Int /\ p + 1 = e + (j + 1) /\ p \in Int /\ j \in Int
      <4> HIDE DEF e
      <4>1. p + 1 = e + (j + 1)
        BY ONLY <2>5
      <4>2. e \in Int
        BY ONLY <1>1
      <4> QED
        BY <4>1, <4>2
    <3> HIDE DEF e
    <3> QED
      BY ONLY <3>1
  <2>8. ASSUME NEW i \in j .. n PROVE as[e + i] = bs[i]
    <3>1. i = j \/ i \in j + 1 .. n
      <4>1. n \in Nat
        BY ONLY <1>1
      <4> HIDE DEF n
      <4> QED
        BY ONLY <4>1, j \in 1 .. n - 1, i \in j .. n
    <3> HIDE DEF e
    <3>2. CASE i = j
      BY ONLY <2>6, <2>7, <3>2
    <3>3. CASE i \in j + 1 .. n
      BY ONLY <2>5, <3>3
    <3> QED
      BY <3>1, <3>2, <3>3
  <2> QED
    BY <2>7, <2>8
<1> HIDE DEF T, Aligned
<1>5. 1 .. n \subseteq T
  <2> HIDE DEF n
  <2>1. \A j \in 1 .. n - 1 : j + 1 \in T => j \in T
    BY <1>4
  <2> QED
    BY ONLY <1>1, <1>3, <2>1, DownTo
<1>6. 1 \in T
  BY <1>1, <1>5
<1>7. Aligned(o, 1)
  BY <1>6 DEF T
<1>8. o = e + 1 /\ \A i \in 1 .. n : as[e + i] = bs[i]
  BY <1>7 DEF Aligned
<1>9. n <= m
  <2> HIDE DEF m, n, e
  <2> QED
    BY <1>1, <1>8
<1> QED
  BY <1>8, <1>9 DEF EndsWith

\* Labels that end other labels spell a name that is one of the later ones.
LEMMA SameLabels ==
  ASSUME NEW f, NEW as, Spelling(f, as), NEW g, NEW bs, Spelling(g, bs), EndsWith(bs, as)
  PROVE  Len(as) - Len(bs) + 1 \in 1 .. Len(as) /\ g[1] = f[Len(as) - Len(bs) + 1]
<1> DEFINE m == Len(as)
           n == Len(bs)
           e == m - n
           T == {j \in 1 .. n : g[j] = f[e + j]}
<1>1. /\ m \in Nat \ {0} /\ n \in Nat \ {0} /\ f[m] = as[m] /\ g[n] = bs[n] /\ n <= m
      /\ \A j \in 1 .. n : as[e + j] = bs[j]
  BY SpellingIs DEF EndsWith
<1> HIDE DEF m, n
<1>2. e \in Nat /\ e + n = m
  BY <1>1
<1> HIDE DEF e
<1>3. n \in T
  <2>1. n \in 1 .. n
    BY <1>1
  <2> QED
    BY <1>1, <1>2, <2>1
<1>4. ASSUME NEW j \in 1 .. n - 1, j + 1 \in T PROVE j \in T
  <2> DEFINE p == e + j
  <2>1. j \in 1 .. n /\ p \in 1 .. m - 1 /\ p + 1 = e + (j + 1)
    BY <1>1, <1>2
  <2>2. as[p] = bs[j] /\ f[p + 1] = g[j + 1]
    BY <1>1, <1>4, <2>1
  <2> HIDE DEF p
  <2>3. Dotted(g[j], bs[j], g[j + 1]) /\ bs[j] \in Seq(Chars) /\ g[j + 1] \in Seq(Chars)
    BY SpellingIs DEF n
  <2>4. Dotted(f[p], as[p], f[p + 1])
    BY <2>1, SpellingIs DEF m
  <2>5. Dotted(f[p], bs[j], g[j + 1])
    BY <2>2, <2>4
  <2>6. g[j] = f[p]
    BY ONLY <2>3, <2>5, DottedOnce
  <2> QED
    BY <2>1, <2>6 DEF p
<1> HIDE DEF T
<1>5. 1 .. n \subseteq T
  <2>1. \A j \in 1 .. n - 1 : j + 1 \in T => j \in T
    BY <1>4
  <2> QED
    BY ONLY <1>1, <1>3, <2>1, DownTo
<1>6. 1 \in T /\ e + 1 \in 1 .. m
  BY <1>1, <1>2, <1>5
<1> QED
  BY <1>6 DEF T, e, m, n

\* A name is another, or ends it after a dot, exactly when its labels end the other's labels.
LEMMA LabelsDecide ==
  ASSUME NEW f, NEW as, Spelling(f, as), NEW g, NEW bs, Spelling(g, bs)
  PROVE  (f[1] = g[1] \/ DotEnds(g[1], f[1])) <=> EndsWith(bs, as)
<1>0. Len(as) \in Nat \ {0} /\ Len(bs) \in Nat \ {0}
  BY SpellingIs
<1> DEFINE m == Len(as)
           n == Len(bs)
<1>1. 1 \in 1 .. m /\ 1 \in 1 .. n
  <2>1. m \in Nat \ {0} /\ n \in Nat \ {0}
    BY <1>0
  <2> HIDE DEF m, n
  <2> QED
    BY <2>1
<1>2. g[1] \in Seq(Chars)
  BY <1>1, SpellingIs
<1>3. ASSUME f[1] = g[1] PROVE EndsWith(bs, as)
  BY <1>1, <1>3, SameNames
<1>4. ASSUME DotEnds(g[1], f[1]) PROVE EndsWith(bs, as)
  <2> DEFINE x == g[1]
  <2> HIDE DEF x
  <2>1. x \in Seq(Chars) /\ DotEnds(x, f[1])
    BY <1>2, <1>4 DEF x
  <2>2. PICK o \in 1 .. Len(as) : x = f[o]
    BY <2>1, EndIsLater
  <2>3. f[o] = g[1]
    BY <2>2 DEF x
  <2> QED
    BY <2>3, SameNames
<1>5. ASSUME EndsWith(bs, as) PROVE f[1] = g[1] \/ DotEnds(g[1], f[1])
  <2> DEFINE o == m - n
  <2>1. o + 1 \in 1 .. m /\ g[1] = f[o + 1]
    BY <1>5, SameLabels
  <2>2. n <= m
    BY <1>5 DEF EndsWith
  <2>5. o \in Nat /\ m \in Nat
    <3>1. m \in Nat /\ n \in Nat
      BY <1>0
    <3> HIDE DEF m, n
    <3> QED
      BY <2>2, <3>1
  <2> HIDE DEF o, m
  <2>3. CASE o = 0
    BY <2>1, <2>3
  <2>4. CASE o # 0
    <3>1. o \in 1 .. m - 1
      BY <2>1, <2>5, <2>4
    <3>2. DotEnds(f[o + 1], f[1])
      BY <3>1, LaterEnds DEF m
    <3> QED
      BY <2>1, <3>2
  <2> QED
    BY <2>3, <2>4
<1> QED
  BY <1>3, <1>4, <1>5

\* The lower-case form of a character.
Low(c) == IF c = "A" THEN "a" ELSE IF c = "B" THEN "b" ELSE c

\* It keeps letters and the dot.
LEMMA LowIs ==
  /\ \A c \in Chars : Low(c) \in Chars
  /\ \A c \in Letters : Low(c) \in Letters
  /\ Low(Dot) = Dot
BY DEF Low, Chars, Letters, Dot

\* r is s in lower case.
Lowered(r, s) == r \in Seq(Chars) /\ Len(r) = Len(s) /\ \A i \in 1 .. Len(s) : r[i] = Low(s[i])

\* Lower takes every character to its lower-case form.
LEMMA LowerIs ==
  ASSUME NEW s \in Seq(Chars)
  PROVE  Lowered(Lower(s), s)
<1> DEFINE n == Len(s)
           r == Lower(s)
<1>1. n \in Nat /\ DOMAIN s = 1 .. n /\ \A i \in 1 .. n : s[i] \in Chars
  BY LenProperties, ElementOfSeq
<1>2. r = [i \in 1 .. n |-> Low(s[i])]
  BY <1>1, Zenon DEF Lower, Low
<1> HIDE DEF r, n, Chars
<1>3. r \in [1 .. n -> Chars] /\ \A i \in 1 .. n : r[i] = Low(s[i])
  BY <1>1, <1>2, LowIs
<1>4. r \in Seq(Chars) /\ Len(r) = n
  BY <1>1, <1>3
<1> QED
  BY <1>3, <1>4 DEF Lowered, r, n

\* A word in lower case is a word of the same length.
LEMMA LowerWord ==
  ASSUME NEW s \in Seq(Letters) \ {<<>>}
  PROVE  Lower(s) \in Seq(Letters) \ {<<>>} /\ Len(Lower(s)) = Len(s)
<1> DEFINE n == Len(s)
           r == Lower(s)
<1>1. n \in Nat \ {0} /\ s \in Seq(Chars) /\ \A i \in 1 .. n : s[i] \in Letters
  BY EmptySeq, LettersAreChars
<1>2. r \in Seq(Chars) /\ Len(r) = n /\ \A i \in 1 .. n : r[i] \in Letters
  <2>1. Lowered(r, s)
    BY <1>1, LowerIs
  <2> HIDE DEF r
  <2> QED
    BY <1>1, <2>1, LowIs DEF Lowered
<1> HIDE DEF r, n, Letters, Chars
<1>3. r \in [1 .. n -> Letters]
  BY <1>1, <1>2
<1>4. r \in Seq(Letters) /\ r # <<>>
  BY <1>1, <1>2, <1>3
<1> QED
  BY <1>2, <1>4 DEF r, n

\* Lower case keeps the dot where it is.
LEMMA DottedLower ==
  ASSUME NEW v, NEW l \in Seq(Chars), NEW w \in Seq(Chars), Dotted(v, l, w)
  PROVE  Dotted(Lower(v), Lower(l), Lower(w))
<1> DEFINE a == Lower(v)
           b == Lower(l)
           c == Lower(w)
<1>1. v \in Seq(Chars) /\ Lowered(a, v) /\ Lowered(b, l) /\ Lowered(c, w)
  BY LowerIs DEF Dotted
<1> HIDE DEF a, b, c
<1>2. /\ Len(l) \in Nat /\ Len(w) \in Nat /\ Len(v) = Len(l) + 1 + Len(w)
      /\ v[Len(l) + 1] = Dot
      /\ \A j \in 1 .. Len(l) : v[j] = l[j]
      /\ \A j \in 1 .. Len(w) : v[Len(l) + 1 + j] = w[j]
  BY LenProperties DEF Dotted
<1>3. /\ a \in Seq(Chars) /\ Len(a) = Len(v) /\ Len(b) = Len(l) /\ Len(c) = Len(w)
      /\ \A i \in 1 .. Len(v) : a[i] = Low(v[i])
      /\ \A i \in 1 .. Len(l) : b[i] = Low(l[i])
      /\ \A i \in 1 .. Len(w) : c[i] = Low(w[i])
  BY <1>1 DEF Lowered
<1>4. /\ Len(l) + 1 \in 1 .. Len(v) /\ \A j \in 1 .. Len(l) : j \in 1 .. Len(v)
      /\ \A j \in 1 .. Len(w) : Len(l) + 1 + j \in 1 .. Len(v)
  BY <1>2
<1>5. \A j \in 1 .. Len(l) : a[j] = b[j]
  BY ONLY <1>2, <1>3, <1>4
<1>6. a[Len(l) + 1] = Dot
  BY ONLY <1>2, <1>3, <1>4, LowIs
<1>7. \A j \in 1 .. Len(w) : a[Len(l) + 1 + j] = c[j]
  BY ONLY <1>2, <1>3, <1>4
<1> QED
  BY <1>2, <1>3, <1>5, <1>6, <1>7 DEF Dotted, a, b, c

\* Labels in lower case.
LowerAll(ls) == [i \in DOMAIN ls |-> Lower(ls[i])]

\* The labels of a name in lower case spell the name in lower case.
LEMMA SpellingLower ==
  ASSUME NEW f, NEW ls, Spelling(f, ls)
  PROVE  \E h : Spelling(h, LowerAll(ls)) /\ h[1] = Lower(f[1])
<1> DEFINE m == Len(ls)
           ws == LowerAll(ls)
           h == [i \in 1 .. m |-> Lower(f[i])]
           W == Seq(Letters) \ {<<>>}
<1>1. m \in Nat \ {0} /\ ls \in Seq(W) /\ f[m] = ls[m]
  BY SpellingIs DEF Spelling, Spelled
<1>2. DOMAIN ls = 1 .. m /\ \A i \in 1 .. m : ls[i] \in W
  <2> HIDE DEF W
  <2> QED
    BY <1>1, LenProperties, ElementOfSeq
<1>3. \A i \in 1 .. m : Lower(ls[i]) \in W
  BY <1>2, LowerWord
<1>4. ws = [i \in 1 .. m |-> Lower(ls[i])]
  BY <1>2, Zenon DEF LowerAll
<1>5. ws \in Seq(W) /\ Len(ws) = m /\ \A i \in 1 .. m : ws[i] = Lower(ls[i])
  <2> HIDE DEF W, ws, m
  <2>1. ws \in [1 .. m -> W] /\ \A i \in 1 .. m : ws[i] = Lower(ls[i])
    BY <1>3, <1>4
  <2> QED
    BY <1>1, <2>1
<1>6. ws # <<>>
  <2> HIDE DEF W, ws, m
  <2> QED
    BY <1>1, <1>5
<1>7. \A i \in 1 .. m : h[i] = Lower(f[i])
  OBVIOUS
<1>8. \A i \in 1 .. m : h[i] \in Seq(Chars)
  <2>1. \A i \in 1 .. m : f[i] \in Seq(Chars)
    BY SpellingIs
  <2> QED
    BY <1>7, <2>1, LowerIs DEF Lowered
<1> HIDE DEF h
<1>9. 1 \in 1 .. m /\ m \in 1 .. m
  <2> HIDE DEF m
  <2> QED
    BY <1>1
<1>10. h[m] = ws[m]
  BY <1>1, <1>5, <1>7, <1>9
<1>11. ASSUME NEW i \in 1 .. m - 1 PROVE Dotted(h[i], ws[i], h[i + 1])
  <2> DEFINE v == f[i]
             l == ls[i]
             w == f[i + 1]
  <2>1. i \in 1 .. m /\ i + 1 \in 1 .. m /\ Dotted(v, l, w) /\ l \in Seq(Chars) /\ w \in Seq(Chars)
    BY SpellingIs
  <2>2. h[i] = Lower(v) /\ ws[i] = Lower(l) /\ h[i + 1] = Lower(w)
    BY <1>5, <1>7, <2>1
  <2> HIDE DEF v, l, w
  <2>3. Dotted(Lower(v), Lower(l), Lower(w))
    BY <2>1, DottedLower
  <2> QED
    BY <2>2, <2>3
<1> HIDE DEF ws, m
<1>12. Spells(h, ws)
  BY <1>5, <1>8, <1>10, <1>11 DEF Spells
<1>13. Spelling(h, ws)
  BY <1>5, <1>6, <1>12 DEF Spelling, Spelled
<1> QED
  BY <1>7, <1>9, <1>13 DEF ws

\* A suffix of a dot and x is x after a dot.
LEMMA DotSuffix ==
  ASSUME NEW x \in Seq(Chars), NEW v \in Seq(Chars)
  PROVE  IsSuffix(<<Dot>> \o x, v) <=> DotEnds(x, v)
<1> DEFINE u == <<Dot>> \o x
           n == Len(x)
           m == Len(v)
<1>1. u \in Seq(Chars) /\ Len(u) = n + 1 /\ u[1] = Dot /\ \A i \in 1 .. n : u[1 + i] = x[i]
  <2>1. Dot \in Chars
    BY DotIsNoLetter
  <2> HIDE DEF Dot, Chars
  <2> QED
    BY <2>1, PutOne
<1>2. n \in Nat /\ m \in Nat
  BY LenProperties
<1> HIDE DEF u
<1>3. IsSuffix(u, v) <=> EndsWith(u, v)
  BY <1>1, SuffixIs
<1>4. EndsWith(u, v) <=> n + 1 <= m /\ \A i \in 1 .. n + 1 : v[m - (n + 1) + i] = u[i]
  BY <1>1 DEF EndsWith
<1>5. DotEnds(x, v) <=> n + 1 <= m /\ v[m - n] = Dot /\ \A i \in 1 .. n : v[m - n + i] = x[i]
  BY DEF DotEnds
<1> HIDE DEF n, m
<1>6. ASSUME n + 1 <= m, \A i \in 1 .. n + 1 : v[m - (n + 1) + i] = u[i]
      PROVE  v[m - n] = Dot /\ \A i \in 1 .. n : v[m - n + i] = x[i]
  <2>1. 1 \in 1 .. n + 1 /\ m - (n + 1) + 1 = m - n
    BY <1>2
  <2>2. v[m - n] = Dot
    BY <1>1, <1>6, <2>1
  <2>3. ASSUME NEW i \in 1 .. n PROVE v[m - n + i] = x[i]
    <3>1. 1 + i \in 1 .. n + 1 /\ m - (n + 1) + (1 + i) = m - n + i
      BY <1>2
    <3>2. v[m - (n + 1) + (1 + i)] = u[1 + i]
      BY <1>6, <3>1
    <3> QED
      BY <1>1, <3>1, <3>2
  <2> QED
    BY <2>2, <2>3
<1>7. ASSUME v[m - n] = Dot, \A i \in 1 .. n : v[m - n + i] = x[i], NEW i \in 1 .. n + 1
      PROVE  v[m - (n + 1) + i] = u[i]
  <2>1. CASE i = 1
    <3>1. m - (n + 1) + i = m - n
      BY <1>2, <2>1
    <3> QED
      BY <1>1, <1>7, <2>1, <3>1
  <2>2. CASE i # 1
    <3> DEFINE j == i - 1
    <3>1. j \in 1 .. n /\ i = 1 + j /\ m - (n + 1) + i = m - n + j
      BY <1>2, <2>2
    <3> HIDE DEF j
    <3>2. v[m - n + j] = x[j] /\ u[1 + j] = x[j]
      BY <1>1, <1>7, <3>1
    <3> QED
      BY <3>1, <3>2
  <2> QED
    BY <2>1, <2>2
<1> QED
  BY <1>3, <1>4, <1>5, <1>6, <1>7 DEF u

\* An entry takes a name: it is the name, or ends it after a dot.
Hits(e, d) == e # <<>> /\ (d = e \/ IsSuffix(<<Dot>> \o e, d))

\* An entry takes a name exactly when its labels are the last ones of the name.
LEMMA EntryHits ==
  ASSUME NEW ls, Spelled(ls), ls # <<>>, NEW es, Spelled(es), es # <<>>
  PROVE  Hits(Lower(Name(es)), Lower(Name(ls))) <=> IsSuffix(LowerAll(es), LowerAll(ls))
<1> DEFINE as == LowerAll(ls)
           bs == LowerAll(es)
           d == Lower(Name(ls))
           e == Lower(Name(es))
<1>1. \E f : Spelling(f, as) /\ d = f[1]
  <2>1. PICK f : Spells(f, ls) /\ Name(ls) = f[1]
    BY NameIs
  <2>2. \E h : Spelling(h, LowerAll(ls)) /\ h[1] = Lower(f[1])
    BY <2>1, SpellingLower DEF Spelling
  <2> QED
    BY <2>1, <2>2
<1>2. \E f : Spelling(f, bs) /\ e = f[1]
  <2>1. PICK f : Spells(f, es) /\ Name(es) = f[1]
    BY NameIs
  <2>2. \E h : Spelling(h, LowerAll(es)) /\ h[1] = Lower(f[1])
    BY <2>1, SpellingLower DEF Spelling
  <2> QED
    BY <2>1, <2>2
<1> HIDE DEF as, bs, d, e
<1>3. PICK f : Spelling(f, as) /\ d = f[1]
  BY <1>1
<1>4. PICK g : Spelling(g, bs) /\ e = g[1]
  BY <1>2
<1>5. (d = e \/ DotEnds(e, d)) <=> EndsWith(bs, as)
  BY <1>3, <1>4, LabelsDecide
<1>6. d \in Seq(Chars) /\ e \in Seq(Chars) /\ e # <<>>
  <2>1. Len(e) \in Nat \ {0}
    BY <1>4, LastIsLetter
  <2> QED
    BY <1>3, <1>4, <2>1, LastIsLetter
<1>7. IsSuffix(<<Dot>> \o e, d) <=> DotEnds(e, d)
  BY <1>6, DotSuffix
<1>8. IsSuffix(bs, as) <=> EndsWith(bs, as)
  BY <1>3, <1>4, SuffixIs DEF Spelling, Spelled
<1>9. Hits(e, d) <=> IsSuffix(bs, as)
  BY <1>5, <1>6, <1>7, <1>8 DEF Hits
<1> QED
  BY <1>9 DEF as, bs, d, e

\* Without its final dot.
Trim(s) == IF s # <<>> /\ Last(s) = Dot THEN Front(s) ELSE s

\* A name has no final dot, so only one that was added is cut off.
LEMMA TrimIs ==
  ASSUME NEW n \in Seq(Chars), n # <<>>, n[Len(n)] \in Letters
  PROVE  Trim(n \o <<>>) = n /\ Trim(n \o <<Dot>>) = n
<1> DEFINE dot == <<Dot>>
           u == n \o dot
           v == n \o <<>>
<1>1. dot \in Seq(Chars) /\ Len(dot) = 1 /\ dot[1] = Dot
  <2>1. Dot \in Chars
    BY DotIsNoLetter
  <2> HIDE DEF Dot, Chars
  <2> QED
    BY <2>1
<1>2. Len(n) \in Nat \ {0}
  BY EmptySeq, LenProperties
<1> HIDE DEF dot, Chars
<1>3. v = n
  <2>1. v \in Seq(Chars) /\ Len(v) = Len(n) /\ \A i \in 1 .. Len(n) : v[i] = n[i]
    BY <1>2
  <2> HIDE DEF v
  <2> QED
    BY <2>1, SeqEqual
<1>4. Trim(n) = n
  BY DotIsNoLetter DEF Trim, Last
<1>5. JoinedIn(Chars, u, n, dot)
  BY <1>1, JoinAny
<1> HIDE DEF u
<1>6. /\ u \in Seq(Chars) /\ Len(u) = Len(n) + 1 /\ u[Len(n) + 1] = Dot
      /\ \A i \in 1 .. Len(n) : u[i] = n[i]
  BY <1>1, <1>5 DEF JoinedIn
<1>7. u # <<>>
  BY <1>2, <1>6
<1>8. /\ Last(u) = Dot /\ Front(u) \in Seq(Chars) /\ Len(Front(u)) = Len(n)
      /\ \A i \in 1 .. Len(n) : Front(u)[i] = n[i]
  <2>1. /\ Last(u) = u[Len(u)] /\ Front(u) \in Seq(Chars) /\ Len(Front(u)) = Len(u) - 1
        /\ \A i \in 1 .. Len(u) - 1 : Front(u)[i] = u[i]
    BY <1>6, <1>7, EndOf
  <2>2. Len(u) - 1 = Len(n)
    BY <1>2, <1>6
  <2> QED
    BY <1>6, <2>1, <2>2
<1> DEFINE w == Front(u)
<1>9. w = n
  <2> HIDE DEF w
  <2>1. w \in Seq(Chars) /\ Len(w) = Len(n) /\ \A i \in 1 .. Len(w) : w[i] = n[i]
    BY <1>8 DEF w
  <2> QED
    BY <2>1, SeqEqual
<1>10. Trim(u) = n
  BY <1>7, <1>8, <1>9 DEF Trim
<1> QED
  BY <1>3, <1>4, <1>10 DEF u, v, dot

\* What MatchIsBySuffix says of a list and of the answer it gives.
ListSays(l, o) ==
  LET labels(ls) == [i \in DOMAIN ls |-> Lower(ls[i])] IN
  o = \E i \in DOMAIN l.entries :
        /\ l.entries[i] # <<>>
        /\ IsSuffix(labels(l.entries[i]), labels(l.labels))

LEMMA ListIsRight ==
  ASSUME NEW l \in Lists
  PROVE  ListSays(l, Match(Name(l.labels) \o (IF l.dot THEN <<Dot>> ELSE <<>>),
                           [i \in DOMAIN l.entries |-> Name(l.entries[i])]))
<1> DEFINE ls == l.labels
           es == l.entries
           n == Name(ls)
           s == n \o (IF l.dot THEN <<Dot>> ELSE <<>>)
           list == [i \in DOMAIN es |-> Name(es[i])]
           d == Lower(n)
           W == Seq(Letters) \ {<<>>}
<1>1. /\ Spelled(ls) /\ ls # <<>> /\ l.dot \in BOOLEAN /\ es \in Seq(Seq(W))
      /\ \A i \in DOMAIN es : Spelled(es[i])
  <2>1. Spelled(ls) /\ ls # <<>> /\ l.dot \in BOOLEAN /\ es \in Seq(Seq(W))
    BY CodecsAssumption, Zenon
  <2> HIDE DEF es, W
  <2>2. DOMAIN es = 1 .. Len(es) /\ \A i \in 1 .. Len(es) : es[i] \in Seq(W)
    BY <2>1, LenProperties, ElementOfSeq
  <2> QED
    BY <2>1, <2>2 DEF Spelled, W
<1>2. PICK f : Spells(f, ls) /\ n = f[1]
  BY <1>1, NameIs
<1> HIDE DEF ls, es, n
<1>3. n \in Seq(Chars) /\ n # <<>> /\ n[Len(n)] \in Letters /\ Len(n) \in Nat \ {0}
  <2>1. Spelling(f, ls)
    BY <1>1, <1>2 DEF Spelling
  <2>2. Len(n) \in Nat \ {0} /\ n \in Seq(Chars) /\ n[Len(n)] \in Letters
    BY <1>2, <2>1, LastIsLetter
  <2> QED
    BY <2>2
<1>4. Trim(s) = n
  BY <1>1, <1>3, TrimIs
<1>5. d # <<>>
  <2>1. Lowered(d, n)
    BY <1>3, LowerIs
  <2> HIDE DEF d
  <2> QED
    BY <1>3, <2>1 DEF Lowered
<1>6. Match(s, list) <=> d # <<>> /\ \E i \in DOMAIN list : Hits(Lower(list[i]), d)
  <2> HIDE DEF s, list
  <2> QED
    BY <1>4, Zenon DEF Match, Hits, Trim
<1>7. ASSUME NEW i \in DOMAIN es
      PROVE  Hits(Lower(list[i]), d) <=> es[i] # <<>> /\ IsSuffix(LowerAll(es[i]), LowerAll(ls))
  <2>1. list[i] = Name(es[i])
    OBVIOUS
  <2>2. CASE es[i] = <<>>
    <3>1. Name(es[i]) = <<>>
      BY <2>2, Zenon DEF Name
    <3>2. Lower(<<>>) = <<>>
      BY DEF Lower
    <3>3. ~ Hits(Lower(list[i]), d)
      BY <2>1, <3>1, <3>2, Zenon DEF Hits
    <3> QED
      BY <2>2, <3>3
  <2>3. CASE es[i] # <<>>
    <3>1. Hits(Lower(Name(es[i])), d) <=> IsSuffix(LowerAll(es[i]), LowerAll(ls))
      BY <1>1, <2>3, EntryHits DEF n
    <3> HIDE DEF list, d
    <3> QED
      BY <2>1, <2>3, <3>1
  <2> QED
    BY <2>2, <2>3
<1>8. DOMAIN list = DOMAIN es /\ Match(s, list) \in BOOLEAN
  BY DEF Match
<1> HIDE DEF s, list, d
<1>9. Match(s, list)
        = \E i \in DOMAIN es : es[i] # <<>> /\ IsSuffix(LowerAll(es[i]), LowerAll(ls))
  BY <1>5, <1>6, <1>7, <1>8
<1> QED
  BY <1>9, Zenon DEF ListSays, LowerAll, s, list, n, ls, es

(***************************************************************************)
(* A name is on the list exactly when the labels of an entry are its last  *)
(* labels: for every name and every list, of any length, in any case of    *)
(* letters, and with or without the final dot (proxylist.go:22-38).        *)
(***************************************************************************)
THEOREM NamesAreRead == CodecSpec => []MatchIsBySuffix
<1>1. CodecInit => MatchIsBySuffix
  BY DEF CodecInit, MatchIsBySuffix, Fed
<1>2. MatchIsBySuffix /\ [CodecNext]_codecVars => MatchIsBySuffix'
  <2> SUFFICES ASSUME MatchIsBySuffix, [CodecNext]_codecVars PROVE MatchIsBySuffix'
    OBVIOUS
  <2>0. ASSUME input'.codec # "list" PROVE MatchIsBySuffix'
    BY ONLY <2>0 DEF MatchIsBySuffix, Fed
  <2>1. CASE SocksTarget \/ ConnectTarget
    BY <2>0, <2>1 DEF SocksTarget, ConnectTarget, Feeds
  <2>2. CASE SendHead
    BY <2>0, <2>2 DEF SendHead, Feeds
  <2>3. CASE ParseQuery
    BY <2>0, <2>3 DEF ParseQuery, Feeds
  <2>4. CASE LoadTable
    BY <2>0, <2>4 DEF LoadTable, Feeds
  <2>5. CASE MatchList
    <3> DEFINE Answer(l) == Match(Name(l.labels) \o (IF l.dot THEN <<Dot>> ELSE <<>>),
                                  [i \in DOMAIN l.entries |-> Name(l.entries[i])])
    <3>1. PICK l \in Lists : Feeds("list", l, Answer(l))
      BY <2>5, Zenon DEF MatchList
    <3>2. ListSays(l, Answer(l))
      BY ListIsRight
    <3> HIDE DEF Answer
    <3>3. input'.it = l /\ output' = Answer(l)
      BY <3>1 DEF Feeds
    <3> QED
      BY ONLY <3>2, <3>3, Zenon DEF MatchIsBySuffix, ListSays
  <2>6. CASE UNCHANGED codecVars
    BY ONLY <2>6, MatchIsBySuffix DEF codecVars, MatchIsBySuffix, Fed
  <2> QED
    BY <2>1, <2>2, <2>3, <2>4, <2>5, <2>6 DEF CodecNext
<1> QED
  BY <1>1, <1>2, PTL DEF CodecSpec

(***************************************************************************)
(* The table of CN ranges and the list of domains both decide as their     *)
(* lines say (cnroute.go:43-97, proxylist.go:22-38).                       *)
(***************************************************************************)
THEOREM ListsAreRight == CodecSpec => []ListsDecide
<1>1. TableIsMembership /\ MatchIsBySuffix => ListsDecide
  BY DEF ListsDecide
<1> QED
  BY <1>1, TableIsRead, NamesAreRead, PTL
=============================================================================
