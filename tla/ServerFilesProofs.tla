-------------------------- MODULE ServerFilesProofs ---------------------------
(***************************************************************************)
(* What ServerFiles promises, for any number of passwords, requests and    *)
(* handshakes and any bounds.  Three groups of variables hardly meet: the  *)
(* password, the self-signed pair and the issued pair; each has an         *)
(* inductive invariant of its own above the common types.                  *)
(***************************************************************************)
EXTENDS ServerFiles, TLAPS

Procs == {"down", "auth", "self", "cert", "open", "key", "up"}

TypeOK ==
  /\ proc \in Procs
  /\ rot \in [Rotations -> [pc : {"none", "write", "store"}, pw : Passwords \cup {None}]]
  /\ alone \in BOOLEAN
  /\ certPem \in Int /\ keyPem \in Int /\ selfV \in Int /\ made \in Nat
  /\ issued \in [Pems -> [gen : Nat, ok : BOOLEAN, time : Nat]]
  /\ hotCert \in Nat /\ hotMod \in Nat
  /\ hs \in [Handshakes -> [pc : {"none", "stat", "lock", "load", "done"},
                            mod : Nat, chain : Nat, want : Nat, got : Nat]]

\* While a request is at work nothing is promised; if no other overlaps it,
\* the file is what it made of it.
AuthInv ==
  /\ proc # "up" => Busy = {}
  /\ proc \in {"down", "auth"} => authV = None
  /\ proc = "auth" => promised = None
  /\ Busy # {} => promised = None
  /\ alone => \A r, s \in Busy : r = s
  /\ alone => \A r \in Busy :
                auth = IF rot[r].pc = "write" THEN Empty ELSE rot[r].pw
  /\ AckedSurvives

\* The pair in memory, and any pair shown, is the one on disk; a new one is
\* only made when there is none.
SelfInv ==
  /\ selfV > 0 => proc = "up" /\ certPem = selfV /\ keyPem = selfV
  /\ proc \in {"cert", "open", "key"} => pinned = {}
  /\ proc \in {"open", "key"} => certPem = made
  /\ \A g \in pinned : g > 0
  /\ PinnedIsOnDisk

Newest(m) == \A f \in Pems : m >= issued[f].time
Known(m) == \E f \in Pems : m <= issued[f].time

\* Times only grow, so a handshake that knows the newest time has seen every
\* change, and so has what was loaded under the newest time.
HandshakeInv(h) ==
  LET s == hs[h] IN
  /\ s.pc \in {"stat", "lock", "load"} => Known(s.mod)
  /\ s.want > 0 => Whole /\ \A f \in Pems : issued[f].gen = s.want
  /\ s.want > 0 /\ s.pc = "stat" => s.mod = issued["fullchain"].time
  /\ s.want > 0 /\ s.pc \in {"lock", "load"} => Newest(s.mod)
  /\ s.pc = "load" /\ Newest(s.mod) => s.chain = Content("fullchain")
  /\ s.want > 0 /\ s.pc = "done" => s.got = s.want

HotInv ==
  /\ Known(hotMod)
  /\ hotCert > 0 /\ Newest(hotMod) => \A f \in Pems : Content(f) = hotCert
  /\ \A h \in Handshakes : HandshakeInv(h)

-----------------------------------------------------------------------------
LEMMA TypesInit == Init => TypeOK
  BY DEF Init, TypeOK, Procs, NoRot, NoHs, Pems

LEMMA TypesStep == TypeOK /\ [Next]_vars => TypeOK'
<1> SUFFICES ASSUME TypeOK, [Next]_vars PROVE TypeOK'
  OBVIOUS
<1> USE DEF TypeOK
<1>1. CASE Start
  <2> USE DEF Procs, At, authVars, selfVars, hot
  <2>1. CASE GivenAuth \/ ReadAuth \/ LoadSelf \/ WriteAuth
    BY <2>1 DEF GivenAuth, ReadAuth, LoadSelf, WriteAuth
  <2>2. ASSUME NEW rotatePass \in BOOLEAN, TruncateAuth(rotatePass)
        PROVE  TypeOK'
    BY <2>2 DEF TruncateAuth
  <2>3. CASE OpenCert \/ WriteCert
    BY <2>3 DEF OpenCert, WriteCert
  <2>4. CASE OpenKey \/ WriteKey \/ SelfFails
    BY <2>4 DEF OpenKey, WriteKey, SelfFails
  <2> QED
    BY <1>1, <2>1, <2>2, <2>3, <2>4 DEF Start
<1>2. CASE Crash
  BY <1>2 DEF Crash, Procs, NoRot, NoHs
<1>3. ASSUME NEW r \in Rotations, OpenAuth(r) \/ WriteNew(r) \/ WriteFails(r) \/ Store(r)
      PROVE  TypeOK'
  <2> USE DEF NoRot, selfVars, hot
  <2>1. CASE OpenAuth(r)
    BY <2>1 DEF OpenAuth
  <2>2. CASE WriteNew(r)
    BY <2>2 DEF WriteNew, Goes
  <2>3. CASE WriteFails(r) \/ Store(r)
    BY <2>3 DEF WriteFails, Store
  <2> QED
    BY <1>3, <2>1, <2>2, <2>3
<1>4. ASSUME NEW f \in Pems, OpenPem(f) \/ WritePem(f)
      PROVE  TypeOK'
  <2>1. ASSUME NEW n \in Nat, NEW ok \in BOOLEAN, Touch(f, n, ok)
        PROVE  TypeOK'
    <3>1. LaterTime \in Nat
      BY DEF LaterTime, Pems
    <3> QED
      BY <2>1, <3>1 DEF Touch, authVars, selfVars
  <2>2. issued[f].gen \in Nat /\ issued[f].gen + 1 \in Nat
    OBVIOUS
  <2> QED
    BY <1>4, <2>1, <2>2 DEF OpenPem, WritePem
<1>5. ASSUME NEW h \in Handshakes, Handshake(h)
      PROVE  TypeOK'
  <2> USE DEF HsUnchanged, authVars, selfVars
  <2>1. CASE StatChain(h)
    BY <2>1 DEF StatChain, Shows, ShowsSelf, Pems
  <2>2. CASE StatKey(h)
    BY <2>2 DEF StatKey, Shows, ShowsSelf, Later, Pems
  <2> DEFINE Hs == [pc : {"none", "stat", "lock", "load", "done"},
                    mod : Nat, chain : Nat, want : Nat, got : Nat]
  <2>3. CASE ShowsHot(h)
    <3>1. [hs[h] EXCEPT !.pc = "done", !.got = hotCert] \in Hs
      OBVIOUS
    <3>2. hs' = [hs EXCEPT ![h] = [hs[h] EXCEPT !.pc = "done", !.got = hotCert]]
      BY <2>3 DEF ShowsHot, Shows
    <3>3. hs' \in [Handshakes -> Hs]
      BY <3>1, <3>2
    <3> QED
      BY <2>3, <3>3 DEF ShowsHot
  <2>4. CASE LoadChain(h)
    <3>1. Content("fullchain") \in Nat
      BY DEF Content, Pems
    <3>2. [hs[h] EXCEPT !.pc = "load", !.chain = Content("fullchain")] \in Hs
      BY <3>1
    <3>3. hs' = [hs EXCEPT ![h] = [hs[h] EXCEPT !.pc = "load", !.chain = Content("fullchain")]]
      BY <2>4 DEF LoadChain
    <3>4. hs' \in [Handshakes -> Hs]
      BY <3>2, <3>3
    <3> QED
      BY <2>4, <3>4 DEF LoadChain
  <2>5. CASE LoadKey(h)
    BY <2>5 DEF LoadKey, Shows, ShowsSelf
  <2>6. CASE Done(h)
    BY <2>6 DEF Done, NoHs
  <2> QED
    BY <1>5, <2>1, <2>2, <2>3, <2>4, <2>5, <2>6 DEF Handshake
<1>6. CASE UNCHANGED vars
  BY <1>6 DEF vars, authVars, selfVars, hot
<1> QED
  BY <1>1, <1>2, <1>3, <1>4, <1>5, <1>6 DEF Next

-----------------------------------------------------------------------------
LEMMA AuthInit == Init => AuthInv
  BY DEF Init, AuthInv, AckedSurvives, Busy, NoRot

LEMMA AuthStep == TypeOK /\ AuthInv /\ [Next]_vars => AuthInv'
<1> SUFFICES ASSUME TypeOK, AuthInv, [Next]_vars PROVE AuthInv'
  OBVIOUS
<1> USE DEF AuthInv, AckedSurvives
<1>1. CASE proc' = proc /\ UNCHANGED authVars
  BY <1>1 DEF authVars, Busy
<1>2. CASE Start
  <2> USE DEF At, authVars, Busy
  <2>1. CASE GivenAuth \/ ReadAuth
    BY <2>1 DEF GivenAuth, ReadAuth
  <2>2. ASSUME NEW rotatePass \in BOOLEAN, TruncateAuth(rotatePass)
        PROVE  AuthInv'
    BY <2>2 DEF TruncateAuth
  <2>3. CASE WriteAuth
    BY <2>3 DEF WriteAuth
  <2>4. CASE LoadSelf \/ OpenCert \/ WriteCert \/ OpenKey \/ WriteKey \/ SelfFails
    <3>1. proc \notin {"down", "auth", "up"} /\ proc' \notin {"down", "auth"} /\ UNCHANGED authVars
      BY <2>4 DEF LoadSelf, OpenCert, WriteCert, OpenKey, WriteKey, SelfFails
    <3> QED
      BY <3>1
  <2> QED
    BY <1>2, <2>1, <2>2, <2>3, <2>4 DEF Start
<1>3. CASE Crash
  <2>1. Busy' = {}
    BY <1>3 DEF Crash, Busy, NoRot
  <2> QED
    BY <1>3, <2>1 DEF Crash
<1>4. ASSUME NEW r \in Rotations, OpenAuth(r)
      PROVE  AuthInv'
  <2>1. /\ proc = "up" /\ rot[r].pc = "none"
        /\ auth' = Empty /\ promised' = None /\ proc' = proc
        /\ alone' = (Busy = {})
        /\ \A s \in Rotations : s # r => rot'[s] = rot[s]
        /\ rot'[r].pc = "write"
    BY <1>4 DEF OpenAuth, TypeOK
  <2>2. Busy' = Busy \cup {r}
    BY <2>1 DEF Busy
  <2> QED
    BY <2>1, <2>2
<1>5. ASSUME NEW r \in Rotations, WriteNew(r)
      PROVE  AuthInv'
  <2>1. /\ rot[r].pc = "write" /\ rot'[r] = [rot[r] EXCEPT !.pc = "store"]
        /\ \A s \in Rotations : s # r => rot'[s] = rot[s]
        /\ UNCHANGED <<proc, authV, given, alone, promised>>
        /\ auth = Empty => auth' = rot[r].pw
    BY <1>5 DEF WriteNew, Goes, TypeOK
  <2>2. Busy' = Busy /\ r \in Busy
    BY <2>1 DEF Busy, TypeOK
  <2>3. rot'[r].pc = "store" /\ rot'[r].pw = rot[r].pw
    BY <2>1 DEF TypeOK
  <2> QED
    BY <2>1, <2>2, <2>3
<1>6. ASSUME NEW r \in Rotations, WriteFails(r) \/ Store(r)
      PROVE  AuthInv'
  <2>1. /\ rot[r].pc \in {"write", "store"} /\ rot' = [rot EXCEPT ![r] = NoRot]
        /\ UNCHANGED <<proc, auth, alone>>
    BY <1>6 DEF WriteFails, Store
  <2>2. Busy' = Busy \ {r} /\ r \in Busy
    BY <2>1 DEF Busy, NoRot, TypeOK
  <2>3. \A s \in Busy' : rot'[s] = rot[s]
    BY <2>1, <2>2 DEF Busy, TypeOK
  <2>4. CASE WriteFails(r)
    BY <2>1, <2>2, <2>3, <2>4 DEF WriteFails
  <2>5. CASE Store(r)
    BY <2>1, <2>2, <2>3, <2>5 DEF Store
  <2> QED
    BY <1>6, <2>4, <2>5
<1>7. ASSUME NEW f \in Pems, OpenPem(f) \/ WritePem(f)
      PROVE  AuthInv'
  BY <1>1, <1>7 DEF OpenPem, WritePem, Touch
<1>8. ASSUME NEW h \in Handshakes, Handshake(h)
      PROVE  AuthInv'
  BY <1>1, <1>8 DEF Handshake, StatChain, StatKey, ShowsHot, LoadChain, LoadKey, Done,
       HsUnchanged
<1>9. CASE UNCHANGED vars
  BY <1>1, <1>9 DEF vars
<1> QED
  BY <1>2, <1>3, <1>4, <1>5, <1>6, <1>7, <1>8, <1>9 DEF Next

-----------------------------------------------------------------------------
LEMMA SelfInit == Init => SelfInv
  BY DEF Init, SelfInv, PinnedIsOnDisk

LEMMA SelfStep == TypeOK /\ SelfInv /\ [Next]_vars => SelfInv'
<1> SUFFICES ASSUME TypeOK, SelfInv, [Next]_vars PROVE SelfInv'
  OBVIOUS
<1> USE DEF SelfInv, PinnedIsOnDisk
<1>1. CASE proc' = proc /\ UNCHANGED <<selfVars, pinned>>
  BY <1>1 DEF selfVars
<1>2. CASE Start
  <2> USE DEF At, selfVars, TypeOK
  <2>1. CASE \/ GivenAuth \/ ReadAuth \/ WriteAuth
             \/ \E rotatePass \in BOOLEAN : TruncateAuth(rotatePass)
    BY <2>1 DEF GivenAuth, ReadAuth, WriteAuth, TruncateAuth
  <2>2. CASE LoadSelf
    BY <2>2 DEF LoadSelf
  <2>3. CASE OpenCert
    BY <2>3 DEF OpenCert
  <2>4. CASE WriteCert \/ OpenKey
    BY <2>4 DEF WriteCert, OpenKey
  <2>5. CASE WriteKey \/ SelfFails
    BY <2>5 DEF WriteKey, SelfFails
  <2> QED
    BY <1>2, <2>1, <2>2, <2>3, <2>4, <2>5 DEF Start
<1>3. CASE Crash
  BY <1>3 DEF Crash
<1>4. ASSUME NEW r \in Rotations, OpenAuth(r) \/ WriteNew(r) \/ WriteFails(r) \/ Store(r)
      PROVE  SelfInv'
  BY <1>1, <1>4 DEF OpenAuth, WriteNew, WriteFails, Store
<1>5. ASSUME NEW f \in Pems, OpenPem(f) \/ WritePem(f)
      PROVE  SelfInv'
  BY <1>1, <1>5 DEF OpenPem, WritePem, Touch
<1>6. ASSUME NEW h \in Handshakes, Handshake(h)
      PROVE  SelfInv'
  <2>1. /\ UNCHANGED <<proc, certPem, keyPem, selfV, made>>
        /\ pinned' \subseteq pinned \cup (IF selfV > 0 THEN {selfV} ELSE {})
    BY <1>6 DEF Handshake, StatChain, StatKey, ShowsHot, LoadChain, LoadKey, Done,
         HsUnchanged, ShowsSelf, selfVars
  <2>2. proc \in {"cert", "open", "key"} => ~ (selfV > 0)
    OBVIOUS
  <2> QED
    BY <2>1, <2>2
<1>7. CASE UNCHANGED vars
  BY <1>1, <1>7 DEF vars
<1> QED
  BY <1>2, <1>3, <1>4, <1>5, <1>6, <1>7 DEF Next

-----------------------------------------------------------------------------
LEMMA HotInit == Init => HotInv
  BY DEF Init, HotInv, HandshakeInv, Known, NoHs, Pems

\* A step of the script: the file it touches has a time nobody knows.
LEMMA TouchStep ==
  ASSUME TypeOK, HotInv, NEW f \in Pems, NEW n \in Nat, NEW ok \in BOOLEAN,
         Touch(f, n, ok)
  PROVE  HotInv'
<1>1. /\ issued' \in [Pems -> [gen : Nat, ok : BOOLEAN, time : Nat]]
      /\ \A g \in Pems : issued'[f].time > issued[g].time /\ issued'[g].time >= issued[g].time
  BY DEF Touch, TypeOK, LaterTime, Pems
<1>2. \A m \in Nat : Known(m) => Known(m)' /\ ~ Newest(m)'
  BY <1>1 DEF Known, Newest, TypeOK
<1>3. Known(hotMod)' /\ ~ Newest(hotMod)'
  BY <1>2 DEF Touch, HotInv, TypeOK, Known, Newest
<1>4. ASSUME NEW h \in Handshakes
      PROVE  HandshakeInv(h)'
  <2>1. /\ hs'[h] = [hs[h] EXCEPT !.want = 0]
        /\ hs[h].mod \in Nat /\ HandshakeInv(h)
    BY <1>4 DEF Touch, TypeOK, HotInv
  <2>2. hs'[h].want = 0 /\ hs'[h].pc = hs[h].pc /\ hs'[h].mod = hs[h].mod
    BY <2>1 DEF TypeOK
  <2> QED
    BY <1>2, <2>1, <2>2 DEF HandshakeInv, Known, Newest
<1> QED
  BY <1>3, <1>4 DEF HotInv

\* A step that leaves the files and what is loaded alone is about one handshake.
LEMMA OneHandshake ==
  ASSUME TypeOK, HotInv, UNCHANGED <<issued, hotCert, hotMod>>, NEW h \in Handshakes,
         \A g \in Handshakes : g # h => hs'[g] = hs[g], HandshakeInv(h)'
  PROVE  HotInv'
<1>1. \A g \in Handshakes : HandshakeInv(g)'
  BY DEF HotInv, HandshakeInv, Known, Newest, Whole, Content
<1> QED
  BY <1>1 DEF HotInv, Known, Newest, Content

LEMMA HandshakeStep ==
  ASSUME TypeOK, HotInv, NEW h \in Handshakes, Handshake(h)
  PROVE  HotInv'
<1>1. UNCHANGED issued
  BY DEF Handshake, StatChain, StatKey, ShowsHot, LoadChain, LoadKey, Done, HsUnchanged
<1>2. \A g \in Handshakes : g # h => hs'[g] = hs[g]
  BY DEF Handshake, StatChain, StatKey, ShowsHot, LoadChain, LoadKey, Done, Shows,
       ShowsSelf, TypeOK
<1>3. HandshakeInv(h) /\ Known(hotMod)
  BY DEF HotInv
<1>4. hs[h] \in [pc : {"none", "stat", "lock", "load", "done"},
                 mod : Nat, chain : Nat, want : Nat, got : Nat]
  BY DEF TypeOK
<1>5. \A f \in Pems : issued[f] \in [gen : Nat, ok : BOOLEAN, time : Nat]
  BY DEF TypeOK
<1>6. CASE StatChain(h)
  <2>1. CASE There("fullchain")
    <3>1. hs'[h].pc = "stat" /\ hs'[h].mod = issued["fullchain"].time
          /\ hs'[h].want = IF Whole THEN issued["fullchain"].gen ELSE 0
      BY <1>6, <2>1 DEF StatChain, TypeOK
    <3>2. Known(hs'[h].mod)
      BY <1>5, <3>1 DEF Known, Pems
    <3>3. hs'[h].want > 0 => Whole /\ \A f \in Pems : issued[f].gen = hs'[h].want
      BY <1>5, <3>1 DEF Whole, Pems
    <3>4. HandshakeInv(h)'
      BY <1>1, <3>1, <3>2, <3>3 DEF HandshakeInv, Known, Whole
    <3> QED
      BY <1>1, <1>2, <1>6, <2>1, <3>4, OneHandshake DEF StatChain
  <2>2. CASE ~ There("fullchain")
    <3>1. hs[h].pc = "none" /\ hs'[h] = [hs[h] EXCEPT !.pc = "done", !.got = 0]
      BY <1>6, <2>2 DEF StatChain, ShowsSelf, Shows, TypeOK
    <3>2. hs'[h].pc = "done" /\ hs'[h].got = 0 /\ hs'[h].want = hs[h].want
      BY <1>4, <3>1
    <3>3. ~ (hs[h].want > 0)
      BY <1>3, <2>2 DEF HandshakeInv, Whole, There, Pems
    <3>4. HandshakeInv(h)'
      BY <3>2, <3>3 DEF HandshakeInv
    <3> QED
      BY <1>1, <1>2, <1>6, <3>4, OneHandshake DEF StatChain
  <2> QED
    BY <2>1, <2>2
<1>7. CASE StatKey(h)
  <2>1. CASE There("privkey")
    <3>1. /\ hs[h].pc = "stat" /\ hs'[h].pc = "lock" /\ hs'[h].want = hs[h].want
          /\ hs'[h].mod = Later(hs[h].mod, issued["privkey"].time)
      BY <1>4, <1>7, <2>1 DEF StatKey, TypeOK
    <3>2. hs'[h].mod \in {hs[h].mod, issued["privkey"].time}
          /\ hs'[h].mod >= hs[h].mod /\ hs'[h].mod >= issued["privkey"].time
      BY <1>4, <1>5, <3>1 DEF Later, Pems
    <3>3. Known(hs'[h].mod)
      BY <1>3, <1>5, <3>1, <3>2 DEF HandshakeInv, Known, Pems
    <3>4. hs[h].want > 0 => Newest(hs'[h].mod)
      BY <1>3, <1>4, <1>5, <3>1, <3>2 DEF HandshakeInv, Newest, Pems
    <3>5. HandshakeInv(h)'
      BY <1>1, <1>3, <3>1, <3>3, <3>4 DEF HandshakeInv, Known, Newest, Whole
    <3> QED
      BY <1>1, <1>2, <1>7, <3>5, OneHandshake DEF StatKey
  <2>2. CASE ~ There("privkey")
    <3>1. hs'[h].pc = "done" /\ hs'[h].want = hs[h].want
      BY <1>4, <1>7, <2>2 DEF StatKey, ShowsSelf, Shows, TypeOK
    <3>2. ~ (hs[h].want > 0)
      BY <1>3, <2>2 DEF HandshakeInv, Whole, There, Pems
    <3>3. HandshakeInv(h)'
      BY <3>1, <3>2 DEF HandshakeInv
    <3> QED
      BY <1>1, <1>2, <1>7, <3>3, OneHandshake DEF StatKey
  <2> QED
    BY <2>1, <2>2
<1>8. CASE ShowsHot(h)
  <2>1. /\ hs[h].pc = "lock" /\ hotCert > 0 /\ hs[h].mod <= hotMod
        /\ hs'[h].pc = "done" /\ hs'[h].want = hs[h].want /\ hs'[h].got = hotCert
    BY <1>4, <1>8 DEF ShowsHot, Shows, TypeOK
  <2>2. ASSUME hs[h].want > 0
        PROVE  hotCert = hs[h].want
    <3>1. Newest(hotMod)
      BY <1>3, <1>4, <1>5, <2>1, <2>2 DEF HandshakeInv, Newest, TypeOK
    <3>2. Content("fullchain") = hotCert
      BY <2>1, <3>1 DEF HotInv, Pems
    <3> QED
      BY <1>3, <2>2, <3>2 DEF HandshakeInv, Whole, Content, Pems
  <2>3. HandshakeInv(h)'
    BY <1>1, <1>3, <2>1, <2>2 DEF HandshakeInv, Whole
  <2> QED
    BY <1>1, <1>2, <1>8, <2>3, OneHandshake DEF ShowsHot
<1>9. CASE LoadChain(h)
  <2>1. /\ hs[h].pc = "lock" /\ hs'[h].pc = "load"
        /\ hs'[h].mod = hs[h].mod /\ hs'[h].want = hs[h].want
        /\ hs'[h].chain = Content("fullchain")
    BY <1>4, <1>9 DEF LoadChain, TypeOK
  <2>2. HandshakeInv(h)'
    BY <1>1, <1>3, <2>1 DEF HandshakeInv, Known, Newest, Whole, Content
  <2> QED
    BY <1>1, <1>2, <1>9, <2>2, OneHandshake DEF LoadChain
<1>10. CASE LoadKey(h)
  <2>1. hs[h].pc = "load" /\ hs'[h].pc = "done" /\ hs'[h].want = hs[h].want
    BY <1>4, <1>10 DEF LoadKey, Shows, ShowsSelf, TypeOK
  <2>2. ASSUME hs[h].want > 0
        PROVE  hs[h].chain = hs[h].want /\ hs[h].chain = Content("privkey")
    BY <1>3, <2>1, <2>2 DEF HandshakeInv, Whole, Content, Pems
  <2>3. CASE hs[h].chain > 0 /\ hs[h].chain = Content("privkey")
    <3>1. hotCert' = hs[h].chain /\ hotMod' = hs[h].mod /\ hs'[h].got = hs[h].chain
      BY <1>4, <1>10, <2>3 DEF LoadKey, Shows, TypeOK
    <3>2. HandshakeInv(h)'
      BY <1>1, <1>3, <2>1, <2>2, <3>1 DEF HandshakeInv, Whole
    <3>3. \A g \in Handshakes : HandshakeInv(g)'
      BY <1>1, <1>2, <3>2 DEF HotInv, HandshakeInv, Known, Newest, Whole, Content
    <3>4. Known(hotMod)'
      BY <1>1, <1>3, <2>1, <3>1 DEF HandshakeInv, Known
    <3>5. Newest(hs[h].mod) => Content("fullchain") = hs[h].chain
      BY <1>3, <2>1 DEF HandshakeInv
    <3>6. (Newest(hotMod) => \A f \in Pems : Content(f) = hotCert)'
      BY <1>1, <2>3, <3>1, <3>5 DEF Newest, Content, Pems
    <3> QED
      BY <3>3, <3>4, <3>6 DEF HotInv
  <2>4. CASE ~ (hs[h].chain > 0 /\ hs[h].chain = Content("privkey"))
    <3>1. ~ (hs[h].want > 0)
      BY <2>2, <2>4
    <3>2. HandshakeInv(h)'
      BY <2>1, <3>1 DEF HandshakeInv
    <3> QED
      BY <1>1, <1>2, <1>10, <2>4, <3>2, OneHandshake DEF LoadKey
  <2> QED
    BY <2>3, <2>4
<1>11. CASE Done(h)
  <2>1. hs'[h] = NoHs
    BY <1>11 DEF Done, TypeOK
  <2>2. HandshakeInv(h)'
    BY <2>1 DEF HandshakeInv, NoHs
  <2> QED
    BY <1>1, <1>2, <1>11, <2>2, OneHandshake DEF Done
<1> QED
  BY <1>6, <1>7, <1>8, <1>9, <1>10, <1>11 DEF Handshake

LEMMA HotStep == TypeOK /\ HotInv /\ [Next]_vars => HotInv'
<1> SUFFICES ASSUME TypeOK, HotInv, [Next]_vars PROVE HotInv'
  OBVIOUS
<1>1. CASE UNCHANGED <<issued, hot>>
  BY <1>1 DEF hot, HotInv, HandshakeInv, Known, Newest, Whole, Content
<1>2. CASE Start
  BY <1>1, <1>2 DEF Start, GivenAuth, ReadAuth, TruncateAuth, WriteAuth, LoadSelf, OpenCert,
       WriteCert, OpenKey, WriteKey, SelfFails
<1>3. CASE Crash
  <2>1. /\ UNCHANGED issued /\ hotCert' = 0 /\ hotMod' = 0
        /\ \A h \in Handshakes : hs'[h] = NoHs
    BY <1>3 DEF Crash
  <2>2. Known(0)
    BY DEF Known, Pems, TypeOK
  <2> QED
    BY <2>1, <2>2 DEF HotInv, HandshakeInv, NoHs, Known
<1>4. ASSUME NEW r \in Rotations, OpenAuth(r) \/ WriteNew(r) \/ WriteFails(r) \/ Store(r)
      PROVE  HotInv'
  BY <1>1, <1>4 DEF OpenAuth, WriteNew, WriteFails, Store
<1>5. ASSUME NEW f \in Pems, OpenPem(f) \/ WritePem(f)
      PROVE  HotInv'
  <2>1. issued[f].gen \in Nat /\ issued[f].gen + 1 \in Nat
    BY DEF TypeOK
  <2> QED
    BY <1>5, <2>1, TouchStep DEF OpenPem, WritePem
<1>6. ASSUME NEW h \in Handshakes, Handshake(h)
      PROVE  HotInv'
  BY <1>6, HandshakeStep
<1>7. CASE UNCHANGED vars
  BY <1>1, <1>7 DEF vars
<1> QED
  BY <1>2, <1>3, <1>4, <1>5, <1>6, <1>7 DEF Next

-----------------------------------------------------------------------------
(***************************************************************************)
(* A password that was answered "ok" survives crashes and failed starts,   *)
(* if requests do not overlap; a start with -auth leaves it on disk and    *)
(* lives by another (protection.go:176-184, main.go:113-126).              *)
(***************************************************************************)
THEOREM PasswordsSurvive == Spec => []AckedSurvives
<1>1. Init => TypeOK /\ AuthInv
  BY TypesInit, AuthInit
<1>2. TypeOK /\ AuthInv /\ [Next]_vars => (TypeOK /\ AuthInv)'
  BY TypesStep, AuthStep
<1>3. TypeOK /\ AuthInv => AckedSurvives
  BY DEF AuthInv
<1> QED
  BY <1>1, <1>2, <1>3, PTL DEF Spec

(***************************************************************************)
(* A certificate that clients may have pinned is never lost                *)
(* (server.go:249-289).                                                    *)
(***************************************************************************)
THEOREM PinnedIsKept == Spec => []PinnedIsOnDisk
<1>1. Init => TypeOK /\ SelfInv
  BY TypesInit, SelfInit
<1>2. TypeOK /\ SelfInv /\ [Next]_vars => (TypeOK /\ SelfInv)'
  BY TypesStep, SelfStep
<1>3. TypeOK /\ SelfInv => PinnedIsOnDisk
  BY DEF SelfInv
<1> QED
  BY <1>1, <1>2, <1>3, PTL DEF Spec

(***************************************************************************)
(* After a complete renewal every new handshake shows the new certificate, *)
(* for any number of handshakes and renewals (server.go:63-86).            *)
(***************************************************************************)
THEOREM RenewalsAreShown == Spec => []RenewedIsShown
<1>1. Init => TypeOK /\ HotInv
  BY TypesInit, HotInit
<1>2. TypeOK /\ HotInv /\ [Next]_vars => (TypeOK /\ HotInv)'
  BY TypesStep, HotStep
<1>3. TypeOK /\ HotInv => RenewedIsShown
  BY DEF HotInv, HandshakeInv, RenewedIsShown
<1> QED
  BY <1>1, <1>2, <1>3, PTL DEF Spec
=============================================================================
