--------------------------- MODULE BanListProofs ---------------------------
(***************************************************************************)
(* For every set of addresses and connections and every value of the       *)
(* thresholds: the table keeps its types, no entry is dropped while its    *)
(* ban runs, an off switch leaves no ban behind, a ban is earned and ends  *)
(* only the ways BanStands lists, an acknowledged switch is kept, and the  *)
(* table implements BanPolicy.                                             *)
(***************************************************************************)
EXTENDS BanList, SequenceTheorems, TLAPS

\* A table: a function from some addresses to entries no younger than now.
Table(t) ==
  /\ DOMAIN t \subseteq IPs
  /\ t \in [DOMAIN t -> Entry]
  /\ \A ip \in DOMAIN t :
       /\ t[ip].lastFail <= now
       /\ t[ip].bannedUntil <= t[ip].lastFail + BanDuration

(***************************************************************************)
(* Pruning removes entries and changes none; a removed one is not banned   *)
(* (recordFail, protection.go:111-118).                                    *)
(***************************************************************************)
LEMMA PruneKeepsBans ==
  ASSUME TypeOK, BanWithinEntry
  PROVE  /\ Table(Pruned)
         /\ DOMAIN Pruned \subseteq DOMAIN bans
         /\ \A ip \in DOMAIN Pruned : Pruned[ip] = bans[ip]
         /\ \A ip \in DOMAIN bans : now < bans[ip].bannedUntil => ip \in DOMAIN Pruned
<1>0. BanDuration \in Nat /\ MaxTime \in Nat /\ Threshold \in Nat
  BY BanAssumption
<1>1. CASE Cardinality(DOMAIN bans) > PruneAt
  <2> DEFINE K == {k \in DOMAIN bans : now - bans[k].lastFail <= BanDuration}
  <2>1. Pruned = [i \in K |-> bans[i]]
    BY <1>1 DEF Pruned, KeepRecent
  <2>2. K \subseteq DOMAIN bans /\ DOMAIN Pruned = K
    BY <2>1
  <2>3. \A ip \in DOMAIN Pruned : Pruned[ip] = bans[ip]
    BY <2>1, <2>2
  <2>4. \A ip \in DOMAIN bans : now < bans[ip].bannedUntil => ip \in DOMAIN Pruned
    <3> SUFFICES ASSUME NEW ip \in DOMAIN bans, now < bans[ip].bannedUntil
                 PROVE  ip \in DOMAIN Pruned
      OBVIOUS
    <3>1. bans[ip] \in Entry /\ now \in Int
      BY <1>0 DEF TypeOK
    <3>2. now - bans[ip].lastFail <= BanDuration
      BY <1>0, <3>1 DEF BanWithinEntry, Entry
    <3> QED BY <2>2, <3>2
  <2>5. Table(Pruned)
    BY <2>1, <2>2, <2>3 DEF Table, TypeOK, BanWithinEntry
  <2> QED BY <2>2, <2>3, <2>4, <2>5
<1>2. CASE ~ (Cardinality(DOMAIN bans) > PruneAt)
  <2>1. Pruned = bans
    BY <1>2 DEF Pruned, KeepRecent
  <2> QED BY <2>1 DEF Table, TypeOK, BanWithinEntry
<1> QED BY <1>1, <1>2

(***************************************************************************)
(* The entry recordFail leaves is well formed, was touched now, and its    *)
(* ban never ends before the one it had (protection.go:119-134).           *)
(***************************************************************************)
LEMMA StruckEntry ==
  ASSUME NEW t, Table(t), NEW ip \in IPs, now \in 0 .. MaxTime
  PROVE  /\ Struck(t, ip) \in Entry
         /\ Struck(t, ip).lastFail = now
         /\ Struck(t, ip).bannedUntil <= now + BanDuration
         /\ ip \in DOMAIN t => Struck(t, ip).bannedUntil >= t[ip].bannedUntil
<1>0. BanDuration \in Nat /\ MaxTime \in Nat /\ Threshold \in Nat \ {0}
  BY BanAssumption
<1>1. CASE ip \in DOMAIN t
  <2>1. t[ip] \in Entry /\ t[ip].lastFail <= now
        /\ t[ip].bannedUntil <= t[ip].lastFail + BanDuration
    BY <1>1 DEF Table
  <2>2. Fails(t, ip) \in 1 .. Threshold
    BY <1>0, <2>1 DEF Fails, Entry
  <2> QED BY <1>0, <1>1, <2>1, <2>2 DEF Struck, Entry
<1>2. CASE ip \notin DOMAIN t
  <2>1. Fails(t, ip) = 1
    BY <1>2 DEF Fails
  <2> QED BY <1>0, <1>2, <2>1 DEF Struck, Entry
<1> QED BY <1>1, <1>2

\* Putting a well-formed entry into a table gives a table.
LEMMA PutTable ==
  ASSUME NEW t, Table(t), NEW ip \in IPs, NEW e \in Entry,
         e.lastFail <= now, e.bannedUntil <= e.lastFail + BanDuration
  PROVE  /\ Table(Put(t, ip, e))
         /\ DOMAIN Put(t, ip, e) = DOMAIN t \cup {ip}
         /\ Put(t, ip, e)[ip] = e
         /\ \A i \in DOMAIN t \ {ip} : Put(t, ip, e)[i] = t[i]
BY DEF Put, Table

LEMMA DropTable ==
  ASSUME NEW t, Table(t), NEW ip
  PROVE  /\ Table(Drop(t, ip))
         /\ DOMAIN Drop(t, ip) = DOMAIN t \ {ip}
         /\ \A i \in DOMAIN t \ {ip} : Drop(t, ip)[i] = t[i]
BY DEF Drop, Table

\* The trimmed failure history is again a history.
LEMMA LastOfType ==
  ASSUME NEW S, NEW s \in Seq(S), NEW n \in Nat
  PROVE  LastOf(n, s) \in Seq(S)
<1>1. CASE Len(s) > n
  BY <1>1 DEF LastOf
<1>2. CASE ~ (Len(s) > n)
  BY <1>2 DEF LastOf
<1> QED BY <1>1, <1>2

-----------------------------------------------------------------------------
(***************************************************************************)
(* The inductive invariant.  BanWithinEntry is the strengthening that makes*)
(* pruning harmless; OffMeansEmpty needs the request that still has to     *)
(* clear the table as its excuse.                                          *)
(***************************************************************************)
IInv == TypeOK /\ BanWithinEntry /\ OffMeansEmpty

\* What a step that records a failure does to the table.
LEMMA FailTable ==
  ASSUME TypeOK, BanWithinEntry, NEW ip \in IPs, RecordFail(ip), now' = now
  PROVE  /\ Table(bans')
         /\ ~ banEnabled => bans' = bans
         /\ hist' \in [IPs -> Seq(0 .. MaxTime)]
<1>0. Table(bans) /\ Threshold \in Nat /\ now \in 0 .. MaxTime
  BY BanAssumption DEF TypeOK, BanWithinEntry, Table
<1>1. CASE banEnabled
  <2>1. /\ bans' = Put(Pruned, ip, Struck(Pruned, ip))
        /\ hist' = [hist EXCEPT ![ip] = LastOf(Threshold, Append(@, now))]
    BY <1>1 DEF RecordFail
  <2>2. Table(Pruned)
    BY PruneKeepsBans
  <2>3. /\ Struck(Pruned, ip) \in Entry
        /\ Struck(Pruned, ip).lastFail = now
        /\ Struck(Pruned, ip).bannedUntil <= now + BanDuration
    BY <1>0, <2>2, StruckEntry
  <2>4. Table(bans')
    <3> DEFINE t == Pruned
               e == Struck(Pruned, ip)
    <3>1. e.lastFail <= now /\ e.bannedUntil <= e.lastFail + BanDuration
      BY <1>0, <2>3
    <3>2. Table(t) /\ e \in Entry
      BY <2>2, <2>3
    <3> HIDE DEF t, e
    <3>3. Table(Put(t, ip, e))
      BY <3>1, <3>2, PutTable
    <3> QED BY <2>1, <3>3 DEF t, e
  <2>5. hist' \in [IPs -> Seq(0 .. MaxTime)]
    <3>1. hist[ip] \in Seq(0 .. MaxTime)
      BY DEF TypeOK
    <3>2. Append(hist[ip], now) \in Seq(0 .. MaxTime)
      BY <1>0, <3>1
    <3>3. LastOf(Threshold, Append(hist[ip], now)) \in Seq(0 .. MaxTime)
      BY <1>0, <3>2, LastOfType
    <3> QED BY <2>1, <3>3 DEF TypeOK
  <2> QED BY <1>1, <2>4, <2>5
<1>2. CASE ~ banEnabled
  BY <1>0, <1>2 DEF RecordFail, TypeOK
<1> QED BY <1>1, <1>2

\* What a step that records a success does to the table.
LEMMA OkTable ==
  ASSUME TypeOK, BanWithinEntry, NEW ip \in IPs, RecordOK(ip), now' = now
  PROVE  /\ Table(bans')
         /\ DOMAIN bans = {} => DOMAIN bans' = {}
         /\ hist' \in [IPs -> Seq(0 .. MaxTime)]
<1>1. Table(bans)
  BY DEF TypeOK, BanWithinEntry, Table
<1>2. bans' = Drop(bans, ip) /\ hist' = [hist EXCEPT ![ip] = <<>>]
  BY DEF RecordOK
<1>3. Table(bans') /\ DOMAIN bans' = DOMAIN bans \ {ip}
  BY <1>1, <1>2, DropTable
<1>4. hist' \in [IPs -> Seq(0 .. MaxTime)]
  BY <1>2 DEF TypeOK
<1> QED BY <1>3, <1>4

LEMMA EmptyIsTable == Table(EmptyTable) /\ DOMAIN EmptyTable = {}
BY DEF EmptyTable, Table

LEMMA InitIInv == Init => IInv
<1> SUFFICES ASSUME Init PROVE IInv
  OBVIOUS
<1>1. MaxTime \in Nat
  BY BanAssumption
<1> QED
  BY <1>1 DEF Init, IInv, TypeOK, BanWithinEntry, OffMeansEmpty, EmptyTable,
              NoFailures, Idle, Phases, Files

\* The connection part of the type invariant.
ConnType ==
  /\ conn \in [Conns -> [pc : Phases, ip : IPs \cup {NoIP}, on : BOOLEAN]]
  /\ \A c \in Conns : conn[c].pc # "idle" => conn[c].ip \in IPs

\* A connection goes back to idle, or on with the address it has.
LEMMA ConnMoves ==
  ASSUME ConnType, NEW c \in Conns, conn[c].pc # "idle"
  PROVE  /\ conn' = [conn EXCEPT ![c] = Idle] => ConnType'
         /\ \A p \in Phases, v \in BOOLEAN :
              conn' = [conn EXCEPT ![c].pc = p, ![c].on = v] => ConnType'
         /\ \A p \in Phases : conn' = [conn EXCEPT ![c].pc = p] => ConnType'
<1>1. Idle \in [pc : Phases, ip : IPs \cup {NoIP}, on : BOOLEAN] /\ Idle.pc = "idle"
  BY DEF Idle, Phases
<1>2. conn' = [conn EXCEPT ![c] = Idle] => ConnType'
  BY <1>1 DEF ConnType
<1>3. \A p \in Phases, v \in BOOLEAN :
        conn' = [conn EXCEPT ![c].pc = p, ![c].on = v] => ConnType'
  <2> SUFFICES ASSUME NEW p \in Phases, NEW v \in BOOLEAN,
                      conn' = [conn EXCEPT ![c].pc = p, ![c].on = v]
               PROVE  ConnType'
    OBVIOUS
  <2>1. conn[c] \in [pc : Phases, ip : IPs \cup {NoIP}, on : BOOLEAN] /\ conn[c].ip \in IPs
    BY DEF ConnType
  <2>2. [conn[c] EXCEPT !.pc = p, !.on = v]
          \in [pc : Phases, ip : IPs \cup {NoIP}, on : BOOLEAN]
    BY <2>1
  <2>3. conn' = [conn EXCEPT ![c] = [conn[c] EXCEPT !.pc = p, !.on = v]]
    BY DEF ConnType
  <2>4. conn'[c].ip = conn[c].ip
    BY <2>1, <2>3 DEF ConnType
  <2> QED
    BY <2>1, <2>2, <2>3, <2>4 DEF ConnType
<1>4. \A p \in Phases : conn' = [conn EXCEPT ![c].pc = p] => ConnType'
  BY DEF ConnType
<1> QED BY <1>2, <1>3, <1>4

\* TypeOK and BanWithinEntry by parts, for steps that do not move the clock.
LEMMA Parts ==
  ASSUME TypeOK, BanWithinEntry, now' = now, banEnabled' \in BOOLEAN,
         Table(bans'), ConnType', file' \in Files, acked' \subseteq BOOLEAN,
         alone' \in BOOLEAN, hist' \in [IPs -> Seq(0 .. MaxTime)]
  PROVE  TypeOK' /\ BanWithinEntry'
BY DEF TypeOK, BanWithinEntry, Table, ConnType

LEMMA NextIInv == IInv /\ [Next]_vars => IInv'
<1> SUFFICES ASSUME IInv, [Next]_vars PROVE IInv'
  OBVIOUS
<1>0. /\ TypeOK /\ BanWithinEntry /\ OffMeansEmpty /\ ConnType
      /\ Table(bans)
  BY DEF IInv, TypeOK, BanWithinEntry, Table, ConnType
<1>1. CASE Restart
  <2>1. ConnType'
    BY <1>1 DEF Restart, ConnType, Idle, Phases
  <2>2. Table(bans') /\ DOMAIN bans' = {}
    BY <1>1, EmptyIsTable DEF Restart
  <2>3. hist' \in [IPs -> Seq(0 .. MaxTime)]
    BY <1>1 DEF Restart, NoFailures
  <2>4. TypeOK' /\ BanWithinEntry'
    <3>1. banEnabled' \in BOOLEAN
      BY <1>1 DEF Restart, Loaded
    <3> QED BY <1>0, <1>1, <2>1, <2>2, <2>3, <3>1, Parts DEF Restart, TypeOK
  <2> QED BY <2>2, <2>4 DEF IInv, OffMeansEmpty
<1>2. CASE Tick
  <2>1. now' \in 0 .. MaxTime /\ now < now'
    BY <1>0, <1>2, BanAssumption DEF Tick, TypeOK
  <2>2. TypeOK'
    BY <1>0, <1>2, <2>1 DEF Tick, TypeOK
  <2>3. BanWithinEntry'
    <3> SUFFICES ASSUME NEW ip \in DOMAIN bans
                 PROVE  bans[ip].lastFail <= now'
      BY <1>0, <1>2 DEF Tick, BanWithinEntry
    <3>1. bans[ip] \in Entry /\ now \in Int /\ now' \in Int
      BY <1>0, <2>1, BanAssumption DEF TypeOK
    <3> QED BY <1>0, <2>1, <3>1, BanAssumption DEF BanWithinEntry, Entry
  <2>4. OffMeansEmpty'
    BY <1>0, <1>2 DEF Tick, OffMeansEmpty
  <2> QED BY <2>2, <2>3, <2>4 DEF IInv
<1>3. ASSUME NEW c \in Conns, NEW ip \in IPs, Accept(c, ip) PROVE IInv'
  <2>1. ConnType' /\ (\A d \in Conns : conn[d].pc = "clear" => conn'[d] = conn[d])
    BY <1>0, <1>3 DEF Accept, ConnType, Phases
  <2>2. TypeOK' /\ BanWithinEntry'
    BY <1>0, <1>3, <2>1, Parts DEF Accept, TypeOK
  <2> QED BY <1>0, <1>3, <2>1, <2>2 DEF IInv, OffMeansEmpty, Accept
<1>4. ASSUME NEW c \in Conns, AuthFail(c) PROVE IInv'
  <2>1. conn[c].pc = "auth" /\ conn[c].ip \in IPs
    BY <1>0, <1>4 DEF AuthFail, ConnType
  <2>2. ConnType'
    BY <1>0, <1>4, <2>1, ConnMoves DEF AuthFail
  <2>3. \A d \in Conns : conn[d].pc = "clear" => conn'[d] = conn[d]
    BY <1>0, <1>4, <2>1 DEF AuthFail, ConnType
  <2>4. /\ Table(bans')
        /\ ~ banEnabled => bans' = bans
        /\ hist' \in [IPs -> Seq(0 .. MaxTime)]
    BY <1>0, <1>4, <2>1, FailTable DEF AuthFail
  <2>5. TypeOK' /\ BanWithinEntry'
    BY <1>0, <1>4, <2>2, <2>4, Parts DEF AuthFail, TypeOK
  <2> QED BY <1>0, <1>4, <2>3, <2>4, <2>5 DEF IInv, OffMeansEmpty, AuthFail
<1>5. ASSUME NEW c \in Conns, AuthOK(c) PROVE IInv'
  <2>1. conn[c].pc = "auth" /\ conn[c].ip \in IPs
    BY <1>0, <1>5 DEF AuthOK, ConnType
  <2>2. ConnType'
    BY <1>0, <1>5, <2>1, ConnMoves DEF AuthOK
  <2>3. \A d \in Conns : conn[d].pc = "clear" => conn'[d] = conn[d]
    BY <1>0, <1>5, <2>1 DEF AuthOK, ConnType
  <2>4. /\ Table(bans')
        /\ DOMAIN bans = {} => DOMAIN bans' = {}
        /\ hist' \in [IPs -> Seq(0 .. MaxTime)]
    BY <1>0, <1>5, <2>1, OkTable DEF AuthOK
  <2>5. TypeOK' /\ BanWithinEntry'
    BY <1>0, <1>5, <2>2, <2>4, Parts DEF AuthOK, TypeOK
  <2> QED BY <1>0, <1>5, <2>3, <2>4, <2>5 DEF IInv, OffMeansEmpty, AuthOK
<1>6. ASSUME NEW c \in Conns, HangUp(c) PROVE IInv'
  <2>1. conn[c].pc = "auth"
    BY <1>6 DEF HangUp
  <2>2. ConnType' /\ (\A d \in Conns : conn[d].pc = "clear" => conn'[d] = conn[d])
    BY <1>0, <1>6, <2>1, ConnMoves DEF HangUp, ConnType
  <2>3. TypeOK' /\ BanWithinEntry'
    BY <1>0, <1>6, <2>2, Parts DEF HangUp, TypeOK
  <2> QED BY <1>0, <1>6, <2>2, <2>3 DEF IInv, OffMeansEmpty, HangUp
<1>7. ASSUME NEW c \in Conns, NEW v \in BOOLEAN, AskSwitch(c, v) PROVE IInv'
  <2>1. conn[c].pc = "auth" /\ conn[c].ip \in IPs /\ "flag" \in Phases
    BY <1>0, <1>7 DEF AskSwitch, ConnType, Phases
  <2>2. ConnType'
    BY <1>0, <1>7, <2>1, ConnMoves DEF AskSwitch
  <2>3. \A d \in Conns : conn[d].pc = "clear" => conn'[d] = conn[d]
    BY <1>0, <1>7, <2>1 DEF AskSwitch, ConnType
  <2>4. /\ Table(bans')
        /\ DOMAIN bans = {} => DOMAIN bans' = {}
        /\ hist' \in [IPs -> Seq(0 .. MaxTime)]
    BY <1>0, <1>7, <2>1, OkTable DEF AskSwitch
  <2>5. TypeOK' /\ BanWithinEntry'
    <3>1. alone' \in BOOLEAN
      BY <1>7 DEF AskSwitch, Switching
    <3> QED BY <1>0, <1>7, <2>2, <2>4, <3>1, Parts DEF AskSwitch, TypeOK
  <2> QED BY <1>0, <1>7, <2>3, <2>4, <2>5 DEF IInv, OffMeansEmpty, AskSwitch
<1>8. ASSUME NEW c \in Conns, SetFlag(c) PROVE IInv'
  <2>1. conn[c].pc = "flag" /\ conn[c].on \in BOOLEAN
    BY <1>0, <1>8 DEF SetFlag, ConnType
  <2>2. ConnType'
    <3>1. {"trunc", "clear"} \subseteq Phases
      BY DEF Phases
    <3> QED BY <1>0, <1>8, <2>1, <3>1, ConnMoves DEF SetFlag
  <2>3. TypeOK' /\ BanWithinEntry'
    BY <1>0, <1>8, <2>1, <2>2, Parts DEF SetFlag, TypeOK
  <2>4. ~ banEnabled' => conn'[c].pc = "clear"
    BY <1>0, <1>8, <2>1 DEF SetFlag, ConnType
  <2> QED BY <2>3, <2>4 DEF IInv, OffMeansEmpty
<1>9. ASSUME NEW c \in Conns, ClearBans(c) PROVE IInv'
  <2>1. conn[c].pc = "clear" /\ "trunc" \in Phases
    BY <1>9 DEF ClearBans, Phases
  <2>2. ConnType'
    BY <1>0, <1>9, <2>1, ConnMoves DEF ClearBans
  <2>3. Table(bans') /\ DOMAIN bans' = {} /\ hist' \in [IPs -> Seq(0 .. MaxTime)]
    BY <1>9, EmptyIsTable DEF ClearBans, NoFailures
  <2>4. TypeOK' /\ BanWithinEntry'
    BY <1>0, <1>9, <2>2, <2>3, Parts DEF ClearBans, TypeOK
  <2> QED BY <2>3, <2>4 DEF IInv, OffMeansEmpty
<1>10. ASSUME NEW c \in Conns, TruncFile(c) PROVE IInv'
  <2>1. conn[c].pc = "trunc" /\ "write" \in Phases /\ "empty" \in Files
    BY <1>10 DEF TruncFile, Phases, Files
  <2>2. ConnType' /\ (\A d \in Conns : conn[d].pc = "clear" => conn'[d] = conn[d])
    BY <1>0, <1>10, <2>1, ConnMoves DEF TruncFile, ConnType
  <2>3. TypeOK' /\ BanWithinEntry'
    BY <1>0, <1>10, <2>1, <2>2, Parts DEF TruncFile, TypeOK
  <2> QED BY <1>0, <1>10, <2>2, <2>3 DEF IInv, OffMeansEmpty, TruncFile
<1>11. ASSUME NEW c \in Conns, WriteFile(c) PROVE IInv'
  <2>1. conn[c].pc = "write" /\ conn[c].on \in BOOLEAN
    BY <1>0, <1>11 DEF WriteFile, ConnType
  <2>2. ConnType' /\ (\A d \in Conns : conn[d].pc = "clear" => conn'[d] = conn[d])
    BY <1>0, <1>11, <2>1, ConnMoves DEF WriteFile, ConnType
  <2>3. file' \in Files /\ acked' \subseteq BOOLEAN
    BY <1>11, <2>1 DEF WriteFile, Written, Files
  <2>4. TypeOK' /\ BanWithinEntry'
    BY <1>0, <1>11, <2>2, <2>3, Parts DEF WriteFile, TypeOK
  <2> QED BY <1>0, <1>11, <2>2, <2>4 DEF IInv, OffMeansEmpty, WriteFile
<1>12. ASSUME NEW c \in Conns, WriteFails(c) PROVE IInv'
  <2>1. conn[c].pc \in {"trunc", "write"}
    BY <1>12 DEF WriteFails
  <2>2. ConnType' /\ (\A d \in Conns : conn[d].pc = "clear" => conn'[d] = conn[d])
    BY <1>0, <1>12, <2>1, ConnMoves DEF WriteFails, ConnType
  <2>3. TypeOK' /\ BanWithinEntry'
    BY <1>0, <1>12, <2>2, Parts DEF WriteFails, TypeOK
  <2> QED BY <1>0, <1>12, <2>2, <2>3 DEF IInv, OffMeansEmpty, WriteFails
<1>13. CASE UNCHANGED vars
  BY <1>0, <1>13 DEF vars, IInv, TypeOK, BanWithinEntry, OffMeansEmpty
<1> QED
  BY <1>1, <1>2, <1>3, <1>4, <1>5, <1>6, <1>7, <1>8, <1>9, <1>10, <1>11,
     <1>12, <1>13 DEF Next, ConnStep

LEMMA Invariance == Spec => []IInv
<1>1. Init => IInv
  BY InitIInv
<1>2. IInv /\ [Next]_vars => IInv'
  BY NextIInv
<1> QED BY <1>1, <1>2, PTL DEF Spec

(***************************************************************************)
(* The table, the switch, the connections and security.json stay in their  *)
(* types whatever the interleaving of handlers, requests and restarts      *)
(* (protection.go:23-45).                                                  *)
(***************************************************************************)
THEOREM TypeCorrect == Spec => []TypeOK
BY Invariance, PTL DEF IInv

(***************************************************************************)
(* An entry always outlives its ban, so age-based pruning is safe          *)
(* (protection.go:111-134).                                                *)
(***************************************************************************)
THEOREM EntriesOutliveBans == Spec => []BanWithinEntry
BY Invariance, PTL DEF IInv

(***************************************************************************)
(* With the switch off and no clearing pending there is no ban, whatever   *)
(* number of requests turn the switch at the same time                     *)
(* (protection.go:145-153).                                                *)
(***************************************************************************)
THEOREM OffIsEmpty == Spec => []OffMeansEmpty
BY Invariance, PTL DEF IInv

-----------------------------------------------------------------------------
\* A recorded failure, of whatever address, ends nobody's ban.
LEMMA FailReleasesNobody ==
  ASSUME TypeOK, BanWithinEntry, NEW ip \in IPs, NEW jp \in IPs,
         RecordFail(ip), now' = now, banEnabled' = banEnabled, Banned(jp)
  PROVE  Banned(jp)'
<1>0. Table(bans) /\ now \in 0 .. MaxTime /\ banEnabled /\ jp \in DOMAIN bans
      /\ now < bans[jp].bannedUntil /\ MaxTime \in Nat
      /\ bans[jp] \in Entry /\ BanDuration \in Nat
  BY BanAssumption DEF TypeOK, BanWithinEntry, Table, Banned
<1>1. bans' = Put(Pruned, ip, Struck(Pruned, ip))
  BY <1>0 DEF RecordFail
<1>2. Table(Pruned) /\ jp \in DOMAIN Pruned /\ Pruned[jp] = bans[jp]
  BY <1>0, PruneKeepsBans
<1>3. /\ Struck(Pruned, ip) \in Entry
      /\ Struck(Pruned, ip).lastFail <= now
      /\ Struck(Pruned, ip).bannedUntil <= Struck(Pruned, ip).lastFail + BanDuration
      /\ ip \in DOMAIN Pruned =>
           Struck(Pruned, ip).bannedUntil >= Pruned[ip].bannedUntil
  BY <1>0, <1>2, StruckEntry
<1> DEFINE t == Pruned
           e == Struck(Pruned, ip)
<1> HIDE DEF t, e
<1>4. /\ DOMAIN Put(t, ip, e) = DOMAIN t \cup {ip}
      /\ Put(t, ip, e)[ip] = e
      /\ \A i \in DOMAIN t \ {ip} : Put(t, ip, e)[i] = t[i]
  BY <1>2, <1>3, PutTable DEF t, e
<1>5. bans' = Put(t, ip, e)
  BY <1>1 DEF t, e
<1>6. jp \in DOMAIN bans'
  BY <1>2, <1>4, <1>5 DEF t
<1>7. now < bans'[jp].bannedUntil
  <2>1. CASE jp = ip
    <3>1. e \in Entry /\ e.bannedUntil >= bans[jp].bannedUntil
      BY <1>2, <1>3, <2>1 DEF e
    <3> QED BY <1>0, <1>4, <1>5, <2>1, <3>1 DEF Entry
  <2>2. CASE jp # ip
    BY <1>0, <1>2, <1>4, <1>5, <2>2 DEF t
  <2> QED BY <2>1, <2>2
<1> QED BY <1>0, <1>6, <1>7 DEF Banned

\* A recorded success ends at most the ban of its own address.
LEMMA OkReleasesItself ==
  ASSUME TypeOK, BanWithinEntry, NEW ip \in IPs, NEW jp \in IPs, jp # ip,
         RecordOK(ip), now' = now, banEnabled' = banEnabled, Banned(jp)
  PROVE  Banned(jp)'
<1>1. Table(bans) /\ bans' = Drop(bans, ip)
  BY DEF TypeOK, BanWithinEntry, Table, RecordOK
<1>2. jp \in DOMAIN bans \ {ip}
  BY DEF Banned
<1>3. jp \in DOMAIN bans' /\ bans'[jp] = bans[jp]
  BY <1>1, <1>2, DropTable
<1> QED BY <1>3 DEF Banned

LEMMA StepBanStands ==
  ASSUME IInv, [Next]_vars, NEW ip \in IPs, Banned(ip), ~ Banned(ip)'
  PROVE  Released(ip)
<1>0. TypeOK /\ BanWithinEntry /\ ConnType
  BY DEF IInv, TypeOK, ConnType
<1>1. CASE Restart
  BY <1>1 DEF Released
<1>2. CASE Tick
  <2>1. now' \in Int /\ now' >= bans[ip].bannedUntil
    <3>1. bans[ip] \in Entry /\ now \in Int /\ MaxTime \in Nat /\ BanDuration \in Nat
      BY <1>0, BanAssumption DEF TypeOK, Banned
    <3>2. now' = now + 1 /\ bans' = bans /\ banEnabled' = banEnabled
      BY <1>2 DEF Tick
    <3> QED BY <3>1, <3>2 DEF Banned, Entry
  <2> QED BY <2>1 DEF Released
<1>3. ASSUME NEW c \in Conns, ConnStep(c) PROVE Released(ip)
  <2>1. ASSUME NEW jp \in IPs, Accept(c, jp) PROVE Released(ip)
    BY <2>1 DEF Accept, Banned
  <2>2. CASE AuthFail(c)
    <3>1. conn[c].ip \in IPs /\ RecordFail(conn[c].ip)
          /\ now' = now /\ banEnabled' = banEnabled
      BY <1>0, <2>2 DEF AuthFail, ConnType
    <3> QED BY <1>0, <3>1, FailReleasesNobody
  <2>3. CASE AuthOK(c)
    <3>1. conn[c].ip \in IPs /\ RecordOK(conn[c].ip)
          /\ now' = now /\ banEnabled' = banEnabled
      BY <1>0, <2>3 DEF AuthOK, ConnType
    <3>2. conn[c].ip = ip
      BY <1>0, <3>1, OkReleasesItself
    <3> QED BY <2>3, <3>2 DEF Released
  <2>4. CASE HangUp(c)
    BY <2>4 DEF HangUp, Banned
  <2>5. ASSUME NEW v \in BOOLEAN, AskSwitch(c, v) PROVE Released(ip)
    <3>1. conn[c].ip \in IPs /\ RecordOK(conn[c].ip)
          /\ now' = now /\ banEnabled' = banEnabled
      BY <1>0, <2>5 DEF AskSwitch, ConnType
    <3>2. conn[c].ip = ip
      BY <1>0, <3>1, OkReleasesItself
    <3> QED BY <2>5, <3>2 DEF Released
  <2>6. CASE SetFlag(c) \/ ClearBans(c)
    BY <2>6 DEF Released
  <2>7. CASE TruncFile(c) \/ WriteFile(c) \/ WriteFails(c)
    BY <2>7 DEF TruncFile, WriteFile, WriteFails, Banned
  <2> QED BY <1>3, <2>1, <2>2, <2>3, <2>4, <2>5, <2>6, <2>7 DEF ConnStep
<1>4. CASE UNCHANGED vars
  BY <1>4 DEF vars, Banned
<1> QED BY <1>1, <1>2, <1>3, <1>4 DEF Next

(***************************************************************************)
(* A ban ends only when its time is up, by a success of the banned address *)
(* itself, by the switch or by a restart: never by another address, and    *)
(* never because the table was pruned (protection.go:94-141).              *)
(***************************************************************************)
THEOREM BansStand == Spec => BanStands
<1>1. IInv /\ [Next]_vars =>
        [\A ip \in IPs : Banned(ip) /\ ~ Banned(ip)' => Released(ip)]_vars
  BY StepBanStands
<1> QED BY <1>1, Invariance, PTL DEF Spec, BanStands

-----------------------------------------------------------------------------
(***************************************************************************)
(* The refinement.  The bounded, pruned table with absolute times          *)
(* implements BanPolicy for every value of the constants.  The step that   *)
(* needs an argument is a failure that prunes the table: every entry it    *)
(* drops is, by BanWithinEntry and BanWindow <= BanDuration, one whose     *)
(* abstract state is already "no strikes, forgotten, not banned".          *)
(***************************************************************************)

\* What every step of the table keeps of an address it does not touch.
Same(ip) ==
  /\ QuietOf(ip)' = QuietOf(ip)
  /\ StrikesOf(ip)' = StrikesOf(ip)
  /\ LeftOf(ip)' = LeftOf(ip)

\* An entry is seen alike in two tables that agree on it.
LEMMA SameEntry ==
  ASSUME NEW ip, now' = now, ip \in DOMAIN bans, ip \in DOMAIN bans',
         bans'[ip] = bans[ip]
  PROVE  Same(ip)
BY DEF Same, QuietOf, StrikesOf, LeftOf

\* An entry pruned for its age was already invisible.
LEMMA PrunedIsForgotten ==
  ASSUME TypeOK, BanWithinEntry, NEW ip \in DOMAIN bans \ DOMAIN Pruned
  PROVE  QuietOf(ip) = BanWindow + 1 /\ StrikesOf(ip) = 0 /\ LeftOf(ip) = 0
<1>1. /\ bans[ip] \in Entry /\ now \in Int /\ BanDuration \in Int /\ BanWindow \in Int
      /\ MaxTime \in Int /\ BanWindow <= BanDuration
  BY BanAssumption DEF TypeOK
<1>2. now - bans[ip].lastFail > BanDuration
  <2>1. Pruned = [i \in {k \in DOMAIN bans : now - bans[k].lastFail <= BanDuration}
                    |-> bans[i]]
    BY DEF Pruned, KeepRecent
  <2>2. ~ (now - bans[ip].lastFail <= BanDuration)
    BY <2>1
  <2> QED BY <1>1, <2>2 DEF Entry
<1>3. ~ (now - bans[ip].lastFail <= BanWindow)
  BY <1>1, <1>2 DEF Entry
<1>4. ~ (now < bans[ip].bannedUntil)
  BY <1>1, <1>2 DEF BanWithinEntry, Entry
<1>5. QuietOf(ip) = BanWindow + 1
  BY <1>3 DEF QuietOf
<1> QED BY <1>1, <1>4, <1>5 DEF StrikesOf, LeftOf

LEMMA AbsentIsForgotten ==
  ASSUME NEW ip, ip \notin DOMAIN bans, BanWindow \in Int
  PROVE  QuietOf(ip) = BanWindow + 1 /\ StrikesOf(ip) = 0 /\ LeftOf(ip) = 0
BY DEF QuietOf, StrikesOf, LeftOf

LEMMA AbsentNextIsForgotten ==
  ASSUME NEW ip, ip \notin DOMAIN bans', BanWindow \in Int
  PROVE  QuietOf(ip)' = BanWindow + 1 /\ StrikesOf(ip)' = 0 /\ LeftOf(ip)' = 0
BY DEF QuietOf, StrikesOf, LeftOf

(***************************************************************************)
(* A failure is seen by BanPolicy as one strike of its own address and     *)
(* nothing else, whether or not it pruned.                                 *)
(***************************************************************************)
LEMMA FailIsStrike ==
  ASSUME TypeOK, BanWithinEntry, NEW ip \in IPs, RecordFail(ip), banEnabled,
         now' = now
  PROVE  /\ \A jp \in IPs \ {ip} : Same(jp)
         /\ QuietOf(ip)' = 0
         /\ StrikesOf(ip)' = IF StrikesOf(ip) + 1 >= Threshold THEN 0
                             ELSE StrikesOf(ip) + 1
         /\ LeftOf(ip)' = IF StrikesOf(ip) + 1 >= Threshold THEN BanDuration
                          ELSE LeftOf(ip)
<1> DEFINE t == Pruned
           e == Struck(Pruned, ip)
<1>0. /\ now \in 0 .. MaxTime /\ MaxTime \in Nat /\ BanDuration \in Nat \ {0}
      /\ BanWindow \in Nat /\ Threshold \in Nat \ {0} /\ BanWindow <= BanDuration
  BY BanAssumption DEF TypeOK
<1>1. /\ Table(t) /\ DOMAIN t \subseteq DOMAIN bans
      /\ \A i \in DOMAIN t : t[i] = bans[i]
  BY PruneKeepsBans
<1>2. e \in Entry /\ e.lastFail = now /\ e.bannedUntil <= e.lastFail + BanDuration
  <2>1. e \in Entry /\ e.lastFail = now /\ e.bannedUntil <= now + BanDuration
    BY <1>0, <1>1, StruckEntry
  <2> QED BY <2>1
<1>3. /\ DOMAIN bans' = DOMAIN t \cup {ip}
      /\ bans'[ip] = e
      /\ \A i \in DOMAIN t \ {ip} : bans'[i] = t[i]
  <2>1. bans' = Put(t, ip, e)
    BY DEF RecordFail
  <2>2. e.lastFail <= now
    BY <1>0, <1>2
  <2> HIDE DEF t, e
  <2>3. /\ DOMAIN Put(t, ip, e) = DOMAIN t \cup {ip}
        /\ Put(t, ip, e)[ip] = e
        /\ \A i \in DOMAIN t \ {ip} : Put(t, ip, e)[i] = t[i]
    BY <1>1, <1>2, <2>2, PutTable
  <2> QED BY <2>1, <2>3
<1>4. \A jp \in IPs \ {ip} : Same(jp)
  <2> SUFFICES ASSUME NEW jp \in IPs \ {ip} PROVE Same(jp)
    OBVIOUS
  <2>1. CASE jp \in DOMAIN t
    BY <1>1, <1>3, <2>1, SameEntry
  <2>2. CASE jp \in DOMAIN bans \ DOMAIN t
    BY <1>0, <1>3, <2>2, PrunedIsForgotten, AbsentNextIsForgotten DEF Same
  <2>3. CASE jp \notin DOMAIN bans
    <3>1. jp \notin DOMAIN bans'
      BY <1>1, <1>3, <2>3
    <3>2. QuietOf(jp) = BanWindow + 1 /\ StrikesOf(jp) = 0 /\ LeftOf(jp) = 0
      BY <1>0, <2>3, AbsentIsForgotten
    <3>3. QuietOf(jp)' = BanWindow + 1 /\ StrikesOf(jp)' = 0 /\ LeftOf(jp)' = 0
      BY <1>0, <3>1, AbsentNextIsForgotten
    <3> QED BY <3>2, <3>3 DEF Same
  <2> QED BY <1>1, <2>1, <2>2, <2>3
<1>5. Fails(t, ip) = StrikesOf(ip) + 1
  <2>1. CASE ip \in DOMAIN t
    <3>1. bans[ip] \in Entry /\ t[ip] = bans[ip] /\ ip \in DOMAIN bans
      BY <1>1, <2>1 DEF Table
    <3>2. CASE now - bans[ip].lastFail <= BanWindow
      BY <1>0, <2>1, <3>1, <3>2 DEF Fails, StrikesOf, QuietOf, Entry
    <3>3. CASE ~ (now - bans[ip].lastFail <= BanWindow)
      BY <1>0, <2>1, <3>1, <3>3 DEF Fails, StrikesOf, QuietOf, Entry
    <3> QED BY <3>2, <3>3
  <2>2. CASE ip \in DOMAIN bans \ DOMAIN t
    <3>1. StrikesOf(ip) = 0
      BY <2>2, PrunedIsForgotten
    <3> QED BY <2>2, <3>1 DEF Fails
  <2>3. CASE ip \notin DOMAIN bans
    <3>1. StrikesOf(ip) = 0 /\ ip \notin DOMAIN t
      BY <1>0, <1>1, <2>3, AbsentIsForgotten
    <3> QED BY <3>1 DEF Fails
  <2> QED BY <2>1, <2>2, <2>3
<1>6. QuietOf(ip)' = 0
  <2>1. ip \in DOMAIN bans' /\ bans'[ip].lastFail = now
    BY <1>2, <1>3
  <2> QED BY <1>0, <2>1 DEF QuietOf
<1>7. StrikesOf(ip)' = IF StrikesOf(ip) + 1 >= Threshold THEN 0 ELSE StrikesOf(ip) + 1
  <2>1. StrikesOf(ip)' = e.fails
    BY <1>0, <1>3, <1>6 DEF StrikesOf
  <2>2. e.fails = IF Fails(t, ip) >= Threshold THEN 0 ELSE Fails(t, ip)
    BY DEF Struck
  <2> QED BY <1>5, <2>1, <2>2
<1>8. LeftOf(ip)' = IF StrikesOf(ip) + 1 >= Threshold THEN BanDuration ELSE LeftOf(ip)
  <2>1. e.bannedUntil = IF Fails(t, ip) >= Threshold THEN now + BanDuration
                        ELSE IF ip \in DOMAIN t THEN t[ip].bannedUntil ELSE 0
    BY DEF Struck
  <2>2. LeftOf(ip)' = IF now < e.bannedUntil THEN e.bannedUntil - now ELSE 0
    BY <1>3 DEF LeftOf
  <2>3. CASE Fails(t, ip) >= Threshold
    <3>1. e.bannedUntil = now + BanDuration
      BY <2>1, <2>3
    <3> HIDE DEF e
    <3>2. LeftOf(ip)' = BanDuration
      BY <1>0, <2>2, <3>1
    <3> QED BY <1>5, <2>3, <3>2
  <2>4. CASE ~ (Fails(t, ip) >= Threshold)
    <3>1. CASE ip \in DOMAIN t
      BY <1>1, <1>5, <2>1, <2>2, <2>4, <3>1 DEF LeftOf
    <3>2. CASE ip \in DOMAIN bans \ DOMAIN t
      <4>1. LeftOf(ip) = 0 /\ LeftOf(ip)' = 0
        <5>1. e.bannedUntil = 0
          BY <2>1, <2>4, <3>2
        <5> HIDE DEF e
        <5>2. LeftOf(ip)' = 0
          BY <1>0, <2>2, <5>1
        <5> QED BY <3>2, <5>2, PrunedIsForgotten
      <4> QED BY <1>5, <2>4, <4>1
    <3>3. CASE ip \notin DOMAIN bans
      <4>1. LeftOf(ip) = 0 /\ LeftOf(ip)' = 0
        <5>1. e.bannedUntil = 0
          BY <1>1, <2>1, <2>4, <3>3
        <5> HIDE DEF e
        <5>2. LeftOf(ip)' = 0
          BY <1>0, <2>2, <5>1
        <5> QED BY <1>0, <3>3, <5>2, AbsentIsForgotten
      <4> QED BY <1>5, <2>4, <4>1
    <3> QED BY <3>1, <3>2, <3>3
  <2> QED BY <2>3, <2>4
<1> HIDE DEF t, e
<1> QED BY <1>4, <1>6, <1>7, <1>8

-----------------------------------------------------------------------------
\* The abstract variables, as the refinement mapping computes them.
AbsStrikes == [ip \in IPs |-> StrikesOf(ip)]
AbsQuiet == [ip \in IPs |-> QuietOf(ip)]
AbsLeft == [ip \in IPs |-> LeftOf(ip)]
AbsClient == [c \in Conns |-> IF conn[c].pc = "auth" THEN conn[c].ip ELSE NoIP]
AbsTable == <<AbsStrikes, AbsQuiet, AbsLeft>>

\* Steps that leave clock and table alone leave the abstract table alone.
LEMMA UntouchedTable ==
  ASSUME now' = now, bans' = bans
  PROVE  AbsTable' = AbsTable
<1>1. \A ip \in IPs : Same(ip)
  BY DEF Same, QuietOf, StrikesOf, LeftOf
<1> QED BY <1>1 DEF AbsTable, AbsStrikes, AbsQuiet, AbsLeft, Same

\* An empty table is a blank one.
LEMMA EmptyIsBlank ==
  ASSUME bans' = EmptyTable
  PROVE  /\ AbsStrikes' = [ip \in IPs |-> 0]
         /\ AbsQuiet' = [ip \in IPs |-> BanWindow + 1]
         /\ AbsLeft' = [ip \in IPs |-> 0]
<1>1. DOMAIN bans' = {} /\ BanWindow \in Int
  BY BanAssumption DEF EmptyTable
<1>2. \A ip \in IPs : QuietOf(ip)' = BanWindow + 1 /\ StrikesOf(ip)' = 0 /\ LeftOf(ip)' = 0
  BY <1>1, AbsentNextIsForgotten
<1> QED BY <1>2 DEF AbsStrikes, AbsQuiet, AbsLeft

\* A success is seen by BanPolicy as forgetting its own address.
LEMMA OkForgets ==
  ASSUME TypeOK, NEW ip \in IPs, RecordOK(ip), now' = now
  PROVE  /\ AbsStrikes' = [AbsStrikes EXCEPT ![ip] = 0]
         /\ AbsQuiet' = [AbsQuiet EXCEPT ![ip] = BanWindow + 1]
         /\ AbsLeft' = [AbsLeft EXCEPT ![ip] = 0]
<1>1. /\ DOMAIN bans' = DOMAIN bans \ {ip}
      /\ \A i \in DOMAIN bans \ {ip} : bans'[i] = bans[i]
      /\ BanWindow \in Int
  BY BanAssumption DEF RecordOK, Drop
<1>2. QuietOf(ip)' = BanWindow + 1 /\ StrikesOf(ip)' = 0 /\ LeftOf(ip)' = 0
  BY <1>1, AbsentNextIsForgotten
<1>3. \A jp \in IPs \ {ip} : Same(jp)
  <2> SUFFICES ASSUME NEW jp \in IPs \ {ip} PROVE Same(jp)
    OBVIOUS
  <2>1. CASE jp \in DOMAIN bans
    BY <1>1, <2>1, SameEntry
  <2>2. CASE jp \notin DOMAIN bans
    BY <1>1, <2>2, AbsentIsForgotten, AbsentNextIsForgotten DEF Same
  <2> QED BY <2>1, <2>2
<1> QED BY <1>2, <1>3 DEF AbsStrikes, AbsQuiet, AbsLeft, Same

LEMMA FailStrikes ==
  ASSUME TypeOK, BanWithinEntry, NEW ip \in IPs, RecordFail(ip), now' = now,
         banEnabled
  PROVE  LET s == AbsStrikes[ip] + 1
         IN  /\ AbsStrikes' = [AbsStrikes EXCEPT ![ip] = IF s >= Threshold THEN 0 ELSE s]
             /\ AbsQuiet' = [AbsQuiet EXCEPT ![ip] = 0]
             /\ AbsLeft' = [AbsLeft EXCEPT ![ip] = IF s >= Threshold THEN BanDuration ELSE @]
<1>1. /\ \A jp \in IPs \ {ip} : Same(jp)
      /\ QuietOf(ip)' = 0
      /\ StrikesOf(ip)' = IF StrikesOf(ip) + 1 >= Threshold THEN 0
                          ELSE StrikesOf(ip) + 1
      /\ LeftOf(ip)' = IF StrikesOf(ip) + 1 >= Threshold THEN BanDuration
                       ELSE LeftOf(ip)
  BY FailIsStrike
<1> QED BY <1>1 DEF AbsStrikes, AbsQuiet, AbsLeft, Same

LEMMA TickAges ==
  ASSUME TypeOK, BanWithinEntry, Tick
  PROVE  /\ AbsQuiet' = [i \in IPs |-> IF AbsQuiet[i] < BanWindow + 1
                                       THEN AbsQuiet[i] + 1 ELSE BanWindow + 1]
         /\ AbsStrikes' = [i \in IPs |-> IF AbsQuiet[i] + 1 > BanWindow THEN 0
                                         ELSE AbsStrikes[i]]
         /\ AbsLeft' = [i \in IPs |-> IF AbsLeft[i] > 0 THEN AbsLeft[i] - 1 ELSE 0]
<1>1. ASSUME NEW i \in IPs
      PROVE  /\ QuietOf(i)' = IF QuietOf(i) < BanWindow + 1 THEN QuietOf(i) + 1
                              ELSE BanWindow + 1
             /\ StrikesOf(i)' = IF QuietOf(i) + 1 > BanWindow THEN 0 ELSE StrikesOf(i)
             /\ LeftOf(i)' = IF LeftOf(i) > 0 THEN LeftOf(i) - 1 ELSE 0
  <2>1. now' = now + 1 /\ bans' = bans /\ now \in Int /\ BanWindow \in Nat
    BY BanAssumption DEF Tick, TypeOK
  <2>2. CASE i \in DOMAIN bans
    <3>1. bans[i].lastFail \in Int /\ bans[i].bannedUntil \in Int
          /\ bans[i].lastFail <= now
      BY <2>2, BanAssumption DEF TypeOK, BanWithinEntry, Entry
    <3>2. QuietOf(i) = IF now - bans[i].lastFail <= BanWindow
                       THEN now - bans[i].lastFail ELSE BanWindow + 1
      BY <2>2 DEF QuietOf
    <3>3. QuietOf(i)' = IF now + 1 - bans[i].lastFail <= BanWindow
                        THEN now + 1 - bans[i].lastFail ELSE BanWindow + 1
      <4>1. QuietOf(i)' = IF now' - bans[i].lastFail <= BanWindow
                          THEN now' - bans[i].lastFail ELSE BanWindow + 1
        <5>1. i \in DOMAIN bans' /\ bans'[i] = bans[i] /\ now' \in Int
          BY <2>1, <2>2
        <5> QED BY <2>1, <3>1, <5>1 DEF QuietOf
      <4> QED BY <2>1, <3>1, <4>1
    <3>4. QuietOf(i)' = IF QuietOf(i) < BanWindow + 1 THEN QuietOf(i) + 1
                        ELSE BanWindow + 1
      BY <2>1, <3>1, <3>2, <3>3
    <3>5. StrikesOf(i)' = IF QuietOf(i) + 1 > BanWindow THEN 0 ELSE StrikesOf(i)
      <4>1. StrikesOf(i) = IF QuietOf(i) <= BanWindow THEN bans[i].fails ELSE 0
        BY DEF StrikesOf
      <4>2. StrikesOf(i)' = IF QuietOf(i)' <= BanWindow THEN bans[i].fails ELSE 0
        BY <2>1 DEF StrikesOf
      <4> QED BY <2>1, <3>1, <3>2, <3>3, <4>1, <4>2
    <3>6. LeftOf(i)' = IF LeftOf(i) > 0 THEN LeftOf(i) - 1 ELSE 0
      BY <2>1, <2>2, <3>1 DEF LeftOf
    <3> QED BY <3>4, <3>5, <3>6
  <2>3. CASE i \notin DOMAIN bans
    <3>1. QuietOf(i) = BanWindow + 1 /\ StrikesOf(i) = 0 /\ LeftOf(i) = 0
      BY <2>1, <2>3, AbsentIsForgotten
    <3>2. QuietOf(i)' = BanWindow + 1 /\ StrikesOf(i)' = 0 /\ LeftOf(i)' = 0
      BY <2>1, <2>3, AbsentNextIsForgotten
    <3> QED BY <2>1, <3>1, <3>2
  <2> QED BY <2>2, <2>3
<1> QED BY <1>1 DEF AbsStrikes, AbsQuiet, AbsLeft

-----------------------------------------------------------------------------
LEMMA InitPolicy == Init => Policy!Init
<1> SUFFICES ASSUME Init PROVE Policy!Init
  OBVIOUS
<1>1. bans = EmptyTable /\ DOMAIN bans = {} /\ BanWindow \in Int
  BY BanAssumption DEF Init, EmptyTable
<1>2. \A ip \in IPs : QuietOf(ip) = BanWindow + 1 /\ StrikesOf(ip) = 0 /\ LeftOf(ip) = 0
  BY <1>1, AbsentIsForgotten
<1>3. \A c \in Conns : conn[c].pc # "auth"
  BY DEF Init, Idle
<1> QED
  BY <1>2, <1>3 DEF Init, Policy!Init, Policy!Forgotten, Policy!NoIP, NoIP

\* How the abstract client of each connection moves.
LEMMA ClientMoves ==
  ASSUME ConnType, NEW c \in Conns
  PROVE  /\ conn' = [conn EXCEPT ![c] = Idle] => AbsClient' = [AbsClient EXCEPT ![c] = NoIP]
         /\ \A p, v : p # "auth" /\ conn' = [conn EXCEPT ![c].pc = p, ![c].on = v]
                => AbsClient' = [AbsClient EXCEPT ![c] = NoIP]
         /\ \A p : p # "auth" /\ conn' = [conn EXCEPT ![c].pc = p]
                => AbsClient' = [AbsClient EXCEPT ![c] = NoIP]
         /\ conn[c].pc # "auth" => AbsClient = [AbsClient EXCEPT ![c] = NoIP]
         /\ conn[c].pc = "auth" => AbsClient[c] = conn[c].ip /\ AbsClient[c] # NoIP
         /\ conn[c].pc = "idle" => AbsClient[c] = NoIP
BY BanAssumption DEF ConnType, AbsClient, Idle

LEMMA StepPolicy ==
  ASSUME IInv, [Next]_vars
  PROVE  [Policy!Next]_(Policy!vars)
<1> USE DEF Policy!Next
<1>0. TypeOK /\ BanWithinEntry /\ ConnType
  BY DEF IInv, TypeOK, ConnType
<1>s. ASSUME banEnabled' = banEnabled, AbsTable' = AbsTable, AbsClient' = AbsClient
      PROVE  [Policy!Next]_(Policy!vars)
  BY <1>s DEF Policy!vars, AbsTable, AbsStrikes, AbsQuiet, AbsLeft, AbsClient
<1>1. CASE Restart
  <2>1. AbsClient' = [c \in Conns |-> NoIP]
    BY <1>1 DEF Restart, AbsClient, Idle
  <2>2. /\ AbsStrikes' = [ip \in IPs |-> 0]
        /\ AbsQuiet' = [ip \in IPs |-> BanWindow + 1]
        /\ AbsLeft' = [ip \in IPs |-> 0]
    BY <1>1, EmptyIsBlank DEF Restart
  <2>3. Policy!Restart
    BY <1>1, <2>1, <2>2 DEF Restart, Loaded, Policy!Restart, Policy!Forget,
       Policy!Forgotten, Policy!NoIP, NoIP, AbsStrikes, AbsQuiet, AbsLeft, AbsClient
  <2> QED BY <2>3
<1>2. CASE Tick
  <2>1. /\ AbsQuiet' = [i \in IPs |-> IF AbsQuiet[i] < BanWindow + 1
                                       THEN AbsQuiet[i] + 1 ELSE BanWindow + 1]
        /\ AbsStrikes' = [i \in IPs |-> IF AbsQuiet[i] + 1 > BanWindow THEN 0
                                         ELSE AbsStrikes[i]]
        /\ AbsLeft' = [i \in IPs |-> IF AbsLeft[i] > 0 THEN AbsLeft[i] - 1 ELSE 0]
    BY <1>0, <1>2, TickAges
  <2>2. AbsClient' = AbsClient /\ banEnabled' = banEnabled
    BY <1>2 DEF Tick, AbsClient
  <2>3. Policy!Tick
    BY <2>1, <2>2 DEF Policy!Tick, Policy!Forgotten, AbsStrikes, AbsQuiet, AbsLeft, AbsClient
  <2> QED BY <2>3
<1>3. ASSUME NEW c \in Conns, ConnStep(c) PROVE [Policy!Next]_(Policy!vars)
  <2>1. ASSUME NEW ip \in IPs, Accept(c, ip) PROVE [Policy!Next]_(Policy!vars)
    <3>1. AbsTable' = AbsTable /\ banEnabled' = banEnabled
      BY <2>1, UntouchedTable DEF Accept
    <3>2. AbsClient[c] = NoIP /\ AbsClient' = [AbsClient EXCEPT ![c] = ip]
      BY <1>0, <2>1 DEF Accept, AbsClient, ConnType
    <3>3. ~ (banEnabled /\ AbsLeft[ip] > 0)
      BY <1>0, <2>1, BanAssumption DEF Accept, Banned, AbsLeft, LeftOf, TypeOK
    <3>4. Policy!Admit(c, ip)
      BY <3>1, <3>2, <3>3 DEF Policy!Admit, Policy!Shunned, Policy!NoIP, NoIP,
         AbsTable, AbsStrikes, AbsQuiet, AbsLeft, AbsClient
    <3> QED BY <3>4
  <2>2. CASE AuthFail(c)
    <3>1. /\ conn[c].ip \in IPs /\ conn[c].pc = "auth" /\ RecordFail(conn[c].ip)
          /\ now' = now /\ banEnabled' = banEnabled
          /\ conn' = [conn EXCEPT ![c] = Idle]
      BY <1>0, <2>2 DEF AuthFail, ConnType
    <3>2. /\ AbsClient[c] = conn[c].ip /\ AbsClient[c] # NoIP
          /\ AbsClient' = [AbsClient EXCEPT ![c] = NoIP]
      BY <1>0, <3>1, ClientMoves
    <3>3. CASE banEnabled
      <4>1. LET s == AbsStrikes[AbsClient[c]] + 1
            IN  /\ AbsStrikes' = [AbsStrikes EXCEPT ![AbsClient[c]] =
                                     IF s >= Threshold THEN 0 ELSE s]
                /\ AbsQuiet' = [AbsQuiet EXCEPT ![AbsClient[c]] = 0]
                /\ AbsLeft' = [AbsLeft EXCEPT ![AbsClient[c]] =
                                  IF s >= Threshold THEN BanDuration ELSE @]
        BY <1>0, <3>1, <3>2, <3>3, FailStrikes
      <4>2. Policy!Fail(c)
        BY <3>1, <3>2, <3>3, <4>1 DEF Policy!Fail, Policy!Strike, Policy!NoIP, NoIP,
           AbsStrikes, AbsQuiet, AbsLeft, AbsClient
      <4> QED BY <4>2
    <3>4. CASE ~ banEnabled
      <4>1. AbsTable' = AbsTable
        BY <3>1, <3>4, UntouchedTable DEF RecordFail
      <4>2. Policy!Fail(c)
        BY <3>1, <3>2, <3>4, <4>1 DEF Policy!Fail, Policy!NoIP, NoIP,
           AbsTable, AbsStrikes, AbsQuiet, AbsLeft, AbsClient
      <4> QED BY <4>2
    <3> QED BY <3>3, <3>4
  <2>3. ASSUME conn[c].pc = "auth", conn[c].ip \in IPs, RecordOK(conn[c].ip),
               now' = now, banEnabled' = banEnabled,
               AbsClient' = [AbsClient EXCEPT ![c] = NoIP]
        PROVE  [Policy!Next]_(Policy!vars)
    <3>1. AbsClient[c] = conn[c].ip /\ AbsClient[c] # NoIP
      BY <1>0, <2>3, ClientMoves
    <3>2. /\ AbsStrikes' = [AbsStrikes EXCEPT ![AbsClient[c]] = 0]
          /\ AbsQuiet' = [AbsQuiet EXCEPT ![AbsClient[c]] = BanWindow + 1]
          /\ AbsLeft' = [AbsLeft EXCEPT ![AbsClient[c]] = 0]
      BY <1>0, <2>3, <3>1, OkForgets
    <3>3. Policy!Succeed(c)
      BY <2>3, <3>1, <3>2 DEF Policy!Succeed, Policy!Forgotten, Policy!NoIP, NoIP,
         AbsStrikes, AbsQuiet, AbsLeft, AbsClient
    <3> QED BY <3>3
  <2>4. CASE AuthOK(c)
    BY <1>0, <2>3, <2>4, ClientMoves DEF AuthOK, ConnType
  <2>5. ASSUME NEW v \in BOOLEAN, AskSwitch(c, v) PROVE [Policy!Next]_(Policy!vars)
    <3>1. AbsClient' = [AbsClient EXCEPT ![c] = NoIP]
      BY <1>0, <2>5, ClientMoves DEF AskSwitch
    <3> QED BY <1>0, <2>3, <2>5, <3>1 DEF AskSwitch, ConnType
  <2>6. CASE HangUp(c)
    <3>1. AbsTable' = AbsTable /\ banEnabled' = banEnabled /\ conn[c].pc = "auth"
      BY <2>6, UntouchedTable DEF HangUp
    <3>2. AbsClient[c] # NoIP /\ AbsClient' = [AbsClient EXCEPT ![c] = NoIP]
      BY <1>0, <2>6, <3>1, ClientMoves DEF HangUp
    <3>3. Policy!Leave(c)
      BY <3>1, <3>2 DEF Policy!Leave, Policy!NoIP, NoIP,
         AbsTable, AbsStrikes, AbsQuiet, AbsLeft, AbsClient
    <3> QED BY <3>3
  <2>7. CASE SetFlag(c)
    <3>1. AbsTable' = AbsTable /\ banEnabled' \in BOOLEAN
      BY <1>0, <2>7, UntouchedTable DEF SetFlag, ConnType
    <3>2. AbsClient' = AbsClient
      <4>1. PICK p : p # "auth" /\ conn' = [conn EXCEPT ![c].pc = p]
        <5>1. CASE conn[c].on
          BY <2>7, <5>1 DEF SetFlag
        <5>2. CASE ~ conn[c].on
          BY <2>7, <5>2 DEF SetFlag
        <5> QED BY <5>1, <5>2
      <4>2. AbsClient' = [AbsClient EXCEPT ![c] = NoIP]
        BY <1>0, <4>1, ClientMoves
      <4>3. AbsClient = [AbsClient EXCEPT ![c] = NoIP]
        BY <1>0, <2>7, ClientMoves DEF SetFlag
      <4> QED BY <4>2, <4>3
    <3>3. Policy!Flip
      BY <3>1, <3>2 DEF Policy!Flip, AbsTable, AbsStrikes, AbsQuiet, AbsLeft, AbsClient
    <3> QED BY <3>3
  <2>8. CASE ClearBans(c)
    <3>1. AbsClient' = AbsClient /\ banEnabled' = banEnabled
      <4>1. AbsClient = [AbsClient EXCEPT ![c] = NoIP]
        BY <1>0, <2>8, ClientMoves DEF ClearBans
      <4>2. AbsClient' = [AbsClient EXCEPT ![c] = NoIP]
        BY <1>0, <2>8, ClientMoves DEF ClearBans
      <4> QED BY <2>8, <4>1, <4>2 DEF ClearBans
    <3>2. /\ AbsStrikes' = [ip \in IPs |-> 0]
          /\ AbsQuiet' = [ip \in IPs |-> BanWindow + 1]
          /\ AbsLeft' = [ip \in IPs |-> 0]
      BY <2>8, EmptyIsBlank DEF ClearBans
    <3>3. Policy!Wipe
      BY <3>1, <3>2 DEF Policy!Wipe, Policy!Forget, Policy!Forgotten,
         AbsStrikes, AbsQuiet, AbsLeft, AbsClient
    <3> QED BY <3>3
  <2>9. CASE TruncFile(c) \/ WriteFile(c) \/ WriteFails(c)
    <3>1. AbsTable' = AbsTable /\ banEnabled' = banEnabled
      BY <2>9, UntouchedTable DEF TruncFile, WriteFile, WriteFails
    <3>2. AbsClient' = AbsClient
      <4>1. AbsClient = [AbsClient EXCEPT ![c] = NoIP]
        BY <1>0, <2>9, ClientMoves DEF TruncFile, WriteFile, WriteFails
      <4>2. CASE TruncFile(c)
        BY <1>0, <4>1, <4>2, ClientMoves DEF TruncFile
      <4>3. CASE WriteFile(c) \/ WriteFails(c)
        BY <1>0, <4>1, <4>3, ClientMoves DEF WriteFile, WriteFails
      <4> QED BY <2>9, <4>2, <4>3
    <3> QED BY <1>s, <3>1, <3>2
  <2> QED BY <1>3, <2>1, <2>2, <2>4, <2>5, <2>6, <2>7, <2>8, <2>9 DEF ConnStep
<1>4. CASE UNCHANGED vars
  <2>1. AbsTable' = AbsTable /\ AbsClient' = AbsClient /\ banEnabled' = banEnabled
    BY <1>4, UntouchedTable DEF vars, AbsClient
  <2> QED BY <1>s, <2>1
<1> QED BY <1>1, <1>2, <1>3, <1>4 DEF Next

(***************************************************************************)
(* The ban table implements the ban policy: initial states map to initial  *)
(* states and every step to a step or a stutter, for every table size at   *)
(* which pruning starts (protection.go:94-156).                            *)
(***************************************************************************)
THEOREM Refinement == Spec => ImplementsPolicy
<1>1. Init => Policy!Init
  BY InitPolicy
<1>2. IInv /\ [Next]_vars => [Policy!Next]_(Policy!vars)
  BY StepPolicy
<1> QED BY <1>1, <1>2, Invariance, PTL DEF Spec, ImplementsPolicy, Policy!Spec
-----------------------------------------------------------------------------
(***************************************************************************)
(* The switch.  While requests work on it nothing is acknowledged; what    *)
(* was acknowledged is in force and on disk; and a request that works      *)
(* alone finds the flag as it set it and the file as it truncated it.      *)
(***************************************************************************)
Setters == {c \in Conns : conn[c].pc \in Setting}

OwnFlag ==
  \A c \in Conns :
    /\ conn[c].pc \in {"clear", "trunc", "write"} => banEnabled = conn[c].on
    /\ conn[c].pc = "write" => file = "empty"

SwitchInv ==
  /\ Setters # {} => acked = {}
  /\ \A v \in acked : banEnabled = v /\ Loaded(file) = v
  /\ alone => (\A c, d \in Setters : c = d) /\ OwnFlag

LEMMA InitSwitch == Init => SwitchInv
<1> SUFFICES ASSUME Init PROVE SwitchInv
  OBVIOUS
<1>1. \A c \in Conns : conn[c].pc = "idle"
  BY DEF Init, Idle
<1>2. Setters = {} /\ OwnFlag
  BY <1>1 DEF Setters, OwnFlag, Setting
<1> QED BY <1>2 DEF Init, SwitchInv

\* Steps of connections that do not work on the switch.
LEMMA BesideSwitch ==
  ASSUME SwitchInv, acked' = acked, alone' = alone, file' = file,
         banEnabled' = banEnabled,
         \A c \in Conns : conn'[c] = conn[c] \/ conn'[c].pc \in {"idle", "auth"}
  PROVE  SwitchInv'
<1>1. \A c \in Setters' : c \in Setters /\ conn'[c] = conn[c]
  BY DEF Setters, Setting
<1>2. Setters' # {} => Setters # {}
  BY <1>1
<1>3. OwnFlag => OwnFlag'
  BY DEF OwnFlag
<1> QED BY <1>1, <1>2, <1>3 DEF SwitchInv

LEMMA StepSwitch ==
  ASSUME TypeOK, SwitchInv, [Next]_vars
  PROVE  SwitchInv'
<1>0. ConnType /\ banEnabled \in BOOLEAN /\ alone \in BOOLEAN
  BY DEF TypeOK, ConnType
<1>1. CASE Restart
  <2>1. Setters' = {} /\ OwnFlag'
    BY <1>1 DEF Restart, Setters, OwnFlag, Setting, Idle
  <2> QED BY <1>1, <2>1 DEF Restart, SwitchInv
<1>2. CASE Tick
  BY <1>2, BesideSwitch DEF Tick
<1>3. ASSUME NEW c \in Conns, ConnStep(c) PROVE SwitchInv'
  <2>0. c \in DOMAIN conn /\ conn[c].on \in BOOLEAN
    BY <1>0 DEF ConnType
  <2>1. ASSUME NEW ip \in IPs, Accept(c, ip) PROVE SwitchInv'
    <3>1. \A d \in Conns : conn'[d] = conn[d] \/ conn'[d].pc \in {"idle", "auth"}
      BY <1>0, <2>1 DEF Accept, ConnType
    <3> QED BY <2>1, <3>1, BesideSwitch DEF Accept
  <2>2. CASE AuthFail(c) \/ AuthOK(c) \/ HangUp(c)
    <3>1. \A d \in Conns : conn'[d] = conn[d] \/ conn'[d].pc \in {"idle", "auth"}
      BY <1>0, <2>2 DEF AuthFail, AuthOK, HangUp, ConnType, Idle
    <3> QED BY <2>2, <3>1, BesideSwitch DEF AuthFail, AuthOK, HangUp
  <2>3. ASSUME NEW v \in BOOLEAN, AskSwitch(c, v) PROVE SwitchInv'
    <3>1. /\ acked' = {} /\ alone' = ~ Switching /\ conn[c].pc = "auth"
          /\ conn'[c].pc = "flag"
          /\ \A d \in Conns \ {c} : conn'[d] = conn[d]
      BY <1>0, <2>0, <2>3 DEF AskSwitch, ConnType
    <3>2. alone' => \A d \in Conns \ {c} : conn'[d].pc \notin Setting
      BY <3>1 DEF Switching
    <3>3. alone' => (\A d, e \in Setters' : d = e) /\ OwnFlag'
      BY <3>1, <3>2 DEF Setters, OwnFlag, Setting
    <3> QED BY <3>1, <3>3 DEF SwitchInv
  <2>4. ASSUME conn[c].pc \in Setting, conn'[c].pc \in Setting, acked' = acked,
               alone' = alone, \A d \in Conns \ {c} : conn'[d] = conn[d],
               alone => OwnFlag'
        PROVE  SwitchInv'
    <3>1. Setters' = Setters /\ acked' = {}
      BY <2>4 DEF Setters, SwitchInv
    <3> QED BY <2>4, <3>1 DEF SwitchInv
  <2>5. conn[c].pc \in Setting /\ alone =>
          \A d \in Conns \ {c} : conn[d].pc \notin Setting
    BY DEF SwitchInv, Setters
  <2>6. CASE SetFlag(c)
    <3>1. /\ conn[c].pc = "flag" /\ conn'[c].pc \in {"clear", "trunc"}
          /\ conn'[c].on = conn[c].on /\ banEnabled' = conn[c].on
          /\ acked' = acked /\ alone' = alone
          /\ \A d \in Conns \ {c} : conn'[d] = conn[d]
      BY <1>0, <2>0, <2>6 DEF SetFlag, ConnType
    <3>2. alone => OwnFlag'
      BY <2>5, <3>1 DEF OwnFlag, Setting
    <3> QED BY <2>4, <3>1, <3>2 DEF Setting
  <2>7. CASE ClearBans(c)
    <3>1. /\ conn[c].pc = "clear" /\ conn'[c].pc = "trunc"
          /\ conn'[c].on = conn[c].on /\ banEnabled' = banEnabled
          /\ acked' = acked /\ alone' = alone
          /\ \A d \in Conns \ {c} : conn'[d] = conn[d]
      BY <1>0, <2>0, <2>7 DEF ClearBans, ConnType
    <3>2. alone => OwnFlag'
      BY <2>5, <3>1 DEF OwnFlag, Setting, SwitchInv
    <3> QED BY <2>4, <3>1, <3>2 DEF Setting
  <2>8. CASE TruncFile(c)
    <3>1. /\ conn[c].pc = "trunc" /\ conn'[c].pc = "write"
          /\ conn'[c].on = conn[c].on /\ banEnabled' = banEnabled
          /\ acked' = acked /\ alone' = alone /\ file' = "empty"
          /\ \A d \in Conns \ {c} : conn'[d] = conn[d]
      BY <1>0, <2>0, <2>8 DEF TruncFile, ConnType
    <3>2. alone => OwnFlag'
      BY <2>5, <3>1 DEF OwnFlag, Setting, SwitchInv
    <3> QED BY <2>4, <3>1, <3>2 DEF Setting
  <2>9. CASE WriteFile(c)
    <3>1. /\ conn[c].pc = "write" /\ conn'[c].pc = "idle" /\ alone' = alone
          /\ banEnabled' = banEnabled /\ file' = Written(conn[c].on)
          /\ acked' = IF alone THEN {conn[c].on} ELSE {}
          /\ \A d \in Conns \ {c} : conn'[d] = conn[d]
      BY <1>0, <2>0, <2>9 DEF WriteFile, ConnType, Idle
    <3>2. CASE alone
      <4>1. banEnabled = conn[c].on /\ file = "empty"
        BY <3>1, <3>2 DEF SwitchInv, OwnFlag
      <4>2. Loaded(Written(conn[c].on)) = conn[c].on
        <5>1. CASE conn[c].on
          BY <4>1, <5>1 DEF Loaded, Written
        <5>2. CASE ~ conn[c].on
          BY <5>2, <2>0 DEF Loaded, Written
        <5> QED BY <5>1, <5>2
      <4>3. Setters' = {} /\ OwnFlag'
        BY <2>5, <3>1, <3>2 DEF Setters, OwnFlag, Setting
      <4>4. \A v \in acked' : banEnabled' = v /\ Loaded(file') = v
        BY <3>1, <3>2, <4>1, <4>2, Zenon
      <4> QED BY <4>3, <4>4 DEF SwitchInv, Loaded
    <3>3. CASE ~ alone
      BY <3>1, <3>3 DEF SwitchInv
    <3> QED BY <3>2, <3>3
  <2>10. CASE WriteFails(c)
    <3>1. \A d \in Conns : conn'[d] = conn[d] \/ conn'[d].pc \in {"idle", "auth"}
      BY <1>0, <2>10 DEF WriteFails, ConnType, Idle
    <3> QED BY <2>10, <3>1, BesideSwitch DEF WriteFails
  <2> QED BY <1>3, <2>1, <2>2, <2>3, <2>6, <2>7, <2>8, <2>9, <2>10 DEF ConnStep
<1>4. CASE UNCHANGED vars
  <2>1. \A c \in Conns : conn'[c] = conn[c]
    BY <1>4 DEF vars
  <2> QED BY <1>4, <2>1, BesideSwitch DEF vars
<1> QED BY <1>1, <1>2, <1>3, <1>4 DEF Next

(***************************************************************************)
(* A switch that was acknowledged is in force and on disk, for any number  *)
(* of admin requests, write errors and restarts: setBanEnabled answers nil *)
(* only after the write, so a request that nobody overlapped leaves flag   *)
(* and security.json agreeing (protection.go:143-156).                     *)
(***************************************************************************)
THEOREM AcknowledgedPersists == Spec => []SwitchPersists
<1>1. Init => SwitchInv
  BY InitSwitch
<1>2. TypeOK /\ SwitchInv /\ [Next]_vars => SwitchInv'
  BY StepSwitch
<1>3. SwitchInv => SwitchPersists
  BY DEF SwitchInv, SwitchPersists
<1> QED BY <1>1, <1>2, <1>3, TypeCorrect, PTL DEF Spec
-----------------------------------------------------------------------------
(***************************************************************************)
(* Bans are earned.  The count of an entry is explained by the history of  *)
(* its address: that many last failures, no gap above BanWindow, the last  *)
(* one when the entry says.                                                *)
(***************************************************************************)
Streak(s, f, last) ==
  /\ f <= Len(s)
  /\ f > 0 => s[Len(s)] = last
  /\ \A i \in 1 .. Len(s) - 1 : i > Len(s) - f => s[i + 1] - s[i] <= BanWindow

EarnInv ==
  /\ \A ip \in IPs : Len(hist[ip]) <= Threshold
  /\ \A ip \in DOMAIN bans : Streak(hist[ip], bans[ip].fails, bans[ip].lastFail)

\* What the trimmed history q holds: x at its end, before it what s ends with.
Trimmed(q, s, x, n) ==
  /\ Len(q) \in 1 .. n /\ Len(q) <= Len(s) + 1 /\ q[Len(q)] = x
  /\ \A i \in 1 .. Len(q) - 1 : q[i] = s[i + (Len(s) + 1 - Len(q))]

LEMMA LastOfAppend ==
  ASSUME NEW S, NEW s \in Seq(S), NEW x \in S, NEW n \in Nat \ {0}, Len(s) <= n
  PROVE  /\ LastOf(n, Append(s, x)) \in Seq(S)
         /\ Trimmed(LastOf(n, Append(s, x)), s, x, n)
<1> DEFINE a == Append(s, x)
           q == LastOf(n, Append(s, x))
<1>1. /\ a \in Seq(S) /\ Len(a) = Len(s) + 1 /\ Len(s) \in Nat
      /\ a[Len(s) + 1] = x /\ \A i \in 1 .. Len(s) : a[i] = s[i]
  BY AppendProperties
<1>2. q = IF Len(a) > n THEN Tail(a) ELSE a
  BY DEF LastOf
<1> HIDE DEF a, q
<1>3. CASE Len(a) > n
  <2>1. q = Tail(a) /\ Len(s) = n /\ a # << >>
    BY <1>1, <1>2, <1>3
  <2>2. /\ q \in Seq(S) /\ Len(q) = Len(a) - 1
        /\ \A i \in 1 .. Len(q) : q[i] = a[i + 1]
    BY <1>1, <2>1, HeadTailProperties
  <2>3. Len(q) \in 1 .. n /\ q[Len(q)] = x
    BY <1>1, <2>1, <2>2
  <2>4. ASSUME NEW i \in 1 .. Len(q) - 1
        PROVE  q[i] = s[i + (Len(s) + 1 - Len(q))]
    <3>1. i + 1 = i + (Len(s) + 1 - Len(q)) /\ i + 1 \in 1 .. Len(s)
      BY <1>1, <2>2
    <3>2. q[i] = s[i + 1]
      BY <1>1, <2>2, <3>1
    <3> QED BY <3>1, <3>2
  <2> QED BY <1>1, <2>1, <2>2, <2>3, <2>4 DEF Trimmed, q
<1>4. CASE ~ (Len(a) > n)
  <2>1. q = a
    BY <1>2, <1>4
  <2>2. ASSUME NEW i \in 1 .. Len(q) - 1
        PROVE  q[i] = s[i + (Len(s) + 1 - Len(q))]
    <3>1. i = i + (Len(s) + 1 - Len(q)) /\ i \in 1 .. Len(s)
      BY <1>1, <2>1
    <3> QED BY <1>1, <2>1, <3>1
  <2> QED BY <1>1, <1>4, <2>1, <2>2 DEF Trimmed, q
<1> QED BY <1>3, <1>4

\* A failure starts a streak, and lengthens the one that ended in time.
LEMMA StreakGrows ==
  ASSUME NEW s \in Seq(Nat), NEW x \in Nat, NEW n \in Nat \ {0}, Len(s) <= n,
         NEW f \in Nat, NEW last \in Nat, BanWindow \in Nat,
         f > 0 => Streak(s, f, last) /\ x - last <= BanWindow
  PROVE  LET q == LastOf(n, Append(s, x))
         IN  f + 1 <= n => Streak(q, f + 1, x)
<1> DEFINE q == LastOf(n, Append(s, x))
<1> SUFFICES ASSUME f + 1 <= n PROVE Streak(q, f + 1, x)
  OBVIOUS
<1>1. /\ q \in Seq(Nat) /\ Len(q) \in 1 .. n /\ Len(q) <= Len(s) + 1
      /\ q[Len(q)] = x
      /\ \A i \in 1 .. Len(q) - 1 : q[i] = s[i + (Len(s) + 1 - Len(q))]
  <2>1. q \in Seq(Nat) /\ Trimmed(q, s, x, n)
    BY LastOfAppend, Zenon
  <2> HIDE DEF q
  <2> QED BY <2>1 DEF Trimmed
<1>2. (Len(q) = n \/ Len(q) = Len(s) + 1) /\ Len(s) \in Nat
  <2>1. Len(Append(s, x)) = Len(s) + 1 /\ Len(s) \in Nat
    OBVIOUS
  <2>2. CASE Len(s) = n
    <3>1. Append(s, x) # << >> /\ Append(s, x) \in Seq(Nat)
      BY AppendProperties
    <3>2. q = Tail(Append(s, x))
      BY <2>1, <2>2 DEF LastOf
    <3> QED BY <2>1, <2>2, <3>1, <3>2, HeadTailProperties
  <2>3. CASE Len(s) < n
    <3>1. q = Append(s, x)
      BY <2>1, <2>3 DEF LastOf
    <3> QED BY <2>1, <3>1
  <2> QED BY <2>1, <2>2, <2>3
<1> HIDE DEF q
<1> DEFINE k == Len(s) + 1 - Len(q)
<1>k. k \in Nat /\ Len(q) + k = Len(s) + 1
  BY <1>1, <1>2
<1>q. \A i \in 1 .. Len(q) - 1 : q[i] = s[i + k]
  BY <1>1
<1> HIDE DEF k
<1>3. f + 1 <= Len(q)
  BY <1>1, <1>2 DEF Streak
<1>4. ASSUME NEW i \in 1 .. Len(q) - 1, i > Len(q) - (f + 1)
      PROVE  q[i + 1] - q[i] <= BanWindow
  <2>1. f > 0 /\ s[Len(s)] = last /\ Len(q) \in Nat
    BY <1>1, <1>4 DEF Streak
  <2>2. CASE i = Len(q) - 1
    <3>0. i + k = Len(s) /\ i + 1 = Len(q)
      BY <1>2, <1>k, <2>1, <2>2
    <3>1. q[i] = last /\ q[i + 1] = x
      BY <1>1, <1>q, <2>1, <3>0
    <3> QED BY <2>1, <3>1
  <2>3. CASE i < Len(q) - 1
    <3>0. i + 1 \in 1 .. Len(q) - 1 /\ (i + 1) + k = (i + k) + 1
      BY <1>k, <2>1, <2>3
    <3>1. q[i] = s[i + k] /\ q[i + 1] = s[(i + k) + 1]
      <4> DEFINE j == i + 1
      <4>1. j \in 1 .. Len(q) - 1 /\ j + k = (i + k) + 1
        BY <3>0
      <4> HIDE DEF j
      <4>2. q[j] = s[j + k]
        BY <1>q, <4>1
      <4> QED BY <1>q, <4>1, <4>2 DEF j
    <3>2. i + k \in 1 .. Len(s) - 1 /\ i + k > Len(s) - f
      BY <1>2, <1>k, <1>4, <2>1, <2>3
    <3> QED BY <2>1, <3>1, <3>2 DEF Streak
  <2> QED BY <1>1, <2>2, <2>3
<1> QED BY <1>1, <1>3, <1>4 DEF Streak
(***************************************************************************)
(* A recorded failure keeps counts and histories in step, and a ban it     *)
(* starts is earned (recordFail, protection.go:104-135).                   *)
(***************************************************************************)
LEMMA FailEarns ==
  ASSUME TypeOK, BanWithinEntry, EarnInv, NEW ip \in IPs, RecordFail(ip), now' = now
  PROVE  /\ EarnInv'
         /\ \A jp \in IPs : Starts(jp) => Earned(hist'[jp])
<1>0. /\ now \in Nat /\ MaxTime \in Nat /\ BanWindow \in Nat
      /\ Threshold \in Nat \ {0} /\ now \in 0 .. MaxTime
  BY BanAssumption DEF TypeOK
<1>1. CASE banEnabled
  <2> DEFINE t == Pruned
             e == Struck(Pruned, ip)
             s == hist[ip]
             q == LastOf(Threshold, Append(s, now))
             f == Fails(t, ip)
  <2>1. /\ Table(t) /\ DOMAIN t \subseteq DOMAIN bans
        /\ \A i \in DOMAIN t : t[i] = bans[i]
    BY PruneKeepsBans
  <2>2. e \in Entry /\ e.lastFail = now
    BY <1>0, <2>1, StruckEntry
  <2>3. bans' = Put(t, ip, e) /\ hist' = [hist EXCEPT ![ip] = q]
    BY <1>1 DEF RecordFail
  <2>4. /\ DOMAIN bans' = DOMAIN t \cup {ip} /\ bans'[ip] = e
        /\ \A i \in DOMAIN t \ {ip} : bans'[i] = t[i]
    BY <2>3 DEF Put
  <2>5. /\ s \in Seq(0 .. MaxTime) /\ s \in Seq(Nat) /\ Len(s) <= Threshold
        /\ hist'[ip] = q /\ \A jp \in IPs \ {ip} : hist'[jp] = hist[jp]
    <3>1. s \in Seq(0 .. MaxTime) /\ hist'[ip] = q
          /\ \A jp \in IPs \ {ip} : hist'[jp] = hist[jp]
      BY <2>3 DEF TypeOK
    <3>2. 0 .. MaxTime \subseteq Nat
      BY <1>0
    <3>3. Seq(0 .. MaxTime) \subseteq Seq(Nat)
      BY <3>2, SeqMonotonic
    <3>4. Len(s) <= Threshold
      BY DEF EarnInv
    <3> QED BY <3>1, <3>3, <3>4
  <2>6. q \in Seq(Nat) /\ Trimmed(q, s, now, Threshold)
    BY <1>0, <2>5, LastOfAppend, Zenon
  <2>7. f \in 1 .. Threshold /\ Streak(q, f, now)
    <3>1. CASE ip \in DOMAIN t /\ now - t[ip].lastFail <= BanWindow
      <4>1. /\ t[ip] = bans[ip] /\ ip \in DOMAIN bans /\ bans[ip] \in Entry
            /\ f = bans[ip].fails + 1
        BY <2>1, <3>1 DEF Fails, TypeOK
      <4>2. bans[ip].fails \in 0 .. Threshold - 1 /\ bans[ip].lastFail \in Nat
        BY <1>0, <4>1 DEF Entry
      <4>3. Streak(s, bans[ip].fails, bans[ip].lastFail)
        BY <4>1 DEF EarnInv
      <4> HIDE DEF s, f, t
      <4>4. /\ bans[ip].fails \in Nat /\ bans[ip].fails + 1 <= Threshold
            /\ now - bans[ip].lastFail <= BanWindow
        BY <1>0, <3>1, <4>1, <4>2
      <4>5. Streak(LastOf(Threshold, Append(s, now)), bans[ip].fails + 1, now)
        BY <1>0, <2>5, <4>2, <4>3, <4>4, StreakGrows
      <4> QED BY <1>0, <4>1, <4>2, <4>5
    <3>2. CASE ~ (ip \in DOMAIN t /\ now - t[ip].lastFail <= BanWindow)
      <4>1. f = 1
        BY <3>2 DEF Fails
      <4> HIDE DEF s, f
      <4>2. 0 \in Nat /\ ~ (0 > 0) /\ 0 + 1 <= Threshold
        BY <1>0
      <4>3. Streak(LastOf(Threshold, Append(s, now)), 0 + 1, now)
        BY <1>0, <2>5, <4>2, StreakGrows
      <4> QED BY <1>0, <4>1, <4>3
    <3> QED BY <3>1, <3>2
  <2>8. /\ e.fails = IF f >= Threshold THEN 0 ELSE f
        /\ f < Threshold =>
             e.bannedUntil = IF ip \in DOMAIN t THEN t[ip].bannedUntil ELSE 0
    BY <1>0, <2>7 DEF Struck
  <2> HIDE DEF t, e, s, q, f
  <2>9. Streak(q, e.fails, now)
    <3>1. Len(q) \in Nat
      BY <2>6
    <3>2. Streak(q, 0, now)
      BY <3>1 DEF Streak
    <3> QED BY <2>7, <2>8, <3>2
  <2>10. EarnInv'
    <3>1. \A jp \in IPs : Len(hist'[jp]) <= Threshold
      BY <1>0, <2>5, <2>6 DEF EarnInv, Trimmed
    <3>2. \A jp \in DOMAIN bans' : Streak(hist'[jp], bans'[jp].fails, bans'[jp].lastFail)
      <4> SUFFICES ASSUME NEW jp \in DOMAIN bans'
                   PROVE  Streak(hist'[jp], bans'[jp].fails, bans'[jp].lastFail)
        OBVIOUS
      <4>1. CASE jp = ip
        BY <2>2, <2>4, <2>5, <2>9, <4>1
      <4>2. CASE jp # ip
        <5>1. jp \in DOMAIN bans /\ jp \in IPs /\ bans'[jp] = bans[jp]
          BY <2>1, <2>4, <4>2 DEF TypeOK
        <5> QED BY <2>5, <4>2, <5>1 DEF EarnInv
      <4> QED BY <4>1, <4>2
    <3> QED BY <3>1, <3>2 DEF EarnInv, Streak
  <2>11. ASSUME NEW jp \in IPs, Starts(jp) PROVE Earned(hist'[jp])
    <3>0. \A i \in DOMAIN bans : bans[i].bannedUntil \in Nat
      BY <1>0, BanAssumption DEF TypeOK, Entry
    <3>1. jp = ip
      <4>1. ASSUME jp # ip PROVE FALSE
        <5>1. Until(bans', jp) = Until(bans, jp) \/ Until(bans', jp) = 0
          BY <2>1, <2>4, <4>1 DEF Until
        <5>2. Until(bans, jp) \in Nat
          BY <3>0 DEF Until
        <5> QED BY <2>11, <5>1, <5>2 DEF Starts
      <4> QED BY <4>1
    <3>2. f = Threshold
      <4>1. ASSUME f < Threshold PROVE FALSE
        <5>1. Until(bans', ip) = IF ip \in DOMAIN t THEN t[ip].bannedUntil ELSE 0
          BY <2>4, <2>8, <4>1 DEF Until
        <5>2. Until(bans', ip) = Until(bans, ip) \/ Until(bans', ip) = 0
          BY <2>1, <5>1 DEF Until
        <5>3. Until(bans, ip) \in Nat
          BY <3>0 DEF Until
        <5> QED BY <2>11, <3>1, <5>2, <5>3 DEF Starts
      <4> QED BY <1>0, <2>7, <4>1
    <3>3. Len(q) = Threshold /\ q[Threshold] = now
      BY <1>0, <2>6, <2>7, <3>2 DEF Trimmed, Streak
    <3>4. \A i \in 1 .. Threshold - 1 : q[i + 1] - q[i] <= BanWindow
      BY <1>0, <2>7, <3>2, <3>3 DEF Streak
    <3> QED BY <2>5, <3>1, <3>3, <3>4 DEF Earned
  <2> QED BY <2>10, <2>11
<1>2. CASE ~ banEnabled
  <2>1. bans' = bans /\ hist' = hist
    BY <1>2 DEF RecordFail
  <2>2. \A i \in DOMAIN bans : bans[i].bannedUntil \in Nat
    BY <1>0, BanAssumption DEF TypeOK, Entry
  <2>3. \A jp \in IPs : ~ Starts(jp)
    BY <2>1, <2>2 DEF Starts, Until
  <2>4. EarnInv'
    BY <2>1 DEF EarnInv, Streak
  <2> QED BY <2>3, <2>4
<1> QED BY <1>1, <1>2
\* Steps that start no ban: the table shrinks, or is as it was.
LEMMA ShrinkEarns ==
  ASSUME TypeOK, EarnInv, now' \in Nat,
         DOMAIN bans' \subseteq DOMAIN bans,
         \A ip \in DOMAIN bans' : bans'[ip] = bans[ip] /\ hist'[ip] = hist[ip],
         \A ip \in IPs : hist'[ip] = hist[ip] \/ hist'[ip] = << >>
  PROVE  EarnInv' /\ \A ip \in IPs : ~ Starts(ip)
<1>0. BanDuration \in Nat /\ MaxTime \in Nat /\ Threshold \in Nat \ {0}
  BY BanAssumption
<1>1. \A i \in DOMAIN bans : bans[i].bannedUntil \in Nat
  BY <1>0 DEF TypeOK, Entry
<1>2. \A ip \in IPs : ~ Starts(ip)
  <2> SUFFICES ASSUME NEW ip \in IPs PROVE ~ Starts(ip)
    OBVIOUS
  <2>1. Until(bans, ip) \in Nat
    BY <1>1 DEF Until
  <2>2. Until(bans', ip) = Until(bans, ip) \/ Until(bans', ip) = 0
    BY DEF Until
  <2> QED BY <2>1, <2>2 DEF Starts
<1>3. \A ip \in IPs : Len(hist'[ip]) <= Threshold
  <2> SUFFICES ASSUME NEW ip \in IPs PROVE Len(hist'[ip]) <= Threshold
    OBVIOUS
  <2>1. CASE hist'[ip] = hist[ip]
    BY <2>1 DEF EarnInv
  <2>2. CASE hist'[ip] = << >>
    BY <1>0, <2>2
  <2> QED BY <2>1, <2>2
<1> QED BY <1>2, <1>3 DEF EarnInv, Streak

LEMMA StepEarned ==
  ASSUME TypeOK, BanWithinEntry, EarnInv, [Next]_vars
  PROVE  EarnInv' /\ \A ip \in IPs : Starts(ip) => Earned(hist'[ip])
<1>0. /\ ConnType /\ now \in Nat /\ hist \in [IPs -> Seq(0 .. MaxTime)]
      /\ DOMAIN bans \subseteq IPs
  BY BanAssumption DEF TypeOK, ConnType
<1>1. CASE Restart \/ \E c \in Conns : ClearBans(c)
  <2>1. bans' = EmptyTable /\ hist' = NoFailures /\ now' = now
    BY <1>1 DEF Restart, ClearBans
  <2>2. DOMAIN bans' = {} /\ \A ip \in IPs : hist'[ip] = << >>
    BY <2>1, EmptyIsTable DEF NoFailures
  <2> QED BY <1>0, <2>1, <2>2, ShrinkEarns
<1>2. ASSUME bans' = bans, hist' = hist, now' \in Nat
      PROVE  EarnInv' /\ \A ip \in IPs : Starts(ip) => Earned(hist'[ip])
  BY <1>2, ShrinkEarns
<1>3. CASE Tick
  BY <1>0, <1>2, <1>3 DEF Tick
<1>4. ASSUME NEW ip \in IPs, RecordOK(ip), now' = now
      PROVE  EarnInv' /\ \A jp \in IPs : Starts(jp) => Earned(hist'[jp])
  <2>1. /\ DOMAIN bans' = DOMAIN bans \ {ip}
        /\ \A i \in DOMAIN bans \ {ip} : bans'[i] = bans[i]
        /\ hist' = [hist EXCEPT ![ip] = << >>]
    BY <1>4 DEF RecordOK, Drop
  <2>2. /\ hist'[ip] = << >>
        /\ \A jp \in IPs \ {ip} : hist'[jp] = hist[jp]
    BY <1>0, <2>1
  <2> QED BY <1>0, <1>4, <2>1, <2>2, ShrinkEarns
<1>5. ASSUME NEW c \in Conns, ConnStep(c)
      PROVE  EarnInv' /\ \A ip \in IPs : Starts(ip) => Earned(hist'[ip])
  <2>1. CASE AuthFail(c)
    <3>1. conn[c].ip \in IPs /\ RecordFail(conn[c].ip) /\ now' = now
      BY <1>0, <2>1 DEF AuthFail, ConnType
    <3> QED BY <3>1, FailEarns
  <2>2. CASE AuthOK(c) \/ \E v \in BOOLEAN : AskSwitch(c, v)
    <3>1. conn[c].ip \in IPs /\ RecordOK(conn[c].ip) /\ now' = now
      BY <1>0, <2>2 DEF AuthOK, AskSwitch, ConnType
    <3> QED BY <1>4, <3>1
  <2>3. CASE \/ \E ip \in IPs : Accept(c, ip)
             \/ HangUp(c) \/ SetFlag(c) \/ TruncFile(c) \/ WriteFile(c) \/ WriteFails(c)
    BY <1>0, <1>2, <2>3 DEF Accept, HangUp, SetFlag, TruncFile, WriteFile, WriteFails
  <2>4. CASE ClearBans(c)
    BY <1>1, <2>4, <1>5
  <2> QED BY <1>5, <2>1, <2>2, <2>3, <2>4 DEF ConnStep
<1>6. CASE UNCHANGED vars
  BY <1>0, <1>2, <1>6 DEF vars
<1> QED BY <1>1, <1>3, <1>5, <1>6 DEF Next

LEMMA InitEarned == Init => EarnInv
<1> SUFFICES ASSUME Init PROVE EarnInv
  OBVIOUS
<1>1. DOMAIN bans = {} /\ \A ip \in IPs : hist[ip] = << >>
  BY EmptyIsTable DEF Init, NoFailures
<1> QED BY <1>1, BanAssumption DEF EarnInv

(***************************************************************************)
(* Every ban is earned by Threshold failures of its own address, each      *)
(* within BanWindow of the one before it and the last one now, for every   *)
(* threshold and window and however the table is pruned in between         *)
(* (protection.go:104-135).                                                *)
(***************************************************************************)
THEOREM BansAreEarned == Spec => BanEarned
<1>1. Init => EarnInv
  BY InitEarned
<1>2. TypeOK /\ BanWithinEntry /\ EarnInv /\ [Next]_vars => EarnInv'
  BY StepEarned
<1>3. TypeOK /\ BanWithinEntry /\ EarnInv /\ [Next]_vars =>
        [\A ip \in IPs : Starts(ip) => Earned(hist'[ip])]_vars
  BY StepEarned
<1>4. Spec => []EarnInv
  BY <1>1, <1>2, TypeCorrect, EntriesOutliveBans, PTL DEF Spec
<1> QED
  BY <1>3, <1>4, TypeCorrect, EntriesOutliveBans, PTL DEF Spec, BanEarned
=============================================================================
