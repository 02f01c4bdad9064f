------------------------------ MODULE BanList ------------------------------
(***************************************************************************)
(* The ban table of the server (server/protection.go) with its callers:    *)
(* the accept loops that ask banned(), the tunnel handlers and admin       *)
(* requests that record a failure or a success once the peer has proved or *)
(* failed to prove the password, and the admin request that turns the      *)
(* switch, whose three steps (flag, clear, security.json) are separate.    *)
(*                                                                         *)
(* Times are ticks of a common clock; 0 is Go's zero time.  security.json  *)
(* survives a crash, everything else does not.                             *)
(***************************************************************************)
EXTENDS Integers, Sequences, FiniteSets

CONSTANTS
  IPs,          \* remote addresses
  Tunnels,      \* tunnel connections that can be in flight
  Admins,       \* admin API requests that can be in flight
  Threshold,    \* banThreshold (10)
  BanDuration,  \* banDuration (30 min)
  BanWindow,    \* banWindow (5 min)
  PruneAt,      \* table size above which recordFail prunes (4096)
  MaxTime       \* bound of the model: the clock stops here

NoIP == "none"

ASSUME BanAssumption ==
  /\ Threshold \in Nat \ {0}
  /\ BanDuration \in Nat \ {0}
  /\ BanWindow \in Nat
  /\ BanWindow <= BanDuration
  /\ PruneAt \in Nat
  /\ MaxTime \in Nat
  /\ Tunnels \cap Admins = {}
  /\ NoIP \notin IPs

Conns == Tunnels \cup Admins

VARIABLES
  now,         \* the clock
  banEnabled,  \* the switch
  bans,        \* the table: a function on the addresses it has an entry for
  conn,        \* where each connection is: [pc, ip, on]
  file,        \* security.json
  acked,       \* history: the value the last request was told is in force, if any
  alone,       \* history: no other request overlapped the ones at work
  hist         \* history: the last Threshold failure times of each address

vars == <<now, banEnabled, bans, conn, file, acked, alone, hist>>

Entry == [fails : 0 .. Threshold - 1, lastFail : 0 .. MaxTime,
          bannedUntil : 0 .. MaxTime + BanDuration]

\* "auth": past banned(), peer not judged yet.  The others are the steps of
\* setBanEnabled: flag, clear, the truncation and the write of security.json.
Phases == {"idle", "auth", "flag", "clear", "trunc", "write"}
Setting == {"flag", "clear", "trunc", "write"}
Idle == [pc |-> "idle", ip |-> NoIP, on |-> FALSE]

\* security.json: absent, empty (truncated, not yet written), one of the two
\* well-formed contents, or a short content written over a longer one.
Files == {"absent", "empty", "true", "false", "garbled"}

TypeOK ==
  /\ now \in 0 .. MaxTime
  /\ banEnabled \in BOOLEAN
  /\ DOMAIN bans \subseteq IPs
  /\ bans \in [DOMAIN bans -> Entry]
  /\ conn \in [Conns -> [pc : Phases, ip : IPs \cup {NoIP}, on : BOOLEAN]]
  /\ \A c \in Conns : conn[c].pc # "idle" => conn[c].ip \in IPs
  /\ file \in Files
  /\ acked \subseteq BOOLEAN
  /\ alone \in BOOLEAN
  /\ hist \in [IPs -> Seq(0 .. MaxTime)]

EmptyTable == [i \in {} |-> [fails |-> 0, lastFail |-> 0, bannedUntil |-> 0]]
NoFailures == [i \in IPs |-> <<>>]

Init ==
  /\ now = 0
  /\ banEnabled = TRUE
  /\ bans = EmptyTable
  /\ conn = [c \in Conns |-> Idle]
  /\ file = "absent"
  /\ acked = {}
  /\ alone = TRUE
  /\ hist = NoFailures

Banned(ip) == banEnabled /\ ip \in DOMAIN bans /\ now < bans[ip].bannedUntil

(***************************************************************************)
(* recordFail.  Entries without a failure in the last BanDuration go when  *)
(* the table is large; then the address's entry is found or made.          *)
(***************************************************************************)
KeepRecent(age) ==
  IF Cardinality(DOMAIN bans) > PruneAt
  THEN [i \in {k \in DOMAIN bans : now - bans[k].lastFail <= age} |-> bans[i]]
  ELSE bans

PrunedAtWindow == KeepRecent(BanWindow)  \* mutant: banWindow for banDuration
Pruned == KeepRecent(BanDuration)

\* mutant: the count is not restarted after a long silence
FailsNoWindow(t, ip) == IF ip \in DOMAIN t THEN t[ip].fails + 1 ELSE 1

Fails(t, ip) ==
  IF ip \in DOMAIN t /\ now - t[ip].lastFail <= BanWindow
  THEN t[ip].fails + 1 ELSE 1

Struck(t, ip) ==
  LET fails == Fails(t, ip)
      until == IF ip \in DOMAIN t THEN t[ip].bannedUntil ELSE 0
  IN  [fails |-> IF fails >= Threshold THEN 0 ELSE fails,
       lastFail |-> now,
       bannedUntil |-> IF fails >= Threshold THEN now + BanDuration ELSE until]

Put(t, ip, e) == [i \in DOMAIN t \cup {ip} |-> IF i = ip THEN e ELSE t[i]]
Drop(t, ip) == [i \in DOMAIN t \ {ip} |-> t[i]]

LastOf(n, s) == IF Len(s) > n THEN Tail(s) ELSE s

RecordFail(ip) ==
  IF banEnabled
  THEN /\ bans' = Put(Pruned, ip, Struck(Pruned, ip))
       /\ hist' = [hist EXCEPT ![ip] = LastOf(Threshold, Append(@, now))]
  ELSE UNCHANGED <<bans, hist>>

RecordOK(ip) ==
  /\ bans' = Drop(bans, ip)
  /\ hist' = [hist EXCEPT ![ip] = <<>>]

(***************************************************************************)
(* A connection: admitted while its address is not banned, judged later.   *)
(* A tunnel client that hangs up before its HMAC arrived is not a failure. *)
(***************************************************************************)
Accept(c, ip) ==
  /\ conn[c].pc = "idle"
  /\ ~ Banned(ip)
  /\ conn' = [conn EXCEPT ![c] = [pc |-> "auth", ip |-> ip, on |-> FALSE]]
  /\ UNCHANGED <<now, banEnabled, bans, file, acked, alone, hist>>

AuthFail(c) ==
  /\ conn[c].pc = "auth"
  /\ conn' = [conn EXCEPT ![c] = Idle]
  /\ RecordFail(conn[c].ip)
  /\ UNCHANGED <<now, banEnabled, file, acked, alone>>

AuthOK(c) ==
  /\ conn[c].pc = "auth"
  /\ conn' = [conn EXCEPT ![c] = Idle]
  /\ RecordOK(conn[c].ip)
  /\ UNCHANGED <<now, banEnabled, file, acked, alone>>

HangUp(c) ==
  /\ c \in Tunnels
  /\ conn[c].pc = "auth"
  /\ conn' = [conn EXCEPT ![c] = Idle]
  /\ UNCHANGED <<now, banEnabled, bans, file, acked, alone, hist>>

(***************************************************************************)
(* POST /_admin/security: the password is right (recordOK), the body names *)
(* the value, and setBanEnabled runs.                                      *)
(***************************************************************************)
Switching == \E c \in Conns : conn[c].pc \in Setting

AskSwitch(c, v) ==
  /\ c \in Admins
  /\ conn[c].pc = "auth"
  /\ conn' = [conn EXCEPT ![c].pc = "flag", ![c].on = v]
  /\ RecordOK(conn[c].ip)
  /\ acked' = {}
  /\ alone' = ~ Switching
  /\ UNCHANGED <<now, banEnabled, file>>

SetFlag(c) ==
  /\ conn[c].pc = "flag"
  /\ banEnabled' = conn[c].on
  /\ conn' = [conn EXCEPT ![c].pc = IF conn[c].on THEN "trunc" ELSE "clear"]
  /\ UNCHANGED <<now, bans, file, acked, alone, hist>>

SkipClear(c) ==  \* mutant: turning the switch off keeps the table
  /\ conn[c].pc = "clear"
  /\ conn' = [conn EXCEPT ![c].pc = "trunc"]
  /\ UNCHANGED <<now, banEnabled, bans, file, acked, alone, hist>>

ClearBans(c) ==
  /\ conn[c].pc = "clear"
  /\ bans' = EmptyTable
  /\ hist' = NoFailures
  /\ conn' = [conn EXCEPT ![c].pc = "trunc"]
  /\ UNCHANGED <<now, banEnabled, file, acked, alone>>

\* os.WriteFile opens with O_TRUNC, then writes at offset 0.
TruncFile(c) ==
  /\ conn[c].pc = "trunc"
  /\ file' = "empty"
  /\ conn' = [conn EXCEPT ![c].pc = "write"]
  /\ UNCHANGED <<now, banEnabled, bans, acked, alone, hist>>

\* {"banEnabled":true} is one byte shorter than {"banEnabled":false}: over a
\* longer content it leaves a last byte behind.
Written(v) ==
  IF ~ v THEN "false"
  ELSE IF file \in {"false", "garbled"} THEN "garbled" ELSE "true"

WriteFile(c) ==
  /\ conn[c].pc = "write"
  /\ file' = Written(conn[c].on)
  /\ acked' = IF alone THEN {conn[c].on} ELSE {}
  /\ conn' = [conn EXCEPT ![c] = Idle]
  /\ UNCHANGED <<now, banEnabled, bans, alone, hist>>

\* mutant: adminSecuritySet ignores the error of setBanEnabled
WriteFailsSilently(c) ==
  /\ conn[c].pc \in {"trunc", "write"}
  /\ conn' = [conn EXCEPT ![c] = Idle]
  /\ acked' = IF alone THEN {conn[c].on} ELSE {}
  /\ UNCHANGED <<now, banEnabled, bans, file, alone, hist>>

\* The open or the write fails: the caller is told, the switch stays turned.
WriteFails(c) ==
  /\ conn[c].pc \in {"trunc", "write"}
  /\ conn' = [conn EXCEPT ![c] = Idle]
  /\ UNCHANGED <<now, banEnabled, bans, file, acked, alone, hist>>

(***************************************************************************)
(* The process dies and is started again: newTrafficServer, then           *)
(* loadBanEnabled, which keeps the default TRUE unless the file parses.    *)
(***************************************************************************)
Loaded(f) == f # "false"

Restart ==
  /\ banEnabled' = Loaded(file)
  /\ bans' = EmptyTable
  /\ conn' = [c \in Conns |-> Idle]
  /\ hist' = NoFailures
  /\ UNCHANGED <<now, file, acked, alone>>

Tick ==
  /\ now < MaxTime
  /\ now' = now + 1
  /\ UNCHANGED <<banEnabled, bans, conn, file, acked, alone, hist>>

ConnStep(c) ==
  \/ \E ip \in IPs : Accept(c, ip)
  \/ AuthFail(c) \/ AuthOK(c) \/ HangUp(c)
  \/ \E v \in BOOLEAN : AskSwitch(c, v)
  \/ SetFlag(c) \/ ClearBans(c)
  \/ TruncFile(c) \/ WriteFile(c) \/ WriteFails(c)

Next == Restart \/ Tick \/ \E c \in Conns : ConnStep(c)

Spec == Init /\ [][Next]_vars

-----------------------------------------------------------------------------
(***************************************************************************)
(* A ban is the last thing an address's failures leave behind: the entry   *)
(* outlives the ban, so age-based pruning never frees a banned address.    *)
(* Inductive with TypeOK.                                                  *)
(***************************************************************************)
BanWithinEntry ==
  \A ip \in DOMAIN bans :
    /\ bans[ip].lastFail <= now
    /\ bans[ip].bannedUntil <= bans[ip].lastFail + BanDuration

(***************************************************************************)
(* A banned address stays banned until its time is up, unless that address *)
(* itself proves the password on a connection admitted before, the switch  *)
(* is turned off, or the server restarts.  In particular the failures of   *)
(* any other address, which may prune the table, never release it          *)
(* (protection.go:111-118).                                                *)
(***************************************************************************)
Released(ip) ==
  \/ Restart
  \/ now' >= bans[ip].bannedUntil
  \/ \E c \in Conns :
       \/ conn[c].ip = ip /\ (AuthOK(c) \/ \E v \in BOOLEAN : AskSwitch(c, v))
       \/ SetFlag(c) \/ ClearBans(c)

BanStands == [][\A ip \in IPs : Banned(ip) /\ ~ Banned(ip)' => Released(ip)]_vars

(***************************************************************************)
(* A ban is earned: when it starts, the last Threshold failures of the     *)
(* address, with no success, clearing or restart between them, each came   *)
(* within BanWindow of the one before, and the last one is this one        *)
(* (protection.go:119-134, 137-141).                                       *)
(***************************************************************************)
Until(t, ip) == IF ip \in DOMAIN t THEN t[ip].bannedUntil ELSE 0
Starts(ip) == Until(bans', ip) > Until(bans, ip)

Earned(s) ==
  /\ Len(s) = Threshold
  /\ s[Threshold] = now
  /\ \A i \in 1 .. Threshold - 1 : s[i + 1] - s[i] <= BanWindow

BanEarned == [][\A ip \in IPs : Starts(ip) => Earned(hist'[ip])]_vars

(***************************************************************************)
(* Turning the switch off releases every ban: once no request still has    *)
(* its clearing to do, an off switch means an empty table, so turning it on*)
(* again starts from nothing (protection.go:145-153, admin.go:136).        *)
(***************************************************************************)
OffMeansEmpty ==
  ~ banEnabled =>
     DOMAIN bans = {} \/ \E c \in Conns : conn[c].pc = "clear"

(***************************************************************************)
(* An acknowledged switch is in force and survives a restart, as long as   *)
(* no later request has begun (protection.go:143, 154-155).  Said of the   *)
(* requests no other one overlapped: the flag and the file are written     *)
(* under no common lock, so two at once may leave them apart.              *)
(***************************************************************************)
SwitchPersists ==
  ~ Switching => \A v \in acked : banEnabled = v /\ Loaded(file) = v

-----------------------------------------------------------------------------
(***************************************************************************)
(* The table implements the policy.  An absent entry, and an entry whose   *)
(* window has closed and whose ban is over, are the same abstract state:   *)
(* that is why pruning is invisible.                                       *)
(***************************************************************************)
QuietOf(ip) ==
  IF ip \in DOMAIN bans /\ now - bans[ip].lastFail <= BanWindow
  THEN now - bans[ip].lastFail ELSE BanWindow + 1
StrikesOf(ip) == IF QuietOf(ip) <= BanWindow THEN bans[ip].fails ELSE 0
LeftOf(ip) ==
  IF ip \in DOMAIN bans /\ now < bans[ip].bannedUntil
  THEN bans[ip].bannedUntil - now ELSE 0

Policy == INSTANCE BanPolicy WITH
  on <- banEnabled,
  strikes <- [ip \in IPs |-> StrikesOf(ip)],
  quiet <- [ip \in IPs |-> QuietOf(ip)],
  left <- [ip \in IPs |-> LeftOf(ip)],
  client <- [c \in Conns |-> IF conn[c].pc = "auth" THEN conn[c].ip ELSE NoIP]

(***************************************************************************)
(* Every behaviour of the ban table is a behaviour of BanPolicy, for which *)
(* the table's size, its pruning and its absolute times do not exist       *)
(* (protection.go:94-141).                                                 *)
(***************************************************************************)
ImplementsPolicy == Policy!Spec
=============================================================================
