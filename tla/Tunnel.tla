------------------------------- MODULE Tunnel -------------------------------
(***************************************************************************)
(* One tunnel from both ends: the dialer of the client (tunnel/client.go), *)
(* the handler of the server (server/server.go), the wire between them and *)
(* the deadline of the handshake.  The wire keeps the order of each        *)
(* direction; an end that closes with unread data, or is written to after  *)
(* it closed, resets the connection, and a reset may destroy what the      *)
(* other end has not read yet.  What happens to slots and goroutines once  *)
(* a tunnel is open is ServerConn's matter.                                *)
(***************************************************************************)
EXTENDS Naturals, Sequences, SequencesExt

CONSTANTS
  Hosts,    \* targets the server dials
  Dns,      \* a target on port 53
  None,
  MaxData   \* bound of the model: pieces of data an application sends

Targets == Hosts \cup {Dns}

VARIABLES
  asked,    \* the target of this dial
  right,    \* the client's password is the server's
  ws,       \* the dial goes through WebSocket
  attempt,  \* 1: standard CA check; 2: self-signed with fingerprint
  cpc,      \* the client, from dialTunnelD to the end of the tunnel
  spc,      \* the server's handler
  c2s, s2c, \* what is under way in each direction
  late,     \* the server's 15 seconds are over
  wanted,   \* what ReadTarget returned, or None
  opened,   \* the target the server is connected to, or None
  told,     \* history: the status byte the server wrote, or None
  result,   \* what the dial returned, or None
  sent,     \* pieces of data the application has sent
  reset,    \* the connection was reset by the server's end
  broken    \* history: the path broke

setup == <<asked, right, ws>>
vars == <<asked, right, ws, attempt, cpc, spc, c2s, s2c, late, wanted, opened,
          told, result, sent, reset, broken>>

ClientPCs == {"dial", "upgrade", "nonce", "mac", "target", "status", "open", "done"}
ServerPCs == {"none", "request", "nonce", "mac", "quota", "target", "dial",
              "relay", "query", "closed"}
Results == {"ok", "refused", "quota", "error"}
FromClient == {"GET", "right", "wrong", "data"} \cup Targets
FromServer == {"101", "nonce", "0", "1", "2", "answer"}

ASSUME TunnelAssumption ==
  /\ None \notin Targets \cup Results \cup FromServer
  /\ MaxData \in Nat
  /\ Targets \cap {"GET", "right", "wrong", "data"} = {}

\* A dial begins; the first attempt is skipped with -insecure.
Init ==
  /\ asked \in Targets /\ right \in BOOLEAN /\ ws \in BOOLEAN /\ attempt \in {1, 2}
  /\ cpc = "dial" /\ spc = "none" /\ c2s = <<>> /\ s2c = <<>>
  /\ late = FALSE /\ reset = FALSE /\ broken = FALSE /\ sent = 0
  /\ wanted = None /\ opened = None /\ told = None /\ result = None

(***************************************************************************)
(* The wire.                                                               *)
(***************************************************************************)
ClientSends(m) ==
  IF spc = "closed"
  THEN s2c' \in Prefixes(s2c) /\ reset' = TRUE /\ UNCHANGED c2s
  ELSE c2s' = Append(c2s, m) /\ UNCHANGED <<s2c, reset>>

ClientReads(m) ==
  /\ s2c # <<>> /\ Head(s2c) = m
  /\ s2c' = Tail(s2c)
  /\ UNCHANGED <<c2s, reset>>

ServerSends(m) == s2c' = Append(s2c, m) /\ UNCHANGED c2s

ServerReads(m) ==
  /\ c2s # <<>> /\ Head(c2s) = m
  /\ c2s' = Tail(c2s)

\* The server writes last, closes, and leaves unread what is in left.
ServerCloses(last, left) ==
  /\ spc' = "closed"
  /\ s2c' \in IF left = <<>> THEN {s2c \o last} ELSE Prefixes(s2c \o last)
  /\ c2s' = <<>>
  /\ reset' = (left # <<>>)

ClientCloses(r) ==
  /\ cpc' = "done"
  /\ result' = IF result = None THEN r ELSE result
  /\ c2s' \in IF s2c = <<>> THEN {c2s} ELSE Prefixes(c2s)
  /\ s2c' = <<>>
  /\ UNCHANGED reset

ClientMoves(from, to) == cpc = from /\ cpc' = to
ServerMoves(from, to) == spc = from /\ spc' = to

(***************************************************************************)
(* dialTunnelD: two ways to check the certificate, then the upgrade.       *)
(***************************************************************************)
Connected ==
  /\ spc' = IF ws THEN "request" ELSE "nonce"
  /\ UNCHANGED <<setup, attempt, s2c, late, wanted, opened, told, sent, reset, broken>>

TlsOK ==
  /\ ClientMoves("dial", IF ws THEN "upgrade" ELSE "nonce")
  /\ Connected
  /\ c2s' = IF ws THEN <<"GET">> ELSE <<>>
  /\ UNCHANGED result

TlsFails ==
  /\ cpc = "dial"
  /\ IF attempt = 1
     THEN attempt' = 2 /\ UNCHANGED <<cpc, spc, result>>
     ELSE cpc' = "done" /\ spc' = "closed" /\ result' = "error" /\ UNCHANGED attempt
  /\ UNCHANGED <<setup, c2s, s2c, late, wanted, opened, told, sent, reset, broken>>

FingerprintDiffers ==
  /\ attempt = 2
  /\ ClientMoves("dial", "done")
  /\ Connected
  /\ result' = "error"
  /\ UNCHANGED c2s

(***************************************************************************)
(* The client: ws.ClientConn, finishTunnel, and the application.           *)
(***************************************************************************)
ClientKeeps == UNCHANGED <<setup, attempt, spc, late, wanted, opened, told, broken>>

\* mutant: the reply to the upgrade is not waited for
UpgradedBlind ==
  /\ ClientMoves("upgrade", "nonce")
  /\ ClientKeeps /\ UNCHANGED <<c2s, s2c, reset, result, sent>>

Upgraded ==
  /\ ClientMoves("upgrade", "nonce") /\ ClientReads("101")
  /\ ClientKeeps /\ UNCHANGED <<result, sent>>

ReadNonce ==
  /\ ClientMoves("nonce", "mac") /\ ClientReads("nonce")
  /\ ClientKeeps /\ UNCHANGED <<result, sent>>

WriteMac ==
  /\ ClientMoves("mac", "target")
  /\ ClientSends(IF right THEN "right" ELSE "wrong")
  /\ ClientKeeps /\ UNCHANGED <<result, sent>>

WriteTarget ==
  /\ ClientMoves("target", "status")
  /\ ClientSends(asked)
  /\ ClientKeeps /\ UNCHANGED <<result, sent>>

WriteFails ==
  /\ cpc \in {"mac", "target"} /\ reset
  /\ ClientCloses("error")
  /\ ClientKeeps /\ UNCHANGED sent

StatusOK ==
  /\ ClientMoves("status", "open") /\ ClientReads("0")
  /\ result' = "ok"
  /\ ClientKeeps /\ UNCHANGED sent

StatusBad ==
  /\ cpc = "status" /\ s2c # <<>> /\ Head(s2c) \in {"1", "2"}
  /\ ClientCloses(IF Head(s2c) = "2" THEN "quota" ELSE "refused")
  /\ ClientKeeps /\ UNCHANGED sent

ReadFails ==
  /\ cpc \in {"upgrade", "nonce", "status"} /\ s2c = <<>> /\ spc = "closed"
  /\ ClientCloses("error")
  /\ ClientKeeps /\ UNCHANGED sent

AppSends ==
  /\ cpc = "open" /\ sent < MaxData
  /\ ClientSends("data")
  /\ sent' = sent + 1
  /\ ClientKeeps /\ UNCHANGED <<cpc, result>>

AppReads ==
  /\ cpc = "open" /\ ClientReads("answer")
  /\ ClientKeeps /\ UNCHANGED <<cpc, result, sent>>

AppCloses ==
  /\ cpc = "open"
  /\ ClientCloses("ok")
  /\ ClientKeeps /\ UNCHANGED sent

(***************************************************************************)
(* The server: serveWS and handleServerConn.                               *)
(***************************************************************************)
ServerKeeps == UNCHANGED <<setup, attempt, cpc, result, sent, broken>>
ServerOpen == ServerKeeps /\ UNCHANGED reset

Switching ==
  /\ ServerReads("GET")
  /\ ServerMoves("request", "nonce") /\ s2c' = Append(s2c, "101")
  /\ ServerOpen /\ UNCHANGED <<late, wanted, opened, told>>

\* A banned address, or no slot.
NotServed ==
  /\ spc = "request" /\ c2s # <<>>
  /\ ServerCloses(<<>>, Tail(c2s))
  /\ ServerKeeps /\ UNCHANGED <<late, wanted, opened, told>>

WriteNonce ==
  /\ ServerMoves("nonce", "mac") /\ ServerSends("nonce")
  /\ ServerOpen /\ UNCHANGED <<late, wanted, opened, told>>

\* mutant: the HMAC is read and not compared
ReadAnyMac ==
  /\ ServerReads("right") \/ ServerReads("wrong")
  /\ ServerMoves("mac", "quota") /\ UNCHANGED s2c
  /\ ServerOpen /\ UNCHANGED <<late, wanted, opened, told>>

ReadMac ==
  /\ ServerReads("right")
  /\ ServerMoves("mac", "quota") /\ UNCHANGED s2c
  /\ ServerOpen /\ UNCHANGED <<late, wanted, opened, told>>

BadMac ==
  /\ spc = "mac" /\ c2s # <<>> /\ Head(c2s) = "wrong"
  /\ ServerCloses(<<>>, Tail(c2s))
  /\ ServerKeeps /\ UNCHANGED <<late, wanted, opened, told>>

WithinQuota ==
  /\ ServerMoves("quota", "target")
  /\ ServerOpen /\ UNCHANGED <<c2s, s2c, late, wanted, opened, told>>

\* A write after the deadline does not happen.
Tells(status) ==
  /\ told' = IF late THEN None ELSE status
  /\ ServerCloses(IF late THEN <<>> ELSE <<status>>, c2s)

\* The client's target stays unread.
OverQuota ==
  /\ spc = "quota"
  /\ Tells("2")
  /\ ServerKeeps /\ UNCHANGED <<late, wanted, opened>>

ReadTarget(t) ==
  /\ ServerReads(t)
  /\ ServerMoves("target", "dial") /\ UNCHANGED s2c
  /\ wanted' = t
  /\ ServerOpen /\ UNCHANGED <<late, opened, told>>

\* mutant: the status follows the query
DnsSilent ==
  /\ wanted = Dns /\ ServerMoves("dial", "query")
  /\ late' = FALSE /\ opened' = Dns
  /\ ServerOpen /\ UNCHANGED <<c2s, s2c, wanted, told>>

\* Port 53: the status, before the query is read.
DnsStatus ==
  /\ wanted = Dns /\ ServerMoves("dial", "query")
  /\ late' = FALSE /\ opened' = Dns /\ told' = "0"
  /\ ServerSends("0")
  /\ ServerOpen /\ UNCHANGED wanted

DialOK ==
  /\ wanted # Dns /\ ServerMoves("dial", "relay")
  /\ late' = FALSE /\ opened' = wanted /\ told' = "0"
  /\ ServerSends("0")
  /\ ServerOpen /\ UNCHANGED wanted

DialFails ==
  /\ spc = "dial" /\ wanted # Dns
  /\ Tells("1")
  /\ ServerKeeps /\ UNCHANGED <<late, wanted, opened>>

RelayUp ==
  /\ spc = "relay" /\ ServerReads("data") /\ UNCHANGED <<spc, s2c>>
  /\ ServerOpen /\ UNCHANGED <<late, wanted, opened, told>>

TargetCloses ==
  /\ spc = "relay"
  /\ ServerCloses(<<>>, c2s)
  /\ ServerKeeps /\ UNCHANGED <<late, wanted, opened, told>>

\* One query, one answer or none, and the relay is over.
AnswerQuery ==
  /\ spc = "query" /\ c2s # <<>>
  /\ \E reply \in {<<"answer">>, <<>>} : ServerCloses(reply, Tail(c2s))
  /\ ServerKeeps /\ UNCHANGED <<late, wanted, opened, told>>

\* A read fails: the client has closed, or the deadline has passed.
HandshakeFails ==
  /\ \/ spc \in {"request", "mac", "target", "query"} /\ c2s = <<>> /\ cpc = "done"
     \/ spc \in {"nonce", "mac", "target"} /\ late
  /\ ServerCloses(<<>>, c2s)
  /\ ServerKeeps /\ UNCHANGED <<late, wanted, opened, told>>

Deadline ==
  /\ ~ late /\ spc \in {"nonce", "mac", "quota", "target", "dial"}
  /\ late' = TRUE
  /\ ServerOpen /\ UNCHANGED <<spc, c2s, s2c, wanted, opened, told>>

(***************************************************************************)
(* The path breaks and both ends notice.  The next dial.                   *)
(***************************************************************************)
Break ==
  /\ cpc \notin {"dial", "done"} /\ spc # "closed"
  /\ cpc' = "done" /\ spc' = "closed" /\ broken' = TRUE
  /\ c2s' = <<>> /\ s2c' = <<>>
  /\ result' = IF result = None THEN "error" ELSE result
  /\ UNCHANGED <<setup, attempt, late, wanted, opened, told, sent, reset>>

Again ==
  /\ cpc = "done" /\ spc = "closed"
  /\ asked' \in Targets /\ right' \in BOOLEAN /\ ws' \in BOOLEAN /\ attempt' \in {1, 2}
  /\ cpc' = "dial" /\ spc' = "none" /\ c2s' = <<>> /\ s2c' = <<>>
  /\ late' = FALSE /\ reset' = FALSE /\ broken' = FALSE /\ sent' = 0
  /\ wanted' = None /\ opened' = None /\ told' = None /\ result' = None

ClientStep ==
  \/ TlsOK \/ TlsFails \/ FingerprintDiffers
  \/ Upgraded \/ ReadNonce \/ WriteMac \/ WriteTarget \/ WriteFails
  \/ StatusOK \/ StatusBad \/ ReadFails

ServerStep ==
  \/ Switching \/ NotServed \/ WriteNonce \/ ReadMac \/ BadMac
  \/ WithinQuota \/ OverQuota \/ \E t \in Targets : ReadTarget(t)
  \/ DnsStatus \/ DialOK \/ DialFails
  \/ RelayUp \/ AnswerQuery \/ HandshakeFails

Environment ==
  AppSends \/ AppReads \/ AppCloses \/ TargetCloses \/ Deadline \/ Break \/ Again

Next == ClientStep \/ ServerStep \/ Environment

Spec == Init /\ [][Next]_vars

(***************************************************************************)
(* Both processes are scheduled, what is written arrives unless the path   *)
(* breaks, and the TLS handshake and the dial of the target end by their   *)
(* own timeouts.  No application and no target has to do anything.         *)
(***************************************************************************)
FairSpec == Spec /\ WF_vars(ClientStep) /\ WF_vars(ServerStep)

-----------------------------------------------------------------------------
(***************************************************************************)
(* A dial returns a tunnel only to the target it asked for, only with the  *)
(* server's password, and only after the server connected; and no target   *)
(* is even read for a client that did not prove the password.  Unless the  *)
(* path breaks, a status of the dial also arrives: whatever the client had *)
(* to send is read before it is written, so that closing resets nothing    *)
(* (client.go:386-418, server.go:149-195).                                 *)
(***************************************************************************)
Agreement ==
  /\ result = "ok" => opened = asked /\ told = "0"
  /\ wanted # None => right /\ wanted = asked
  /\ told \in {"0", "1"} /\ result # None /\ ~ broken
       => result = (IF told = "0" THEN "ok" ELSE "refused")

(***************************************************************************)
(* The two ends stay in step: whatever is next on the wire is what its     *)
(* reader is about to read, so no handshake message is ever taken for      *)
(* another, nor for application data (protocol.go:12-14).                  *)
(***************************************************************************)
Expected(pc) ==
  CASE pc = "request" -> {"GET"}
    [] pc = "mac" -> {"right", "wrong"}
    [] pc = "target" -> {asked}
    [] pc = "relay" -> {"data"}
    [] pc = "query" -> {"data"}
    [] OTHER -> FromClient

Awaited(pc) ==
  CASE pc = "upgrade" -> {"101"}
    [] pc = "nonce" -> {"nonce"}
    [] pc = "status" -> {"0", "1", "2"}
    [] pc = "open" -> {"answer"}
    [] OTHER -> FromServer

InStep ==
  /\ c2s # <<>> => Head(c2s) \in Expected(spc)
  /\ s2c # <<>> => Head(s2c) \in Awaited(cpc)

(***************************************************************************)
(* Every dial returns, although the client itself waits without a limit    *)
(* once TLS is up: the server answers or closes (client.go:330, 356,       *)
(* server.go:143).                                                         *)
(***************************************************************************)
DialEnds == cpc = "dial" ~> result # None
=============================================================================
