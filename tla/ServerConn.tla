----------------------------- MODULE ServerConn -----------------------------
(***************************************************************************)
(* The life of the server's connections (server/server.go): the TLS accept *)
(* loop and the WebSocket accept goroutines, which check the concurrency   *)
(* limit, and handleServerConn, which counts the connection in, talks to   *)
(* the client under a deadline, dials the target, relays with two copying  *)
(* goroutines and counts the connection out.  Clients and targets are the  *)
(* environment: they speak, stay silent or vanish at any moment.  Which    *)
(* password is right, the ban table and the meter are BanList's and        *)
(* TrafficQuota's matter; here their outcomes are free.                    *)
(***************************************************************************)
EXTENDS Integers, FiniteSets

CONSTANTS
  Conns,    \* connections that can exist at a time
  MaxConns  \* -max-conns

ASSUME ConnAssumption == MaxConns \in Nat \ {0} /\ IsFiniteSet(Conns)

VARIABLES
  pc,      \* where the goroutine that owns the connection is
  client,  \* the client end: "there" or "gone"
  remote,  \* the connection to the target: "none", "open", "closed"
  up,      \* the upstream goroutine, io.Copy(remote, cc): "off", "copying"
  writing, \* the handler's own copy, io.Copy(cc, remote), is writing to the client
  active   \* s.active

vars == <<pc, client, remote, up, writing, active>>

\* "peek", "upgrade": the WebSocket goroutine before handleServerConn.
\* "spawned": past the limit check, handleServerConn not begun.
\* "mac", "target": waiting for the client, with the 15 s deadline armed.
\* "close": returning; the deferred closes come first, then "uncount".
PCs == {"idle", "peek", "upgrade", "spawned", "mac", "quota", "target", "dial",
        "relay", "dns", "close", "uncount"}

\* handleServerConn has added the connection to active and not removed it.
Counted == {"mac", "quota", "target", "dial", "relay", "dns", "close", "uncount"}

TypeOK ==
  /\ pc \in [Conns -> PCs]
  /\ client \in [Conns -> {"there", "gone"}]
  /\ remote \in [Conns -> {"none", "open", "closed"}]
  /\ up \in [Conns -> {"off", "copying"}]
  /\ writing \in [Conns -> BOOLEAN]
  /\ active \in Nat

Init ==
  /\ pc = [c \in Conns |-> "idle"]
  /\ client = [c \in Conns |-> "gone"]
  /\ remote = [c \in Conns |-> "none"]
  /\ up = [c \in Conns |-> "off"]
  /\ writing = [c \in Conns |-> FALSE]
  /\ active = 0

Go(c, from, to) == pc[c] = from /\ pc' = [pc EXCEPT ![c] = to]

Full == active >= MaxConns

Arrives(c, where) ==
  /\ Go(c, "idle", where)
  /\ up[c] = "off"
  /\ client' = [client EXCEPT ![c] = "there"]
  /\ UNCHANGED <<remote, up, writing, active>>

(***************************************************************************)
(* The two ways in.  Both check the limit before handleServerConn counts.  *)
(***************************************************************************)
TlsAccept(c) == ~ Full /\ Arrives(c, "spawned")

WsAccept(c) == Arrives(c, "peek")

\* Also refused: a banned address.  A management request is answered here too.
PeekRequest(c) ==
  /\ Go(c, "peek", "idle") \/ (~ Full /\ Go(c, "peek", "upgrade"))
  /\ client[c] = "there"
  /\ UNCHANGED <<client, remote, up, writing, active>>

PeekFails(c) ==
  /\ Go(c, "peek", "idle")
  /\ client[c] = "gone"
  /\ UNCHANGED <<client, remote, up, writing, active>>

Upgrade(c) ==
  /\ \E to \in {"spawned", "idle"} : Go(c, "upgrade", to)
  /\ UNCHANGED <<client, remote, up, writing, active>>

(***************************************************************************)
(* handleServerConn.                                                       *)
(***************************************************************************)
Begin(c) ==
  /\ Go(c, "spawned", "mac")
  /\ active' = active + 1
  /\ UNCHANGED <<client, remote, up, writing>>

GoodMac(c) ==
  /\ Go(c, "mac", "quota")
  /\ client[c] = "there"
  /\ UNCHANGED <<client, remote, up, writing, active>>

BadInput(c) ==
  /\ Go(c, "mac", "close") \/ Go(c, "target", "close")
  /\ client[c] = "there"
  /\ UNCHANGED <<client, remote, up, writing, active>>

ExpireMacOnly(c) ==  \* mutant: the deadline is cleared once the HMAC is right
  /\ Go(c, "mac", "close")
  /\ UNCHANGED <<client, remote, up, writing, active>>

\* A read fails: the client is gone, or the deadline of 15 seconds has passed.
Expire(c) ==
  /\ Go(c, "mac", "close") \/ Go(c, "target", "close")
  /\ UNCHANGED <<client, remote, up, writing, active>>

QuotaCheck(c) ==
  /\ \E to \in {"target", "close"} : Go(c, "quota", to)
  /\ UNCHANGED <<client, remote, up, writing, active>>

\* A target on port 53 is answered 0 and relayed by dnsRelay.
GotTarget(c) ==
  /\ \E to \in {"dial", "dns"} : Go(c, "target", to)
  /\ client[c] = "there"
  /\ UNCHANGED <<client, remote, up, writing, active>>

DialFails(c) ==
  /\ Go(c, "dial", "close")
  /\ UNCHANGED <<client, remote, up, writing, active>>

\* The deadline is cleared, the status byte is written, the upstream
\* goroutine is started.
DialOK(c) ==
  /\ Go(c, "dial", "relay")
  /\ remote' = [remote EXCEPT ![c] = "open"]
  /\ up' = [up EXCEPT ![c] = "copying"]
  /\ UNCHANGED <<client, writing, active>>

\* The same, but the status byte cannot be written.
StatusFails(c) ==
  /\ Go(c, "dial", "close")
  /\ client[c] = "gone"
  /\ remote' = [remote EXCEPT ![c] = "open"]
  /\ UNCHANGED <<client, up, writing, active>>

(***************************************************************************)
(* The handler's own copy reads from the target and writes to the client   *)
(* with no deadline: a client that is there and does not read may keep it  *)
(* in a write for ever, whatever the target does meanwhile.                *)
(***************************************************************************)
DownReads(c) ==
  /\ pc[c] = "relay" /\ remote[c] = "open" /\ ~ writing[c]
  /\ writing' = [writing EXCEPT ![c] = TRUE]
  /\ UNCHANGED <<pc, client, remote, up, active>>

DownWritten(c) ==
  /\ pc[c] = "relay" /\ writing[c] /\ client[c] = "there"
  /\ writing' = [writing EXCEPT ![c] = FALSE]
  /\ UNCHANGED <<pc, client, remote, up, active>>

DownWriteFails(c) ==
  /\ Go(c, "relay", "close")
  /\ writing[c] /\ client[c] = "gone"
  /\ writing' = [writing EXCEPT ![c] = FALSE]
  /\ UNCHANGED <<client, remote, up, active>>

\* End of file from the target.
DownEnds(c) ==
  /\ Go(c, "relay", "close")
  /\ remote[c] = "closed" /\ ~ writing[c]
  /\ UNCHANGED <<client, remote, up, writing, active>>

\* The upstream copy ends when the client's end or our side of it is closed
\* (end of file, or keepalive on a dead path), and touches nothing else.
UpEnds(c) ==
  /\ up[c] = "copying"
  /\ client[c] = "gone"
  /\ up' = [up EXCEPT ![c] = "off"]
  /\ UNCHANGED <<pc, client, remote, writing, active>>

UpWriteFails(c) ==
  /\ up[c] = "copying"
  /\ client[c] = "there" /\ remote[c] = "closed"
  /\ up' = [up EXCEPT ![c] = "off"]
  /\ UNCHANGED <<pc, client, remote, writing, active>>

\* dnsRelay reads a query without a deadline and returns: answered, unanswered,
\* with bad input, or because the client is gone.
DnsServed(c) ==
  /\ Go(c, "dns", "close")
  /\ client[c] = "there"
  /\ UNCHANGED <<client, remote, up, writing, active>>

DnsEnds(c) ==
  /\ Go(c, "dns", "close")
  /\ client[c] = "gone"
  /\ UNCHANGED <<client, remote, up, writing, active>>

CloseClientOnly(c) ==  \* mutant: the deferred remote.Close is missing
  /\ Go(c, "close", "uncount")
  /\ client' = [client EXCEPT ![c] = "gone"]
  /\ UNCHANGED <<remote, up, writing, active>>

CloseRemoteOnly(c) ==  \* mutant: the deferred c.Close is missing
  /\ Go(c, "close", "uncount")
  /\ remote' = [remote EXCEPT ![c] = "none"]
  /\ UNCHANGED <<client, up, writing, active>>

CloseBoth(c) ==
  /\ Go(c, "close", "uncount")
  /\ client' = [client EXCEPT ![c] = "gone"]
  /\ remote' = [remote EXCEPT ![c] = "none"]
  /\ UNCHANGED <<up, writing, active>>

UncountTunnels(c) ==  \* mutant: only a finished relay gives its slot back
  /\ Go(c, "uncount", "idle")
  /\ active' = IF up[c] = "copying" THEN active - 1 ELSE active
  /\ UNCHANGED <<client, remote, up, writing>>

Uncount(c) ==
  /\ Go(c, "uncount", "idle")
  /\ active' = active - 1
  /\ UNCHANGED <<client, remote, up, writing>>

(***************************************************************************)
(* The environment.                                                        *)
(***************************************************************************)
ClientLeaves(c) ==
  /\ client[c] = "there"
  /\ client' = [client EXCEPT ![c] = "gone"]
  /\ UNCHANGED <<pc, remote, up, writing, active>>

RemoteCloses(c) ==
  /\ remote[c] = "open"
  /\ remote' = [remote EXCEPT ![c] = "closed"]
  /\ UNCHANGED <<pc, client, up, writing, active>>

\* What the server does by itself, without waiting for anyone to speak.
ServerStep(c) ==
  \/ PeekFails(c) \/ Upgrade(c) \/ Begin(c) \/ Expire(c) \/ QuotaCheck(c)
  \/ DialFails(c) \/ DialOK(c) \/ StatusFails(c) \/ DownEnds(c) \/ DownWriteFails(c)
  \/ DnsEnds(c) \/ CloseBoth(c) \/ Uncount(c)

PeerStep(c) ==
  \/ TlsAccept(c) \/ WsAccept(c) \/ PeekRequest(c) \/ GoodMac(c) \/ BadInput(c)
  \/ GotTarget(c) \/ DnsServed(c) \/ DownReads(c) \/ DownWritten(c) \/ UpWriteFails(c)
  \/ ClientLeaves(c) \/ RemoteCloses(c)

Next == \E c \in Conns : ServerStep(c) \/ UpEnds(c) \/ PeerStep(c)

Spec == Init /\ [][Next]_vars

(***************************************************************************)
(* The runtime schedules every goroutine, timers fire, keepalive notices a *)
(* dead path.  No client and no target has to speak, to read or to close:  *)
(* the copies may stay in a write to a peer that is there.                 *)
(***************************************************************************)
UpUnblocked(c) == UpEnds(c) /\ remote[c] # "open"

FairSpec ==
  Spec /\ \A c \in Conns : WF_vars(ServerStep(c)) /\ WF_vars(UpUnblocked(c))

-----------------------------------------------------------------------------
(***************************************************************************)
(* active counts exactly the handlers between their start and their last   *)
(* deferred call, on every return path: a slot can neither be lost nor     *)
(* given back twice (server.go:129-133).                                   *)
(***************************************************************************)
ActiveIsExact == active = Cardinality({c \in Conns : pc[c] \in Counted})

(***************************************************************************)
(* The connection to the target never outlives its handler, whichever way  *)
(* the handler returns (server.go:187-191).                                *)
(***************************************************************************)
RemoteIsOwned == \A c \in Conns : remote[c] # "none" => pc[c] \in {"relay", "close"}

(***************************************************************************)
(* Whatever a client does, the handshake ends: in a tunnel, or with the    *)
(* slot given back (server.go:141-142, 177-186).                           *)
(***************************************************************************)
Handshake == {"spawned", "mac", "quota", "target", "dial"}
HandshakeEnds ==
  \A c \in Conns : pc[c] \in Handshake ~> pc[c] \in {"relay", "dns", "idle"}

(***************************************************************************)
(* When the target closes, the tunnel ends and gives back everything: the  *)
(* slot, both connections and the upstream goroutine, although that one    *)
(* may be blocked reading from a silent client (server.go:197-206), unless *)
(* the client stays and never reads what it was sent: a write to it has no *)
(* deadline (server.go:192), so it holds the slot as long as it likes.     *)
(***************************************************************************)
Released(c) == pc[c] # "relay" /\ up[c] = "off"
HeldByClient(c) == writing[c] /\ client[c] = "there"

RemoteEndReleases ==
  \A c \in Conns :
    (pc[c] = "relay" /\ remote[c] = "closed") ~> (Released(c) \/ []HeldByClient(c))
=============================================================================
