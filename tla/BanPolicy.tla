----------------------------- MODULE BanPolicy -----------------------------
(***************************************************************************)
(* What the server's ban table promises (server/protection.go), with no    *)
(* table: for each address a strike count, the time since the last strike  *)
(* and the time left of its ban.  An address with no history and one whose *)
(* history has aged out are the same state here, so nothing of the bounded *)
(* table (creation, pruning, absolute times) is visible.  BanList is shown *)
(* to implement this specification.                                        *)
(***************************************************************************)
EXTENDS Integers

CONSTANTS
  IPs,          \* remote addresses
  Conns,        \* connection slots: handler goroutines that can be in flight
  Threshold,    \* banThreshold
  BanDuration,  \* banDuration, in ticks
  BanWindow     \* banWindow, in ticks

NoIP == "none"

VARIABLES
  on,       \* the ban switch
  strikes,  \* failures counted towards the next ban of each address
  quiet,    \* ticks since the last failure, up to BanWindow + 1
  left,     \* ticks until the address is admitted again
  client    \* the address of each connection that is authenticating

vars == <<on, strikes, quiet, left, client>>

Forgotten == BanWindow + 1

Init ==
  /\ on = TRUE
  /\ strikes = [i \in IPs |-> 0]
  /\ quiet = [i \in IPs |-> Forgotten]
  /\ left = [i \in IPs |-> 0]
  /\ client = [c \in Conns |-> NoIP]

Shunned(ip) == on /\ left[ip] > 0

(***************************************************************************)
(* The accept loop hands a connection to a handler only when its address   *)
(* is not banned at that moment.                                           *)
(***************************************************************************)
Admit(c, ip) ==
  /\ client[c] = NoIP
  /\ ~ Shunned(ip)
  /\ client' = [client EXCEPT ![c] = ip]
  /\ UNCHANGED <<on, strikes, quiet, left>>

Strike(ip) ==
  LET s == strikes[ip] + 1
  IN  /\ strikes' = [strikes EXCEPT ![ip] = IF s >= Threshold THEN 0 ELSE s]
      /\ quiet' = [quiet EXCEPT ![ip] = 0]
      /\ left' = [left EXCEPT ![ip] = IF s >= Threshold THEN BanDuration ELSE @]

Fail(c) ==
  /\ client[c] # NoIP
  /\ client' = [client EXCEPT ![c] = NoIP]
  /\ IF on THEN Strike(client[c]) ELSE UNCHANGED <<strikes, quiet, left>>
  /\ UNCHANGED on

Succeed(c) ==
  /\ client[c] # NoIP
  /\ client' = [client EXCEPT ![c] = NoIP]
  /\ strikes' = [strikes EXCEPT ![client[c]] = 0]
  /\ quiet' = [quiet EXCEPT ![client[c]] = Forgotten]
  /\ left' = [left EXCEPT ![client[c]] = 0]
  /\ UNCHANGED on

Leave(c) ==
  /\ client[c] # NoIP
  /\ client' = [client EXCEPT ![c] = NoIP]
  /\ UNCHANGED <<on, strikes, quiet, left>>

Flip ==
  /\ on' \in BOOLEAN
  /\ UNCHANGED <<strikes, quiet, left, client>>

Forget ==
  /\ strikes' = [i \in IPs |-> 0]
  /\ quiet' = [i \in IPs |-> Forgotten]
  /\ left' = [i \in IPs |-> 0]

Wipe ==
  /\ Forget
  /\ UNCHANGED <<on, client>>

Restart ==
  /\ on' \in BOOLEAN
  /\ Forget
  /\ client' = [c \in Conns |-> NoIP]

Tick ==
  /\ quiet' = [i \in IPs |-> IF quiet[i] < Forgotten THEN quiet[i] + 1 ELSE Forgotten]
  /\ strikes' = [i \in IPs |-> IF quiet[i] + 1 > BanWindow THEN 0 ELSE strikes[i]]
  /\ left' = [i \in IPs |-> IF left[i] > 0 THEN left[i] - 1 ELSE 0]
  /\ UNCHANGED <<on, client>>

Next ==
  \/ \E c \in Conns, ip \in IPs : Admit(c, ip)
  \/ \E c \in Conns : Fail(c) \/ Succeed(c) \/ Leave(c)
  \/ Flip \/ Wipe \/ Restart \/ Tick

Spec == Init /\ [][Next]_vars
=============================================================================
