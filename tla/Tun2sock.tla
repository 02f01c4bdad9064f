------------------------------- MODULE Tun2sock -------------------------------
(***************************************************************************)
(* What runs inside a mobile engine: the goroutines that Serve starts for  *)
(* TCP connections and DNS queries (tun2sock/tun2sock.go), and the channel *)
(* on which every new socket is shown to the host application before it    *)
(* connects (tunnel/protect.go), so that it does not lead back into the    *)
(* tun device.  The tunnel dialer and the direct one have a protector      *)
(* each.  A flow's number is also the descriptor of its socket, which the  *)
(* next flow uses again; host and server may never answer.  An engine that *)
(* was started without the path of a channel (Android) marks nothing.      *)
(***************************************************************************)
EXTENDS Integers, Sequences, FiniteSets

CONSTANTS Flows, None

ASSUME TunAssumption == None \notin Flows

Dialers == {"tunnel", "direct"}

VARIABLES
  path,      \* the engine was given the path of the host's channel
  serve,     \* Serve: "on", or how it returned
  flow,      \* where the goroutine of each flow is
  aborted,   \* whether the endpoints towards the applications were aborted
  conn,      \* protector.conn: requests, answers, and whether its deadline passed
  holder,    \* who holds protector.mu
  protected  \* sockets the host has marked

vars == <<path, serve, flow, aborted, conn, holder, protected>>

\* att: the second TLS attempt, or the second resolver; try: protect's second send.
NoFlow == [pc |-> "none", kind |-> "tcp", dialer |-> "direct", att |-> 1, try |-> 1]
Fresh == [req |-> <<>>, ack |-> <<>>, late |-> FALSE]

\* "dial": before the mutex of the protector; "connect": after it; "relay": the
\* copy towards the server reads; "write": it writes, to a server that must read.
Places == {"none", "dial", "send", "ack", "connect", "relay", "write"}
FlowStates ==
  [pc : Places, kind : {"tcp", "dns"}, dialer : Dialers, att : {1, 2}, try : {1, 2}]
Channels == [req : Seq(Flows), ack : Seq({"o", "k", "e", "r"}), late : BOOLEAN]

TypeOK ==
  /\ path \in BOOLEAN
  /\ serve \in {"on", "cancelled", "failed"}
  /\ flow \in [Flows -> FlowStates]
  /\ aborted \in BOOLEAN
  /\ protected \subseteq Flows
  /\ conn \in [Dialers -> Channels \cup {None}]
  /\ holder \in [Dialers -> Flows \cup {None}]

Init ==
  /\ path \in BOOLEAN
  /\ serve = "on"
  /\ flow = [f \in Flows |-> NoFlow]
  /\ aborted = FALSE /\ protected = {}
  /\ conn = [d \in Dialers |-> None]
  /\ holder = [d \in Dialers |-> None]

At(f, pc) == flow[f].pc = pc
Of(f) == flow[f].dialer
Goes(f, pc) == flow' = [flow EXCEPT ![f].pc = pc]

-----------------------------------------------------------------------------
(***************************************************************************)
(* A flow begins: a fake or foreign address is dialled through the tunnel, *)
(* a CN one directly.  A DNS query outside the list goes to the resolvers  *)
(* directly; the rest is answered or refused on the spot and has no dial.  *)
(***************************************************************************)
Begins(f, kind, d) ==
  /\ serve = "on" /\ At(f, "none")
  /\ flow' = [flow EXCEPT ![f] = [NoFlow EXCEPT !.pc = "dial", !.kind = kind, !.dialer = d]]
  /\ UNCHANGED <<path, serve, aborted, conn, holder, protected>>

TCP(f) == \E d \in Dialers : Begins(f, "tcp", d)
DNS(f) == Begins(f, "dns", "direct")

\* The flow is over and its sockets are closed.
Over(f) ==
  /\ flow' = [flow EXCEPT ![f] = NoFlow]
  /\ protected' = protected \ {f}

\* The dial fails; the socket is closed.
Fails(f) ==
  IF flow[f].att = 1 /\ (flow[f].kind = "dns" \/ Of(f) = "tunnel")
  THEN /\ flow' = [flow EXCEPT ![f].pc = "dial", ![f].att = 2, ![f].try = 1]
       /\ protected' = protected \ {f}
  ELSE Over(f)

(***************************************************************************)
(* protect: at most two sends under the mutex, the second on a new         *)
(* connection.  A connection has one deadline, set when it is made.        *)
(* Without a path the dialer has no protector (client.go:79, 106).         *)
(***************************************************************************)
NotProtected(f) ==
  /\ At(f, "dial") /\ ~ path
  /\ Goes(f, "connect")
  /\ UNCHANGED <<path, serve, aborted, conn, holder, protected>>

Lock(f) ==
  /\ At(f, "dial") /\ path /\ holder[Of(f)] = None
  /\ holder' = [holder EXCEPT ![Of(f)] = f]
  /\ flow' = [flow EXCEPT ![f].pc = "send", ![f].try = 1]
  /\ UNCHANGED <<path, serve, aborted, conn, protected>>

Conn(d) == IF conn[d] = None THEN Fresh ELSE conn[d]

SendRefreshing(f) ==  \* mutant: the deadline is set again for every send
  /\ At(f, "send")
  /\ conn' = [conn EXCEPT ![Of(f)] =
       [Conn(Of(f)) EXCEPT !.req = Append(@, f), !.late = FALSE]]
  /\ Goes(f, "ack")
  /\ UNCHANGED <<path, serve, aborted, holder, protected>>

Send(f) ==
  /\ At(f, "send") /\ ~ Conn(Of(f)).late
  /\ conn' = [conn EXCEPT ![Of(f)] = [Conn(Of(f)) EXCEPT !.req = Append(@, f)]]
  /\ Goes(f, "ack")
  /\ UNCHANGED <<path, serve, aborted, holder, protected>>

Ok == <<"o", "k">>
Err == <<"e", "r", "r">>

\* Two bytes are read of what the host has answered; the rest stays on a
\* connection that is kept, for whoever reads from it next.
Answered(f, ok) ==
  LET c == conn[Of(f)] IN
  At(f, "ack") /\ c # None /\ ~ c.late /\ Len(c.ack) >= 2 /\ ok = (SubSeq(c.ack, 1, 2) = Ok)

WithoutAnswer(c) == [c EXCEPT !.ack = SubSeq(@, 3, Len(@))]

Acked(f) ==
  /\ Answered(f, TRUE)
  /\ conn' = [conn EXCEPT ![Of(f)] = WithoutAnswer(@)]
  /\ holder' = [holder EXCEPT ![Of(f)] = None]
  /\ flow' = [flow EXCEPT ![f].pc = "connect", ![f].try = 1]
  /\ UNCHANGED <<path, serve, aborted, protected>>

(***************************************************************************)
(* The host is not there, the connection broke or is past its deadline, or *)
(* the answer is not ok.  The first time it is closed, the second kept.    *)
(***************************************************************************)
SendFails(f) ==
  LET d == Of(f) IN
  /\ \/ At(f, "send")
     \/ At(f, "ack") /\ (conn[d] = None \/ conn[d].late)
     \/ Answered(f, FALSE)
  /\ IF flow[f].try = 1
     THEN /\ conn' = [conn EXCEPT ![d] = None]
          /\ flow' = [flow EXCEPT ![f].pc = "send", ![f].try = 2]
          /\ UNCHANGED <<holder, protected>>
     ELSE /\ conn' = [conn EXCEPT ![d] =
               IF Answered(f, FALSE) THEN WithoutAnswer(@) ELSE @]
          /\ holder' = [holder EXCEPT ![d] = None]
          /\ Fails(f)
  /\ UNCHANGED <<path, serve, aborted>>

\* The host reads a descriptor, marks the socket or cannot, and answers: two
\* bytes or three, one write each (VpnAbility.ets:126-140).  What is answered to
\* a connection past its deadline is never read.
Host(d) ==
  /\ conn[d] # None /\ conn[d].req # <<>>
  /\ \E ok \in BOOLEAN :
       /\ conn' = [conn EXCEPT ![d].req = Tail(@),
                               ![d].ack = IF conn[d].late THEN <<>>
                                          ELSE @ \o (IF ok THEN Ok ELSE Err)]
       /\ protected' = IF ok THEN protected \cup {Head(conn[d].req)} ELSE protected
  /\ UNCHANGED <<path, serve, flow, aborted, holder>>

DeadlineNever(d) == FALSE /\ UNCHANGED vars  \* mutant: no deadline is set

Deadline(d) ==
  /\ conn[d] # None /\ ~ conn[d].late
  /\ conn' = [conn EXCEPT ![d].late = TRUE, ![d].ack = <<>>]
  /\ UNCHANGED <<path, serve, flow, aborted, holder, protected>>

-----------------------------------------------------------------------------
(***************************************************************************)
(* The connection is made or not: the dialer's and the handshake's own     *)
(* deadlines end it, and the server answers (see Tunnel) or goes away.  A  *)
(* DNS query is over with its answer; a connection is relayed until either *)
(* of its ends closes.                                                     *)
(***************************************************************************)
Connects(f) ==
  /\ At(f, "connect")
  /\ \/ /\ flow[f].kind = "tcp"
        /\ flow' = [flow EXCEPT ![f] = [NoFlow EXCEPT !.pc = "relay"]]
        /\ UNCHANGED protected
     \/ flow[f].kind = "dns" /\ Over(f)
     \/ Fails(f)
  /\ UNCHANGED <<path, serve, aborted, conn, holder>>

(***************************************************************************)
(* relay: two copies, and the first to end closes both connections.  The   *)
(* copy towards the server reads what the application sends, or what an    *)
(* aborted endpoint still holds of it, and writes it; a server that does   *)
(* not read keeps it there.  The other copy ends when the server closes.   *)
(***************************************************************************)
UpReads(f) ==
  At(f, "relay") /\ Goes(f, "write") /\ UNCHANGED <<path, serve, aborted, conn, holder, protected>>

UpWritten(f) ==
  At(f, "write") /\ Goes(f, "relay") /\ UNCHANGED <<path, serve, aborted, conn, holder, protected>>

RelayEnds(f) ==
  flow[f].pc \in {"relay", "write"} /\ Over(f) /\ UNCHANGED <<path, serve, aborted, conn, holder>>

\* The copy that reads from the application finds its endpoint gone.
RelayAborted(f) == At(f, "relay") /\ aborted /\ RelayEnds(f)

(***************************************************************************)
(* Serve returns.  When the context is done it aborts every endpoint; when *)
(* the device fails it only closes the stack, and whether a connection     *)
(* notices that is the stack's affair.                                     *)
(***************************************************************************)
CancelledClosing ==  \* mutant: the endpoints are not aborted
  /\ serve = "on" /\ serve' = "cancelled"
  /\ UNCHANGED <<path, flow, aborted, conn, holder, protected>>

Cancelled ==
  /\ serve = "on" /\ serve' = "cancelled"
  /\ aborted' = TRUE
  /\ UNCHANGED <<path, flow, conn, holder, protected>>

DeviceFails ==
  /\ serve = "on" /\ serve' = "failed"
  /\ UNCHANGED <<path, flow, aborted, conn, holder, protected>>

FlowStep(f) ==
  NotProtected(f) \/ Send(f) \/ Acked(f) \/ SendFails(f) \/ Connects(f)

Next ==
  \/ Cancelled \/ DeviceFails
  \/ \E f \in Flows :
       \/ TCP(f) \/ DNS(f) \/ Lock(f) \/ FlowStep(f)
       \/ UpReads(f) \/ UpWritten(f) \/ RelayAborted(f) \/ RelayEnds(f)
  \/ \E d \in Dialers : Host(d) \/ Deadline(d)

Spec == Init /\ [][Next]_vars

(***************************************************************************)
(* Goroutines are scheduled, a deadline passes, and a goroutine that waits *)
(* for a mutex that is freed again and again gets it (Go's mutex hands     *)
(* itself to one that has waited for a millisecond).  What an aborted      *)
(* endpoint holds runs out, so a copy that reads from it again and again   *)
(* comes to its end.  Nobody has to open or close a connection, to read    *)
(* from one, to answer as the host, or to stop the engine.                 *)
(***************************************************************************)
FairSpec ==
  /\ Spec
  /\ \A f \in Flows : WF_vars(FlowStep(f)) /\ SF_vars(Lock(f)) /\ SF_vars(RelayAborted(f))
  /\ \A d \in Dialers : WF_vars(Deadline(d))

-----------------------------------------------------------------------------
(***************************************************************************)
(* No socket connects, and none carries data, before the host has marked   *)
(* it: the ok that protect has read answers its own request, whatever was  *)
(* sent before it, timed out, retried, refused with one byte more than is  *)
(* read, or left unread (protect.go:26-58).  An engine that was given no   *)
(* path promises nothing.                                                  *)
(***************************************************************************)
AckedMeansProtected ==
  path => \A f \in Flows : flow[f].pc \in {"connect", "relay", "write"} => f \in protected

(***************************************************************************)
(* Every dial ends, connected or not, however many queue for one protector *)
(* and although the host never answers (protect.go:26-55): no flow stays   *)
(* between the start of its dial and its end.                              *)
(***************************************************************************)
DialsEnd == \A f \in Flows : []<>(flow[f].pc \in {"none", "relay", "write"})

(***************************************************************************)
(* Once a cancelled Serve has returned, every goroutine it had started for *)
(* a flow ends and closes its connection, also one that was still dialling *)
(* or waiting for the host (tun2sock.go:170-178); only one that writes to  *)
(* a server which never reads again and never closes may stay in relay for *)
(* ever (tun2sock.go:185-200).                                             *)
(***************************************************************************)
FlowsEnd ==
  \A f \in Flows :
    <>[](serve = "cancelled") => <>[]At(f, "none") \/ <>[]At(f, "write")
=============================================================================
