-------------------------------- MODULE Stream --------------------------------
(***************************************************************************)
(* The bytes of one proxied connection: the local proxy's negotiation with *)
(* the application and its relay (tunnel/client.go), and the WebSocket     *)
(* frames they travel in (ws/ws.go).  The negotiation reads through a      *)
(* bufio.Reader, which may take in data the application sent ahead.  Two   *)
(* goroutines of the client write frames: the one that copies upwards, and *)
(* the one that copies downwards, which answers pings.  A frame is written *)
(* in two pieces, its head and its payload, under the mutex wmu.           *)
(***************************************************************************)
EXTENDS Integers, Sequences, SequencesExt

CONSTANTS
  Data,   \* bytes the application sends
  Reply,  \* bytes the target sends
  Pings   \* control frames the other side of the WebSocket sends

ASSUME StreamAssumption == {Data, Reply, Pings} \subseteq Nat

VARIABLES
  said, eof,  \* how far the application is in its script; it has closed
  sock, br,   \* its bytes in the socket, and in the bufio.Reader
  st,         \* handleClientConn
  toApp,      \* what the application has received
  conn, tun,  \* is the client's end of each connection open?
  up, pend,   \* the upward copy, and what it has read
  down, rest, \* the downward copy, and Conn.remain
  wire,       \* pieces of frames on their way to the server
  target,     \* what the target has received
  frames,     \* frames on their way to the client
  srv         \* bytes and control frames the server has sent; is its end open?

appVars == <<said, eof, sock>>
upVars == <<up, pend>>
downVars == <<down, rest>>
srvVars == <<target, frames, srv>>
streamVars == <<appVars, br, st, toApp, conn, tun, upVars, downVars, wire, srvVars>>

Chunks(s) == 1 .. Len(s)
Take(s, k) == SubSeq(s, 1, k)
Drop(s, k) == SubSeq(s, k + 1, Len(s))

\* SOCKS5 greeting and request, or CONNECT line and headers; then data.
Byte(k) == [b |-> k]
Head2(op, len) == [op |-> op, len |-> len]
Greeting == Byte(-2)
Request == Byte(-1)
Script == <<Greeting, Request>> \o [k \in 1 .. Data |-> Byte(k)]
SentData == Drop(Take(Script, said), 2)

Choice == Byte(-3)    \* the method chosen
Granted == Byte(-4)   \* the target is reached
Refused == Byte(-5)   \* it is not, or the request is not understood
Downward == [k \in 1 .. Reply |-> Byte(k)]

Bytes == [b : Int]
Heads == [op : {"data", "pong"}, len : Nat]
\* "close": a close frame, or one of a kind that is not supported.
Frames == [op : {"data", "ping", "pong", "close"}, payload : Seq(Bytes)]

StreamTypeOK ==
  /\ said \in 0 .. Data + 2
  /\ eof \in BOOLEAN /\ conn \in BOOLEAN /\ tun \in BOOLEAN
  /\ sock \in Seq(Bytes) /\ br \in Seq(Bytes) /\ pend \in Seq(Bytes)
  /\ toApp \in Seq(Bytes) /\ rest \in Seq(Bytes) /\ target \in Seq(Bytes)
  /\ st \in {"greet", "request", "dial", "relay", "closed"}
  /\ up \in {"off", "read", "write", "body", "done"}
  /\ down \in {"off", "read", "pong", "pongbody", "done"}
  /\ wire \in Seq(Bytes \cup Heads) /\ frames \in Seq(Frames)
  /\ srv \in [bytes : 0 .. Reply, pings : 0 .. Pings, open : BOOLEAN]

StreamInit ==
  /\ said = 0 /\ eof = FALSE /\ sock = <<>> /\ br = <<>>
  /\ st = "greet" /\ toApp = <<>>
  /\ conn = TRUE /\ tun = FALSE
  /\ up = "off" /\ pend = <<>> /\ down = "off" /\ rest = <<>>
  /\ wire = <<>> /\ target = <<>> /\ frames = <<>>
  /\ srv = [bytes |-> 0, pings |-> 0, open |-> TRUE]

-----------------------------------------------------------------------------
(***************************************************************************)
(* The application.                                                        *)
(***************************************************************************)
AppSpeaks ==
  /\ ~ eof /\ conn /\ said < Len(Script)
  /\ said' = said + 1
  /\ sock' = Append(sock, Script[said + 1])
  /\ UNCHANGED <<eof, br, st, toApp, conn, tun, upVars, downVars, wire, srvVars>>

AppLeaves ==
  /\ ~ eof
  /\ eof' = TRUE
  /\ UNCHANGED <<said, sock, br, st, toApp, conn, tun, upVars, downVars, wire, srvVars>>

-----------------------------------------------------------------------------
(***************************************************************************)
(* socks5Proxy and httpConnectProxy.  Fill: the reader takes in what the   *)
(* socket has, as much as has arrived.                                     *)
(***************************************************************************)
Negotiating == st \in {"greet", "request"}

Fill ==
  /\ Negotiating /\ conn /\ br = <<>> /\ sock # <<>>
  /\ \E k \in Chunks(sock) : br' = Take(sock, k) /\ sock' = Drop(sock, k)
  /\ UNCHANGED <<said, eof, st, toApp, conn, tun, upVars, downVars, wire, srvVars>>

\* Only SOCKS5 answers the greeting.
Greets ==
  /\ st = "greet" /\ br # <<>>
  /\ br' = Tail(br)
  /\ st' = "request"
  /\ toApp' \in {toApp, Append(toApp, Choice)}
  /\ UNCHANGED <<appVars, conn, tun, upVars, downVars, wire, srvVars>>

Requested ==
  /\ st = "request" /\ br # <<>>
  /\ br' = Tail(br)
  /\ st' = "dial"
  /\ UNCHANGED <<appVars, toApp, conn, tun, upVars, downVars, wire, srvVars>>

Reached ==
  /\ st = "dial"
  /\ st' = "relay" /\ toApp' = Append(toApp, Granted)
  /\ tun' = TRUE /\ up' = "read" /\ down' = "read"
  /\ UNCHANGED <<appVars, br, conn, pend, rest, wire, srvVars>>

Refuse ==
  /\ st = "dial" \/ (Negotiating /\ br # <<>>)
  /\ st' = "closed" /\ conn' = FALSE
  /\ toApp' = Append(toApp, Refused)
  /\ UNCHANGED <<appVars, br, tun, upVars, downVars, wire, srvVars>>

\* A CONNECT whose headers break off is dialled all the same.
Abandoned ==
  /\ Negotiating /\ br = <<>> /\ sock = <<>> /\ eof
  /\ \/ st' = "closed" /\ conn' = FALSE
     \/ st = "request" /\ st' = "dial" /\ UNCHANGED conn
  /\ UNCHANGED <<appVars, br, toApp, tun, upVars, downVars, wire, srvVars>>

-----------------------------------------------------------------------------
(***************************************************************************)
(* relay, upwards: read through bufConn, which empties the reader first;   *)
(* write a frame.                                                          *)
(***************************************************************************)
UpReadsSocket ==  \* mutant: relay(c, rc) instead of relay(&bufConn{c, br}, rc)
  /\ up = "read" /\ conn /\ sock # <<>>
  /\ \E k \in Chunks(sock) : pend' = Take(sock, k) /\ sock' = Drop(sock, k)
  /\ up' = "write"
  /\ UNCHANGED <<said, eof, br, st, toApp, conn, tun, downVars, wire, srvVars>>

UpReads ==
  /\ up = "read" /\ conn /\ br \o sock # <<>>
  /\ \/ /\ br # <<>> /\ UNCHANGED sock
        /\ \E k \in Chunks(br) : pend' = Take(br, k) /\ br' = Drop(br, k)
     \/ /\ br = <<>> /\ UNCHANGED br
        /\ \E k \in Chunks(sock) : pend' = Take(sock, k) /\ sock' = Drop(sock, k)
  /\ up' = "write"
  /\ UNCHANGED <<said, eof, st, toApp, conn, tun, downVars, wire, srvVars>>

NoMutex == TRUE  \* mutant: writeFrame does not lock wmu

\* wmu is held between the two pieces.
WmuFree == up # "body" /\ down # "pongbody"

UpHead ==
  /\ up = "write" /\ tun /\ WmuFree
  /\ wire' = Append(wire, Head2("data", Len(pend)))
  /\ up' = "body"
  /\ UNCHANGED <<appVars, br, st, toApp, conn, tun, pend, downVars, srvVars>>

UpBody ==
  /\ up = "body" /\ tun
  /\ wire' = wire \o pend
  /\ up' = "read" /\ pend' = <<>>
  /\ UNCHANGED <<appVars, br, st, toApp, conn, tun, downVars, srvVars>>

UpOver ==
  \/ up = "read" /\ (~ conn \/ (eof /\ br \o sock = <<>>))
  \/ up \in {"write", "body"} /\ (~ tun \/ ~ srv.open)

UpEndsAlone ==  \* mutant: the goroutine closes neither end
  /\ UpOver
  /\ up' = "done"
  /\ UNCHANGED <<appVars, br, st, toApp, conn, tun, pend, downVars, wire, srvVars>>

UpEnds ==
  /\ UpOver
  /\ up' = "done" /\ conn' = FALSE /\ tun' = FALSE
  /\ UNCHANGED <<appVars, br, st, toApp, pend, downVars, wire, srvVars>>

-----------------------------------------------------------------------------
(***************************************************************************)
(* relay, downwards: Conn.Read hands out what is left of a frame, skips    *)
(* pongs and answers pings; a close frame, or one of another kind, is an   *)
(* error of the read.  When the copy ends the handler returns.             *)
(***************************************************************************)
Delivers(s) ==
  \E k \in Chunks(s) : toApp' = toApp \o Take(s, k) /\ rest' = Drop(s, k)

DownRest ==
  /\ down = "read" /\ conn /\ rest # <<>>
  /\ Delivers(rest)
  /\ UNCHANGED <<appVars, br, st, conn, tun, upVars, down, wire, srvVars>>

DownFrame ==
  /\ down = "read" /\ conn /\ tun /\ rest = <<>> /\ frames # <<>>
  /\ frames' = Tail(frames)
  /\ \/ Head(frames).op = "data" /\ Delivers(Head(frames).payload) /\ UNCHANGED down
     \/ Head(frames).op = "ping" /\ down' = "pong" /\ UNCHANGED <<toApp, rest>>
     \/ Head(frames).op = "pong" /\ UNCHANGED <<toApp, downVars>>
  /\ UNCHANGED <<appVars, br, st, conn, tun, upVars, wire, target, srv>>

PongHead ==
  /\ down = "pong" /\ tun /\ WmuFree
  /\ wire' = Append(wire, Head2("pong", 1))
  /\ down' = "pongbody"
  /\ UNCHANGED <<appVars, br, st, toApp, conn, tun, upVars, rest, srvVars>>

PongBody ==
  /\ down = "pongbody" /\ tun
  /\ wire' = Append(wire, Byte(0))
  /\ down' = "read"
  /\ UNCHANGED <<appVars, br, st, toApp, conn, tun, upVars, rest, srvVars>>

DownOver ==
  /\ down \in {"read", "pong", "pongbody"}
  /\ \/ ~ conn \/ ~ tun
     \/ rest = <<>> /\ frames = <<>> /\ ~ srv.open
     \/ down = "read" /\ rest = <<>> /\ frames # <<>> /\ Head(frames).op = "close"

DownEnds ==
  /\ DownOver
  /\ down' = "done" /\ st' = "closed"
  /\ conn' = FALSE /\ tun' = FALSE
  /\ UNCHANGED <<appVars, br, toApp, upVars, rest, wire, srvVars>>

-----------------------------------------------------------------------------
(***************************************************************************)
(* The other end: reads a frame when all of it is there, sends frames, and *)
(* ends at any time.  What a closed connection had not delivered is lost.  *)
(***************************************************************************)
SrvReads ==
  /\ srv.open /\ wire # <<>> /\ "len" \in DOMAIN Head(wire)
  /\ Len(wire) > Head(wire).len
  /\ LET n == Head(wire).len IN
       /\ target' = IF Head(wire).op = "data" THEN target \o Take(Tail(wire), n) ELSE target
       /\ wire' = Drop(wire, n + 1)
  /\ UNCHANGED <<appVars, br, st, toApp, conn, tun, upVars, downVars, frames, srv>>

SrvSends ==
  /\ srv.open /\ tun
  /\ \/ \E k \in srv.bytes + 1 .. Reply :
          /\ frames' = Append(frames, [op |-> "data",
                                       payload |-> SubSeq(Downward, srv.bytes + 1, k)])
          /\ srv' = [srv EXCEPT !.bytes = k]
     \/ /\ srv.pings < Pings
        /\ \E op \in {"ping", "pong", "close"} :
             frames' = Append(frames, [op |-> op, payload |-> <<>>])
        /\ srv' = [srv EXCEPT !.pings = @ + 1]
  /\ UNCHANGED <<appVars, br, st, toApp, conn, tun, upVars, downVars, wire, target>>

SrvEnds ==
  /\ srv.open /\ down # "off"
  /\ srv' = [srv EXCEPT !.open = FALSE]
  /\ \E k \in 0 .. Len(frames) : frames' = Take(frames, k)
  /\ UNCHANGED <<appVars, br, st, toApp, conn, tun, upVars, downVars, wire, target>>

ProxyStep ==
  \/ Fill \/ Greets \/ Requested \/ Reached \/ Refuse \/ Abandoned
  \/ UpReads \/ UpHead \/ UpBody \/ UpEnds
  \/ DownRest \/ DownFrame \/ PongHead \/ PongBody \/ DownEnds

StreamNext == AppSpeaks \/ AppLeaves \/ ProxyStep \/ SrvReads \/ SrvSends \/ SrvEnds

StreamSpec == StreamInit /\ [][StreamNext]_streamVars

(***************************************************************************)
(* The three goroutines of the connection and the server's reader are      *)
(* scheduled; nobody has to send, to close or to end.                      *)
(***************************************************************************)
StreamFairSpec ==
  /\ StreamSpec
  /\ WF_streamVars(Fill \/ Greets \/ Requested \/ Reached \/ Refuse \/ Abandoned)
  /\ WF_streamVars(UpReads) /\ WF_streamVars(UpHead)
  /\ WF_streamVars(UpBody) /\ WF_streamVars(UpEnds)
  /\ WF_streamVars(DownRest \/ DownFrame) /\ WF_streamVars(DownEnds)
  /\ WF_streamVars(PongHead) /\ WF_streamVars(PongBody)
  /\ WF_streamVars(SrvReads)

-----------------------------------------------------------------------------
(***************************************************************************)
(* Both ends get what the other has sent, in order, without a gap and      *)
(* without a byte of the negotiation or of a frame: the target a prefix of *)
(* the application's data, the application the answer to its request and   *)
(* then a prefix of the target's (client.go:212-213, 279-290, ws.go:33-144)*)
(***************************************************************************)
Carried ==
  /\ IsPrefix(target, SentData)
  /\ \E hello \in {<<>>, <<Choice>>} :
       \/ IsPrefix(toApp, hello \o <<Granted>> \o Downward)
       \/ toApp = Append(hello, Refused)

(***************************************************************************)
(* Every byte the application has sent arrives, also what it sent before   *)
(* the proxy answered, unless the connection is closed: the reader's       *)
(* leftovers are not forgotten (client.go:283-290).                        *)
(***************************************************************************)
DataArrives ==
  \A k \in 1 .. Data :
    Len(SentData) = k ~> Len(target) >= k \/ ~ conn \/ ~ srv.open

(***************************************************************************)
(* When one direction ends, the other does too and both connections are    *)
(* closed (client.go:292-306).                                             *)
(***************************************************************************)
BothEnd ==
  (up = "done" \/ down = "done")
    ~> (up = "done" /\ down = "done" /\ ~ conn /\ ~ tun)
=============================================================================
