-------------------------------- MODULE Names --------------------------------
(***************************************************************************)
(* How a name is routed and resolved, end to end.  The local proxy's       *)
(* router (tunnel/route.go) judges a name by an outside lookup and caches  *)
(* the verdict; the dialers ask the system's resolver, which may be the    *)
(* local forwarder (tunnel/dns.go); the forwarder sends the query through  *)
(* the tunnel, whose own dialer resolves the server's name; the server     *)
(* answers port 53 itself, from a cache or over UDP (server/dnsrelay.go).  *)
(* A thread is one connection or one query; its stack holds the calls it   *)
(* is in.  The program keeps deadlines: here an entry has the time left    *)
(* until its deadline, and the age of the answer it came from.             *)
(***************************************************************************)
EXTENDS Integers, Sequences, FiniteSets

CONSTANTS
  Threads,      \* connections and queries at a time; also the query's ID
  Hosts,        \* names that are judged and resolved
  Whitelist,    \* those that always take the tunnel
  Filtered,     \* questions for AAAA and HTTPS records
  Server,       \* the server's name ...
  ServerMixed,  \* ... and the same name in another case
  Asked,        \* what applications ask the forwarder by themselves
  Upstreams,    \* upstreams of the forwarder
  RouteTTL, RouteMax,  \* routeTTL, routeMaxSize
  RelayTTL, RelayMax,  \* 60 s, 4096
  LookupTime,   \* the longest a lookup outside takes
  None

ServerNames == {Server, ServerMixed}
Questions == Hosts \cup Filtered \cup ServerNames

ASSUME NamesAssumption ==
  /\ {Upstreams, RouteTTL, RelayTTL, LookupTime} \subseteq Nat \ {0}
  /\ RouteMax \in Nat \ {0} /\ RelayMax \in Nat
  /\ Hosts \cap (Filtered \cup ServerNames) = {} /\ Filtered \cap ServerNames = {}
  /\ Whitelist \subseteq Hosts /\ Asked \subseteq Questions
  /\ None \notin Questions

VARIABLES
  routes,  \* router.cache
  relay,   \* trafficServer.dnsCache
  stack,   \* the calls a thread is in, innermost first
  ret,     \* what the last call returned: an answer, success or failure
  held     \* an answer between its arrival and its use

vars == <<routes, relay, stack, ret, held>>

Ages == 0 .. RouteTTL + RelayTTL + LookupTime

\* n: the age of the verdict a dialer goes by; the forwarder's upstream.
Frames ==
  [op : {"dial", "judge", "direct", "connect", "tunnel", "reach",
         "forward", "await", "relay"},
   name : Questions \cup {None}, n : Ages \cup 1 .. Upstreams]

Answers == [id : Threads, q : Questions, age : Ages]
Verdicts == [direct : BOOLEAN, age : Ages]
Results == [st : {"none", "ok", "fail"}, ans : Answers \cup {None}]

\* left: until the deadline, which an entry of the router is not used at and one
\* of the relay still is.
Routes == [direct : BOOLEAN, age : Ages, left : 0 .. RouteTTL]
Relayed == [resp : Answers, left : -1 .. RelayTTL]

TypeOK ==
  /\ DOMAIN routes \subseteq Hosts /\ routes \in [DOMAIN routes -> Routes]
  /\ DOMAIN relay \subseteq Questions /\ relay \in [DOMAIN relay -> Relayed]
  /\ stack \in [Threads -> Seq(Frames)]
  /\ ret \in [Threads -> Results]
  /\ held \in [Threads -> Answers \cup Verdicts \cup {None}]

Result(st, ans) == [st |-> st, ans |-> ans]
NoResult == Result("none", None)
Ok == Result("ok", None)
Failure == Result("fail", None)

Init ==
  /\ routes = <<>> /\ relay = <<>>
  /\ stack = [t \in Threads |-> <<>>]
  /\ ret = [t \in Threads |-> NoResult]
  /\ held = [t \in Threads |-> None]

Frame(op, name, n) == [op |-> op, name |-> name, n |-> n]

Top(t) == Head(stack[t])
In(t, op) == stack[t] # <<>> /\ Top(t).op = op

\* Calling: the thread is in op and has no result of an inner call yet.
Calling(t, op) == In(t, op) /\ ret[t] = NoResult
Failed(t, op) == In(t, op) /\ ret[t] = Failure
Succeeded(t, op) == In(t, op) /\ ret[t].st = "ok"

Starts(t, op, name, n) ==
  /\ stack[t] = <<>>
  /\ stack' = [stack EXCEPT ![t] = <<Frame(op, name, n)>>]
  /\ ret' = [ret EXCEPT ![t] = NoResult]
Becomes(t, fs) == stack' = [stack EXCEPT ![t] = fs \o Tail(@)]
Returns(t, r) ==
  /\ stack' = [stack EXCEPT ![t] = Tail(@)]
  /\ ret' = [ret EXCEPT ![t] = IF Len(stack[t]) = 1 /\ r.ans = None THEN NoResult ELSE r]

\* Values entered into a map that is dropped when it is too big.
With(map, k, v) == [x \in DOMAIN map \cup {k} |-> IF x = k THEN v ELSE map[x]]

PutUnbounded(map, full, k, v) == With(map, k, v)  \* mutant: never dropped

Put(map, full, k, v) == With(IF full THEN <<>> ELSE map, k, v)

-----------------------------------------------------------------------------
(***************************************************************************)
(* The router: dial and decide.                                            *)
(***************************************************************************)
Connect(t, h) ==
  /\ Starts(t, "dial", h, 0)
  /\ UNCHANGED <<routes, relay, held>>

\* An IP literal is not looked up: what is not a CN IPv4 address takes the
\* tunnel.  (A CN one is dialled directly, which needs no name and no cache.)
ConnectLiteral(t) ==
  /\ Starts(t, "tunnel", None, 0)
  /\ UNCHANGED <<routes, relay, held>>

Dials(t, direct, age) ==
  Becomes(t, <<Frame(IF direct THEN "direct" ELSE "tunnel", Top(t).name, age)>>)

Fresh(h) == h \in DOMAIN routes /\ routes[h].left > 0

RouteWhite(t) ==
  /\ Calling(t, "dial") /\ Top(t).name \in Whitelist
  /\ Dials(t, FALSE, 0)
  /\ UNCHANGED <<routes, relay, ret, held>>

RouteHitSliding(t) ==  \* mutant: a hit prolongs the entry
  LET h == Top(t).name IN
  /\ Calling(t, "dial") /\ h \notin Whitelist /\ Fresh(h)
  /\ Dials(t, routes[h].direct, routes[h].age)
  /\ routes' = [routes EXCEPT ![h].left = RouteTTL]
  /\ UNCHANGED <<relay, ret, held>>

RouteHit(t) ==
  LET h == Top(t).name IN
  /\ Calling(t, "dial") /\ h \notin Whitelist /\ Fresh(h)
  /\ Dials(t, routes[h].direct, routes[h].age)
  /\ UNCHANGED <<routes, relay, ret, held>>

\* An expired entry is deleted, and the mutex released for the lookup ...
RouteMiss(t) ==
  LET h == Top(t).name IN
  /\ Calling(t, "dial") /\ h \notin Whitelist /\ ~ Fresh(h)
  /\ routes' = [k \in DOMAIN routes \ {h} |-> routes[k]]
  /\ Becomes(t, <<Frame("judge", h, 0)>>)
  /\ UNCHANGED <<relay, ret, held>>

\* ... cnResolve's error, or addresses: direct when there are some and all are
\* IPv4 ones of CN, the tunnel in every other case ...
Judged(t) ==
  /\ In(t, "judge") /\ held[t] = None
  /\ \E err \in BOOLEAN, ips \in SUBSET {"CN", "other"} :
       held' = [held EXCEPT ![t] = [direct |-> ~ err /\ ips = {"CN"}, age |-> 0]]
  /\ UNCHANGED <<routes, relay, stack, ret>>

\* ... which is stored whatever other threads have stored meanwhile.
RouteStore(t) ==
  LET h == Top(t).name IN
  /\ In(t, "judge") /\ held[t] # None
  /\ routes' = Put(routes, Cardinality(DOMAIN routes) >= RouteMax, h,
                   [direct |-> held[t].direct, age |-> held[t].age, left |-> RouteTTL])
  /\ Dials(t, held[t].direct, held[t].age)
  /\ held' = [held EXCEPT ![t] = None]
  /\ UNCHANGED <<relay, ret>>

-----------------------------------------------------------------------------
(***************************************************************************)
(* The dialers.  Both resolve a name by the system's resolver: it knows    *)
(* the address, or it asks the forwarder, in any case of letters.          *)
(***************************************************************************)
Resolve(t, op, then, qs) ==
  /\ Calling(t, op)
  /\ \/ /\ Becomes(t, <<Frame(then, Top(t).name, 0)>>)
        /\ ret' = [ret EXCEPT ![t] = Ok]
     \/ /\ \E q \in qs : Becomes(t, <<Frame("forward", q, 1), Frame(then, Top(t).name, 0)>>)
        /\ UNCHANGED ret
  /\ UNCHANGED <<routes, relay, held>>

DirectDial(t) == Resolve(t, "direct", "connect", {Top(t).name})
TunnelDial(t) == Resolve(t, "tunnel", "reach", ServerNames)

\* connect: the target.  reach: the server, up to its status byte.
Dialled(t) ==
  /\ \E op \in {"connect", "reach"} :
       \/ Succeeded(t, op) /\ Returns(t, Ok)
       \/ In(t, op) /\ ret[t] # NoResult /\ Returns(t, Failure)
  /\ UNCHANGED <<routes, relay, held>>

-----------------------------------------------------------------------------
(***************************************************************************)
(* The forwarder: the upstreams in turn, through the tunnel or, when the   *)
(* question is the server's name, directly.                                *)
(***************************************************************************)
Query(t, q) ==
  /\ Starts(t, "forward", q, 1)
  /\ UNCHANGED <<routes, relay, held>>

ExactlyServer(q) == q = Server  \* mutant: == instead of EqualFold

IsServer(q) == q \in ServerNames

Forward(t) ==
  LET f == Top(t) IN
  /\ Calling(t, "forward")
  /\ IF IsServer(f.name)
     THEN /\ Becomes(t, <<[f EXCEPT !.op = "await"]>>)
          /\ \E r \in {Ok, Failure} : ret' = [ret EXCEPT ![t] = r]
     ELSE /\ Becomes(t, <<Frame("tunnel", None, 0), [f EXCEPT !.op = "await"]>>)
          /\ UNCHANGED ret
  /\ UNCHANGED <<routes, relay, held>>

\* No connection, no answer, or a deadline: the next upstream, if any.
NextUpstream(t) ==
  LET f == Top(t) IN
  IF f.n < Upstreams
  THEN /\ Becomes(t, <<Frame("forward", f.name, f.n + 1)>>)
       /\ ret' = [ret EXCEPT ![t] = NoResult]
  ELSE Returns(t, Failure)

Connected(t) ==
  /\ Succeeded(t, "await")
  /\ \/ IsServer(Top(t).name) /\ Returns(t, Ok)
     \/ IsServer(Top(t).name) /\ NextUpstream(t)
     \/ /\ ~ IsServer(Top(t).name)
        /\ Becomes(t, <<[Top(t) EXCEPT !.op = "relay"]>>)
        /\ ret' = [ret EXCEPT ![t] = NoResult]
  /\ UNCHANGED <<routes, relay, held>>

Unreached(t) ==
  /\ Failed(t, "await")
  /\ NextUpstream(t)
  /\ UNCHANGED <<routes, relay, held>>

-----------------------------------------------------------------------------
(***************************************************************************)
(* The server's relay: an empty answer for filtered types, the cache with  *)
(* the ID rewritten, or an upstream of its own.                            *)
(***************************************************************************)
Relaying(t) == Calling(t, "relay") /\ held[t] = None

Hit(q) == q \in DOMAIN relay /\ relay[q].left >= 0

RelayHitAsIs(t) ==  \* mutant: the ID of the query that was cached
  LET q == Top(t).name IN
  /\ Relaying(t) /\ q \notin Filtered /\ Hit(q)
  /\ Returns(t, Result("ok", relay[q].resp))
  /\ UNCHANGED <<routes, relay, held>>

RelayHit(t) ==
  LET q == Top(t).name IN
  /\ Relaying(t) /\ q \notin Filtered /\ Hit(q)
  /\ Returns(t, Result("ok", [relay[q].resp EXCEPT !.id = t]))
  /\ UNCHANGED <<routes, relay, held>>

\* emptyAnswer echoes the question; an upstream answers the question asked.
RelayAsk(t) ==
  LET q == Top(t).name IN
  /\ Relaying(t) /\ (q \in Filtered \/ ~ Hit(q))
  /\ held' = [held EXCEPT ![t] = [id |-> t, q |-> q, age |-> 0]]
  /\ UNCHANGED <<routes, relay, stack, ret>>

RelayFails(t) ==
  /\ Relaying(t) /\ Top(t).name \notin Filtered /\ ~ Hit(Top(t).name)
  /\ NextUpstream(t)
  /\ UNCHANGED <<routes, relay, held>>

RelayPut(t) ==
  LET q == Top(t).name IN
  /\ Calling(t, "relay") /\ held[t] # None
  /\ relay' = Put(relay, Cardinality(DOMAIN relay) > RelayMax, q,
                  [resp |-> held[t], left |-> RelayTTL])
  /\ Returns(t, Result("ok", held[t]))
  /\ held' = [held EXCEPT ![t] = None]
  /\ UNCHANGED routes

-----------------------------------------------------------------------------
(***************************************************************************)
(* Time.  An outside lookup ends within LookupTime of its answer.          *)
(***************************************************************************)
Older(x) == [x EXCEPT !.age = IF @ + 1 \in Ages THEN @ + 1 ELSE @]

Tick ==
  /\ \A t \in Threads : held[t] # None => held[t].age < LookupTime
  /\ routes' = [h \in DOMAIN routes |->
       [Older(routes[h]) EXCEPT !.left = IF @ = 0 THEN 0 ELSE @ - 1]]
  /\ relay' = [q \in DOMAIN relay |->
       [resp |-> Older(relay[q].resp),
        left |-> IF relay[q].left = -1 THEN -1 ELSE relay[q].left - 1]]
  /\ held' = [t \in Threads |-> IF held[t] = None THEN None ELSE Older(held[t])]
  /\ UNCHANGED <<stack, ret>>

ThreadStep(t) ==
  \/ RouteWhite(t) \/ RouteHit(t) \/ RouteMiss(t) \/ Judged(t) \/ RouteStore(t)
  \/ DirectDial(t) \/ TunnelDial(t) \/ Dialled(t)
  \/ Forward(t) \/ Connected(t) \/ Unreached(t)
  \/ RelayHit(t) \/ RelayAsk(t) \/ RelayFails(t) \/ RelayPut(t)

Next ==
  \/ \E t \in Threads :
       \/ \E h \in Hosts : Connect(t, h)
       \/ ConnectLiteral(t)
       \/ \E q \in Asked : Query(t, q)
       \/ ThreadStep(t)
  \/ Tick

Spec == Init /\ [][Next]_vars

-----------------------------------------------------------------------------
(***************************************************************************)
(* No connection goes by a verdict older than routeTTL and one lookup,     *)
(* although the mutex is free during the lookup and an older answer may    *)
(* overwrite a newer one (route.go:96-131).                                *)
(***************************************************************************)
RouteJustified ==
  \A t \in Threads : \A i \in DOMAIN stack[t] :
    stack[t][i].op \in {"direct", "tunnel"} => stack[t][i].n < RouteTTL + LookupTime

(***************************************************************************)
(* A query that went through the relay gets the answer to its own ID and   *)
(* its own question, and none older than the 60 s and one lookup, however  *)
(* other threads fill, drop and read the cache meanwhile                   *)
(* (dnsrelay.go:130-152).                                                  *)
(***************************************************************************)
AnswerFits ==
  \A t \in Threads : ret[t].ans # None =>
    /\ ret[t].ans.id = t
    /\ ret[t].ans.age <= RelayTTL + LookupTime
    /\ In(t, "connect") => ret[t].ans.q = Top(t).name

(***************************************************************************)
(* The caches stay within their limits although the sizes are tested under *)
(* a mutex that was free since the lookup; the relay's test is for more    *)
(* than 4096, so it holds one more (route.go:123-127, dnsrelay.go:144-151).*)
(***************************************************************************)
CachesBounded ==
  /\ Cardinality(DOMAIN routes) <= RouteMax
  /\ Cardinality(DOMAIN relay) <= RelayMax + 1

(***************************************************************************)
(* Reaching the server never waits for the server to be reached: the       *)
(* forwarder breaks the ring (dns.go:18-21, 88-91).                        *)
(***************************************************************************)
RingBroken ==
  \A t \in Threads : \A i, j \in DOMAIN stack[t] :
    {stack[t][i].op, stack[t][j].op} \subseteq {"tunnel", "reach"} => i = j
=============================================================================
