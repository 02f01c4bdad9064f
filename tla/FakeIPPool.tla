----------------------------- MODULE FakeIPPool -----------------------------
(***************************************************************************)
(* The fake-address pool of the tun engine (tun2sock/fakeip.go) with the   *)
(* two goroutines that use it (tun2sock/tun2sock.go): a DNS query for a    *)
(* proxied name obtains an address and answers it with a TTL, and a TCP    *)
(* connection to such an address is turned back into the name it dials     *)
(* through the tunnel.  Applications keep an answer until its TTL runs out;*)
(* queries, lost answers, connections and rebuilds of the full pool        *)
(* interleave freely.                                                      *)
(*                                                                         *)
(* Addresses are offsets from the pool's base.                             *)
(***************************************************************************)
EXTENDS Integers, FiniteSets

CONSTANTS
  Domains,  \* proxied names that are asked for
  Apps,     \* resolver caches of the applications
  Limit,    \* names the pool holds before it is rebuilt (65535)
  Size,     \* addresses in the pool's network (2^17)
  TTL       \* ticks an application keeps an answer (60 s)

NoName == "none"

ASSUME PoolAssumption ==
  /\ Limit \in Nat \ {0}
  /\ Size \in Nat
  /\ Limit < Size - 2
  /\ TTL \in Nat \ {0}
  /\ NoName \notin Domains

VARIABLES
  d2i,     \* name -> address
  i2d,     \* address -> name
  next,    \* the allocation counter
  answer,  \* what each application was answered last: [state, domain, ip, ttl]
  dialed,  \* history: the last connection of each application
  rebuilt  \* history: the pool was rebuilt since the application's answer

poolVars == <<d2i, i2d, next, answer, dialed, rebuilt>>

Offsets == 1 .. Size - 2

\* "sent": the answer is on its way; "kept": the application may use it.
NoAnswer == [state |-> "none", domain |-> NoName, ip |-> 0, ttl |-> 0]
Answers ==
  [state : {"none", "sent", "kept"}, domain : Domains \cup {NoName},
   ip : {0} \cup Offsets, ttl : 0 .. TTL]

\* A connection: the name the application asked for, and the name it was
\* dialed by, or NoName when the raw fake address went to the tunnel.
NoDial == [asked |-> NoName, target |-> NoName, made |-> FALSE]
Dials == [asked : Domains \cup {NoName}, target : Domains \cup {NoName}, made : BOOLEAN]

PoolTypeOK ==
  /\ DOMAIN d2i \subseteq Domains
  /\ d2i \in [DOMAIN d2i -> Offsets]
  /\ DOMAIN i2d \subseteq Offsets
  /\ i2d \in [DOMAIN i2d -> Domains]
  /\ next \in 1 .. Limit + 1
  /\ answer \in [Apps -> Answers]
  /\ dialed \in [Apps -> Dials]
  /\ rebuilt \in [Apps -> BOOLEAN]

EmptyMap == [x \in {} |-> x]

PoolInit ==
  /\ d2i = EmptyMap
  /\ i2d = EmptyMap
  /\ next = 1
  /\ answer = [a \in Apps |-> NoAnswer]
  /\ dialed = [a \in Apps |-> NoDial]
  /\ rebuilt = [a \in Apps |-> FALSE]

(***************************************************************************)
(* obtain.  The loop tries next, next + 1, ... until an address is free.   *)
(***************************************************************************)
Offset(n) == (n % (Size - 2)) + 1

FirstFree(used, n) ==
  CHOOSE k \in n .. n + Size :
    /\ Offset(k) \notin used
    /\ \A j \in n .. k - 1 : Offset(j) \in used

Bind(f, x, y) == [z \in DOMAIN f \cup {x} |-> IF z = x THEN y ELSE f[z]]

Allocate(d, names, addrs, n) ==
  LET k == FirstFree(DOMAIN addrs, n)
  IN  /\ d2i' = Bind(names, d, Offset(k))
      /\ i2d' = Bind(addrs, Offset(k), d)
      /\ next' = k + 1

Full == Cardinality(DOMAIN d2i) >= Limit

\* mutant: the rebuild forgets the reverse map
ObtainHalfRebuilt(d) ==
  IF Full THEN Allocate(d, EmptyMap, i2d, 1) ELSE Allocate(d, d2i, i2d, next)

\* mutant: the pool is thrown away one name early
ObtainEarly(d) ==
  IF Cardinality(DOMAIN d2i) >= Limit - 1
  THEN Allocate(d, EmptyMap, EmptyMap, 1) ELSE Allocate(d, d2i, i2d, next)

Obtain(d) ==
  IF Full THEN Allocate(d, EmptyMap, EmptyMap, 1) ELSE Allocate(d, d2i, i2d, next)

AddressFor(d) == d2i'[d]

Query(a, d) ==
  /\ answer[a].state # "sent"
  /\ IF d \in DOMAIN d2i
     THEN UNCHANGED <<d2i, i2d, next, rebuilt>>
     ELSE /\ Obtain(d)
          /\ rebuilt' = [b \in Apps |-> IF b = a THEN FALSE ELSE rebuilt[b] \/ Full]
  /\ answer' = [answer EXCEPT
       ![a] = [state |-> "sent", domain |-> d, ip |-> AddressFor(d), ttl |-> TTL]]
  /\ UNCHANGED dialed

Deliver(a) ==
  /\ answer[a].state = "sent"
  /\ answer' = [answer EXCEPT ![a].state = "kept"]
  /\ UNCHANGED <<d2i, i2d, next, dialed, rebuilt>>

Lose(a) ==
  /\ answer[a].state = "sent"
  /\ answer' = [answer EXCEPT ![a] = NoAnswer]
  /\ UNCHANGED <<d2i, i2d, next, dialed, rebuilt>>

(***************************************************************************)
(* A TCP connection to a kept address: the pool's name, or, for an address *)
(* it does not hold, the raw address through the tunnel.                   *)
(***************************************************************************)
Lookup(ip) == IF ip \in DOMAIN i2d THEN i2d[ip] ELSE NoName

Connect(a) ==
  /\ answer[a].state = "kept"
  /\ dialed' = [dialed EXCEPT ![a] =
       [asked |-> answer[a].domain, target |-> Lookup(answer[a].ip), made |-> TRUE]]
  /\ UNCHANGED <<d2i, i2d, next, answer, rebuilt>>

\* Time passes: kept answers age, and an expired one is dropped.
Aged(r) ==
  IF r.state # "kept" THEN r
  ELSE IF r.ttl = 1 THEN NoAnswer ELSE [r EXCEPT !.ttl = @ - 1]

Tick ==
  /\ answer' = [a \in Apps |-> Aged(answer[a])]
  /\ UNCHANGED <<d2i, i2d, next, dialed, rebuilt>>

PoolNext ==
  \/ Tick
  \/ \E a \in Apps :
       \/ \E d \in Domains : Query(a, d)
       \/ Deliver(a) \/ Lose(a) \/ Connect(a)

PoolSpec == PoolInit /\ [][PoolNext]_poolVars

-----------------------------------------------------------------------------
(***************************************************************************)
(* The two maps are each other's inverse: no two names share an address,   *)
(* and a reverse lookup gives back the name the address was made for       *)
(* (fakeip.go:50-72).                                                      *)
(***************************************************************************)
InverseMaps ==
  /\ \A d \in DOMAIN d2i : d2i[d] \in DOMAIN i2d /\ i2d[d2i[d]] = d
  /\ \A i \in DOMAIN i2d : i2d[i] \in DOMAIN d2i /\ d2i[i2d[i]] = i

(***************************************************************************)
(* The counter and the maps move together: exactly the addresses of the    *)
(* numbers below next are taken, so the first address tried is always free *)
(* and the search of obtain never turns a second round, let alone for ever *)
(* (fakeip.go:56-71).                                                      *)
(***************************************************************************)
FirstTryIsFree ==
  /\ next = Cardinality(DOMAIN d2i) + 1
  /\ DOMAIN i2d = {Offset(k) : k \in 1 .. next - 1}
  /\ next <= Limit => Offset(next) \notin DOMAIN i2d

(***************************************************************************)
(* Both: the pool is whole, whatever queries, rebuilds and lost answers    *)
(* interleave (fakeip.go:50-72).                                           *)
(***************************************************************************)
PoolConsistent == InverseMaps /\ FirstTryIsFree

(***************************************************************************)
(* A connection reaches the name the application asked for, as long as the *)
(* pool was not rebuilt since it was answered (fakeip.go:75-87,            *)
(* tun2sock.go:109-126).                                                   *)
(***************************************************************************)
RightName ==
  \A a \in Apps :
    (answer[a].state # "none" /\ ~ rebuilt[a]) => Lookup(answer[a].ip) = answer[a].domain

(***************************************************************************)
(* A name keeps its address until a rebuild, and only a full pool is       *)
(* rebuilt: no query can take away the address of another name before      *)
(* (fakeip.go:53-60).                                                      *)
(***************************************************************************)
AddressStable ==
  [][\A d \in DOMAIN d2i :
       (d \in DOMAIN d2i' /\ d2i'[d] = d2i[d]) \/ Cardinality(DOMAIN d2i) = Limit]_poolVars
=============================================================================
