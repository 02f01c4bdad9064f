----------------------------- MODULE NamesProofs -----------------------------
(***************************************************************************)
(* Theorems about Names, for any number of threads, names, upstreams and   *)
(* any lifetimes and sizes of the two caches.                              *)
(***************************************************************************)
EXTENDS Names, FiniteSetTheorems, SequenceTheorems, TLAPS

\* What a call needs whoever made it.
Shape(f) ==
  /\ f \in Frames
  /\ f.op \in {"dial", "judge", "direct", "connect"} => f.name \in Hosts
  /\ f.op \in {"forward", "await", "relay"} => f.name \in Questions /\ f.n \in 1 .. Upstreams
  /\ f.op = "relay" => f.name \notin ServerNames
  /\ f.op \in {"direct", "tunnel"} => f.n < RouteTTL + LookupTime

\* g waits for the call f: a dialer for the resolution of its name, and the
\* forwarder, for a name that is not the server's, for the tunnel.
Calls(g, f) ==
  \/ g.op = "connect" /\ f.op \in {"forward", "await", "relay"} /\ f.name = g.name
  \/ g.op = "reach" /\ f.op \in {"forward", "await"} /\ f.name \in ServerNames
  \/ g.op = "await" /\ g.name \notin ServerNames /\ f.op \in {"tunnel", "reach"}

GoodStack(s) ==
  /\ s \in Seq(Frames)
  /\ \A i \in 1 .. Len(s) : Shape(s[i])
  /\ \A i \in 1 .. Len(s) - 1 : Calls(s[i + 1], s[i])

\* What t holds between the arrival of an answer and its use, with stack s.
HeldFits(t, s, h) ==
  h # None =>
    /\ s # <<>> /\ h.age <= LookupTime
    /\ \/ Head(s).op = "judge" /\ h \in Verdicts
       \/ Head(s).op = "relay" /\ h \in Answers /\ h.id = t /\ h.q = Head(s).name

\* What t was returned.
RetFits(t, s, r) ==
  r.ans # None =>
    /\ r.ans.id = t /\ r.ans.age <= RelayTTL + LookupTime
    /\ s # <<>> => Head(s).op = "connect" /\ Head(s).name = r.ans.q

RoutesFresh ==
  \A h \in DOMAIN routes :
    routes[h].left > 0 => routes[h].age + routes[h].left <= RouteTTL + LookupTime

RelayFresh ==
  \A q \in DOMAIN relay :
    /\ relay[q].resp.q = q
    /\ relay[q].left >= 0 => relay[q].resp.age + relay[q].left <= RelayTTL + LookupTime

CachesInv ==
  /\ DOMAIN routes \subseteq Hosts /\ routes \in [DOMAIN routes -> Routes]
  /\ DOMAIN relay \subseteq Questions /\ relay \in [DOMAIN relay -> Relayed]
  /\ RoutesFresh /\ RelayFresh
  /\ IsFiniteSet(DOMAIN routes) /\ IsFiniteSet(DOMAIN relay) /\ CachesBounded

ThreadsInv ==
  /\ stack \in [Threads -> Seq(Frames)]
  /\ ret \in [Threads -> Results]
  /\ held \in [Threads -> Answers \cup Verdicts \cup {None}]
  /\ \A t \in Threads :
       /\ GoodStack(stack[t])
       /\ HeldFits(t, stack[t], held[t])
       /\ RetFits(t, stack[t], ret[t])

NamesInv == CachesInv /\ ThreadsInv

LEMMA Constants ==
  /\ Upstreams \in Nat /\ RouteTTL \in Nat /\ RelayTTL \in Nat /\ LookupTime \in Nat
  /\ Upstreams >= 1 /\ RouteTTL >= 1 /\ RelayTTL >= 1 /\ LookupTime >= 1
  /\ RouteMax \in Nat /\ RouteMax >= 1 /\ RelayMax \in Nat
  /\ Hosts \cap ServerNames = {} /\ Hosts \subseteq Questions /\ ServerNames \subseteq Questions
  /\ Asked \subseteq Questions /\ None \notin Questions
BY NamesAssumption DEF Questions

LEMMA AgesAre == Ages = 0 .. RouteTTL + RelayTTL + LookupTime /\ 0 \in Ages /\ Ages \subseteq Nat
BY Constants DEF Ages

-----------------------------------------------------------------------------
\* Stacks: pushing a call, and returning from one.
LEMMA PushedSeq ==
  ASSUME NEW S, NEW T \in Seq(S), NEW f \in S
  PROVE  /\ <<f>> \o T \in Seq(S) /\ <<f>> \o T # <<>>
         /\ Len(<<f>> \o T) = Len(T) + 1
         /\ (<<f>> \o T)[1] = f
         /\ \A i \in 1 .. Len(T) : (<<f>> \o T)[i + 1] = T[i]
         /\ Head(<<f>> \o T) = f
<1> DEFINE u == <<f>> \o T
<1>1. <<f>> \in Seq(S) /\ Len(<<f>>) = 1 /\ <<f>>[1] = f
  OBVIOUS
<1>2. /\ u \in Seq(S) /\ Len(u) = 1 + Len(T)
      /\ \A i \in 1 .. 1 + Len(T) : u[i] = IF i <= 1 THEN <<f>>[i] ELSE T[i - 1]
  BY <1>1, ConcatProperties
<1>3. Len(T) \in Nat
  BY LenProperties
<1> HIDE DEF u
<1>4. u # <<>> /\ u[1] = f
  BY <1>1, <1>2, <1>3
<1>5. ASSUME NEW i \in 1 .. Len(T) PROVE u[i + 1] = T[i]
  <2> DEFINE j == i + 1
  <2>1. j \in 1 .. 1 + Len(T) /\ ~ (j <= 1) /\ j - 1 = i
    BY <1>3
  <2> HIDE DEF j
  <2>2. u[j] = T[j - 1]
    BY <1>2, <2>1
  <2> QED BY <2>1, <2>2 DEF j
<1>6. Head(u) = f
  BY <1>2, <1>4
<1> QED BY <1>2, <1>3, <1>4, <1>5, <1>6 DEF u

LEMMA TwoPushed ==
  ASSUME NEW S, NEW T \in Seq(S), NEW f \in S, NEW g \in S
  PROVE  <<f, g>> \o T = <<f>> \o (<<g>> \o T)
<1>0. <<f>> \in Seq(S) /\ <<g>> \in Seq(S) /\ <<f, g>> \in Seq(S)
      /\ Len(<<f>>) = 1 /\ Len(<<g>>) = 1 /\ Len(<<f, g>>) = 2
      /\ <<f>>[1] = f /\ <<g>>[1] = g /\ <<f, g>>[1] = f /\ <<f, g>>[2] = g
  OBVIOUS
<1>1. <<f>> \in Seq(S) /\ <<g>> \in Seq(S) /\ <<f>> \o <<g>> = <<f, g>>
  <2> DEFINE u == <<f>> \o <<g>>
             v == <<f, g>>
  <2>1. u \in Seq(S) /\ Len(u) = Len(v) /\ v \in Seq(S)
    BY <1>0, ConcatProperties
  <2>2. \A i \in 1 .. 2 : u[i] = IF i <= 1 THEN <<f>>[i] ELSE <<g>>[i - 1]
    BY <1>0, ConcatProperties
  <2>3. u[1] = v[1] /\ u[2] = v[2]
    BY <1>0, <2>2
  <2>4. \A i \in 1 .. Len(u) : u[i] = v[i]
    <3>1. 1 .. Len(u) = {1, 2}
      BY <1>0, <2>1
    <3> QED BY <2>3, <3>1
  <2> HIDE DEF u, v
  <2>5. u = v
    BY <2>1, <2>4, SeqEqual
  <2> QED BY <1>0, <2>5 DEF u, v
<1>2. (<<f>> \o <<g>>) \o T = <<f>> \o (<<g>> \o T)
  BY <1>1, ConcatAssociative
<1> QED BY <1>1, <1>2

LEMMA EmptyIsGood == GoodStack(<<>>)
BY DEF GoodStack

LEMMA PushKeepsGood ==
  ASSUME NEW T, GoodStack(T), NEW f, Shape(f), T # <<>> => Calls(Head(T), f)
  PROVE  GoodStack(<<f>> \o T) /\ <<f>> \o T # <<>> /\ Head(<<f>> \o T) = f
<1> DEFINE u == <<f>> \o T
<1>0. T \in Seq(Frames) /\ f \in Frames /\ Len(T) \in Nat
  BY LenProperties DEF GoodStack, Shape
<1>1. /\ u \in Seq(Frames) /\ u # <<>> /\ Len(u) = Len(T) + 1 /\ u[1] = f /\ Head(u) = f
      /\ \A i \in 1 .. Len(T) : u[i + 1] = T[i]
  BY <1>0, PushedSeq
<1> HIDE DEF u
<1>2. ASSUME NEW i \in 1 .. Len(u) PROVE Shape(u[i])
  <2>1. CASE i = 1
    BY <1>1, <2>1
  <2>2. CASE i # 1
    <3> DEFINE j == i - 1
    <3>1. j \in 1 .. Len(T) /\ i = j + 1
      BY <1>0, <1>1, <2>2
    <3> HIDE DEF j
    <3> QED BY <1>1, <3>1 DEF GoodStack
  <2> QED BY <2>1, <2>2
<1>3. ASSUME NEW i \in 1 .. Len(u) - 1 PROVE Calls(u[i + 1], u[i])
  <2>0. i \in 1 .. Len(T) /\ u[i + 1] = T[i]
    BY <1>0, <1>1
  <2>1. CASE i = 1
    <3>1. T # <<>> /\ Head(T) = T[1]
      BY <1>0, <2>0
    <3> QED BY <1>1, <2>0, <2>1, <3>1
  <2>2. CASE i # 1
    <3> DEFINE j == i - 1
    <3>1. j \in 1 .. Len(T) - 1 /\ i = j + 1 /\ j \in 1 .. Len(T)
      BY <1>0, <2>0, <2>2
    <3> HIDE DEF j
    <3>2. u[i] = T[j]
      BY <1>1, <3>1
    <3>3. Calls(T[j + 1], T[j])
      BY <3>1 DEF GoodStack
    <3> QED BY <2>0, <3>1, <3>2, <3>3
  <2> QED BY <2>1, <2>2
<1> QED BY <1>1, <1>2, <1>3 DEF GoodStack, u

LEMMA PopKeepsGood ==
  ASSUME NEW s, GoodStack(s), s # <<>>
  PROVE  /\ GoodStack(Tail(s)) /\ Head(s) \in Frames /\ Shape(Head(s))
         /\ Tail(s) # <<>> => Calls(Head(Tail(s)), Head(s))
<1> DEFINE T == Tail(s)
<1>1. /\ s \in Seq(Frames) /\ Head(s) \in Frames /\ T \in Seq(Frames) /\ Len(T) = Len(s) - 1
      /\ \A i \in 1 .. Len(T) : T[i] = s[i + 1]
  BY HeadTailProperties DEF GoodStack
<1>2. Len(s) \in Nat \ {0} /\ Head(s) = s[1]
  BY <1>1, EmptySeq
<1> HIDE DEF T
<1>3. ASSUME NEW i \in 1 .. Len(T) PROVE Shape(T[i])
  <2> DEFINE j == i + 1
  <2>1. j \in 1 .. Len(s) /\ T[i] = s[j]
    BY <1>1, <1>2
  <2> HIDE DEF j
  <2> QED BY <2>1 DEF GoodStack
<1>4. ASSUME NEW i \in 1 .. Len(T) - 1 PROVE Calls(T[i + 1], T[i])
  <2> DEFINE j == i + 1
  <2>1. j \in 1 .. Len(s) - 1 /\ T[i] = s[j] /\ j \in 1 .. Len(T)
    BY <1>1, <1>2
  <2> HIDE DEF j
  <2>2. T[j] = s[j + 1]
    BY <1>1, <2>1
  <2>3. Calls(T[j], T[i])
    BY <2>1, <2>2 DEF GoodStack
  <2> QED BY <2>3 DEF j
<1>5. GoodStack(T) /\ Shape(Head(s))
  BY <1>1, <1>2, <1>3, <1>4 DEF GoodStack
<1>6. ASSUME T # <<>> PROVE Calls(Head(T), Head(s))
  <2>1. 1 \in 1 .. Len(T) /\ Head(T) = T[1]
    BY <1>1, <1>6, EmptySeq
  <2>2. T[1] = s[1 + 1] /\ 1 \in 1 .. Len(s) - 1
    BY <1>1, <1>2, <2>1
  <2>3. Calls(s[1 + 1], s[1])
    BY <2>2 DEF GoodStack
  <2> QED BY <1>2, <2>1, <2>2, <2>3
<1> QED BY <1>1, <1>5, <1>6 DEF T

-----------------------------------------------------------------------------
\* What is known of a thread that is in a call.
LEMMA InCall ==
  ASSUME NamesInv, NEW t \in Threads, stack[t] # <<>>
  PROVE  /\ GoodStack(Tail(stack[t])) /\ Top(t) \in Frames /\ Shape(Top(t))
         /\ Tail(stack[t]) # <<>> => Calls(Head(Tail(stack[t])), Top(t))
BY PopKeepsGood DEF NamesInv, ThreadsInv, Top

\* One thread moves, and the caches stay good.
LEMMA ThreadMoves ==
  ASSUME NamesInv, NEW t \in Threads, NEW s, NEW r \in Results,
         NEW h \in Answers \cup Verdicts \cup {None},
         GoodStack(s), HeldFits(t, s, h), RetFits(t, s, r),
         stack' = [stack EXCEPT ![t] = s], ret' = [ret EXCEPT ![t] = r],
         held' = [held EXCEPT ![t] = h], CachesInv'
  PROVE  NamesInv'
<1>0. ThreadsInv
  BY DEF NamesInv
<1>1. s \in Seq(Frames)
  BY DEF GoodStack
<1>2. /\ stack'[t] = s /\ ret'[t] = r /\ held'[t] = h
      /\ \A u \in Threads \ {t} :
           stack'[u] = stack[u] /\ ret'[u] = ret[u] /\ held'[u] = held[u]
  BY <1>0 DEF ThreadsInv
<1>3. /\ stack' \in [Threads -> Seq(Frames)]
      /\ ret' \in [Threads -> Results]
      /\ held' \in [Threads -> Answers \cup Verdicts \cup {None}]
  BY <1>0, <1>1 DEF ThreadsInv
<1>4. ASSUME NEW u \in Threads
      PROVE  /\ GoodStack(stack'[u])
             /\ HeldFits(u, stack'[u], held'[u])
             /\ RetFits(u, stack'[u], ret'[u])
  <2>1. CASE u = t
    BY <1>2, <2>1, Zenon
  <2>2. CASE u # t
    <3>1. stack'[u] = stack[u] /\ ret'[u] = ret[u] /\ held'[u] = held[u]
      BY <1>2, <2>2
    <3>2. GoodStack(stack[u]) /\ HeldFits(u, stack[u], held[u]) /\ RetFits(u, stack[u], ret[u])
      BY <1>0 DEF ThreadsInv
    <3> QED BY <3>1, <3>2, Zenon
  <2> QED BY <2>1, <2>2
<1>5. ASSUME NEW u \in Threads
      PROVE  (/\ GoodStack(stack[u])
              /\ HeldFits(u, stack[u], held[u])
              /\ RetFits(u, stack[u], ret[u]))'
  BY <1>4 DEF GoodStack, HeldFits, RetFits, Shape, Calls
<1> QED BY <1>3, <1>5 DEF NamesInv, ThreadsInv

LEMMA CachesAlone == ASSUME CachesInv, UNCHANGED <<routes, relay>> PROVE CachesInv'
BY DEF CachesInv, RoutesFresh, RelayFresh, CachesBounded

\* A thread that is not about to use an answer holds none.
LEMMA HoldsNothing ==
  ASSUME NamesInv, NEW t \in Threads, stack[t] = <<>> \/ Top(t).op \notin {"judge", "relay"}
  PROVE  held[t] = None
BY DEF NamesInv, ThreadsInv, HeldFits, Top

LEMMA Unchanged ==
  ASSUME NamesInv, NEW t \in Threads
  PROVE  /\ ret = [ret EXCEPT ![t] = ret[t]] /\ ret[t] \in Results
         /\ held[t] = None => held = [held EXCEPT ![t] = None]
BY DEF NamesInv, ThreadsInv

LEMMA PlainResults ==
  /\ NoResult \in Results /\ Ok \in Results /\ Failure \in Results
  /\ NoResult.ans = None /\ Ok.ans = None /\ Failure.ans = None
  /\ Ok.st = "ok" /\ Failure.st = "fail" /\ NoResult.st = "none"
BY DEF NoResult, Ok, Failure, Result, Results

\* The innermost call turns into another one.
LEMMA BecomesOne ==
  ASSUME NamesInv, NEW t \in Threads, stack[t] # <<>>, NEW f, Shape(f),
         \A g : Calls(g, Top(t)) => Calls(g, f), Becomes(t, <<f>>),
         NEW r \in Results, r.ans = None, ret' = [ret EXCEPT ![t] = r],
         held' = [held EXCEPT ![t] = None], CachesInv'
  PROVE  NamesInv'
<1> DEFINE s == <<f>> \o Tail(stack[t])
<1>1. GoodStack(s)
  <2>1. GoodStack(Tail(stack[t])) /\ (Tail(stack[t]) # <<>> => Calls(Head(Tail(stack[t])), f))
    BY InCall
  <2> QED BY <2>1, PushKeepsGood
<1>2. stack' = [stack EXCEPT ![t] = s]
  BY DEF Becomes
<1>3. HeldFits(t, s, None) /\ RetFits(t, s, r)
  BY DEF HeldFits, RetFits
<1> HIDE DEF s
<1> QED BY <1>1, <1>2, <1>3, ThreadMoves

\* The innermost call makes another one.
LEMMA BecomesTwo ==
  ASSUME NamesInv, NEW t \in Threads, stack[t] # <<>>, NEW f, NEW g, Shape(f), Shape(g),
         Calls(g, f), \A k : Calls(k, Top(t)) => Calls(k, g), Becomes(t, <<f, g>>),
         NEW r \in Results, r.ans = None, ret' = [ret EXCEPT ![t] = r],
         held' = [held EXCEPT ![t] = None], CachesInv'
  PROVE  NamesInv'
<1> DEFINE T == Tail(stack[t])
           s == <<g>> \o T
           u == <<f>> \o s
<1>1. GoodStack(T) /\ (T # <<>> => Calls(Head(T), g))
  BY InCall
<1>2. GoodStack(s) /\ s # <<>> /\ Head(s) = g
  BY <1>1, PushKeepsGood
<1>3. <<f, g>> \o T = u
  BY <1>1, TwoPushed DEF GoodStack, Shape
<1>4. stack' = [stack EXCEPT ![t] = u]
  BY <1>3 DEF Becomes
<1> HIDE DEF s, T
<1>5. GoodStack(u)
  BY <1>2, PushKeepsGood
<1> HIDE DEF u
<1>6. HeldFits(t, u, None) /\ RetFits(t, u, r)
  BY DEF HeldFits, RetFits
<1> QED BY <1>4, <1>5, <1>6, ThreadMoves

\* The innermost call returns.
LEMMA ReturnsGood ==
  ASSUME NamesInv, NEW t \in Threads, stack[t] # <<>>, NEW r \in Results, Returns(t, r),
         r.ans # None => /\ r.ans.id = t /\ r.ans.age <= RelayTTL + LookupTime
                         /\ Top(t).op = "relay" /\ Top(t).name = r.ans.q,
         held' = [held EXCEPT ![t] = None], CachesInv'
  PROVE  NamesInv'
<1> DEFINE s == Tail(stack[t])
           q == IF Len(stack[t]) = 1 /\ r.ans = None THEN NoResult ELSE r
<1>1. GoodStack(s) /\ (s # <<>> => Calls(Head(s), Top(t)))
  BY InCall
<1>2. q \in Results /\ (q.ans # None => q = r)
  BY PlainResults
<1>3. stack' = [stack EXCEPT ![t] = s] /\ ret' = [ret EXCEPT ![t] = q]
  BY DEF Returns
<1> HIDE DEF s, q
<1>4. HeldFits(t, s, None)
  BY DEF HeldFits
<1>5. RetFits(t, s, q)
  BY <1>1, <1>2 DEF RetFits, Calls
<1> QED BY <1>1, <1>2, <1>3, <1>4, <1>5, ThreadMoves

\* A thread begins.
LEMMA StartsGood ==
  ASSUME NamesInv, NEW t \in Threads, NEW op, NEW name, NEW n,
         Starts(t, op, name, n), Shape(Frame(op, name, n)),
         UNCHANGED <<routes, relay, held>>
  PROVE  NamesInv'
<1> DEFINE f == Frame(op, name, n)
           s == <<f>> \o <<>>
<1>1. f \in Frames
  BY DEF Shape
<1>2. s = <<f>> /\ GoodStack(s)
  <2>1. <<f>> \o <<>> = <<f>>
    BY ConcatEmptySeq
  <2> QED BY <2>1, EmptyIsGood, PushKeepsGood
<1>3. stack' = [stack EXCEPT ![t] = s] /\ ret' = [ret EXCEPT ![t] = NoResult] /\ stack[t] = <<>>
  BY <1>2 DEF Starts
<1> HIDE DEF s
<1>4. held[t] = None
  BY <1>3, HoldsNothing
<1>5. held' = [held EXCEPT ![t] = None]
  BY <1>4, Unchanged
<1>6. HeldFits(t, s, None) /\ RetFits(t, s, NoResult)
  BY PlainResults DEF HeldFits, RetFits
<1>7. CachesInv'
  BY CachesAlone DEF NamesInv
<1> QED BY <1>2, <1>3, <1>5, <1>6, <1>7, PlainResults, ThreadMoves

\* Like BecomesOne, when the thread holds nothing and the caches stay.
LEMMA TurnsInto ==
  ASSUME NamesInv, NEW t \in Threads, stack[t] # <<>>, Top(t).op \notin {"judge", "relay"},
         NEW f, Shape(f), \A g : Calls(g, Top(t)) => Calls(g, f), Becomes(t, <<f>>),
         NEW r \in Results, r.ans = None, ret' = [ret EXCEPT ![t] = r],
         held' = held, CachesInv'
  PROVE  NamesInv'
<1>1. held' = [held EXCEPT ![t] = None]
  BY HoldsNothing, Unchanged
<1> QED BY <1>1, BecomesOne

\* In a call, without a result so far.
LEMMA CallingFacts ==
  ASSUME NamesInv, NEW t \in Threads, NEW op, Calling(t, op)
  PROVE  /\ stack[t] # <<>> /\ Top(t).op = op /\ Top(t) \in Frames /\ Shape(Top(t))
         /\ ret[t] = NoResult /\ ret = [ret EXCEPT ![t] = NoResult]
BY InCall, Unchanged DEF Calling, In

LEMMA DialsShape ==
  ASSUME NEW direct, NEW age \in Ages, NEW h \in Hosts, age < RouteTTL + LookupTime
  PROVE  LET f == Frame(IF direct THEN "direct" ELSE "tunnel", h, age)
         IN  Shape(f)
<1>1. ASSUME NEW op \in {"direct", "tunnel"} PROVE Shape(Frame(op, h, age))
  BY <1>1, Constants DEF Frame, Frames, Shape
<1> QED BY <1>1

LEMMA DialsStep ==
  ASSUME NamesInv, NEW t \in Threads, stack[t] # <<>>,
         Top(t).op \in {"dial", "judge"}, NEW direct, NEW age \in Ages,
         age < RouteTTL + LookupTime, Dials(t, direct, age),
         NEW r \in Results, r.ans = None, ret' = [ret EXCEPT ![t] = r],
         held' = [held EXCEPT ![t] = None], CachesInv'
  PROVE  NamesInv'
<1> DEFINE f == Frame(IF direct THEN "direct" ELSE "tunnel", Top(t).name, age)
<1>1. Top(t).name \in Hosts
  BY InCall DEF Shape
<1>2. Shape(f)
  BY <1>1, DialsShape
<1>3. \A g : ~ Calls(g, Top(t))
  BY DEF Calls
<1>4. Becomes(t, <<f>>)
  BY DEF Dials
<1> HIDE DEF f
<1> QED BY <1>2, <1>3, <1>4, BecomesOne

LEMMA RouteWhiteStep == ASSUME NamesInv, NEW t \in Threads, RouteWhite(t) PROVE NamesInv'
<1>1. /\ stack[t] # <<>> /\ Top(t).op = "dial" /\ ret[t] = NoResult
      /\ ret = [ret EXCEPT ![t] = NoResult]
  BY CallingFacts DEF RouteWhite
<1>2. held' = [held EXCEPT ![t] = None]
  BY <1>1, HoldsNothing, Unchanged DEF RouteWhite
<1>3. CachesInv'
  BY CachesAlone DEF NamesInv, RouteWhite
<1>4. 0 \in Ages /\ 0 < RouteTTL + LookupTime
  BY Constants, AgesAre
<1>5. Dials(t, FALSE, 0) /\ ret' = ret
  BY DEF RouteWhite
<1> QED BY <1>1, <1>2, <1>3, <1>4, <1>5, PlainResults, DialsStep

LEMMA RouteHitStep == ASSUME NamesInv, NEW t \in Threads, RouteHit(t) PROVE NamesInv'
<1> DEFINE h == Top(t).name
<1>1. /\ stack[t] # <<>> /\ Top(t).op = "dial" /\ ret[t] = NoResult
      /\ ret = [ret EXCEPT ![t] = NoResult]
  BY CallingFacts DEF RouteHit
<1>2. held' = [held EXCEPT ![t] = None]
  BY <1>1, HoldsNothing, Unchanged DEF RouteHit
<1>3. CachesInv'
  BY CachesAlone DEF NamesInv, RouteHit
<1>4. routes[h].age \in Ages /\ routes[h].age < RouteTTL + LookupTime
  <2>1. h \in DOMAIN routes /\ routes[h].left > 0
    BY DEF RouteHit, Fresh
  <2>2. routes[h] \in Routes /\ routes[h].age + routes[h].left <= RouteTTL + LookupTime
    BY <2>1 DEF NamesInv, CachesInv, RoutesFresh
  <2> QED BY <2>1, <2>2, Constants, AgesAre DEF Routes
<1>5. Dials(t, routes[h].direct, routes[h].age) /\ ret' = ret
  BY DEF RouteHit
<1> HIDE DEF h
<1> QED BY <1>1, <1>2, <1>3, <1>4, <1>5, PlainResults, DialsStep

\* Dropping entries keeps a map good; so does putting one in.
LEMMA RouteMissStep == ASSUME NamesInv, NEW t \in Threads, RouteMiss(t) PROVE NamesInv'
<1> DEFINE h == Top(t).name
           f == Frame("judge", h, 0)
<1>1. /\ stack[t] # <<>> /\ Top(t).op = "dial" /\ Shape(Top(t)) /\ ret[t] = NoResult
      /\ ret = [ret EXCEPT ![t] = NoResult]
  BY CallingFacts DEF RouteMiss
<1>2. routes' = [k \in DOMAIN routes \ {h} |-> routes[k]] /\ relay' = relay
      /\ held' = held /\ ret' = ret /\ Becomes(t, <<f>>)
  BY DEF RouteMiss
<1>3. Shape(f) /\ \A g : ~ Calls(g, Top(t))
  BY <1>1, AgesAre, Constants DEF Shape, Frame, Frames, Calls
<1>4. CachesInv'
  <2>0. CachesInv
    BY DEF NamesInv
  <2>1. DOMAIN routes' = DOMAIN routes \ {h} /\ \A k \in DOMAIN routes' : routes'[k] = routes[k]
    BY <1>2
  <2>2. IsFiniteSet(DOMAIN routes') /\ Cardinality(DOMAIN routes') <= Cardinality(DOMAIN routes)
    BY <2>0, <2>1, FS_Subset DEF CachesInv
  <2>3. DOMAIN routes' \subseteq Hosts /\ routes' \in [DOMAIN routes' -> Routes]
    BY <1>2, <2>0 DEF CachesInv
  <2>4. RoutesFresh'
    BY <2>0, <2>1 DEF CachesInv, RoutesFresh
  <2>5. /\ DOMAIN relay' \subseteq Questions /\ relay' \in [DOMAIN relay' -> Relayed]
        /\ RelayFresh' /\ IsFiniteSet(DOMAIN relay')
    BY <1>2, <2>0 DEF CachesInv, RelayFresh
  <2>6. CachesBounded'
    <3>1. Cardinality(DOMAIN routes) \in Nat /\ Cardinality(DOMAIN routes') \in Nat
      BY <2>0, <2>2, FS_CardinalityType DEF CachesInv
    <3> QED BY <1>2, <2>0, <2>2, <3>1, Constants DEF CachesInv, CachesBounded
  <2> QED BY <2>2, <2>3, <2>4, <2>5, <2>6 DEF CachesInv
<1> HIDE DEF f
<1> QED BY <1>1, <1>2, <1>3, <1>4, PlainResults, TurnsInto

LEMMA JudgedStep == ASSUME NamesInv, NEW t \in Threads, Judged(t) PROVE NamesInv'
<1>1. \E direct \in BOOLEAN : held' = [held EXCEPT ![t] = [direct |-> direct, age |-> 0]]
  <2>1. PICK err \in BOOLEAN, ips \in SUBSET {"CN", "other"} :
          held' = [held EXCEPT ![t] = [direct |-> ~ err /\ ips = {"CN"}, age |-> 0]]
    BY DEF Judged
  <2> DEFINE d == ~ err /\ ips = {"CN"}
  <2>2. d \in BOOLEAN /\ held' = [held EXCEPT ![t] = [direct |-> d, age |-> 0]]
    BY <2>1
  <2> HIDE DEF d
  <2> QED BY <2>2
<1>0. PICK direct \in BOOLEAN : held' = [held EXCEPT ![t] = [direct |-> direct, age |-> 0]]
  BY <1>1
<1> DEFINE v == [direct |-> direct, age |-> 0]
<1>2. stack[t] # <<>> /\ Head(stack[t]).op = "judge" /\ UNCHANGED <<routes, relay, stack, ret>>
  BY DEF Judged, In, Top
<1>3. v \in Verdicts /\ v.age = 0
  BY AgesAre DEF Verdicts
<1>4. /\ GoodStack(stack[t]) /\ RetFits(t, stack[t], ret[t]) /\ ret[t] \in Results
      /\ stack = [stack EXCEPT ![t] = stack[t]] /\ ret = [ret EXCEPT ![t] = ret[t]]
  BY Unchanged DEF NamesInv, ThreadsInv
<1>5. held' = [held EXCEPT ![t] = v]
  BY <1>0
<1> HIDE DEF v
<1>6. HeldFits(t, stack[t], v)
  BY <1>2, <1>3, Constants DEF HeldFits
<1>7. CachesInv'
  BY <1>2, CachesAlone DEF NamesInv
<1> QED BY <1>2, <1>3, <1>4, <1>5, <1>6, <1>7, ThreadMoves

MapOf(m, K, V) ==
  DOMAIN m \subseteq K /\ m \in [DOMAIN m -> V] /\ IsFiniteSet(DOMAIN m)

\* Nothing but the new entry and old ones.
PutInto(p, m, k, v) ==
  \A x \in DOMAIN p : (x = k /\ p[x] = v) \/ (x \in DOMAIN m /\ p[x] = m[x])

LEMMA WithGood ==
  ASSUME NEW K, NEW V, NEW m, MapOf(m, K, V), NEW k \in K, NEW v \in V
  PROVE  /\ MapOf(With(m, k, v), K, V) /\ PutInto(With(m, k, v), m, k, v)
         /\ Cardinality(DOMAIN With(m, k, v)) <= Cardinality(DOMAIN m) + 1
<1> DEFINE p == With(m, k, v)
<1>1. DOMAIN p = DOMAIN m \cup {k} /\ \A x \in DOMAIN p : p[x] = IF x = k THEN v ELSE m[x]
  BY DEF With
<1>2. DOMAIN p \subseteq K /\ p \in [DOMAIN p -> V]
  <2>1. \A x \in DOMAIN p : p[x] \in V
    BY <1>1 DEF MapOf
  <2>2. p = [x \in DOMAIN p |-> p[x]]
    BY DEF With
  <2> QED BY <1>1, <2>1, <2>2 DEF MapOf
<1>3. /\ IsFiniteSet(DOMAIN m \cup {k}) /\ Cardinality(DOMAIN m) \in Nat
      /\ \/ Cardinality(DOMAIN m \cup {k}) = Cardinality(DOMAIN m)
         \/ Cardinality(DOMAIN m \cup {k}) = Cardinality(DOMAIN m) + 1
  BY FS_AddElement, FS_CardinalityType DEF MapOf
<1> HIDE DEF p
<1>4. MapOf(p, K, V) /\ PutInto(p, m, k, v) /\ Cardinality(DOMAIN p) <= Cardinality(DOMAIN m) + 1
  BY <1>1, <1>2, <1>3 DEF MapOf, PutInto
<1> QED BY <1>4 DEF p

\* Put on a map with at most n + 1 entries, which it drops when it has more than n.
LEMMA PutGood ==
  ASSUME NEW K, NEW V, NEW map, MapOf(map, K, V), NEW k \in K, NEW v \in V,
         NEW n \in Nat, NEW full, full <=> Cardinality(DOMAIN map) > n,
         NEW p, p = Put(map, full, k, v)
  PROVE  /\ MapOf(p, K, V) /\ PutInto(p, map, k, v)
         /\ Cardinality(DOMAIN p) <= n + 1
<1>1. Cardinality(DOMAIN map) \in Nat
  BY FS_CardinalityType DEF MapOf
<1>2. CASE Cardinality(DOMAIN map) > n
  <2> DEFINE e == <<>>
  <2>1. p = With(e, k, v)
    BY <1>2 DEF Put
  <2>2. DOMAIN e = {} /\ MapOf(e, K, V) /\ Cardinality(DOMAIN e) = 0
    BY FS_EmptySet DEF MapOf
  <2> HIDE DEF e
  <2>3. MapOf(p, K, V) /\ PutInto(p, e, k, v) /\ Cardinality(DOMAIN p) <= 0 + 1
    BY <2>1, <2>2, WithGood
  <2>4. Cardinality(DOMAIN p) \in Nat
    BY <2>3, FS_CardinalityType DEF MapOf
  <2> QED BY <2>2, <2>3, <2>4 DEF PutInto
<1>3. CASE ~ (Cardinality(DOMAIN map) > n)
  <2>1. p = With(map, k, v)
    BY <1>3 DEF Put
  <2>2. MapOf(p, K, V) /\ PutInto(p, map, k, v)
        /\ Cardinality(DOMAIN p) <= Cardinality(DOMAIN map) + 1
    BY <2>1, WithGood
  <2>3. Cardinality(DOMAIN p) \in Nat
    BY <2>2, FS_CardinalityType DEF MapOf
  <2> QED BY <1>1, <1>3, <2>2, <2>3
<1> QED BY <1>2, <1>3

LEMMA RouteStoreStep == ASSUME NamesInv, NEW t \in Threads, RouteStore(t) PROVE NamesInv'
<1> DEFINE h == Top(t).name
           full == Cardinality(DOMAIN routes) >= RouteMax
           v == [direct |-> held[t].direct, age |-> held[t].age, left |-> RouteTTL]
<1>1. /\ stack[t] # <<>> /\ Top(t).op = "judge" /\ Shape(Top(t)) /\ held[t] # None
      /\ relay' = relay /\ ret' = ret /\ held' = [held EXCEPT ![t] = None]
      /\ Dials(t, held[t].direct, held[t].age)
      /\ routes' = Put(routes, full, h, v)
  BY InCall DEF RouteStore, In
<1>2. /\ held[t] \in Verdicts /\ held[t].age <= LookupTime
      /\ ret[t].ans = None
  BY <1>1 DEF NamesInv, ThreadsInv, HeldFits, RetFits, Top
<1>3. held[t].age \in Ages /\ held[t].age < RouteTTL + LookupTime
  BY <1>2, Constants, AgesAre DEF Verdicts
<1>4. h \in Hosts /\ v \in Routes /\ v.age + v.left <= RouteTTL + LookupTime
  BY <1>1, <1>2, <1>3, Constants, AgesAre DEF Shape, Routes, Verdicts
<1>5. CachesInv'
  <2>0. CachesInv
    BY DEF NamesInv
  <2>1. RouteMax - 1 \in Nat /\ (full <=> Cardinality(DOMAIN routes) > RouteMax - 1)
    BY <2>0, FS_CardinalityType, Constants DEF CachesInv
  <2>2. /\ DOMAIN routes' \subseteq Hosts /\ routes' \in [DOMAIN routes' -> Routes]
        /\ IsFiniteSet(DOMAIN routes') /\ PutInto(routes', routes, h, v)
        /\ Cardinality(DOMAIN routes') <= RouteMax
    <3>1. MapOf(routes, Hosts, Routes)
      BY <2>0 DEF CachesInv, MapOf
    <3> HIDE DEF v, h, full
    <3>2. /\ MapOf(routes', Hosts, Routes) /\ PutInto(routes', routes, h, v)
          /\ Cardinality(DOMAIN routes') <= (RouteMax - 1) + 1
      BY <1>1, <1>4, <2>1, <3>1, PutGood
    <3> QED BY <3>2, Constants DEF MapOf
  <2>3. RoutesFresh'
    BY <1>4, <2>0, <2>2 DEF CachesInv, RoutesFresh, PutInto
  <2>4. /\ DOMAIN relay' \subseteq Questions /\ relay' \in [DOMAIN relay' -> Relayed]
        /\ RelayFresh' /\ IsFiniteSet(DOMAIN relay')
    BY <1>1, <2>0 DEF CachesInv, RelayFresh
  <2>5. CachesBounded'
    BY <1>1, <2>0, <2>2 DEF CachesInv, CachesBounded
  <2> QED BY <2>2, <2>3, <2>4, <2>5 DEF CachesInv
<1>6. ret' = [ret EXCEPT ![t] = ret[t]] /\ ret[t] \in Results
  BY <1>1, Unchanged
<1> HIDE DEF v, h, full
<1> QED BY <1>1, <1>2, <1>3, <1>5, <1>6, DialsStep

\* The name of a resolution is one the forwarder can be asked for.
LEMMA ResolveStep ==
  ASSUME NamesInv, NEW t \in Threads, NEW op, NEW then, NEW qs, Resolve(t, op, then, qs),
         \/ op = "direct" /\ then = "connect" /\ qs = {Top(t).name}
         \/ op = "tunnel" /\ then = "reach" /\ qs = ServerNames
  PROVE  NamesInv'
<1> DEFINE g == Frame(then, Top(t).name, 0)
<1>1. /\ stack[t] # <<>> /\ Top(t).op = op /\ Top(t) \in Frames /\ Shape(Top(t))
      /\ ret = [ret EXCEPT ![t] = NoResult] /\ op \in {"direct", "tunnel"}
      /\ UNCHANGED <<routes, relay, held>>
  BY CallingFacts DEF Resolve
<1>2. held' = [held EXCEPT ![t] = None]
  BY <1>1, HoldsNothing, Unchanged
<1>3. CachesInv'
  BY <1>1, CachesAlone DEF NamesInv
<1>4. Shape(g) /\ \A k : Calls(k, Top(t)) => Calls(k, g)
  <2>1. Shape(g)
    BY <1>1, AgesAre, Constants DEF Shape, Frame, Frames
  <2>2. \A k : Calls(k, Top(t)) => Calls(k, g)
    BY <1>1 DEF Calls, Frame
  <2> QED BY <2>1, <2>2
<1>5. CASE Becomes(t, <<g>>) /\ ret' = [ret EXCEPT ![t] = Ok]
  <2> HIDE DEF g
  <2> QED BY <1>1, <1>2, <1>3, <1>4, <1>5, PlainResults, BecomesOne
<1>6. ASSUME NEW q \in qs, Becomes(t, <<Frame("forward", q, 1), g>>), ret' = ret PROVE NamesInv'
  <2> DEFINE f == Frame("forward", q, 1)
  <2>1. q \in Questions
    BY <1>1, <1>6, Constants DEF Shape
  <2>2. Shape(f)
    BY <2>1, Constants DEF Shape, Frame, Frames
  <2>3. Calls(g, f)
    BY <1>6 DEF Calls, Frame
  <2> HIDE DEF f, g
  <2>4. Becomes(t, <<f, g>>)
    BY <1>6 DEF f
  <2> QED BY <1>1, <1>2, <1>3, <1>4, <1>6, <2>2, <2>3, <2>4, PlainResults, BecomesTwo
<1> QED BY <1>5, <1>6 DEF Resolve

LEMMA DialledStep == ASSUME NamesInv, NEW t \in Threads, Dialled(t) PROVE NamesInv'
<1>1. PICK op \in {"connect", "reach"} :
        \/ Succeeded(t, op) /\ Returns(t, Ok)
        \/ In(t, op) /\ ret[t] # NoResult /\ Returns(t, Failure)
  BY DEF Dialled
<1>2. stack[t] # <<>> /\ Top(t).op = op
  BY <1>1 DEF Succeeded, In
<1>3. held' = [held EXCEPT ![t] = None]
  BY <1>2, HoldsNothing, Unchanged DEF Dialled
<1>4. CachesInv'
  BY CachesAlone DEF NamesInv, Dialled
<1>5. \E r \in {Ok, Failure} : Returns(t, r)
  BY <1>1
<1> QED BY <1>2, <1>3, <1>4, <1>5, PlainResults, ReturnsGood

LEMMA BeginStep ==
  ASSUME NamesInv, NEW t \in Threads,
         (\E h \in Hosts : Connect(t, h)) \/ ConnectLiteral(t) \/ (\E q \in Asked : Query(t, q))
  PROVE  NamesInv'
<1>1. ASSUME NEW h \in Hosts, Connect(t, h) PROVE NamesInv'
  <2>1. Shape(Frame("dial", h, 0))
    BY AgesAre, Constants DEF Shape, Frame, Frames
  <2> QED BY <1>1, <2>1, StartsGood DEF Connect
<1>2. ASSUME NEW q \in Asked, Query(t, q) PROVE NamesInv'
  <2>1. Shape(Frame("forward", q, 1))
    BY Constants DEF Shape, Frame, Frames
  <2> QED BY <1>2, <2>1, StartsGood DEF Query
<1>3. CASE ConnectLiteral(t)
  <2>1. Shape(Frame("tunnel", None, 0))
    BY AgesAre, Constants DEF Shape, Frame, Frames
  <2> QED BY <1>3, <2>1, StartsGood DEF ConnectLiteral
<1> QED BY <1>1, <1>2, <1>3

LEMMA ForwardStep == ASSUME NamesInv, NEW t \in Threads, Forward(t) PROVE NamesInv'
<1> DEFINE g == [Top(t) EXCEPT !.op = "await"]
<1>1. /\ stack[t] # <<>> /\ Top(t).op = "forward" /\ Top(t) \in Frames /\ Shape(Top(t))
      /\ ret = [ret EXCEPT ![t] = NoResult]
      /\ UNCHANGED <<routes, relay, held>>
  BY CallingFacts DEF Forward
<1>2. held' = [held EXCEPT ![t] = None]
  BY <1>1, HoldsNothing, Unchanged
<1>3. CachesInv'
  BY <1>1, CachesAlone DEF NamesInv
<1>4. Shape(g) /\ (\A k : Calls(k, Top(t)) => Calls(k, g)) /\ g.op = "await"
      /\ g.name = Top(t).name
  <2>1. Shape(g) /\ g.op = "await" /\ g.name = Top(t).name
    BY <1>1 DEF Shape, Frames
  <2> HIDE DEF g
  <2>2. \A k : Calls(k, Top(t)) => Calls(k, g)
    BY <1>1, <2>1 DEF Calls
  <2> QED BY <2>1, <2>2
<1>5. CASE IsServer(Top(t).name)
  <2>1. PICK r \in {Ok, Failure} : ret' = [ret EXCEPT ![t] = r]
    BY <1>5 DEF Forward
  <2>2. Becomes(t, <<g>>)
    BY <1>5 DEF Forward
  <2> HIDE DEF g
  <2> QED BY <1>1, <1>2, <1>3, <1>4, <2>1, <2>2, PlainResults, BecomesOne
<1>6. CASE ~ IsServer(Top(t).name)
  <2> DEFINE f == Frame("tunnel", None, 0)
  <2>1. Becomes(t, <<f, g>>) /\ ret' = ret
    BY <1>6 DEF Forward
  <2>2. Shape(f)
    BY AgesAre, Constants DEF Shape, Frame, Frames
  <2>3. Calls(g, f)
    BY <1>4, <1>6 DEF Calls, Frame, IsServer
  <2> HIDE DEF f, g
  <2> QED BY <1>1, <1>2, <1>3, <1>4, <2>1, <2>2, <2>3, PlainResults, BecomesTwo
<1> QED BY <1>5, <1>6

LEMMA NextUpstreamStep ==
  ASSUME NamesInv, NEW t \in Threads, stack[t] # <<>>, Top(t).op \in {"await", "relay"},
         NextUpstream(t), held[t] = None, UNCHANGED <<routes, relay, held>>
  PROVE  NamesInv'
<1>1. Top(t) \in Frames /\ Shape(Top(t))
  BY InCall
<1>2. held' = [held EXCEPT ![t] = None] /\ CachesInv'
  BY Unchanged, CachesAlone DEF NamesInv
<1>3. CASE Top(t).n < Upstreams
  <2> DEFINE f == Frame("forward", Top(t).name, Top(t).n + 1)
  <2>1. Becomes(t, <<f>>) /\ ret' = [ret EXCEPT ![t] = NoResult]
    BY <1>3 DEF NextUpstream
  <2>2. Shape(f)
    BY <1>1, <1>3, Constants DEF Shape, Frame, Frames
  <2>3. \A k : Calls(k, Top(t)) => Calls(k, f)
    BY DEF Calls, Frame
  <2> HIDE DEF f
  <2> QED BY <1>2, <2>1, <2>2, <2>3, PlainResults, BecomesOne
<1>4. CASE ~ (Top(t).n < Upstreams)
  <2>1. Returns(t, Failure)
    BY <1>4 DEF NextUpstream
  <2> QED BY <1>2, <2>1, PlainResults, ReturnsGood
<1> QED BY <1>3, <1>4

LEMMA AwaitStep ==
  ASSUME NamesInv, NEW t \in Threads, Connected(t) \/ Unreached(t)
  PROVE  NamesInv'
<1>1. stack[t] # <<>> /\ Top(t).op = "await" /\ UNCHANGED <<routes, relay, held>>
  BY DEF Connected, Unreached, Succeeded, Failed, In
<1>2. held[t] = None
  BY <1>1, HoldsNothing
<1>3. held' = [held EXCEPT ![t] = None] /\ CachesInv'
  BY <1>1, <1>2, Unchanged, CachesAlone DEF NamesInv
<1>4. CASE NextUpstream(t)
  BY <1>1, <1>2, <1>4, NextUpstreamStep
<1>5. CASE Returns(t, Ok)
  BY <1>1, <1>3, <1>5, PlainResults, ReturnsGood
<1>6. CASE /\ ~ IsServer(Top(t).name) /\ Becomes(t, <<[Top(t) EXCEPT !.op = "relay"]>>)
           /\ ret' = [ret EXCEPT ![t] = NoResult]
  <2> DEFINE f == [Top(t) EXCEPT !.op = "relay"]
  <2>1. Top(t) \in Frames /\ Shape(Top(t))
    BY <1>1, InCall
  <2>2. Shape(f) /\ f.op = "relay" /\ f.name = Top(t).name
    BY <1>1, <1>6, <2>1 DEF Shape, Frames, IsServer
  <2>3. Becomes(t, <<f>>)
    BY <1>6
  <2> HIDE DEF f
  <2>4. \A k : Calls(k, Top(t)) => Calls(k, f)
    BY <1>1, <1>6, <2>2 DEF Calls, IsServer
  <2> QED BY <1>1, <1>3, <1>6, <2>2, <2>3, <2>4, PlainResults, BecomesOne
<1> QED BY <1>4, <1>5, <1>6 DEF Connected, Unreached

LEMMA RelayHitStep == ASSUME NamesInv, NEW t \in Threads, RelayHit(t) PROVE NamesInv'
<1> DEFINE q == Top(t).name
           a == [relay[q].resp EXCEPT !.id = t]
           r == Result("ok", a)
<1>1. stack[t] # <<>> /\ Top(t).op = "relay" /\ held[t] = None
  BY CallingFacts DEF RelayHit, Relaying
<1>2. held' = [held EXCEPT ![t] = None] /\ CachesInv'
  BY <1>1, Unchanged, CachesAlone DEF NamesInv, RelayHit
<1>3. q \in DOMAIN relay /\ relay[q].left >= 0 /\ Returns(t, r)
  BY DEF RelayHit, Hit
<1>4. /\ relay[q] \in Relayed /\ relay[q].resp.q = q
      /\ relay[q].resp.age + relay[q].left <= RelayTTL + LookupTime
  BY <1>3 DEF NamesInv, CachesInv, RelayFresh
<1>5. /\ a \in Answers /\ a.id = t /\ a.q = q /\ a.age = relay[q].resp.age
      /\ a.age <= RelayTTL + LookupTime
  <2>1. relay[q].resp \in Answers /\ relay[q].left \in Int
    BY <1>4, Constants DEF Relayed
  <2>2. a \in Answers /\ a.id = t /\ a.q = q /\ a.age = relay[q].resp.age
    BY <1>4, <2>1 DEF Answers
  <2>3. relay[q].resp.age \in Nat
    BY <2>1, AgesAre DEF Answers
  <2> QED BY <1>3, <1>4, <2>1, <2>2, <2>3, Constants
<1>6. r \in Results /\ r.ans = a
  BY <1>5 DEF Results, Result
<1> HIDE DEF a, r
<1> QED BY <1>1, <1>2, <1>3, <1>5, <1>6, ReturnsGood

LEMMA RelayAskStep == ASSUME NamesInv, NEW t \in Threads, RelayAsk(t) PROVE NamesInv'
<1> DEFINE v == [id |-> t, q |-> Top(t).name, age |-> 0]
<1>1. /\ stack[t] # <<>> /\ Top(t).op = "relay" /\ Shape(Top(t))
      /\ UNCHANGED <<routes, relay, stack, ret>> /\ held' = [held EXCEPT ![t] = v]
  BY CallingFacts DEF RelayAsk, Relaying
<1>2. v \in Answers /\ v.age <= LookupTime /\ v.id = t /\ v.q = Head(stack[t]).name
  BY <1>1, AgesAre, Constants DEF Answers, Shape, Top
<1>3. /\ GoodStack(stack[t]) /\ RetFits(t, stack[t], ret[t]) /\ ret[t] \in Results
      /\ stack = [stack EXCEPT ![t] = stack[t]] /\ ret = [ret EXCEPT ![t] = ret[t]]
  BY Unchanged DEF NamesInv, ThreadsInv
<1> HIDE DEF v
<1>4. HeldFits(t, stack[t], v)
  BY <1>1, <1>2 DEF HeldFits, Top
<1>5. CachesInv'
  BY <1>1, CachesAlone DEF NamesInv
<1> QED BY <1>1, <1>2, <1>3, <1>4, <1>5, ThreadMoves

LEMMA RelayFailsStep == ASSUME NamesInv, NEW t \in Threads, RelayFails(t) PROVE NamesInv'
BY CallingFacts, NextUpstreamStep DEF RelayFails, Relaying

LEMMA RelayPutStep == ASSUME NamesInv, NEW t \in Threads, RelayPut(t) PROVE NamesInv'
<1> DEFINE q == Top(t).name
           full == Cardinality(DOMAIN relay) > RelayMax
           v == [resp |-> held[t], left |-> RelayTTL]
           r == Result("ok", held[t])
<1>1. /\ stack[t] # <<>> /\ Top(t).op = "relay" /\ Shape(Top(t)) /\ held[t] # None
      /\ routes' = routes /\ held' = [held EXCEPT ![t] = None]
      /\ Returns(t, r) /\ relay' = Put(relay, full, q, v)
  BY CallingFacts DEF RelayPut
<1>2. held[t] \in Answers /\ held[t].id = t /\ held[t].q = q /\ held[t].age <= LookupTime
  BY <1>1 DEF NamesInv, ThreadsInv, HeldFits, Top
<1>3. held[t].age \in Nat
  BY <1>2, AgesAre DEF Answers
<1>4. /\ q \in Questions /\ v \in Relayed /\ v.resp.q = q
      /\ v.resp.age + v.left <= RelayTTL + LookupTime
  BY <1>1, <1>2, <1>3, Constants DEF Shape, Relayed
<1>5. CachesInv'
  <2>0. CachesInv
    BY DEF NamesInv
  <2>1. RelayMax \in Nat /\ (full <=> Cardinality(DOMAIN relay) > RelayMax)
    BY <2>0, FS_CardinalityType, Constants DEF CachesInv
  <2>2. /\ DOMAIN relay' \subseteq Questions /\ relay' \in [DOMAIN relay' -> Relayed]
        /\ IsFiniteSet(DOMAIN relay') /\ PutInto(relay', relay, q, v)
        /\ Cardinality(DOMAIN relay') <= RelayMax + 1
    <3>1. MapOf(relay, Questions, Relayed)
      BY <2>0 DEF CachesInv, MapOf
    <3> HIDE DEF v, q, full
    <3>2. /\ MapOf(relay', Questions, Relayed) /\ PutInto(relay', relay, q, v)
          /\ Cardinality(DOMAIN relay') <= (RelayMax) + 1
      BY <1>1, <1>4, <2>1, <3>1, PutGood
    <3> QED BY <3>2, Constants DEF MapOf
  <2>3. RelayFresh'
    BY <1>4, <2>0, <2>2 DEF CachesInv, RelayFresh, PutInto
  <2>4. /\ DOMAIN routes' \subseteq Hosts /\ routes' \in [DOMAIN routes' -> Routes]
        /\ RoutesFresh' /\ IsFiniteSet(DOMAIN routes')
    BY <1>1, <2>0 DEF CachesInv, RoutesFresh
  <2>5. CachesBounded'
    BY <1>1, <2>0, <2>2 DEF CachesInv, CachesBounded
  <2> QED BY <2>2, <2>3, <2>4, <2>5 DEF CachesInv
<1>6. r \in Results /\ r.ans = held[t] /\ held[t].age <= RelayTTL + LookupTime
  BY <1>2, <1>3, Constants DEF Results, Result
<1> HIDE DEF v, full, r
<1> QED BY <1>1, <1>2, <1>5, <1>6, ReturnsGood


\* Time passes: an age grows by one at most and nothing else of x changes.
LEMMA OlderIs ==
  ASSUME NEW x, x.age \in Ages
  PROVE  /\ x \in Answers => /\ Older(x) \in Answers /\ Older(x).id = x.id
                             /\ Older(x).q = x.q
                             /\ Older(x).age <= x.age + 1
         /\ x \in Verdicts => Older(x) \in Verdicts /\ Older(x).age <= x.age + 1
         /\ x \in Routes => /\ Older(x) \in Routes /\ Older(x).left = x.left
                            /\ Older(x).age <= x.age + 1
<1> DEFINE a == IF x.age + 1 \in Ages THEN x.age + 1 ELSE x.age
<1>1. a \in Ages /\ a <= x.age + 1
  BY AgesAre
<1>2. Older(x) = [x EXCEPT !.age = a]
  BY DEF Older
<1> HIDE DEF a
<1>3. ASSUME x \in Answers
      PROVE  /\ Older(x) \in Answers /\ Older(x).id = x.id /\ Older(x).q = x.q
             /\ Older(x).age = a
  BY <1>1, <1>2, <1>3 DEF Answers
<1>4. ASSUME x \in Verdicts PROVE Older(x) \in Verdicts /\ Older(x).age = a
  BY <1>1, <1>2, <1>4 DEF Verdicts
<1>5. ASSUME x \in Routes PROVE Older(x) \in Routes /\ Older(x).left = x.left /\ Older(x).age = a
  BY <1>1, <1>2, <1>5 DEF Routes
<1> QED BY <1>1, <1>3, <1>4, <1>5

LEMMA RoutesAge ==
  ASSUME CachesInv, Tick, NEW h \in DOMAIN routes
  PROVE  /\ routes'[h] \in Routes
         /\ routes'[h].left > 0 => routes'[h].age + routes'[h].left <= RouteTTL + LookupTime
<1> DEFINE o == Older(routes[h])
           l == IF routes[h].left = 0 THEN 0 ELSE routes[h].left - 1
<1>1. /\ routes[h] \in Routes
      /\ routes[h].left > 0 => routes[h].age + routes[h].left <= RouteTTL + LookupTime
  BY DEF CachesInv, RoutesFresh
<1>2. routes[h].age \in Ages /\ routes[h].left \in 0 .. RouteTTL /\ routes[h].age \in Nat
  BY <1>1, AgesAre DEF Routes
<1>3. /\ o \in Routes /\ o.left = routes[h].left /\ o.age <= routes[h].age + 1
  BY <1>1, <1>2, OlderIs
<1>4. routes'[h] = [o EXCEPT !.left = l]
  BY <1>3 DEF Tick
<1>5. l \in 0 .. RouteTTL /\ (l > 0 => l = routes[h].left - 1 /\ routes[h].left > 0)
  BY <1>2, Constants
<1>6. o.age \in Nat
  BY <1>3, AgesAre DEF Routes
<1> HIDE DEF o, l
<1>7. routes'[h] \in Routes /\ routes'[h].age = o.age /\ routes'[h].left = l
  BY <1>3, <1>4, <1>5 DEF Routes
<1>8. ASSUME l > 0 PROVE o.age + l <= RouteTTL + LookupTime
  BY <1>1, <1>2, <1>3, <1>5, <1>6, <1>8, Constants
<1> QED BY <1>7, <1>8

LEMMA RelayAges ==
  ASSUME CachesInv, Tick, NEW q \in DOMAIN relay
  PROVE  /\ relay'[q] \in Relayed /\ relay'[q].resp.q = q
         /\ relay'[q].left >= 0 =>
              relay'[q].resp.age + relay'[q].left <= RelayTTL + LookupTime
<1> DEFINE o == Older(relay[q].resp)
           l == IF relay[q].left = -1 THEN -1 ELSE relay[q].left - 1
<1>1. /\ relay[q] \in Relayed /\ relay[q].resp.q = q
      /\ relay[q].left >= 0 => relay[q].resp.age + relay[q].left <= RelayTTL + LookupTime
  BY DEF CachesInv, RelayFresh
<1>2. /\ relay[q].resp \in Answers /\ relay[q].left \in -1 .. RelayTTL
      /\ relay[q].resp.age \in Ages /\ relay[q].resp.age \in Nat
  BY <1>1, AgesAre DEF Relayed, Answers
<1>3. o \in Answers /\ o.q = q /\ o.age <= relay[q].resp.age + 1
  BY <1>1, <1>2, OlderIs
<1>4. relay'[q] = [resp |-> o, left |-> l]
  BY DEF Tick
<1>5. l \in -1 .. RelayTTL /\ (l >= 0 => l = relay[q].left - 1 /\ relay[q].left >= 0)
  BY <1>2, Constants
<1>6. o.age \in Nat
  BY <1>3, AgesAre DEF Answers
<1> HIDE DEF o, l
<1>7. relay'[q] \in Relayed /\ relay'[q].resp = o /\ relay'[q].left = l
  BY <1>3, <1>4, <1>5 DEF Relayed
<1>8. ASSUME l >= 0 PROVE o.age + l <= RelayTTL + LookupTime
  BY <1>1, <1>2, <1>3, <1>5, <1>6, <1>8, Constants
<1> QED BY <1>3, <1>7, <1>8

LEMMA TickStep == ASSUME NamesInv, Tick PROVE NamesInv'
<1>0. CachesInv /\ ThreadsInv
  BY DEF NamesInv
<1>1. CachesInv'
  <2>1. DOMAIN routes' = DOMAIN routes /\ DOMAIN relay' = DOMAIN relay
    BY DEF Tick
  <2>2. routes' \in [DOMAIN routes' -> Routes] /\ RoutesFresh'
    <3>1. routes' = [h \in DOMAIN routes |-> routes'[h]]
      BY DEF Tick
    <3> QED BY <1>0, <2>1, <3>1, RoutesAge DEF RoutesFresh
  <2>3. relay' \in [DOMAIN relay' -> Relayed] /\ RelayFresh'
    <3>1. relay' = [h \in DOMAIN relay |-> relay'[h]]
      BY DEF Tick
    <3> QED BY <1>0, <2>1, <3>1, RelayAges DEF RelayFresh
  <2> QED BY <1>0, <2>1, <2>2, <2>3 DEF CachesInv, CachesBounded
<1>2. UNCHANGED <<stack, ret>> /\ DOMAIN held' = Threads
      /\ held' = [t \in Threads |-> held'[t]]
  BY DEF Tick
<1>3. ASSUME NEW t \in Threads
      PROVE  /\ held'[t] \in Answers \cup Verdicts \cup {None}
             /\ HeldFits(t, stack[t], held'[t])
  <2>1. held[t] \in Answers \cup Verdicts \cup {None} /\ HeldFits(t, stack[t], held[t])
    BY <1>0 DEF ThreadsInv
  <2>2. CASE held[t] = None
    BY <2>1, <2>2 DEF Tick
  <2>3. CASE held[t] # None
    <3>1. held'[t] = Older(held[t]) /\ held[t].age < LookupTime
      BY <2>3 DEF Tick
    <3>2. held[t].age \in Ages /\ held[t].age \in Nat
      BY <2>1, <2>3, AgesAre DEF Answers, Verdicts
    <3>3. CASE held[t] \in Verdicts /\ Head(stack[t]).op = "judge"
      <4>1. Older(held[t]) \in Verdicts /\ Older(held[t]).age <= held[t].age + 1
        BY <3>2, <3>3, OlderIs
      <4>2. Older(held[t]).age \in Nat
        BY <4>1, AgesAre DEF Verdicts
      <4>3. Older(held[t]).age <= LookupTime
        BY <3>1, <3>2, <4>1, <4>2, Constants
      <4> QED BY <2>1, <2>3, <3>1, <3>3, <4>1, <4>3 DEF HeldFits
    <3>4. CASE /\ held[t] \in Answers /\ held[t].id = t /\ held[t].q = Head(stack[t]).name
               /\ Head(stack[t]).op = "relay"
      <4>1. /\ Older(held[t]) \in Answers /\ Older(held[t]).age <= held[t].age + 1
            /\ Older(held[t]).id = t /\ Older(held[t]).q = Head(stack[t]).name
        BY <3>2, <3>4, OlderIs
      <4>2. Older(held[t]).age \in Nat
        BY <4>1, AgesAre DEF Answers
      <4>3. Older(held[t]).age <= LookupTime
        BY <3>1, <3>2, <4>1, <4>2, Constants
      <4> QED BY <2>1, <2>3, <3>1, <3>4, <4>1, <4>3 DEF HeldFits
    <3> QED BY <2>1, <2>3, <3>3, <3>4 DEF HeldFits
  <2> QED BY <2>2, <2>3
<1>4. held' \in [Threads -> Answers \cup Verdicts \cup {None}]
  BY <1>2, <1>3
<1>5. ASSUME NEW t \in Threads
      PROVE  /\ GoodStack(stack[t])'
             /\ HeldFits(t, stack[t], held[t])'
             /\ RetFits(t, stack[t], ret[t])'
  <2>1. GoodStack(stack[t])' /\ RetFits(t, stack[t], ret[t])'
    BY <1>0, <1>2 DEF ThreadsInv, GoodStack, RetFits, Shape, Calls
  <2>2. HeldFits(t, stack[t], held[t])'
    BY <1>2, <1>3 DEF HeldFits
  <2> QED BY <2>1, <2>2
<1> QED BY <1>0, <1>1, <1>2, <1>4, <1>5 DEF NamesInv, ThreadsInv

-----------------------------------------------------------------------------
LEMMA NamesInitInv == Init => NamesInv
<1> SUFFICES ASSUME Init PROVE NamesInv
  OBVIOUS
<1> DEFINE e == <<>>
<1>1. /\ routes = e /\ relay = e
      /\ stack = [t \in Threads |-> e]
      /\ ret = [t \in Threads |-> NoResult]
      /\ held = [t \in Threads |-> None]
  BY DEF Init
<1>2. /\ DOMAIN e = {} /\ IsFiniteSet(DOMAIN e) /\ Cardinality(DOMAIN e) = 0
      /\ e \in Seq(Frames) /\ e \in [DOMAIN e -> Routes] /\ e \in [DOMAIN e -> Relayed]
      /\ GoodStack(e)
  BY FS_EmptySet, EmptyIsGood
<1> HIDE DEF e
<1>3. CachesInv
  BY <1>1, <1>2, Constants DEF CachesInv, RoutesFresh, RelayFresh, CachesBounded
<1>4. ThreadsInv
  BY <1>1, <1>2, PlainResults DEF ThreadsInv, HeldFits, RetFits
<1> QED BY <1>3, <1>4 DEF NamesInv

LEMMA NamesStepInv == NamesInv /\ [Next]_vars => NamesInv'
<1> SUFFICES ASSUME NamesInv, [Next]_vars PROVE NamesInv'
  OBVIOUS
<1>1. ASSUME NEW t \in Threads, ThreadStep(t) PROVE NamesInv'
  <2>1. CASE RouteWhite(t) BY <2>1, RouteWhiteStep
  <2>2. CASE RouteHit(t) BY <2>2, RouteHitStep
  <2>3. CASE RouteMiss(t) BY <2>3, RouteMissStep
  <2>4. CASE Judged(t) BY <2>4, JudgedStep
  <2>5. CASE RouteStore(t) BY <2>5, RouteStoreStep
  <2>6. CASE DirectDial(t) BY <2>6, ResolveStep DEF DirectDial
  <2>7. CASE TunnelDial(t) BY <2>7, ResolveStep DEF TunnelDial
  <2>8. CASE Dialled(t) BY <2>8, DialledStep
  <2>9. CASE Forward(t) BY <2>9, ForwardStep
  <2>10. CASE Connected(t) \/ Unreached(t) BY <2>10, AwaitStep
  <2>11. CASE RelayHit(t) BY <2>11, RelayHitStep
  <2>12. CASE RelayAsk(t) BY <2>12, RelayAskStep
  <2>13. CASE RelayFails(t) BY <2>13, RelayFailsStep
  <2>14. CASE RelayPut(t) BY <2>14, RelayPutStep
  <2> QED
    BY <1>1, <2>1, <2>2, <2>3, <2>4, <2>5, <2>6, <2>7, <2>8, <2>9, <2>10, <2>11, <2>12,
       <2>13, <2>14
    DEF ThreadStep
<1>2. CASE Tick
  BY <1>2, TickStep
<1>3. CASE UNCHANGED vars
  <2>1. CachesInv'
    BY <1>3, CachesAlone DEF NamesInv, vars
  <2>2. ThreadsInv'
    BY <1>3 DEF NamesInv, ThreadsInv, vars, GoodStack, HeldFits, RetFits, Shape, Calls
  <2> QED BY <2>1, <2>2 DEF NamesInv
<1> QED BY <1>1, <1>2, <1>3, BeginStep DEF Next

LEMMA NamesInvariance == Spec => []NamesInv
BY NamesInitInv, NamesStepInv, PTL DEF Spec

\* The calls of a thread, whatever they are.
LEMMA FrameFacts ==
  ASSUME NamesInv, NEW t \in Threads
  PROVE  /\ DOMAIN stack[t] = 1 .. Len(stack[t]) /\ Len(stack[t]) \in Nat
         /\ \A i \in 1 .. Len(stack[t]) : Shape(stack[t][i])
         /\ \A i \in 1 .. Len(stack[t]) - 1 : Calls(stack[t][i + 1], stack[t][i])
BY LenProperties DEF NamesInv, ThreadsInv, GoodStack

(***************************************************************************)
(* The types of both caches and of every thread (route.go:17-31,           *)
(* dnsrelay.go:22-31).                                                     *)
(***************************************************************************)
THEOREM NamesTyped == Spec => []TypeOK
<1>1. NamesInv => TypeOK
  BY DEF NamesInv, CachesInv, ThreadsInv, TypeOK
<1> QED BY <1>1, NamesInvariance, PTL

(***************************************************************************)
(* However many threads look names up at a time and overwrite each other's *)
(* verdicts, none is used later than routeTTL and one lookup after it was  *)
(* true (route.go:96-131).                                                 *)
(***************************************************************************)
THEOREM VerdictsAreFresh == Spec => []RouteJustified
<1>1. NamesInv => RouteJustified
  BY FrameFacts DEF RouteJustified, Shape
<1> QED BY <1>1, NamesInvariance, PTL

(***************************************************************************)
(* Every answer of the relay has the ID and the question of the query, and *)
(* its age is bounded, however threads fill, drop and read the cache       *)
(* (dnsrelay.go:130-152).                                                  *)
(***************************************************************************)
THEOREM AnswersFit == Spec => []AnswerFits
<1>1. NamesInv => AnswerFits
  BY DEF NamesInv, ThreadsInv, RetFits, AnswerFits, In, Top
<1> QED BY <1>1, NamesInvariance, PTL

(***************************************************************************)
(* The caches keep their limits for any number of threads                  *)
(* (route.go:123-127, dnsrelay.go:144-151).                                *)
(***************************************************************************)
THEOREM CachesStaySmall == Spec => []CachesBounded
<1>1. NamesInv => CachesBounded
  BY DEF NamesInv, CachesInv
<1> QED BY <1>1, NamesInvariance, PTL

(***************************************************************************)
(* No call to the server waits for another one: only the forwarder calls   *)
(* the tunnel, only for a name that is not the server's, and what resolves *)
(* the server's own name is a forwarder that does not (dns.go:88-91).      *)
(***************************************************************************)
THEOREM RingIsBroken == Spec => []RingBroken
<1>1. ASSUME NamesInv, NEW t \in Threads,
             NEW i \in DOMAIN stack[t], NEW j \in DOMAIN stack[t], i < j,
             stack[t][i].op \in {"tunnel", "reach"}, stack[t][j].op \in {"tunnel", "reach"}
      PROVE  FALSE
  <2> DEFINE s == stack[t]
             k == j - 1
             l == j - 2
  <2>1. /\ i \in 1 .. Len(s) /\ j \in 1 .. Len(s) /\ k \in 1 .. Len(s) - 1 /\ j = k + 1
        /\ Len(s) \in Nat /\ i <= k
    BY <1>1, FrameFacts
  <2>2. Calls(s[j], s[k])
    <3> HIDE DEF s, k
    <3>1. Calls(s[k + 1], s[k])
      BY <1>1, <2>1, FrameFacts DEF s
    <3> QED BY <2>1, <3>1
  <2>3. s[k].op \in {"forward", "await"} /\ s[k].name \in ServerNames
    BY <1>1, <2>2 DEF Calls
  <2>4. i # k
    BY <1>1, <2>3
  <2>5. l \in 1 .. Len(s) - 1 /\ k = l + 1
    BY <1>1, <2>1, <2>4
  <2>6. Calls(s[k], s[l])
    <3> HIDE DEF s, k, l
    <3>1. Calls(s[l + 1], s[l])
      BY <1>1, <2>5, FrameFacts DEF s
    <3> QED BY <2>5, <3>1
  <2> QED BY <2>3, <2>6 DEF Calls
<1>2. ASSUME NamesInv PROVE RingBroken
  <2> SUFFICES ASSUME NEW t \in Threads, NEW i \in DOMAIN stack[t], NEW j \in DOMAIN stack[t],
                      stack[t][i].op \in {"tunnel", "reach"},
                      stack[t][j].op \in {"tunnel", "reach"}, i # j
               PROVE  FALSE
    BY DEF RingBroken
  <2>1. i \in Nat /\ j \in Nat
    BY <1>2, FrameFacts
  <2> QED BY <1>1, <1>2, <2>1
<1> QED BY <1>2, NamesInvariance, PTL
====
