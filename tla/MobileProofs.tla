---------------------------- MODULE MobileProofs ----------------------------
(***************************************************************************)
(* Theorems about the mobile engine: its life (EngineCore), the flows that *)
(* run inside it (Tun2sock) and the pool of fake addresses it answers with *)
(* (FakeIPPool), for any number of engines, flows, names and addresses.    *)
(***************************************************************************)
EXTENDS EngineCore, Tun2sock, FakeIPPool, FiniteSetTheorems, SequenceTheorems, TLAPS

(***************************************************************************)
(* EngineCore.  Its types and the two safety properties are inductive      *)
(* together.                                                               *)
(***************************************************************************)
CoreInv == CoreTypeOK /\ RunningMeansAlive /\ LatestIsCancellable

(***************************************************************************)
(* The invariant holds when the package is loaded (core.go:21-27).         *)
(***************************************************************************)
LEMMA CoreInitInv == CoreInit => CoreInv
BY EngineAssumption
   DEF CoreInit, CoreInv, CoreTypeOK, RunningMeansAlive, LatestIsCancellable, EnginePhases

(***************************************************************************)
(* Every start, stop, end and panic keeps it (core.go:34-117).             *)
(***************************************************************************)
LEMMA CoreStepInv == CoreInv /\ [CoreNext]_coreVars => CoreInv'
<1> SUFFICES ASSUME CoreInv, [CoreNext]_coreVars PROVE CoreInv'
    OBVIOUS
<1> USE EngineAssumption
    DEF CoreInv, CoreTypeOK, RunningMeansAlive, LatestIsCancellable, EnginePhases
<1>1. ASSUME NEW e \in Engines, StartTunCore(e) PROVE CoreInv'
  <2>1. CoreTypeOK' BY <1>1 DEF StartTunCore
  <2>2. RunningMeansAlive' BY <1>1 DEF StartTunCore
  <2>3. LatestIsCancellable' BY <1>1 DEF StartTunCore
  <2> QED BY <2>1, <2>2, <2>3
<1>2. CASE StopTunCore
  <2>1. CoreTypeOK' BY <1>2 DEF StopTunCore
  <2>2. RunningMeansAlive' BY <1>2 DEF StopTunCore
  <2>3. LatestIsCancellable' BY <1>2 DEF StopTunCore
  <2> QED BY <2>1, <2>2, <2>3
<1>3. ASSUME NEW e \in Engines, ServeCancelled(e) \/ ServeFails(e) PROVE CoreInv'
  BY <1>3 DEF ServeCancelled, ServeFails, Moves
<1>4. ASSUME NEW e \in Engines, Panic(e) PROVE CoreInv'
  BY <1>4 DEF Panic, Moves
<1>5. ASSUME NEW e \in Engines, SetStopped(e) PROVE CoreInv'
  BY <1>5 DEF SetStopped, Moves
<1>6. ASSUME NEW e \in Engines, Deferred(e) PROVE CoreInv'
  BY <1>6 DEF Deferred, Moves
<1>7. CASE UNCHANGED coreVars
  BY <1>7 DEF coreVars
<1> QED
  BY <1>1, <1>2, <1>3, <1>4, <1>5, <1>6, <1>7 DEF CoreNext, EngineStep

LEMMA CoreInvariance == CoreSpec => []CoreInv
<1> QED BY CoreInitInv, CoreStepInv, PTL DEF CoreSpec

(***************************************************************************)
(* Every reachable state of the engine's globals is well typed.            *)
(***************************************************************************)
THEOREM GlobalsTyped == CoreSpec => []CoreTypeOK
<1>1. CoreInv => CoreTypeOK BY DEF CoreInv
<1> QED BY <1>1, CoreInvariance, PTL

(***************************************************************************)
(* RunningCore never reports an engine whose goroutine is gone, however    *)
(* many engines overlap (core.go:65-77, 119-124).                          *)
(***************************************************************************)
THEOREM RunningIsAlive == CoreSpec => []RunningMeansAlive
<1>1. CoreInv => RunningMeansAlive BY DEF CoreInv
<1> QED BY <1>1, CoreInvariance, PTL

(***************************************************************************)
(* StopTunCore can always stop the engine started last (core.go:109-117).  *)
(***************************************************************************)
THEOREM LatestCanBeStopped == CoreSpec => []LatestIsCancellable
<1>1. CoreInv => LatestIsCancellable BY DEF CoreInv
<1> QED BY <1>1, CoreInvariance, PTL

-----------------------------------------------------------------------------
(***************************************************************************)
(* Tun2sock.  Why an answer is never taken for another request: only the   *)
(* holder of a protector's mutex writes to its connection, a connection    *)
(* that may still be read holds nothing but the holder's request or the    *)
(* answer to it, after at most the third byte of one refusal, which makes  *)
(* what is read next no ok; and one past its deadline is never read again. *)
(***************************************************************************)
\* A protector's mutex is held by the flow that is between the lock and the
\* unlock of protect, and by no other (protect.go:26-28).
MutexInv ==
  \A f \in Flows, d \in Dialers :
    holder[d] = f <=> flow[f].pc \in {"send", "ack"} /\ flow[f].dialer = d

\* What an earlier answer may have left: nothing on a second try's connection,
\* which is new, and at most the end of a refusal on a first try's.
Left(try) == IF try = 2 THEN {<<>>} ELSE {<<>>, <<"r">>}

\* After what is left comes nothing yet, and f's request is the only one; or the
\* answer to it comes.
Owed(c, f, try, marked) ==
  \E left \in Left(try) :
    \/ c.req = <<f>> /\ c.ack = left
    \/ /\ c.req = <<>>
       /\ (c.ack = left \o Ok /\ f \in marked) \/ c.ack = left \o Err

\* Nothing is on its way.
Quiet(c) == c.req = <<>> /\ c.ack \in {<<>>, <<"r">>}

\* The holder of d's mutex has sent and waits for its answer.
Waits(d) == holder[d] \in Flows /\ flow[holder[d]].pc = "ack"
OwedTo(d) == Owed(conn[d], holder[d], flow[holder[d]].try, protected)

\* What a connection that can still be read holds.
QueueInv ==
  \A d \in Dialers : conn[d] # None /\ ~ conn[d].late =>
    (Waits(d) /\ OwedTo(d)) \/ (~ Waits(d) /\ Quiet(conn[d]))

\* A second try begins without a connection.
SecondInv ==
  \A f \in Flows : flow[f].pc = "send" /\ flow[f].try = 2 => conn[flow[f].dialer] = None

TunInv == TypeOK /\ MutexInv /\ QueueInv /\ SecondInv /\ AckedMeansProtected

\* More marks change nothing for an answer that is owed.
LEMMA OwedGrows ==
  ASSUME NEW c, NEW f, NEW try, NEW marked, NEW more, Owed(c, f, try, marked),
         f \in marked => f \in more
  PROVE  Owed(c, f, try, more)
BY DEF Owed

\* When Serve begins no flow runs and no protector is connected.
LEMMA TunInitInv == Init => TunInv
<1> SUFFICES ASSUME Init PROVE TunInv
  OBVIOUS
<1> USE TunAssumption
<1>1. TypeOK
  BY DEF Init, TypeOK, NoFlow, FlowStates, Places, Dialers
<1>2. MutexInv /\ QueueInv /\ SecondInv /\ AckedMeansProtected
  BY DEF Init, MutexInv, QueueInv, SecondInv, AckedMeansProtected, NoFlow, Dialers
<1> QED BY <1>1, <1>2 DEF TunInv

\* Steps that leave the channels and the mutexes alone and move one flow
\* between places outside the mutex.
LEMMA OutsideMoves ==
  ASSUME TunInv, NEW f \in Flows, NEW r \in FlowStates,
         flow[f].pc \notin {"send", "ack"}, r.pc \notin {"send", "ack"},
         flow' = [flow EXCEPT ![f] = r], UNCHANGED <<path, conn, holder>>,
         serve' \in {"on", "cancelled", "failed"}, aborted' \in BOOLEAN,
         protected' \subseteq Flows, protected \ {f} \subseteq protected',
         path /\ r.pc \in {"connect", "relay", "write"} => f \in protected'
  PROVE  TunInv'
<1>0. TypeOK /\ MutexInv /\ QueueInv /\ SecondInv /\ AckedMeansProtected
  BY DEF TunInv
<1>1. TypeOK'
  BY <1>0 DEF TypeOK
<1>2. /\ flow'[f] = r
      /\ \A g \in Flows \ {f} : flow'[g] = flow[g]
  BY <1>0 DEF TypeOK
<1>3. \A d \in Dialers : holder[d] # f
  BY <1>0 DEF MutexInv
<1>4. MutexInv'
  BY <1>0, <1>2, <1>3 DEF MutexInv
<1>5. \A d \in Dialers : Waits(d)' <=> Waits(d)
  BY <1>2, <1>3 DEF Waits
<1>6. QueueInv'
  <2> SUFFICES ASSUME NEW d \in Dialers, conn[d] # None, ~ conn[d].late
               PROVE  \/ Waits(d)' /\ OwedTo(d)'
                      \/ ~ Waits(d)' /\ Quiet(conn[d])'
    BY DEF QueueInv
  <2>1. CASE Waits(d) /\ OwedTo(d)
    <3>1. holder[d] \in protected => holder[d] \in protected'
      BY <1>3
    <3>3. flow'[holder[d]] = flow[holder[d]]
      BY <1>2, <1>3, <2>1 DEF Waits
    <3>2. OwedTo(d)'
      BY <2>1, <3>1, <3>3, OwedGrows DEF OwedTo
    <3> QED BY <1>5, <2>1, <3>2
  <2>2. CASE ~ Waits(d) /\ Quiet(conn[d])
    BY <1>5, <2>2
  <2> QED BY <1>0, <2>1, <2>2 DEF QueueInv
<1>7. AckedMeansProtected'
  BY <1>0, <1>2 DEF AckedMeansProtected
<1>8. SecondInv'
  BY <1>0, <1>2 DEF SecondInv
<1> QED BY <1>1, <1>4, <1>6, <1>7, <1>8 DEF TunInv

\* A dial fails or a flow ends while it holds no mutex.
LEMMA OutsideEnds ==
  ASSUME TunInv, NEW f \in Flows, flow[f].pc \notin {"send", "ack"},
         Fails(f) \/ Over(f), UNCHANGED <<path, serve, aborted, conn, holder>>
  PROVE  TunInv'
<1>0. TypeOK
  BY DEF TunInv
<1>1. CASE Over(f)
  <2>1. NoFlow \in FlowStates /\ NoFlow.pc = "none"
    BY DEF NoFlow, FlowStates, Places, Dialers
  <2> QED BY <1>0, <1>1, <2>1, OutsideMoves DEF Over, TypeOK
<1>2. CASE ~ Over(f)
  <2> DEFINE r == [flow[f] EXCEPT !.pc = "dial", !.att = 2, !.try = 1]
  <2>1. flow' = [flow EXCEPT ![f] = r] /\ protected' = protected \ {f}
    BY <1>0, <1>2 DEF Fails, TypeOK
  <2>2. flow[f] \in FlowStates
    BY <1>0 DEF TypeOK
  <2>3. r \in FlowStates /\ r.pc = "dial"
    BY <2>2 DEF FlowStates, Places
  <2> HIDE DEF r
  <2> QED BY <1>0, <2>1, <2>3, OutsideMoves DEF TypeOK
<1> QED BY <1>1, <1>2

\* A flow inside the mutex of its dialer moves on; the others wait.
LEMMA InsideMoves ==
  ASSUME TunInv, NEW f \in Flows, NEW d \in Dialers, NEW r \in FlowStates,
         NEW c \in Channels \cup {None}, NEW p \in SUBSET Flows,
         holder[d] = f, r.dialer = d, r.pc \in {"send", "ack"},
         flow' = [flow EXCEPT ![f] = r], conn' = [conn EXCEPT ![d] = c],
         protected' = p, protected \subseteq p, UNCHANGED <<path, serve, aborted, holder>>,
         c # None /\ ~ c.late =>
           IF r.pc = "ack" THEN Owed(c, f, r.try, protected') ELSE Quiet(c),
         r.pc = "send" /\ r.try = 2 => c = None
  PROVE  TunInv'
<1>0. TypeOK /\ MutexInv /\ QueueInv /\ SecondInv /\ AckedMeansProtected
  BY DEF TunInv
<1>1. TypeOK'
  <2>1. flow' \in [Flows -> FlowStates]
    BY <1>0 DEF TypeOK
  <2>2. conn' \in [Dialers -> Channels \cup {None}]
    BY <1>0 DEF TypeOK
  <2> QED BY <1>0, <2>1, <2>2 DEF TypeOK
<1>2. /\ flow'[f] = r /\ conn'[d] = c
      /\ \A g \in Flows \ {f} : flow'[g] = flow[g]
      /\ \A e \in Dialers \ {d} : conn'[e] = conn[e]
  BY <1>0 DEF TypeOK
<1>3. \A e \in Dialers \ {d} : holder[e] # f
  BY <1>0 DEF MutexInv
<1>4. MutexInv'
  BY <1>0, <1>2, <1>3 DEF MutexInv
<1>5. QueueInv'
  <2> SUFFICES ASSUME NEW e \in Dialers, conn'[e] # None, ~ conn'[e].late
               PROVE  \/ Waits(e)' /\ OwedTo(e)'
                      \/ ~ Waits(e)' /\ Quiet(conn[e])'
    BY DEF QueueInv
  <2>1. CASE e = d
    <3>1. Waits(e)' <=> r.pc = "ack"
      BY <1>2, <2>1 DEF Waits
    <3>2. CASE r.pc = "ack"
      <4>1. OwedTo(e)'
        BY <1>2, <2>1, <3>2 DEF OwedTo
      <4> QED BY <3>1, <3>2, <4>1
    <3>3. CASE r.pc # "ack"
      BY <1>2, <2>1, <3>1, <3>3 DEF Quiet
    <3> QED BY <3>2, <3>3
  <2>2. CASE e # d
    <3>1. Waits(e)' <=> Waits(e)
      BY <1>2, <1>3, <2>2 DEF Waits
    <3>2. Waits(e) /\ OwedTo(e) => OwedTo(e)'
      <4> SUFFICES ASSUME Waits(e), OwedTo(e) PROVE OwedTo(e)'
        OBVIOUS
      <4>1. flow'[holder[e]] = flow[holder[e]] /\ conn'[e] = conn[e] /\ holder'[e] = holder[e]
        BY <1>2, <1>3, <2>2 DEF Waits
      <4> QED BY <4>1, OwedGrows DEF OwedTo
    <3>3. Quiet(conn[e]) => Quiet(conn[e])'
      BY <1>2, <2>2 DEF Quiet
    <3> QED BY <1>0, <1>2, <2>2, <3>1, <3>2, <3>3 DEF QueueInv
  <2> QED BY <2>1, <2>2
<1>6. AckedMeansProtected'
  BY <1>0, <1>2 DEF AckedMeansProtected
<1>7. SecondInv'
  <2> SUFFICES ASSUME NEW g \in Flows, flow'[g].pc = "send", flow'[g].try = 2
               PROVE  conn'[flow'[g].dialer] = None
    BY DEF SecondInv
  <2>1. CASE g = f
    BY <1>2, <2>1
  <2>2. CASE g # f
    <3>1. flow[g].dialer \in Dialers /\ holder[flow[g].dialer] = g
      BY <1>0, <1>2, <2>2 DEF MutexInv, TypeOK, FlowStates
    <3> QED BY <1>0, <1>2, <2>2, <3>1 DEF SecondInv
  <2> QED BY <2>1, <2>2
<1> QED BY <1>1, <1>4, <1>5, <1>6, <1>7 DEF TunInv

\* A flow leaves the mutex of its dialer: whoever is next finds nothing of it.
LEMMA Leaves ==
  ASSUME TunInv, NEW f \in Flows, NEW d \in Dialers, NEW r \in FlowStates,
         NEW c \in Channels \cup {None},
         holder[d] = f, r.pc \notin {"send", "ack"},
         flow' = [flow EXCEPT ![f] = r], conn' = [conn EXCEPT ![d] = c],
         holder' = [holder EXCEPT ![d] = None], UNCHANGED <<path, serve>>,
         aborted' \in BOOLEAN, protected' \subseteq Flows,
         protected \ {f} \subseteq protected',
         path /\ r.pc \in {"connect", "relay", "write"} => f \in protected',
         c # None /\ ~ c.late => Quiet(c)
  PROVE  TunInv'
<1> USE TunAssumption
<1>0. TypeOK /\ MutexInv /\ QueueInv /\ SecondInv /\ AckedMeansProtected
  BY DEF TunInv
<1>1. TypeOK'
  <2>1. flow' \in [Flows -> FlowStates]
    BY <1>0 DEF TypeOK
  <2>2. conn' \in [Dialers -> Channels \cup {None}]
    BY <1>0 DEF TypeOK
  <2>3. holder' \in [Dialers -> Flows \cup {None}]
    BY <1>0 DEF TypeOK
  <2> QED BY <1>0, <2>1, <2>2, <2>3 DEF TypeOK
<1>2. /\ flow'[f] = r /\ conn'[d] = c /\ holder'[d] = None
      /\ \A g \in Flows \ {f} : flow'[g] = flow[g]
      /\ \A e \in Dialers \ {d} : conn'[e] = conn[e] /\ holder'[e] = holder[e]
  BY <1>0 DEF TypeOK
<1>3. \A e \in Dialers \ {d} : holder[e] # f
  BY <1>0 DEF MutexInv
<1>4. MutexInv'
  BY <1>0, <1>2, <1>3 DEF MutexInv
<1>5. QueueInv'
  <2> SUFFICES ASSUME NEW e \in Dialers, conn'[e] # None, ~ conn'[e].late
               PROVE  \/ Waits(e)' /\ OwedTo(e)'
                      \/ ~ Waits(e)' /\ Quiet(conn[e])'
    BY DEF QueueInv
  <2>1. CASE e = d
    BY <1>2, <2>1 DEF Waits, Quiet
  <2>2. CASE e # d
    <3>1. Waits(e)' <=> Waits(e)
      BY <1>2, <1>3, <2>2 DEF Waits
    <3>2. Waits(e) /\ OwedTo(e) => OwedTo(e)'
      <4> SUFFICES ASSUME Waits(e), OwedTo(e) PROVE OwedTo(e)'
        OBVIOUS
      <4>1. /\ flow'[holder[e]] = flow[holder[e]] /\ conn'[e] = conn[e]
            /\ holder'[e] = holder[e] /\ holder[e] # f
        BY <1>2, <1>3, <2>2 DEF Waits
      <4> QED BY <4>1, OwedGrows DEF OwedTo
    <3>3. Quiet(conn[e]) => Quiet(conn[e])'
      BY <1>2, <2>2 DEF Quiet
    <3> QED BY <1>0, <1>2, <2>2, <3>1, <3>2, <3>3 DEF QueueInv
  <2> QED BY <2>1, <2>2
<1>6. AckedMeansProtected'
  BY <1>0, <1>2 DEF AckedMeansProtected
<1>7. SecondInv'
  <2> SUFFICES ASSUME NEW g \in Flows, flow'[g].pc = "send", flow'[g].try = 2
               PROVE  conn'[flow'[g].dialer] = None
    BY DEF SecondInv
  <2>1. g # f
    BY <1>2
  <2>2. flow[g].dialer \in Dialers /\ holder[flow[g].dialer] = g
    BY <1>0, <1>2, <2>1 DEF MutexInv, TypeOK, FlowStates
  <2> QED BY <1>0, <1>2, <2>1, <2>2 DEF SecondInv
<1> QED BY <1>1, <1>4, <1>5, <1>6, <1>7 DEF TunInv

\* One lemma for each step of protect, of the host and of the deadline.
LEMMA LockStep == ASSUME TunInv, NEW f \in Flows, Lock(f) PROVE TunInv'
<1> USE TunAssumption
<1> DEFINE d == Of(f)
           r == [flow[f] EXCEPT !.pc = "send", !.try = 1]
<1>0. TypeOK /\ MutexInv /\ QueueInv /\ SecondInv /\ AckedMeansProtected /\ flow[f] \in FlowStates
  BY DEF TunInv, TypeOK
<1>1. /\ d \in Dialers /\ r \in FlowStates /\ r.pc = "send" /\ r.try = 1
      /\ r.dialer = d /\ d = flow[f].dialer
  BY <1>0 DEF Of, FlowStates, Places
<1>2. /\ flow[f].pc = "dial" /\ holder[d] = None
      /\ flow' = [flow EXCEPT ![f] = r] /\ holder' = [holder EXCEPT ![d] = f]
      /\ UNCHANGED <<path, serve, aborted, conn, protected>>
  BY <1>0 DEF Lock, At, Of, TypeOK
<1> HIDE DEF d, r
<1>3. /\ flow'[f] = r /\ holder'[d] = f
      /\ \A g \in Flows \ {f} : flow'[g] = flow[g]
      /\ \A e \in Dialers \ {d} : holder'[e] = holder[e]
  BY <1>0, <1>1, <1>2 DEF TypeOK
<1>4. \A e \in Dialers : holder[e] # f
  BY <1>0, <1>2 DEF MutexInv
<1>5. TypeOK'
  BY <1>0, <1>1, <1>2 DEF TypeOK
<1>6. MutexInv'
  <2> SUFFICES ASSUME NEW g \in Flows, NEW e \in Dialers
               PROVE  holder'[e] = g <=> flow'[g].pc \in {"send", "ack"} /\ flow'[g].dialer = e
    BY DEF MutexInv
  <2>1. holder[e] = g <=> flow[g].pc \in {"send", "ack"} /\ flow[g].dialer = e
    BY <1>0 DEF MutexInv
  <2>2. ~ (flow[g].pc \in {"send", "ack"} /\ flow[g].dialer = d)
    BY <1>0, <1>1, <1>2 DEF MutexInv
  <2> QED BY <1>1, <1>2, <1>3, <1>4, <2>1, <2>2
<1>7. QueueInv'
  <2> SUFFICES ASSUME NEW e \in Dialers, conn[e] # None, ~ conn[e].late
               PROVE  \/ Waits(e)' /\ OwedTo(e)'
                      \/ ~ Waits(e)' /\ Quiet(conn[e])'
    BY <1>2 DEF QueueInv
  <2>1. CASE e = d
    BY <1>0, <1>1, <1>2, <1>3, <2>1 DEF QueueInv, Waits
  <2>2. CASE e # d
    <3>1. Waits(e)' <=> Waits(e)
      BY <1>3, <1>4, <2>2 DEF Waits
    <3>2. Waits(e) /\ OwedTo(e) => OwedTo(e)'
      BY <1>2, <1>3, <1>4, <2>2 DEF OwedTo, Waits
    <3> QED BY <1>0, <1>2, <3>1, <3>2 DEF QueueInv
  <2> QED BY <2>1, <2>2
<1>8. AckedMeansProtected'
  BY <1>0, <1>1, <1>2, <1>3 DEF AckedMeansProtected
<1>9. SecondInv'
  BY <1>0, <1>1, <1>2, <1>3 DEF SecondInv
<1> QED BY <1>5, <1>6, <1>7, <1>8, <1>9 DEF TunInv

\* A flow that sends or waits holds its dialer's mutex.
LEMMA Holds ==
  ASSUME TunInv, NEW f \in Flows, flow[f].pc \in {"send", "ack"}
  PROVE  /\ Of(f) \in Dialers /\ holder[Of(f)] = f /\ flow[f].dialer = Of(f)
         /\ flow[f] \in FlowStates
         /\ conn[Of(f)] \in Channels \cup {None}
<1>1. flow[f] \in FlowStates /\ conn \in [Dialers -> Channels \cup {None}]
  BY DEF TunInv, TypeOK
<1>2. Of(f) \in Dialers /\ flow[f].dialer = Of(f)
  BY <1>1 DEF Of, FlowStates
<1> QED BY <1>1, <1>2 DEF TunInv, MutexInv

\* The two bytes that are read are an ok.
ReadOk(ack) == Len(ack) >= 2 /\ SubSeq(ack, 1, 2) = Ok

\* What is read, and what it leaves, is taken byte by byte.
Letters == {"o", "k", "e", "r"}

LEMMA Parts ==
  ASSUME NEW b \in Seq(Letters), Len(b) >= 2
  PROVE  /\ SubSeq(b, 1, 2)[1] = b[1]
         /\ SubSeq(b, 3, Len(b)) \in Seq(Letters)
         /\ Len(SubSeq(b, 3, Len(b))) = Len(b) - 2
         /\ Len(b) >= 3 => SubSeq(b, 3, Len(b))[1] = b[3]
<1>1. \A i \in 1 .. Len(b) : b[i] \in Letters
  BY ElementOfSeq
<1>2. Len(b) \in Nat
  OBVIOUS
<1>3. \A i \in 1 .. 2 : SubSeq(b, 1, 2)[i] = b[1 + i - 1]
  <2>1. \A i \in 1 .. 2 : b[i] \in Letters
    BY <1>1, <1>2
  <2>2. 1 \in Int /\ 2 \in Int /\ 2 - 1 + 1 = 2
    OBVIOUS
  <2>3. \A i \in 1 .. 2 - 1 + 1 : SubSeq(b, 1, 2)[i] = b[1 + i - 1]
    BY <2>1, <2>2, SubSeqProperties
  <2> QED BY <2>3
<1> DEFINE n == Len(b)
<1>4. /\ SubSeq(b, 3, n) \in Seq(Letters)
      /\ Len(SubSeq(b, 3, n)) = IF 3 <= n THEN n - 3 + 1 ELSE 0
      /\ \A i \in 1 .. n - 3 + 1 : SubSeq(b, 3, n)[i] = b[3 + i - 1]
  <2>1. \A i \in 3 .. n : b[i] \in Letters
    BY <1>1, <1>2
  <2>2. 3 \in Int /\ n \in Int
    BY <1>2
  <2> HIDE DEF n
  <2> QED BY <2>1, <2>2, SubSeqProperties
<1>5. SubSeq(b, 1, 2)[1] = b[1]
  <2>1. 1 \in 1 .. 2 /\ 1 + 1 - 1 = 1
    OBVIOUS
  <2> QED BY <1>3, <2>1
<1>6. n \in Nat /\ n >= 2
  BY <1>2
<1> HIDE DEF n
<1>7. Len(SubSeq(b, 3, n)) = n - 2
  BY <1>4, <1>6
<1>8. n >= 3 => SubSeq(b, 3, n)[1] = b[3]
  <2> SUFFICES ASSUME n >= 3 PROVE SubSeq(b, 3, n)[1] = b[3]
    OBVIOUS
  <2>1. 1 \in 1 .. n - 3 + 1 /\ 3 + 1 - 1 = 3
    BY <1>6
  <2> QED BY <1>4, <2>1
<1> QED BY <1>4, <1>5, <1>7, <1>8 DEF n

\* The bytes of the two answers, alone and after the end of a refusal.
LEMMA Bytes ==
  LET left == <<"r">> IN
  /\ Ok \in Seq(Letters) /\ Len(Ok) = 2
  /\ Err \in Seq(Letters) /\ Len(Err) = 3 /\ Err[1] = "e" /\ Err[3] = "r"
  /\ left \o Ok \in Seq(Letters) /\ Len(left \o Ok) >= 2 /\ (left \o Ok)[1] = "r"
  /\ left \o Err \in Seq(Letters) /\ Len(left \o Err) >= 2 /\ (left \o Err)[1] = "r"
<1>1. Ok \in Seq(Letters) /\ Len(Ok) = 2
  BY DEF Ok, Letters
<1>2. Err \in Seq(Letters) /\ Len(Err) = 3 /\ Err[1] = "e" /\ Err[3] = "r"
  <2> DEFINE b == <<"e", "r", "r">>
  <2>1. Len(b) = 3 /\ b[1] = "e" /\ b[3] = "r"
    OBVIOUS
  <2>2. b \in Seq(Letters)
    BY DEF Letters
  <2> QED BY <2>1, <2>2 DEF Err
<1>3. <<"r">> \in Seq(Letters) /\ Len(<<"r">>) = 1 /\ <<"r">>[1] = "r"
  BY DEF Letters
<1> DEFINE left == <<"r">>
<1> HIDE DEF left
<1>4. left \in Seq(Letters) /\ Len(left) = 1 /\ left[1] = "r"
  BY <1>3 DEF left
<1> DEFINE After(b) ==
      /\ left \o b \in Seq(Letters) /\ Len(left \o b) = 1 + Len(b)
      /\ (left \o b)[1] = "r"
<1>a. ASSUME NEW b \in Seq(Letters), Len(b) >= 1 PROVE After(b)
  <2>1. /\ left \o b \in Seq(Letters) /\ Len(left \o b) = Len(left) + Len(b)
        /\ \A i \in 1 .. Len(left) + Len(b) :
             (left \o b)[i] = IF i <= Len(left) THEN left[i] ELSE b[i - Len(left)]
    BY <1>4, ConcatProperties
  <2>2. 1 \in 1 .. 1 + Len(b)
    BY <1>a
  <2> QED BY <1>4, <2>1, <2>2
<1>5. After(Ok)
  <2>1. Ok \in Seq(Letters) /\ Len(Ok) >= 1
    BY <1>1
  <2> HIDE DEF After
  <2> QED BY <1>a, <2>1
<1>6. After(Err)
  <2>1. Err \in Seq(Letters) /\ Len(Err) >= 1
    BY <1>2
  <2> HIDE DEF After
  <2> QED BY <1>a, <2>1
<1> QED BY <1>1, <1>2, <1>5, <1>6 DEF left

\* Of what can be owed only a whole ok to f's own request reads as one.
LEMMA ReadsOk ==
  ASSUME NEW c, NEW f, NEW try, NEW marked, Owed(c, f, try, marked), ReadOk(c.ack)
  PROVE  c.req = <<>> /\ c.ack = Ok /\ f \in marked
<1>1. PICK left \in Left(try) :
        \/ c.req = <<f>> /\ c.ack = left
        \/ /\ c.req = <<>>
           /\ (c.ack = left \o Ok /\ f \in marked) \/ c.ack = left \o Err
  BY DEF Owed
<1>2. left \in {<<>>, <<"r">>}
  BY DEF Left
<1>3. ~ ReadOk(<<>>) /\ ~ ReadOk(<<"r">>)
  BY DEF ReadOk
<1>4. <<>> \o Ok = Ok /\ <<>> \o Err = Err
  BY Bytes
<1>a. ASSUME NEW b \in Seq(Letters), ReadOk(b) PROVE b[1] = "o"
  <2>1. SubSeq(b, 1, 2)[1] = b[1] /\ SubSeq(b, 1, 2) = Ok
    BY <1>a, Parts DEF ReadOk
  <2>2. Ok[1] = "o"
    BY DEF Ok
  <2> QED BY <2>1, <2>2
<1>5. ~ ReadOk(Err) /\ ~ ReadOk(<<"r">> \o Ok) /\ ~ ReadOk(<<"r">> \o Err)
  BY <1>a, Bytes
<1> QED BY <1>1, <1>2, <1>3, <1>4, <1>5

\* On a second try at most the end of a refusal is left.
LEMMA LeavesAtMost ==
  ASSUME NEW c \in Channels, NEW f, NEW marked, Owed(c, f, 2, marked), Len(c.ack) >= 2
  PROVE  WithoutAnswer(c) \in Channels /\ Quiet(WithoutAnswer(c))
<1>1. PICK left \in Left(2) :
        \/ c.req = <<f>> /\ c.ack = left
        \/ c.req = <<>> /\ (c.ack = left \o Ok \/ c.ack = left \o Err)
  BY DEF Owed
<1>2. left = <<>> /\ <<>> \o Ok = Ok /\ <<>> \o Err = Err /\ Len(<<>>) = 0
  BY Bytes DEF Left
<1>3. c.req = <<>> /\ (c.ack = Ok \/ c.ack = Err)
  BY <1>1, <1>2
<1> DEFINE rest == SubSeq(c.ack, 3, Len(c.ack))
<1>4. c.ack \in Seq(Letters)
  BY DEF Channels, Letters
<1>5. /\ rest \in Seq(Letters) /\ Len(rest) = Len(c.ack) - 2
      /\ Len(c.ack) >= 3 => rest[1] = c.ack[3]
  BY <1>4, Parts
<1>6. WithoutAnswer(c) = [c EXCEPT !.ack = rest]
  BY DEF WithoutAnswer
<1> HIDE DEF rest
<1>7. Len(rest) = 0 \/ (Len(rest) = 1 /\ rest[1] = "r")
  BY <1>3, <1>5, Bytes
<1>8. rest = <<>> \/ rest = <<"r">>
  <2>1. CASE Len(rest) = 0
    BY <1>5, <2>1, EmptySeq
  <2>2. CASE Len(rest) = 1 /\ rest[1] = "r"
    <3>1. <<"r">> \in Seq(Letters) /\ Len(<<"r">>) = 1 /\ <<"r">>[1] = "r"
      BY DEF Letters
    <3>2. \A i \in 1 .. Len(rest) : rest[i] = <<"r">>[i]
      BY <2>2, <3>1
    <3> QED BY <1>5, <2>2, <3>1, <3>2, SeqEqual
  <2> QED BY <1>7, <2>1, <2>2
<1> QED BY <1>3, <1>5, <1>6, <1>8 DEF Channels, Quiet, Letters

LEMMA SendStep == ASSUME TunInv, NEW f \in Flows, Send(f) PROVE TunInv'
<1> DEFINE d == Of(f)
           r == [flow[f] EXCEPT !.pc = "ack"]
           c == [Conn(d) EXCEPT !.req = Append(@, f)]
<1>0. TypeOK /\ QueueInv /\ SecondInv /\ flow[f].pc = "send"
  BY DEF TunInv, Send, At
<1>1. d \in Dialers /\ holder[d] = f /\ flow[f].dialer = d /\ flow[f] \in FlowStates
      /\ conn[d] \in Channels \cup {None}
  BY <1>0, Holds
<1>2. r \in FlowStates /\ r.pc = "ack" /\ r.dialer = d /\ r.try = flow[f].try
  BY <1>1 DEF FlowStates, Places
<1>3. /\ flow' = [flow EXCEPT ![f] = r] /\ conn' = [conn EXCEPT ![d] = c]
      /\ ~ Conn(d).late /\ UNCHANGED <<path, serve, aborted, holder, protected>>
  BY <1>0 DEF Send, Goes, TypeOK
<1>4. Conn(d) \in Channels /\ Conn(d).req = <<>> /\ Conn(d).ack \in Left(flow[f].try)
  <2>1. CASE conn[d] = None
    BY <2>1 DEF Conn, Fresh, Channels, Left
  <2>2. CASE conn[d] # None
    <3>1. ~ Waits(d)
      BY <1>0, <1>1 DEF Waits
    <3>2. Conn(d) = conn[d] /\ ~ conn[d].late
      BY <1>3, <2>2 DEF Conn
    <3>3. flow[f].try # 2
      BY <1>0, <1>1, <2>2 DEF SecondInv
    <3> QED BY <1>0, <1>1, <2>2, <3>1, <3>2, <3>3 DEF QueueInv, Quiet, Left
  <2> QED BY <2>1, <2>2
<1>5. Append(<<>>, f) = <<f>> /\ <<f>> \in Seq(Flows)
  OBVIOUS
<1>6. c \in Channels /\ c.req = <<f>> /\ c.ack \in Left(flow[f].try)
  BY <1>4, <1>5 DEF Channels
<1> HIDE DEF d, r, c
<1>7. Owed(c, f, r.try, protected')
  BY <1>2, <1>6 DEF Owed
<1>8. protected \in SUBSET Flows
  BY <1>0 DEF TypeOK
<1> QED BY <1>1, <1>2, <1>3, <1>6, <1>7, <1>8, InsideMoves

LEMMA AckedStep == ASSUME TunInv, NEW f \in Flows, Acked(f) PROVE TunInv'
<1> DEFINE d == Of(f)
           r == [flow[f] EXCEPT !.pc = "connect", !.try = 1]
           c == WithoutAnswer(conn[d])
<1>0. TypeOK /\ QueueInv /\ flow[f].pc = "ack"
  BY DEF TunInv, Acked, Answered, At
<1>1. d \in Dialers /\ holder[d] = f /\ flow[f].dialer = d /\ flow[f] \in FlowStates
      /\ conn[d] \in Channels \cup {None}
  BY <1>0, Holds
<1>2. conn[d] # None /\ ~ conn[d].late /\ ReadOk(conn[d].ack)
  BY DEF Acked, Answered, ReadOk
<1>3. conn[d] \in Channels
  BY <1>1, <1>2
<1>4. /\ flow' = [flow EXCEPT ![f] = r] /\ conn' = [conn EXCEPT ![d] = c]
      /\ holder' = [holder EXCEPT ![d] = None] /\ UNCHANGED <<path, serve, aborted, protected>>
  BY <1>0, <1>1 DEF Acked, TypeOK
<1>5. r \in FlowStates /\ r.pc = "connect"
  BY <1>1 DEF FlowStates, Places
<1>6. Waits(d)
  BY <1>0, <1>1 DEF Waits
<1>7. Owed(conn[d], f, flow[f].try, protected)
  BY <1>0, <1>1, <1>2, <1>6 DEF QueueInv, OwedTo
<1>8. conn[d].req = <<>> /\ conn[d].ack = Ok /\ f \in protected
  BY <1>2, <1>7, ReadsOk
<1>9. SubSeq(Ok, 3, Len(Ok)) = <<>>
  BY DEF Ok
<1>10. f \in protected
  BY <1>8
<1>11. <<>> \in Seq({"o", "k", "e", "r"})
  OBVIOUS
<1>12. c = [conn[d] EXCEPT !.ack = <<>>]
  BY <1>8, <1>9 DEF WithoutAnswer
<1>13. c \in Channels /\ Quiet(c)
  BY <1>3, <1>8, <1>11, <1>12 DEF Channels, Quiet
<1> HIDE DEF d, r, c
<1> QED BY <1>0, <1>1, <1>4, <1>5, <1>10, <1>13, Leaves DEF TypeOK

LEMMA SendFailsStep == ASSUME TunInv, NEW f \in Flows, SendFails(f) PROVE TunInv'
<1> DEFINE d == Of(f)
           c == IF Answered(f, FALSE) THEN WithoutAnswer(conn[d]) ELSE conn[d]
<1>0. TypeOK /\ QueueInv /\ MutexInv /\ flow[f].pc \in {"send", "ack"}
  BY DEF TunInv, SendFails, Answered, At
<1>1. d \in Dialers /\ holder[d] = f /\ flow[f].dialer = d /\ flow[f] \in FlowStates
      /\ conn[d] \in Channels \cup {None}
  BY <1>0, Holds
<1>2. CASE flow[f].try = 1
  <2> DEFINE r == [flow[f] EXCEPT !.pc = "send", !.try = 2]
  <2>1. /\ flow' = [flow EXCEPT ![f] = r] /\ conn' = [conn EXCEPT ![d] = None]
        /\ UNCHANGED <<path, serve, aborted, holder, protected>>
    BY <1>0, <1>2 DEF SendFails, TypeOK
  <2>2. r \in FlowStates /\ r.pc = "send" /\ r.dialer = d
    BY <1>1 DEF FlowStates, Places
  <2> HIDE DEF d, r, c
  <2>3. protected \in SUBSET Flows
    BY <1>0 DEF TypeOK
  <2> QED BY <1>1, <2>1, <2>2, <2>3, InsideMoves
<1>3. CASE flow[f].try # 1
  <2>1. /\ conn' = [conn EXCEPT ![d] = c] /\ holder' = [holder EXCEPT ![d] = None]
        /\ Fails(f) /\ UNCHANGED <<path, serve, aborted>>
    BY <1>0, <1>1, <1>3 DEF SendFails, TypeOK
  <2>2. c \in Channels \cup {None} /\ (c # None /\ ~ c.late => Quiet(c))
    <3>1. CASE Answered(f, FALSE)
      <4>1. /\ flow[f].pc = "ack" /\ conn[d] # None /\ ~ conn[d].late
            /\ Len(conn[d].ack) >= 2 /\ conn[d] \in Channels
        BY <1>1, <3>1 DEF Answered, At
      <4>2. Waits(d)
        BY <1>1, <4>1 DEF Waits
      <4>3. Owed(conn[d], f, 2, protected)
        BY <1>0, <1>1, <1>3, <4>1, <4>2 DEF QueueInv, OwedTo, FlowStates
      <4> QED BY <3>1, <4>1, <4>3, LeavesAtMost
    <3>2. CASE ~ Answered(f, FALSE)
      <4>1. c = conn[d]
        BY <3>2
      <4>2. ASSUME conn[d] # None, ~ conn[d].late PROVE Quiet(conn[d])
        <5>1. flow[f].pc = "send"
          BY <3>2, <4>2 DEF SendFails, At
        <5>2. ~ Waits(d)
          BY <1>1, <5>1 DEF Waits
        <5> QED BY <1>0, <1>1, <4>2, <5>2 DEF QueueInv
      <4> QED BY <1>1, <4>1, <4>2
    <3> QED BY <3>1, <3>2
  <2> HIDE DEF d, c
  <2>3. CASE Over(f)
    <3>1. NoFlow \in FlowStates /\ NoFlow.pc = "none"
      BY DEF NoFlow, FlowStates, Places, Dialers
    <3> QED BY <1>0, <1>1, <2>1, <2>2, <2>3, <3>1, Leaves DEF Over, TypeOK
  <2>4. CASE ~ Over(f)
    <3> DEFINE r == [flow[f] EXCEPT !.pc = "dial", !.att = 2, !.try = 1]
    <3>1. flow' = [flow EXCEPT ![f] = r] /\ protected' = protected \ {f}
      BY <1>0, <2>1, <2>4 DEF Fails, TypeOK
    <3>2. r \in FlowStates /\ r.pc = "dial"
      BY <1>1 DEF FlowStates, Places
    <3> HIDE DEF r
    <3> QED BY <1>0, <1>1, <2>1, <2>2, <3>1, <3>2, Leaves DEF TypeOK
  <2> QED BY <2>3, <2>4
<1> QED BY <1>2, <1>3

\* The host's own steps and the deadline touch one connection.
LEMMA ChannelMoves ==
  ASSUME TunInv, NEW d \in Dialers, NEW c \in Channels, NEW p \in SUBSET Flows,
         conn' = [conn EXCEPT ![d] = c], protected' = p, protected \subseteq p,
         UNCHANGED <<path, serve, flow, aborted, holder>>,
         conn[d] # None,
         ~ c.late => \/ Waits(d) /\ Owed(c, holder[d], flow[holder[d]].try, protected')
                     \/ ~ Waits(d) /\ Quiet(c)
  PROVE  TunInv'
<1>0. TypeOK /\ MutexInv /\ QueueInv /\ SecondInv /\ AckedMeansProtected
  BY DEF TunInv
<1>1. TypeOK'
  <2>1. conn' \in [Dialers -> Channels \cup {None}]
    BY <1>0 DEF TypeOK
  <2> QED BY <1>0, <2>1 DEF TypeOK
<1>2. conn'[d] = c /\ \A e \in Dialers \ {d} : conn'[e] = conn[e]
  BY <1>0 DEF TypeOK
<1>3. QueueInv'
  <2> SUFFICES ASSUME NEW e \in Dialers, conn'[e] # None, ~ conn'[e].late
               PROVE  \/ Waits(e)' /\ OwedTo(e)'
                      \/ ~ Waits(e)' /\ Quiet(conn[e])'
    BY DEF QueueInv
  <2>0. Waits(e)' <=> Waits(e)
    BY DEF Waits
  <2>1. CASE e = d
    <3>1. Owed(c, holder[d], flow[holder[d]].try, protected') => OwedTo(e)'
      BY <1>2, <2>1 DEF OwedTo
    <3>2. Quiet(c) => Quiet(conn[e])'
      BY <1>2, <2>1 DEF Quiet
    <3> QED BY <1>2, <2>0, <2>1, <3>1, <3>2
  <2>2. CASE e # d
    <3>1. OwedTo(e) => OwedTo(e)'
      <4>1. holder[e] \in protected => holder[e] \in protected'
        OBVIOUS
      <4> QED BY <1>2, <2>2, <4>1, OwedGrows DEF OwedTo
    <3>2. Quiet(conn[e]) => Quiet(conn[e])'
      BY <1>2, <2>2 DEF Quiet
    <3> QED BY <1>0, <1>2, <2>0, <2>2, <3>1, <3>2 DEF QueueInv
  <2> QED BY <2>1, <2>2
<1>4. MutexInv' /\ AckedMeansProtected' /\ SecondInv'
  BY <1>0, <1>2 DEF MutexInv, AckedMeansProtected, SecondInv
<1> QED BY <1>1, <1>3, <1>4 DEF TunInv

LEMMA HostStep == ASSUME TunInv, NEW d \in Dialers, Host(d) PROVE TunInv'
<1>0. TypeOK /\ QueueInv /\ conn[d] # None /\ conn[d] \in Channels /\ conn[d].req # <<>>
  BY DEF TunInv, TypeOK, Host
<1>1. PICK ok \in BOOLEAN :
        /\ conn' = [conn EXCEPT ![d].req = Tail(@),
                                ![d].ack = IF conn[d].late THEN <<>>
                                           ELSE @ \o (IF ok THEN Ok ELSE Err)]
        /\ protected' = IF ok THEN protected \cup {Head(conn[d].req)} ELSE protected
        /\ UNCHANGED <<path, serve, flow, aborted, holder>>
  BY DEF Host
<1> DEFINE ack == IF ok THEN Ok ELSE Err
           c == [conn[d] EXCEPT !.req = Tail(@),
                                !.ack = IF conn[d].late THEN <<>> ELSE @ \o ack]
           p == IF ok THEN protected \cup {Head(conn[d].req)} ELSE protected
<1>2. conn' = [conn EXCEPT ![d] = c]
  BY <1>0, <1>1 DEF TypeOK
<1>a. ack \in Seq({"o", "k", "e", "r"})
  BY Bytes DEF Letters
<1> HIDE DEF ack
<1>3. Head(conn[d].req) \in Flows /\ Tail(conn[d].req) \in Seq(Flows)
      /\ conn[d].ack \o ack \in Seq({"o", "k", "e", "r"}) /\ <<>> \in Seq({"o", "k", "e", "r"})
  BY <1>0, <1>a DEF Channels
<1>4. /\ c \in Channels /\ c.late = conn[d].late /\ c.req = Tail(conn[d].req)
      /\ ~ conn[d].late => c.ack = conn[d].ack \o ack
  BY <1>0, <1>3 DEF Channels
<1>5. p \in SUBSET Flows /\ protected \subseteq p /\ protected' = p
  BY <1>0, <1>1, <1>3 DEF TypeOK
<1>6. ASSUME ~ conn[d].late
      PROVE  Waits(d) /\ Owed(c, holder[d], flow[holder[d]].try, protected')
  <2>1. Waits(d) /\ OwedTo(d)
    BY <1>0, <1>6 DEF QueueInv, Quiet
  <2>2. PICK left \in Left(flow[holder[d]].try) : conn[d].req = <<holder[d]>> /\ conn[d].ack = left
    BY <1>0, <2>1 DEF OwedTo, Owed
  <2>3. Head(<<holder[d]>>) = holder[d] /\ Tail(<<holder[d]>>) = <<>>
    OBVIOUS
  <2>4. ok => holder[d] \in protected'
    BY <1>1, <2>2, <2>3
  <2>5. c.req = <<>> /\ c.ack = left \o ack
    BY <1>4, <1>6, <2>2, <2>3
  <2>6. (ack = Ok /\ holder[d] \in protected') \/ ack = Err
    BY <2>4 DEF ack
  <2> HIDE DEF c, p
  <2>7. Owed(c, holder[d], flow[holder[d]].try, protected')
    BY <2>5, <2>6 DEF Owed
  <2> QED BY <2>1, <2>7
<1> HIDE DEF c, p
<1> QED BY <1>0, <1>1, <1>2, <1>4, <1>5, <1>6, ChannelMoves

LEMMA DeadlineStep == ASSUME TunInv, NEW d \in Dialers, Deadline(d) PROVE TunInv'
<1> DEFINE c == [conn[d] EXCEPT !.late = TRUE, !.ack = <<>>]
<1>0. TypeOK /\ conn[d] \in Channels /\ conn[d] # None
  BY DEF TunInv, TypeOK, Deadline
<1>1. conn' = [conn EXCEPT ![d] = c] /\ UNCHANGED <<path, serve, flow, aborted, holder, protected>>
  BY <1>0 DEF Deadline, TypeOK
<1>2. c \in Channels /\ c.late
  <2>1. <<>> \in Seq({"o", "k", "e", "r"})
    OBVIOUS
  <2> QED BY <1>0, <2>1 DEF Channels
<1>3. protected \in SUBSET Flows
  BY <1>0 DEF TypeOK
<1> HIDE DEF c
<1> QED BY <1>0, <1>1, <1>2, <1>3, ChannelMoves

\* Every step of Serve, of a flow, of the host and of the clock.
LEMMA TunStepInv == TunInv /\ [Next]_vars => TunInv'
<1> SUFFICES ASSUME TunInv, [Next]_vars PROVE TunInv'
  OBVIOUS
<1>0. TypeOK /\ MutexInv /\ QueueInv /\ SecondInv /\ AckedMeansProtected
  BY DEF TunInv
\* What leaves flows, mutexes, channels and marks alone.
<1>a. ASSUME UNCHANGED <<path, flow, conn, holder, protected>>,
             serve' \in {"on", "cancelled", "failed"}, aborted' \in BOOLEAN
      PROVE  TunInv'
  <2>1. TypeOK' /\ MutexInv' /\ AckedMeansProtected' /\ SecondInv'
    BY <1>0, <1>a DEF TypeOK, MutexInv, AckedMeansProtected, SecondInv
  <2>2. QueueInv'
    BY <1>0, <1>a DEF QueueInv, Waits, OwedTo, Quiet
  <2> QED BY <2>1, <2>2 DEF TunInv
<1>1. CASE Cancelled
  BY <1>a, <1>1 DEF Cancelled
<1>2. CASE DeviceFails
  BY <1>0, <1>a, <1>2 DEF DeviceFails, TypeOK
<1>3. ASSUME NEW f \in Flows, TCP(f) \/ DNS(f) PROVE TunInv'
  <2>1. PICK kind \in {"tcp", "dns"}, d \in Dialers : Begins(f, kind, d)
    BY <1>3 DEF TCP, DNS, Dialers
  <2> DEFINE r == [NoFlow EXCEPT !.pc = "dial", !.kind = kind, !.dialer = d]
  <2>2. r \in FlowStates /\ r.pc = "dial"
    BY DEF NoFlow, FlowStates, Places, Dialers
  <2>3. flow[f].pc = "none" /\ flow' = [flow EXCEPT ![f] = r]
        /\ UNCHANGED <<path, serve, aborted, conn, holder, protected>>
    BY <2>1 DEF Begins, At
  <2> HIDE DEF r
  <2> QED BY <1>0, <2>2, <2>3, OutsideMoves DEF TypeOK
<1>4. ASSUME NEW f \in Flows, Connects(f) PROVE TunInv'
  <2>1. flow[f].pc = "connect" /\ UNCHANGED <<path, serve, aborted, conn, holder>>
    BY <1>4 DEF Connects, At
  <2>2. CASE Over(f) \/ Fails(f)
    BY <2>1, <2>2, OutsideEnds
  <2>3. CASE ~ (Over(f) \/ Fails(f))
    <3> DEFINE r == [NoFlow EXCEPT !.pc = "relay"]
    <3>1. r \in FlowStates /\ r.pc = "relay"
      BY DEF NoFlow, FlowStates, Places, Dialers
    <3>2. flow' = [flow EXCEPT ![f] = r] /\ protected' = protected
      BY <1>4, <2>3 DEF Connects
    <3>3. path => f \in protected
      BY <1>0, <2>1 DEF AckedMeansProtected
    <3> HIDE DEF r
    <3> QED BY <1>0, <2>1, <3>1, <3>2, <3>3, OutsideMoves DEF TypeOK
  <2> QED BY <2>2, <2>3
<1>5. ASSUME NEW f \in Flows, RelayEnds(f) PROVE TunInv'
  BY <1>5, OutsideEnds DEF RelayEnds
\* A flow goes to another place outside the mutex.
<1>b. ASSUME NEW f \in Flows, NEW pc \in Places, Goes(f, pc),
             flow[f].pc \notin {"send", "ack"}, pc \notin {"send", "ack"},
             UNCHANGED <<path, serve, aborted, conn, holder, protected>>,
             path /\ pc \in {"connect", "relay", "write"} => f \in protected
      PROVE  TunInv'
  <2> DEFINE r == [flow[f] EXCEPT !.pc = pc]
  <2>1. r \in FlowStates /\ r.pc = pc
    BY <1>0 DEF TypeOK, FlowStates
  <2>2. flow' = [flow EXCEPT ![f] = r]
    BY <1>0, <1>b DEF Goes, TypeOK
  <2> HIDE DEF r
  <2> QED BY <1>0, <1>b, <2>1, <2>2, OutsideMoves DEF TypeOK
<1>7. ASSUME NEW f \in Flows, NotProtected(f) PROVE TunInv'
  <2>1. "connect" \in Places
    BY DEF Places
  <2> QED BY <1>7, <1>b, <2>1 DEF NotProtected, At
<1>8. ASSUME NEW f \in Flows, UpReads(f) \/ UpWritten(f) PROVE TunInv'
  <2>1. "relay" \in Places /\ "write" \in Places
    BY DEF Places
  <2>2. path => f \in protected
    BY <1>0, <1>8 DEF AckedMeansProtected, UpReads, UpWritten, At
  <2> QED BY <1>8, <1>b, <2>1, <2>2 DEF UpReads, UpWritten, At
<1>6. CASE UNCHANGED vars
  BY <1>0, <1>a, <1>6 DEF vars, TypeOK
<1> QED
  BY <1>1, <1>2, <1>3, <1>4, <1>5, <1>6, <1>7, <1>8, LockStep, SendStep, AckedStep, SendFailsStep,
     HostStep, DeadlineStep
  DEF Next, FlowStep, RelayAborted

LEMMA TunInvariance == Spec => []TunInv
BY TunInitInv, TunStepInv, PTL DEF Spec

(***************************************************************************)
(* For any number of flows, no socket connects before the host has marked  *)
(* it, if the engine was given the path of the host's channel: the ok that *)
(* protect reads answers its own request, whatever timed out, was retried, *)
(* refused or left unread before (protect.go:26-58).                       *)
(***************************************************************************)
THEOREM OnlyMarkedConnect == Spec => []AckedMeansProtected
<1>1. TunInv => AckedMeansProtected
  BY DEF TunInv
<1> QED BY <1>1, TunInvariance, PTL

-----------------------------------------------------------------------------
(***************************************************************************)
(* FakeIPPool.  The two maps stay inverse to each other, the search for a  *)
(* free address succeeds at once, and a name keeps its address until the   *)
(* pool is full.                                                           *)
(***************************************************************************)
LEMMA Sizes ==
  /\ Limit \in Nat /\ Limit >= 1 /\ Size \in Nat /\ Limit < Size - 2 /\ TTL \in Nat
  /\ TTL >= 1 /\ NoName \notin Domains
BY PoolAssumption

\* Below the modulus the remainder is the number itself.
LEMMA SmallRemainder ==
  ASSUME NEW M \in Nat, NEW k \in Nat, k < M
  PROVE  k % M = k
OBVIOUS

LEMMA RemainderRange ==
  ASSUME NEW M \in Nat, NEW k \in Nat, M > 0
  PROVE  k % M \in 0 .. M - 1
OBVIOUS

\* The addresses of 1 .. Limit are k + 1: distinct, and inside the pool.
LEMMA OffsetIs ==
  ASSUME NEW k \in 1 .. Limit + 1
  PROVE  Offset(k) \in Offsets /\ (k <= Limit => Offset(k) = k + 1)
<1>1. Size - 2 \in Nat /\ k \in Nat /\ Size - 2 > 0
  BY Sizes
<1>2. CASE k < Size - 2
  <2>1. k % (Size - 2) = k
    BY <1>1, <1>2, SmallRemainder
  <2> QED BY <1>1, <1>2, <2>1, Sizes DEF Offset, Offsets
<1>3. CASE ~ (k < Size - 2)
  <2>1. k % (Size - 2) \in 0 .. (Size - 2) - 1
    BY <1>1, RemainderRange
  <2> QED BY <1>1, <1>3, <2>1, Sizes DEF Offset, Offsets
<1> QED BY <1>2, <1>3

\* The search stops where it starts when the first address is free.
LEMMA SearchStops ==
  ASSUME NEW used, NEW n \in Nat, Offset(n) \notin used
  PROVE  FirstFree(used, n) = n
<1> DEFINE P(k) == /\ Offset(k) \notin used
                   /\ \A j \in n .. k - 1 : Offset(j) \in used
<1>1. n \in n .. n + Size /\ P(n)
  BY Sizes
<1>2. ASSUME NEW k \in n .. n + Size, P(k) PROVE k = n
  BY <1>2, Sizes
<1> QED BY <1>1, <1>2 DEF FirstFree

-----------------------------------------------------------------------------
\* The pool's invariant, as a property of any two maps and a counter.
GoodPool(names, addrs, n) ==
  /\ DOMAIN names \subseteq Domains /\ names \in [DOMAIN names -> Offsets]
  /\ DOMAIN addrs \subseteq Offsets /\ addrs \in [DOMAIN addrs -> Domains]
  /\ \A d \in DOMAIN names : names[d] \in DOMAIN addrs /\ addrs[names[d]] = d
  /\ \A i \in DOMAIN addrs : addrs[i] \in DOMAIN names /\ names[addrs[i]] = i
  /\ IsFiniteSet(DOMAIN names) /\ n = Cardinality(DOMAIN names) + 1
  /\ n \in 1 .. Limit + 1
  /\ DOMAIN addrs = {Offset(k) : k \in 1 .. n - 1}

\* The next address of a pool that is not full is free.
LEMMA NextIsFree ==
  ASSUME NEW names, NEW addrs, NEW n, GoodPool(names, addrs, n), n <= Limit
  PROVE  Offset(n) \in Offsets /\ Offset(n) \notin DOMAIN addrs
<1>1. n \in 1 .. Limit + 1 /\ Limit \in Nat
  BY Sizes DEF GoodPool
<1>2. Offset(n) = n + 1 /\ Offset(n) \in Offsets
  BY <1>1, OffsetIs
<1>3. \A k \in 1 .. n - 1 : Offset(k) = k + 1
  BY <1>1, OffsetIs
<1>4. \A k \in 1 .. n - 1 : Offset(k) # Offset(n)
  BY <1>1, <1>2, <1>3
<1> QED BY <1>2, <1>4 DEF GoodPool

\* Binding a new name to the next address keeps the pool good.
LEMMA AllocateKeepsGood ==
  ASSUME NEW names, NEW addrs, NEW n, GoodPool(names, addrs, n), n <= Limit,
         NEW d \in Domains \ DOMAIN names, Allocate(d, names, addrs, n)
  PROVE  /\ GoodPool(d2i', i2d', next')
         /\ d2i'[d] = Offset(n) /\ d \in DOMAIN d2i'
         /\ \A e \in DOMAIN names : e \in DOMAIN d2i' /\ d2i'[e] = names[e]
         /\ \A i \in DOMAIN addrs : i \in DOMAIN i2d' /\ i2d'[i] = addrs[i]
<1> DEFINE o == Offset(n)
<1>1. o \in Offsets /\ o \notin DOMAIN addrs /\ n \in 1 .. Limit /\ Limit \in Nat
  BY NextIsFree, Sizes DEF GoodPool
<1>2. FirstFree(DOMAIN addrs, n) = n
  BY <1>1, SearchStops
<1>3. d2i' = Bind(names, d, o) /\ i2d' = Bind(addrs, o, d) /\ next' = n + 1
  BY <1>2 DEF Allocate
<1> HIDE DEF o
<1>4. /\ DOMAIN d2i' = DOMAIN names \cup {d} /\ d2i'[d] = o
      /\ \A e \in DOMAIN names : d2i'[e] = names[e]
      /\ DOMAIN i2d' = DOMAIN addrs \cup {o} /\ i2d'[o] = d
      /\ \A i \in DOMAIN addrs : i2d'[i] = addrs[i]
      /\ d2i' \in [DOMAIN d2i' -> Offsets] /\ i2d' \in [DOMAIN i2d' -> Domains]
  BY <1>1, <1>3 DEF Bind, GoodPool
<1>5. /\ \A e \in DOMAIN d2i' : d2i'[e] \in DOMAIN i2d' /\ i2d'[d2i'[e]] = e
      /\ \A i \in DOMAIN i2d' : i2d'[i] \in DOMAIN d2i' /\ d2i'[i2d'[i]] = i
  BY <1>1, <1>4 DEF GoodPool
<1>6. /\ IsFiniteSet(DOMAIN d2i')
      /\ Cardinality(DOMAIN d2i') = Cardinality(DOMAIN names) + 1
  BY <1>4, FS_AddElement DEF GoodPool
<1>7. next' = Cardinality(DOMAIN d2i') + 1 /\ next' \in 1 .. Limit + 1
  BY <1>1, <1>3, <1>6 DEF GoodPool
<1>8. DOMAIN i2d' = {Offset(k) : k \in 1 .. next' - 1}
  <2>1. 1 .. next' - 1 = (1 .. n - 1) \cup {n}
    BY <1>1, <1>3
  <2> QED BY <1>4, <2>1 DEF GoodPool, o
<1> QED BY <1>1, <1>4, <1>5, <1>6, <1>7, <1>8 DEF GoodPool, o

LEMMA EmptyIsGood == GoodPool(EmptyMap, EmptyMap, 1)
<1>1. DOMAIN EmptyMap = {} /\ EmptyMap \in [{} -> Offsets] /\ EmptyMap \in [{} -> Domains]
  BY DEF EmptyMap
<1>2. {Offset(k) : k \in 1 .. 1 - 1} = {}
  OBVIOUS
<1> QED BY <1>1, <1>2, FS_EmptySet, Sizes DEF GoodPool

\* What obtain does for a name without an address.
LEMMA ObtainKeepsGood ==
  ASSUME GoodPool(d2i, i2d, next), NEW d \in Domains \ DOMAIN d2i, Obtain(d)
  PROVE  /\ GoodPool(d2i', i2d', next')
         /\ d \in DOMAIN d2i' /\ d2i'[d] \in Offsets
         /\ d2i'[d] \in DOMAIN i2d' /\ i2d'[d2i'[d]] = d
         /\ ~ Full =>
              /\ \A e \in DOMAIN d2i : e \in DOMAIN d2i' /\ d2i'[e] = d2i[e]
              /\ \A i \in DOMAIN i2d : i \in DOMAIN i2d' /\ i2d'[i] = i2d[i]
<1>1. CASE Full
  <2>1. Allocate(d, EmptyMap, EmptyMap, 1)
    BY <1>1 DEF Obtain
  <2>2. d \in Domains \ DOMAIN EmptyMap
    BY DEF EmptyMap
  <2>3. GoodPool(d2i', i2d', next') /\ d \in DOMAIN d2i'
    BY <2>1, <2>2, EmptyIsGood, AllocateKeepsGood, Sizes
  <2> QED BY <1>1, <2>3 DEF GoodPool
<1>2. CASE ~ Full
  <2>1. Allocate(d, d2i, i2d, next) /\ next <= Limit
    <3>1. next \in Nat /\ next = Cardinality(DOMAIN d2i) + 1 /\ Limit \in Nat
          /\ Cardinality(DOMAIN d2i) \in Nat
      BY FS_CardinalityType, Sizes DEF GoodPool
    <3> QED BY <1>2, <3>1 DEF Obtain, Full
  <2>2. /\ GoodPool(d2i', i2d', next') /\ d \in DOMAIN d2i'
        /\ \A e \in DOMAIN d2i : e \in DOMAIN d2i' /\ d2i'[e] = d2i[e]
        /\ \A i \in DOMAIN i2d : i \in DOMAIN i2d' /\ i2d'[i] = i2d[i]
    BY <2>1, AllocateKeepsGood
  <2> QED BY <2>2 DEF GoodPool
<1> QED BY <1>1, <1>2

-----------------------------------------------------------------------------
(***************************************************************************)
(* The inductive invariant: the pool is good and the answers are what it   *)
(* gave out.                                                               *)
(***************************************************************************)
Users ==
  /\ answer \in [Apps -> Answers]
  /\ dialed \in [Apps -> Dials]
  /\ rebuilt \in [Apps -> BOOLEAN]
  /\ \A a \in Apps : answer[a].state # "none" =>
       answer[a].domain \in Domains /\ answer[a].ttl > 0

PoolInv == GoodPool(d2i, i2d, next) /\ Users /\ RightName

LEMMA PoolInvImplies == PoolInv => PoolTypeOK /\ InverseMaps /\ FirstTryIsFree
<1> SUFFICES ASSUME PoolInv PROVE PoolTypeOK /\ InverseMaps /\ FirstTryIsFree
  OBVIOUS
<1>1. PoolTypeOK /\ InverseMaps
  BY DEF PoolInv, GoodPool, Users, PoolTypeOK, InverseMaps
<1>2. next <= Limit => Offset(next) \notin DOMAIN i2d
  BY NextIsFree DEF PoolInv
<1> QED BY <1>1, <1>2 DEF PoolInv, GoodPool, FirstTryIsFree

LEMMA PoolInitInv == PoolInit => PoolInv
<1> SUFFICES ASSUME PoolInit PROVE PoolInv
  OBVIOUS
<1>1. GoodPool(d2i, i2d, next)
  BY EmptyIsGood DEF PoolInit
<1>2. Users
  BY Sizes DEF PoolInit, Users, NoAnswer, Answers, NoDial, Dials
<1>3. RightName
  BY DEF PoolInit, RightName, NoAnswer
<1> QED BY <1>1, <1>2, <1>3 DEF PoolInv

LEMMA QueryKeepsInv ==
  ASSUME PoolInv, NEW a \in Apps, NEW d \in Domains, Query(a, d)
  PROVE  PoolInv'
<1> DEFINE r == [state |-> "sent", domain |-> d, ip |-> d2i'[d], ttl |-> TTL]
<1>0. /\ GoodPool(d2i, i2d, next) /\ Users /\ RightName
      /\ answer' = [answer EXCEPT ![a] = r] /\ dialed' = dialed
  BY DEF PoolInv, Query, AddressFor
<1>1. /\ GoodPool(d2i', i2d', next')
      /\ d2i'[d] \in Offsets /\ d2i'[d] \in DOMAIN i2d' /\ i2d'[d2i'[d]] = d
      /\ rebuilt' \in [Apps -> BOOLEAN]
      /\ \A b \in Apps \ {a} : ~ rebuilt'[b] =>
           ~ rebuilt[b] /\ \A i \in DOMAIN i2d : i \in DOMAIN i2d' /\ i2d'[i] = i2d[i]
  <2>1. CASE d \in DOMAIN d2i
    BY <1>0, <2>1 DEF Query, GoodPool, Users
  <2>2. CASE d \notin DOMAIN d2i
    <3>1. /\ Obtain(d)
          /\ rebuilt' = [b \in Apps |-> IF b = a THEN FALSE ELSE rebuilt[b] \/ Full]
      BY <2>2 DEF Query
    <3>2. /\ GoodPool(d2i', i2d', next')
          /\ d2i'[d] \in Offsets /\ d2i'[d] \in DOMAIN i2d' /\ i2d'[d2i'[d]] = d
          /\ ~ Full => \A i \in DOMAIN i2d : i \in DOMAIN i2d' /\ i2d'[i] = i2d[i]
      BY <1>0, <2>2, <3>1, ObtainKeepsGood
    <3>3. \A b \in Apps : (rebuilt[b] \/ Full) \in BOOLEAN
      BY DEF Full
    <3>4. rebuilt' \in [Apps -> BOOLEAN]
      BY <3>1, <3>3
    <3> QED BY <3>1, <3>2, <3>4
  <2> QED BY <2>1, <2>2
<1>2. r \in Answers /\ r.state = "sent" /\ r.ttl > 0 /\ r.ip = d2i'[d] /\ r.domain = d
  BY <1>1, Sizes DEF Answers
<1> HIDE DEF r
<1>3. Users'
  BY <1>0, <1>1, <1>2 DEF Users
<1>4. RightName'
  <2> SUFFICES ASSUME NEW b \in Apps, answer'[b].state # "none", ~ rebuilt'[b]
               PROVE  (IF answer'[b].ip \in DOMAIN i2d' THEN i2d'[answer'[b].ip] ELSE NoName)
                        = answer'[b].domain
    BY DEF RightName, Lookup
  <2>1. CASE b = a
    BY <1>0, <1>1, <1>2, <2>1 DEF Users
  <2>2. CASE b # a
    <3>1. answer'[b] = answer[b] /\ ~ rebuilt[b]
      BY <1>0, <1>1, <2>2 DEF Users
    <3>2. Lookup(answer[b].ip) = answer[b].domain /\ answer[b].domain # NoName
      BY <1>0, <3>1, Sizes DEF RightName, Users
    <3>3. answer[b].ip \in DOMAIN i2d /\ i2d[answer[b].ip] = answer[b].domain
      BY <3>2 DEF Lookup
    <3> QED BY <1>1, <2>2, <3>1, <3>3
  <2> QED BY <2>1, <2>2
<1> QED BY <1>1, <1>3, <1>4 DEF PoolInv

LEMMA PoolStepInv == PoolInv /\ [PoolNext]_poolVars => PoolInv'
<1> SUFFICES ASSUME PoolInv, [PoolNext]_poolVars PROVE PoolInv'
  OBVIOUS
<1>0. GoodPool(d2i, i2d, next) /\ Users /\ RightName
  BY DEF PoolInv
\* Steps that change no address of any answer that stays in use.
<1>a. ASSUME UNCHANGED <<d2i, i2d, next, rebuilt>>, Users',
             \A b \in Apps : answer'[b].state # "none" =>
               /\ answer[b].state # "none"
               /\ answer'[b].ip = answer[b].ip /\ answer'[b].domain = answer[b].domain
      PROVE  PoolInv'
  BY <1>0, <1>a DEF PoolInv, RightName, Lookup
<1>1. CASE Tick
  <2>1. ASSUME NEW b \in Apps
        PROVE  /\ answer'[b] \in Answers
               /\ answer'[b].state # "none" =>
                    /\ answer[b].state # "none" /\ answer'[b].ttl > 0
                    /\ answer'[b].ip = answer[b].ip /\ answer'[b].domain = answer[b].domain
    <3>1. answer'[b] = Aged(answer[b]) /\ answer[b] \in Answers
          /\ (answer[b].state # "none" => answer[b].ttl > 0)
      BY <1>0, <1>1 DEF Tick, Users
    <3>2. CASE answer[b].state = "kept" /\ answer[b].ttl # 1
      <4>1. answer'[b] = [answer[b] EXCEPT !.ttl = answer[b].ttl - 1]
        BY <3>1, <3>2 DEF Aged
      <4>2. answer[b].ttl \in 2 .. TTL
        BY <3>1, <3>2, Sizes DEF Answers
      <4> QED BY <3>1, <3>2, <4>1, <4>2, Sizes DEF Answers
    <3>3. CASE ~ (answer[b].state = "kept" /\ answer[b].ttl # 1)
      BY <3>1, <3>3, Sizes DEF Aged, NoAnswer, Answers
    <3> QED BY <3>2, <3>3
  <2>2. Users'
    <3>1. answer' \in [Apps -> Answers]
      BY <1>1, <2>1 DEF Tick
    <3>2. \A b \in Apps : answer'[b].state # "none" =>
            answer'[b].domain \in Domains /\ answer'[b].ttl > 0
      BY <1>0, <2>1 DEF Users
    <3> QED BY <1>0, <1>1, <3>1, <3>2 DEF Tick, Users
  <2> QED BY <1>1, <1>a, <2>1, <2>2 DEF Tick
<1>2. ASSUME NEW a \in Apps, NEW d \in Domains, Query(a, d) PROVE PoolInv'
  BY <1>2, QueryKeepsInv
<1>3. ASSUME NEW a \in Apps, Deliver(a) PROVE PoolInv'
  <2>1. answer' = [answer EXCEPT ![a].state = "kept"] /\ answer[a].state = "sent"
        /\ UNCHANGED <<d2i, i2d, next, dialed, rebuilt>>
    BY <1>3 DEF Deliver
  <2>2. Users'
    BY <1>0, <2>1 DEF Users, Answers
  <2>3. \A b \in Apps : answer'[b].state # "none" =>
          /\ answer[b].state # "none"
          /\ answer'[b].ip = answer[b].ip /\ answer'[b].domain = answer[b].domain
    BY <1>0, <2>1 DEF Users, Answers
  <2> QED BY <1>a, <2>1, <2>2, <2>3
<1>4. ASSUME NEW a \in Apps, Lose(a) PROVE PoolInv'
  <2>1. answer' = [answer EXCEPT ![a] = NoAnswer]
        /\ UNCHANGED <<d2i, i2d, next, dialed, rebuilt>>
    BY <1>4 DEF Lose
  <2>2. NoAnswer \in Answers /\ NoAnswer.state = "none"
    BY Sizes DEF NoAnswer, Answers
  <2>3. Users'
    BY <1>0, <2>1, <2>2 DEF Users
  <2>4. \A b \in Apps : answer'[b].state # "none" => answer'[b] = answer[b]
    BY <1>0, <2>1, <2>2 DEF Users
  <2> QED BY <1>a, <2>1, <2>3, <2>4
<1>5. ASSUME NEW a \in Apps, Connect(a) PROVE PoolInv'
  <2>1. Lookup(answer[a].ip) \in Domains \cup {NoName}
    BY <1>0 DEF Lookup, GoodPool
  <2>2. answer[a].domain \in Domains \cup {NoName}
    BY <1>0 DEF Users, Answers
  <2>3. Users'
    BY <1>0, <1>5, <2>1, <2>2 DEF Connect, Users, Dials
  <2> QED BY <1>5, <1>a, <2>3 DEF Connect
<1>6. CASE UNCHANGED poolVars
  BY <1>0, <1>6, <1>a DEF poolVars, Users
<1> QED BY <1>1, <1>2, <1>3, <1>4, <1>5, <1>6 DEF PoolNext

LEMMA PoolInvariance == PoolSpec => []PoolInv
<1>1. PoolInit => PoolInv
  BY PoolInitInv
<1>2. PoolInv /\ [PoolNext]_poolVars => PoolInv'
  BY PoolStepInv
<1> QED BY <1>1, <1>2, PTL DEF PoolSpec

(***************************************************************************)
(* Names and addresses correspond one to one at all times, for every pool  *)
(* size and limit (fakeip.go:50-72).                                       *)
(***************************************************************************)
THEOREM MapsAreInverse == PoolSpec => []InverseMaps
BY PoolInvariance, PoolInvImplies, PTL

(***************************************************************************)
(* The search of obtain finds its address at the first try, so its         *)
(* unbounded loop ends and next never overflows (fakeip.go:61-71).         *)
(***************************************************************************)
THEOREM SearchIsImmediate == PoolSpec => [](PoolTypeOK /\ FirstTryIsFree)
BY PoolInvariance, PoolInvImplies, PTL

(***************************************************************************)
(* The two together, as TLC checks them (fakeip.go:50-72).                 *)
(***************************************************************************)
THEOREM PoolIsConsistent == PoolSpec => []PoolConsistent
BY MapsAreInverse, SearchIsImmediate, PTL DEF PoolConsistent

(***************************************************************************)
(* A connection by an answer the pool has not been rebuilt since goes to   *)
(* the name that was asked for (fakeip.go:75-87, tun2sock.go:109-126).     *)
(***************************************************************************)
THEOREM ConnectionsFindTheirName == PoolSpec => []RightName
BY PoolInvariance, PTL DEF PoolInv

(***************************************************************************)
(* A name loses its address only when the pool is full                     *)
(* (fakeip.go:53-60).                                                      *)
(***************************************************************************)
THEOREM AddressesAreStable == PoolSpec => AddressStable
<1> DEFINE A == \A d \in DOMAIN d2i :
       (d \in DOMAIN d2i' /\ d2i'[d] = d2i[d]) \/ Cardinality(DOMAIN d2i) = Limit
<1>1. PoolInv /\ [PoolNext]_poolVars => [A]_poolVars
  <2> SUFFICES ASSUME PoolInv, PoolNext PROVE A
    BY DEF poolVars
  <2>1. CASE d2i' = d2i
    BY <2>1
  <2>2. ASSUME NEW a \in Apps, NEW d \in Domains, Query(a, d), d2i' # d2i PROVE A
    <3>1. d \notin DOMAIN d2i /\ Obtain(d) /\ GoodPool(d2i, i2d, next)
      BY <2>2 DEF Query, PoolInv
    <3>2. CASE Full
      <4>1. Cardinality(DOMAIN d2i) = Limit
        <5>1. Cardinality(DOMAIN d2i) \in Nat /\ Cardinality(DOMAIN d2i) + 1 \in 1 .. Limit + 1
          BY <3>1, FS_CardinalityType DEF GoodPool
        <5> QED BY <3>2, <5>1, Sizes DEF Full
      <4> QED BY <4>1
    <3>3. CASE ~ Full
      BY <3>1, <3>3, ObtainKeepsGood
    <3> QED BY <3>2, <3>3
  <2> QED BY <2>1, <2>2 DEF PoolNext, Tick, Deliver, Lose, Connect
<1> QED BY <1>1, PoolInvariance, PTL DEF PoolSpec, AddressStable
=============================================================================
