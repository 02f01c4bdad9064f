------------------------- MODULE TrafficQuotaProofs -------------------------
(***************************************************************************)
(* The traffic fuse for any number of connections, any quota, any period   *)
(* and any bounds.  That a saved total never goes back is not inductive by *)
(* itself: it needs to know that the handler inside persistLocked is alone *)
(* (s.mu), and that what it marshalled is still of the current period and  *)
(* between what this process saved last and what it counted by now.        *)
(***************************************************************************)
EXTENDS TrafficQuota, TLAPS

Persisting == {"trunc", "write", "rtrunc", "rwrite"}
Marshalled == {"write", "rwrite"}

\* s.mu: who persists is alone.
MutexInv == \A c \in Conns : pc[c] \in Persisting => lock = {c}

\* No later than the counters of this process.
Behind(f) == f.start < windowStart \/ (f.start = windowStart /\ f.total <= total)

\* What this process saved last, and what it is about to save.
WrittenInv == Valid(written) => Behind(written)
SnapInv ==
  \A c \in Conns : pc[c] \in Marshalled =>
    /\ snap[c].start = windowStart /\ snap[c].total <= total
    /\ (Valid(written) /\ written.start = windowStart) => snap[c].total >= written.total

IInv == TypeOK /\ MutexInv /\ WrittenInv /\ SnapInv

-----------------------------------------------------------------------------
\* What the fields of a content are.
LEMMA ContentFields ==
  ASSUME NEW f \in Contents \cup {Absent, Empty}
  PROVE  /\ f.total \in Int /\ f.start \in Int
         /\ Valid(f) => f \in Contents
BY QuotaAssumption DEF Contents, Absent, Empty, Valid

\* A content is made of two numbers within the bounds.
LEMMA ContentMade ==
  ASSUME NEW t \in 0 .. MaxTotal, NEW s \in 0 .. MaxTime
  PROVE  /\ [total |-> t, start |-> s] \in Contents
         /\ [total |-> t, start |-> s].total = t
         /\ [total |-> t, start |-> s].start = s
BY DEF Contents

\* Nobody persists while s.mu is free.
LEMMA LockFreeMeansAlone ==
  ASSUME MutexInv, lock = {}, NEW c \in Conns
  PROVE  pc[c] \notin Persisting
BY DEF MutexInv

\* A step of one handler moves no other, and only to a known place.
LEMMA GoMoves ==
  ASSUME TypeOK, NEW c \in Conns, NEW from, NEW to \in PCs, Go(c, from, to)
  PROVE  /\ pc' \in [Conns -> PCs]
         /\ pc[c] = from /\ pc'[c] = to
         /\ \A d \in Conns \ {c} : pc'[d] = pc[d]
BY DEF TypeOK, Go

\* The invariant survives a step that neither writes nor rolls over: the
\* counters only grow, and nobody enters persistLocked.
LEMMA Undisturbed ==
  ASSUME IInv, TypeOK', total' >= total,
         UNCHANGED <<windowStart, lock, snap, written>>,
         \A c \in Conns : pc'[c] \in Persisting => pc'[c] = pc[c]
  PROVE  IInv'
<1>1. MutexInv'
  BY DEF IInv, MutexInv
<1>2. WrittenInv'
  <2>1. written.total \in Int /\ written.start \in Int /\ total \in Int /\ total' \in Int
    BY ContentFields, QuotaAssumption DEF IInv, TypeOK
  <2> QED
    BY <2>1 DEF IInv, WrittenInv, Behind, Valid
<1>3. SnapInv'
  <2> SUFFICES ASSUME NEW c \in Conns, pc'[c] \in Marshalled
               PROVE  /\ snap[c].start = windowStart /\ snap[c].total <= total'
                      /\ (Valid(written) /\ written.start = windowStart)
                           => snap[c].total >= written.total
    BY DEF SnapInv, Valid
  <2>1. pc[c] \in Marshalled
    BY DEF Marshalled, Persisting
  <2>2. snap[c].total \in Int /\ total \in Int /\ total' \in Int
    BY ContentFields, QuotaAssumption DEF IInv, TypeOK
  <2> QED
    BY <2>1, <2>2 DEF IInv, SnapInv
<1> QED
  BY <1>1, <1>2, <1>3 DEF IInv

-----------------------------------------------------------------------------
(***************************************************************************)
(* The handlers.                                                           *)
(***************************************************************************)
\* A step that only moves a handler, or starts or ends an upstream goroutine.
LEMMA MoveStep ==
  ASSUME IInv, NEW c \in Conns,
         \/ HandshakeFails(c) \/ Authenticated(c) \/ KeepPeriod(c)
         \/ Refuse(c) \/ Open(c) \/ Finish(c) \/ UpEnds(c)
  PROVE  IInv'
<1>1. UNCHANGED <<now, total, windowStart, disk, lock, snap, owner, failed, written>>
  BY DEF HandshakeFails, Authenticated, KeepPeriod, Refuse, Open, Finish, UpEnds
<1>2. up' \in [Conns -> BOOLEAN]
  BY DEF HandshakeFails, Authenticated, KeepPeriod, Refuse, Open, Finish, UpEnds, IInv, TypeOK
<1>3. /\ pc' \in [Conns -> PCs]
      /\ \A d \in Conns : pc'[d] \in Persisting => pc'[d] = pc[d]
  <2>1. CASE UpEnds(c)
    BY <2>1 DEF UpEnds, IInv, TypeOK
  <2>2. CASE \E from \in PCs, to \in PCs \ Persisting : Go(c, from, to)
    <3>1. PICK from \in PCs, to \in PCs \ Persisting : Go(c, from, to)
      BY <2>2
    <3> QED
      BY <3>1, GoMoves DEF IInv
  <2>3. ~ UpEnds(c) => \E from \in PCs, to \in PCs \ Persisting : Go(c, from, to)
    BY DEF HandshakeFails, Authenticated, KeepPeriod, Refuse, Open, Finish, PCs, Persisting
  <2> QED
    BY <2>1, <2>2, <2>3
<1>4. TypeOK'
  BY <1>1, <1>2, <1>3 DEF IInv, TypeOK
<1>5. total' >= total
  BY <1>1, QuotaAssumption DEF IInv, TypeOK
<1> QED
  BY <1>1, <1>3, <1>4, <1>5, Undisturbed

Owners == [1 .. MaxTotal -> Conns \cup {Late, Gone}]

\* Who forgets leaves its units to nobody, and no other unit changes hands.
LEMMA ForgetUnits ==
  ASSUME owner \in Owners, NEW x, x # Gone, Forget(x)
  PROVE  /\ owner' \in Owners
         /\ \A k \in 1 .. MaxTotal :
              /\ owner'[k] # x
              /\ owner[k] \notin {x, Gone} => owner'[k] = owner[k]
BY DEF Forget, Owners

LEMMA NobodysUnits == Nobodys \in Owners
BY DEF Nobodys, Owners

\* Data is counted, during a relay or by the last read of its upstream half.
LEMMA CountStep ==
  ASSUME IInv, NEW c \in Conns, Count(c) \/ UpCountsLast(c)
  PROVE  IInv'
<1>0. total \in 0 .. MaxTotal /\ owner \in Owners
  BY DEF IInv, TypeOK, Owners
<1>1. /\ UNCHANGED <<now, windowStart, disk, lock, pc, snap, failed, written>>
      /\ total' = total + 1 /\ total < MaxTotal
  BY DEF Count, UpCountsLast, Add
<1>2. owner' \in Owners
  <2>1. PICK x \in Conns \cup {Late, Gone} : Add(x)
    BY DEF Count, UpCountsLast
  <2> QED BY <1>0, <2>1 DEF Add, Owners
<1>4. up' \in [Conns -> BOOLEAN]
  BY DEF Count, UpCountsLast, IInv, TypeOK
<1>5. total' \in 0 .. MaxTotal /\ total' >= total
  BY <1>0, <1>1, QuotaAssumption
<1>6. TypeOK'
  BY <1>1, <1>2, <1>4, <1>5 DEF IInv, TypeOK, Owners
<1> QED
  BY <1>1, <1>5, <1>6, Undisturbed

\* The period is over: nothing has been saved of the new one yet.
LEMMA RolloverStep ==
  ASSUME IInv, NEW c \in Conns, Rollover(c)
  PROVE  IInv'
<1>0. /\ now \in 0 .. MaxTime /\ windowStart \in 0 .. MaxTime /\ MaxTotal \in Nat
      /\ MaxTime \in Nat /\ Days \in Nat
  BY QuotaAssumption DEF IInv, TypeOK
<1>1. /\ lock = {} /\ lock' = {c} /\ total' = 0 /\ windowStart' = now
      /\ owner' \in Owners /\ UNCHANGED <<now, disk, up, snap, failed, written>>
  BY NobodysUnits DEF Rollover
<1>2. /\ pc' \in [Conns -> PCs] /\ pc'[c] = "rtrunc"
      /\ \A d \in Conns \ {c} : pc'[d] = pc[d]
  BY GoMoves DEF Rollover, IInv, PCs
<1>3. windowStart < now
  BY <1>0 DEF Rollover, PeriodOver
<1>4. TypeOK'
  BY <1>0, <1>1, <1>2 DEF IInv, TypeOK, Owners
<1>5. \A d \in Conns : pc'[d] \in Persisting => d = c
  BY <1>1, <1>2, LockFreeMeansAlone DEF IInv
<1>6. MutexInv'
  BY <1>1, <1>5 DEF MutexInv
<1>7. SnapInv'
  BY <1>2, <1>5 DEF SnapInv, Marshalled, Persisting
<1>8. WrittenInv'
  <2>1. written.total \in Int /\ written.start \in Int /\ total \in Int
    BY ContentFields, QuotaAssumption DEF IInv, TypeOK
  <2> QED
    BY <1>0, <1>1, <1>3, <2>1 DEF IInv, WrittenInv, Behind, Valid
<1> QED
  BY <1>4, <1>6, <1>7, <1>8 DEF IInv

\* persistTotal takes s.mu.
LEMMA LockStep ==
  ASSUME IInv, NEW c \in Conns, Lock(c)
  PROVE  IInv'
<1>1. /\ lock = {} /\ lock' = {c}
      /\ UNCHANGED <<now, total, windowStart, disk, up, snap, owner, failed, written>>
  BY DEF Lock
<1>2. /\ pc' \in [Conns -> PCs] /\ pc'[c] = "trunc"
      /\ \A d \in Conns \ {c} : pc'[d] = pc[d]
  BY GoMoves DEF Lock, IInv, PCs
<1>3. TypeOK'
  BY <1>1, <1>2 DEF IInv, TypeOK
<1>4. \A d \in Conns : pc'[d] \in Persisting => d = c
  BY <1>1, <1>2, LockFreeMeansAlone DEF IInv
<1>5. MutexInv'
  BY <1>1, <1>4 DEF MutexInv
<1>6. SnapInv'
  BY <1>2, <1>4 DEF SnapInv, Marshalled, Persisting
<1>7. WrittenInv'
  BY <1>1 DEF IInv, WrittenInv, Behind, Valid
<1> QED
  BY <1>3, <1>5, <1>6, <1>7 DEF IInv

\* What is marshalled is the counters as they are.
LEMMA TruncateStep ==
  ASSUME IInv, NEW c \in Conns, Truncate(c)
  PROVE  IInv'
<1>0. /\ total \in 0 .. MaxTotal /\ windowStart \in 0 .. MaxTime /\ snap \in [Conns -> Contents]
      /\ MaxTotal \in Nat /\ MaxTime \in Nat
  BY QuotaAssumption DEF IInv, TypeOK
<1>1. /\ disk' = Empty /\ Forget(Late)
      /\ snap' = [snap EXCEPT ![c] = [total |-> total, start |-> windowStart]]
      /\ UNCHANGED <<now, total, windowStart, lock, up, failed, written>>
  BY DEF Truncate
<1>2. /\ pc' \in [Conns -> PCs] /\ pc[c] \in Persisting /\ pc'[c] \in Marshalled
      /\ \A d \in Conns \ {c} : pc'[d] = pc[d]
  <2>1. CASE Go(c, "trunc", "write")
    BY <2>1, GoMoves DEF IInv, PCs, Persisting, Marshalled
  <2>2. CASE Go(c, "rtrunc", "rwrite")
    BY <2>2, GoMoves DEF IInv, PCs, Persisting, Marshalled
  <2> QED
    BY <2>1, <2>2 DEF Truncate
<1>3. lock = {c}
  BY <1>2 DEF IInv, MutexInv
<1>4. /\ snap' \in [Conns -> Contents] /\ snap'[c].total = total /\ snap'[c].start = windowStart
  BY <1>0, <1>1, ContentMade
<1>5. TypeOK'
  <2>1. owner \in Owners /\ Late # Gone
    BY DEF IInv, TypeOK, Owners, Late, Gone
  <2>2. owner' \in Owners
    BY <1>1, <2>1, ForgetUnits
  <2> QED BY <1>0, <1>1, <1>2, <1>4, <2>2 DEF IInv, TypeOK, Owners
<1>6. MutexInv'
  BY <1>1, <1>2, <1>3 DEF IInv, MutexInv
<1>7. WrittenInv'
  BY <1>1 DEF IInv, WrittenInv, Behind, Valid
<1>8. SnapInv'
  <2> SUFFICES ASSUME NEW d \in Conns, pc'[d] \in Marshalled
               PROVE  /\ snap'[d].start = windowStart /\ snap'[d].total <= total
                      /\ (Valid(written) /\ written.start = windowStart)
                           => snap'[d].total >= written.total
    BY <1>1 DEF SnapInv, Valid
  <2>1. lock' = {d}
    BY <1>6 DEF MutexInv, Marshalled, Persisting
  <2>2. d = c
    BY <2>1, <1>1, <1>3
  <2>3. written.total \in Int /\ written.start \in Int
    BY ContentFields DEF IInv, TypeOK
  <2> QED
    BY <1>0, <1>4, <2>2, <2>3 DEF IInv, WrittenInv, Behind
<1> QED
  BY <1>5, <1>6, <1>7, <1>8 DEF IInv

\* Leaving s.mu.
LEMMA UnlockMoves ==
  ASSUME IInv, NEW c \in Conns, Unlock(c), pc[c] \in Persisting
  PROVE  /\ lock = {c} /\ lock' = {}
         /\ pc' \in [Conns -> PCs]
         /\ \A d \in Conns : pc'[d] \notin Persisting
         /\ owner' \in Owners
<1>1. lock = {c}
  BY DEF IInv, MutexInv
<1>2. \A d \in Conns \ {c} : pc[d] \notin Persisting
  BY <1>1 DEF IInv, MutexInv
<1>3. lock' = {}
  BY <1>1 DEF Unlock
<1>4. \/ pc' = [pc EXCEPT ![c] = "check"]
      \/ pc' = [pc EXCEPT ![c] = "idle"]
  BY DEF Unlock
<1>5. pc' \in [Conns -> PCs] /\ \A d \in Conns : pc'[d] \notin Persisting
  BY <1>2, <1>4 DEF IInv, TypeOK, PCs, Persisting
<1>6. owner' \in Owners
  <2>1. owner \in Owners /\ c # Gone
    BY QuotaAssumption DEF IInv, TypeOK, Owners
  <2> QED BY <2>1, ForgetUnits DEF Unlock
<1> QED
  BY <1>1, <1>3, <1>5, <1>6

\* The file is written, or is not.
LEMMA WriteStep ==
  ASSUME IInv, NEW c \in Conns, Write(c) \/ WriteFails(c)
  PROVE  IInv'
<1>1. Unlock(c) /\ pc[c] \in Persisting
  BY DEF Write, WriteFails, Persisting
<1>2. /\ lock' = {} /\ pc' \in [Conns -> PCs]
      /\ \A d \in Conns : pc'[d] \notin Persisting
      /\ owner' \in Owners
  BY <1>1, UnlockMoves
<1>3. /\ UNCHANGED <<now, total, windowStart, up, snap>>
      /\ failed' \in BOOLEAN
  BY DEF Write, WriteFails
<1>4. CASE Write(c)
  <2>1. disk' = snap[c] /\ written' = snap[c] /\ snap[c] \in Contents
    BY <1>4 DEF Write, IInv, TypeOK
  <2>2. TypeOK'
    BY <1>2, <1>3, <2>1 DEF IInv, TypeOK, Owners
  <2>3. snap[c].start = windowStart /\ snap[c].total <= total
    BY <1>4 DEF Write, Marshalled, IInv, SnapInv
  <2>4. snap[c].total \in Int /\ total \in Int
    BY <2>1, ContentFields, QuotaAssumption DEF IInv, TypeOK
  <2>5. WrittenInv'
    BY <1>3, <2>1, <2>3, <2>4 DEF WrittenInv, Behind, Valid
  <2>6. MutexInv' /\ SnapInv'
    BY <1>2 DEF MutexInv, SnapInv, Marshalled, Persisting
  <2> QED
    BY <2>2, <2>5, <2>6 DEF IInv
<1>5. CASE WriteFails(c)
  <2>1. UNCHANGED <<disk, written>>
    BY <1>5 DEF WriteFails
  <2>2. TypeOK'
    BY <1>2, <1>3, <2>1 DEF IInv, TypeOK, Owners
  <2>3. WrittenInv'
    BY <1>3, <2>1 DEF IInv, WrittenInv, Behind, Valid
  <2>4. MutexInv' /\ SnapInv'
    BY <1>2 DEF MutexInv, SnapInv, Marshalled, Persisting
  <2> QED
    BY <2>2, <2>3, <2>4 DEF IInv
<1> QED
  BY <1>4, <1>5

-----------------------------------------------------------------------------
(***************************************************************************)
(* The process and the clock.                                              *)
(***************************************************************************)
\* A restart takes over what the file holds, or starts from nothing.
LEMMA RestartStep ==
  ASSUME IInv, Restart
  PROVE  IInv'
<1>0. now \in 0 .. MaxTime /\ MaxTotal \in Nat /\ MaxTime \in Nat
  BY QuotaAssumption DEF IInv, TypeOK
<1>1. total' \in 0 .. MaxTotal /\ windowStart' \in 0 .. MaxTime
  <2>1. CASE Valid(disk)
    <3>1. disk \in Contents
      BY <2>1, ContentFields DEF IInv, TypeOK
    <3> QED
      BY <2>1, <3>1 DEF Restart, Load, Contents
  <2>2. CASE ~ Valid(disk)
    BY <1>0, <2>2 DEF Restart, Load
  <2> QED
    BY <2>1, <2>2
<1>2. NoSnap \in Contents
  BY <1>0 DEF NoSnap, Contents
<1>3. TypeOK'
  <2>1. lock' \subseteq Conns
    BY DEF Restart
  <2>6. failed' \in BOOLEAN
    BY Zenon DEF Restart
  <2>7. written' = Absent
    BY DEF Restart
  <2>2. pc' \in [Conns -> PCs] /\ up' \in [Conns -> BOOLEAN]
    BY DEF Restart, PCs
  <2>3. snap' \in [Conns -> Contents]
    BY <1>2 DEF Restart
  <2>4. owner' \in Owners
    BY NobodysUnits DEF Restart
  <2>5. now' = now /\ disk' = disk
    BY DEF Restart
  <2> QED
    BY <1>1, <2>1, <2>2, <2>3, <2>4, <2>5, <2>6, <2>7 DEF IInv, TypeOK, Owners
<1>4. ~ Valid(written')
  BY DEF Restart, Valid, Absent
<1>5. \A c \in Conns : pc'[c] \notin Persisting
  BY DEF Restart, Persisting
<1>6. MutexInv' /\ SnapInv'
  BY <1>5 DEF MutexInv, SnapInv, Marshalled, Persisting
<1>7. WrittenInv'
  BY <1>4 DEF WrittenInv, Valid
<1> QED
  BY <1>3, <1>6, <1>7 DEF IInv

LEMMA TickStep ==
  ASSUME IInv, Tick \/ UNCHANGED vars
  PROVE  IInv'
<1>1. UNCHANGED <<total, windowStart, disk, lock, pc, up, snap, owner, failed, written>>
  BY DEF Tick, vars
<1>2. now' \in 0 .. MaxTime
  BY QuotaAssumption DEF Tick, vars, IInv, TypeOK
<1>3. TypeOK'
  BY <1>1, <1>2 DEF IInv, TypeOK
<1>4. total' >= total
  BY <1>1, QuotaAssumption DEF IInv, TypeOK
<1> QED
  BY <1>1, <1>3, <1>4, Undisturbed

(***************************************************************************)
(* The invariant, for every number of connections (protection.go:57-92,    *)
(* 186-200).                                                               *)
(***************************************************************************)
THEOREM Invariance == Spec => []IInv
<1>1. Init => IInv
  <2> SUFFICES ASSUME Init PROVE IInv
    OBVIOUS
  <2>1. NoSnap \in Contents
    BY QuotaAssumption DEF NoSnap, Contents
  <2>2. TypeOK
    <3>1. /\ lock \subseteq Conns
          /\ now \in 0 .. MaxTime /\ windowStart \in 0 .. MaxTime /\ total \in 0 .. MaxTotal
      BY QuotaAssumption DEF Init
    <3>5. failed \in BOOLEAN
      BY Zenon DEF Init
    <3>6. written = Absent /\ disk = Absent
      BY DEF Init
    <3>2. pc \in [Conns -> PCs] /\ up \in [Conns -> BOOLEAN]
      BY DEF Init, PCs
    <3>3. snap \in [Conns -> Contents]
      BY <2>1 DEF Init
    <3>4. owner \in Owners
      BY NobodysUnits DEF Init
    <3> QED
      BY <3>1, <3>2, <3>3, <3>4, <3>5, <3>6 DEF TypeOK, Owners
  <2>3. \A c \in Conns : pc[c] \notin Persisting
    BY DEF Init, Persisting
  <2>4. ~ Valid(written)
    BY DEF Init, Valid, Absent
  <2> QED
    BY <2>2, <2>3, <2>4 DEF IInv, MutexInv, SnapInv, WrittenInv, Marshalled, Persisting
<1>2. IInv /\ [Next]_vars => IInv'
  BY MoveStep, CountStep, RolloverStep, LockStep, TruncateStep, WriteStep,
     RestartStep, TickStep DEF Next, Handler
<1> QED
  BY <1>1, <1>2, PTL DEF Spec

-----------------------------------------------------------------------------
(***************************************************************************)
(* The saved total of a period never goes back: however many connections   *)
(* end at once, no writer with an older total comes second                 *)
(* (protection.go:187-200).                                                *)
(***************************************************************************)
THEOREM SavedIsMonotone == Spec => SavedNeverGoesBack
<1>1. ASSUME IInv, [Next]_vars, Valid(written), Valid(written'), written'.start = written.start
      PROVE  written'.total >= written.total
  <2>1. written.total \in Int
    <3>1. written \in Contents \cup {Absent, Empty}
      BY <1>1 DEF IInv, TypeOK
    <3> QED
      BY <3>1, ContentFields
  <2>2. CASE \E c \in Conns : Write(c)
    <3>1. PICK c \in Conns : Write(c)
      BY <2>2
    <3>2. written' = snap[c] /\ pc[c] \in Marshalled
      BY <3>1 DEF Write, Marshalled
    <3> QED
      BY <1>1, <3>2 DEF IInv, SnapInv
  <2>3. CASE Restart
    BY <1>1, <2>3 DEF Restart, Valid, Absent
  <2>4. (\E c \in Conns : Write(c)) \/ Restart \/ written' = written
    BY <1>1 DEF Next, Handler, vars, HandshakeFails, Authenticated, KeepPeriod, Rollover,
                Refuse, Open, Count, Finish, UpEnds, UpCountsLast, Lock, Truncate,
                WriteFails, Tick
  <2> QED
    BY <2>1, <2>2, <2>3, <2>4
<1>2. IInv /\ [Next]_vars =>
        [(Valid(written) /\ Valid(written') /\ written'.start = written.start)
           => written'.total >= written.total]_vars
  BY <1>1
<1> QED
  BY <1>2, Invariance, PTL DEF Spec, SavedNeverGoesBack

-----------------------------------------------------------------------------
(***************************************************************************)
(* What a crash would lose.  While nobody writes, the units above the      *)
(* saved total are somebody's; while a handler writes, the units above its *)
(* snapshot are, and none is its own if it is about to end.                *)
(***************************************************************************)
Unsaved(c) == snap[c].total + 1 .. total

OwnInv ==
  /\ EndedIsSaved
  /\ \A c \in Conns : pc[c] \in Marshalled =>
       \A k \in Unsaved(c) : owner[k] # Gone /\ (pc[c] = "write" => owner[k] # c)

\* A saved total is below or above what is counted, but a number.
LEMMA SavedIsNat ==
  ASSUME TypeOK
  PROVE  /\ SavedTotal \in Nat /\ total \in 0 .. MaxTotal /\ MaxTotal \in Nat
         /\ \A c \in Conns : snap[c].total \in Nat
<1>1. total \in 0 .. MaxTotal /\ MaxTotal \in Nat
  BY QuotaAssumption DEF TypeOK
<1>2. SavedTotal \in Nat
  <2>1. CASE Valid(disk)
    <3>1. disk \in Contents
      BY <2>1, ContentFields DEF TypeOK
    <3> QED BY <1>1, <2>1, <3>1 DEF SavedTotal, Contents
  <2>2. CASE ~ Valid(disk)
    BY <2>2 DEF SavedTotal
  <2> QED BY <2>1, <2>2
<1>3. \A c \in Conns : snap[c].total \in Nat
  BY <1>1 DEF TypeOK, Contents
<1> QED BY <1>1, <1>2, <1>3

\* Steps that count nothing, write nothing and enter no writing.
LEMMA BesideOwners ==
  ASSUME OwnInv, lock' = {} => lock = {},
         UNCHANGED <<total, disk, snap, owner, failed>>,
         \A c \in Conns : pc'[c] \in Marshalled => pc'[c] = pc[c]
  PROVE  OwnInv'
<1>1. SavedTotal' = SavedTotal
  BY DEF SavedTotal, Valid
<1>2. EndedIsSaved'
  BY <1>1 DEF OwnInv, EndedIsSaved
<1> QED BY <1>2 DEF OwnInv, Unsaved

\* A unit that is counted is somebody's, and not a writer's that ends.
LEMMA CountKeepsOwn ==
  ASSUME TypeOK, OwnInv, NEW c \in Conns, Count(c) \/ UpCountsLast(c)
  PROVE  OwnInv'
<1>0. /\ UNCHANGED <<disk, lock, pc, snap, failed>>
      /\ total' = total + 1 /\ total < MaxTotal /\ total \in Nat
      /\ SavedTotal \in Nat /\ SavedTotal' = SavedTotal
  <2>1. UNCHANGED <<disk, lock, pc, snap, failed>> /\ total' = total + 1 /\ total < MaxTotal
    BY DEF Count, UpCountsLast, Add
  <2>2. total \in Nat /\ SavedTotal \in Nat /\ SavedTotal' = SavedTotal
    BY <2>1, SavedIsNat DEF SavedTotal, Valid
  <2> QED BY <2>1, <2>2
<1>1. PICK x \in (Conns \cup {Late}) :
        /\ Add(x)
        /\ \A d \in Conns : pc[d] = "write" => x # d
  <2>0. Late \notin Conns
    BY QuotaAssumption
  <2>1. CASE Count(c)
    BY <2>1 DEF Count
  <2>2. CASE UpCountsLast(c) /\ pc[c] \in {"end", "trunc"}
    BY <2>2 DEF UpCountsLast
  <2>3. CASE UpCountsLast(c) /\ pc[c] \notin {"end", "trunc"}
    BY <2>0, <2>3 DEF UpCountsLast
  <2> QED BY <2>1, <2>2, <2>3
<1>2. /\ owner'[total + 1] = x
      /\ \A k \in 1 .. total : owner'[k] = owner[k]
  <2>1. owner' = [owner EXCEPT ![total + 1] = x] /\ DOMAIN owner = 1 .. MaxTotal
    BY <1>1 DEF Add, TypeOK
  <2>2. /\ total + 1 \in 1 .. MaxTotal
        /\ \A k \in 1 .. total : k \in 1 .. MaxTotal /\ k # total + 1
    BY <1>0, QuotaAssumption
  <2> QED BY <2>1, <2>2
<1>3. x # Gone
  BY QuotaAssumption DEF Late, Gone
<1>4. EndedIsSaved'
  <2> SUFFICES ASSUME lock = {}, ~ failed, NEW k \in SavedTotal + 1 .. total + 1
               PROVE  owner'[k] # Gone
    BY <1>0 DEF EndedIsSaved
  <2>1. CASE k = total + 1
    BY <1>2, <1>3, <2>1
  <2>2. CASE k # total + 1
    <3>1. k \in SavedTotal + 1 .. total /\ k \in 1 .. total
      BY <1>0, <2>2
    <3> QED BY <1>2, <3>1 DEF OwnInv, EndedIsSaved
  <2> QED BY <2>1, <2>2
<1>5. ASSUME NEW d \in Conns, pc[d] \in Marshalled,
             NEW k \in snap[d].total + 1 .. total + 1
      PROVE  owner'[k] # Gone /\ (pc[d] = "write" => owner'[k] # d)
  <2>0. snap[d].total \in Nat
    BY SavedIsNat
  <2>1. CASE k = total + 1
    BY <1>1, <1>2, <1>3, <2>1
  <2>2. CASE k # total + 1
    <3>1. k \in snap[d].total + 1 .. total /\ k \in 1 .. total
      BY <1>0, <2>0, <2>2
    <3> QED BY <1>2, <1>5, <3>1 DEF OwnInv, Unsaved
  <2> QED BY <2>1, <2>2
<1> QED BY <1>0, <1>4, <1>5 DEF OwnInv, Unsaved

\* A handler that leaves s.mu leaves behind what is still somebody's.
LEMMA WriteKeepsOwn ==
  ASSUME IInv, OwnInv, NEW c \in Conns, Write(c) \/ WriteFails(c)
  PROVE  OwnInv'
<1>0. /\ TypeOK /\ Unlock(c) /\ pc[c] \in Persisting
      /\ UNCHANGED <<total, snap>>
  BY DEF IInv, Write, WriteFails, Persisting
<1>1. \A d \in Conns : pc'[d] \notin Marshalled
  BY <1>0, UnlockMoves DEF Marshalled, Persisting
<1>2. CASE WriteFails(c)
  <2>1. failed'
    BY <1>2 DEF WriteFails
  <2> QED BY <1>1, <2>1 DEF OwnInv, EndedIsSaved
<1>3. CASE Write(c)
  <2>0. /\ disk' = snap[c] /\ pc[c] \in Marshalled /\ snap[c].total \in Nat
        /\ total \in 0 .. MaxTotal /\ MaxTotal \in Nat
    BY <1>0, <1>3, SavedIsNat DEF Write, Marshalled
  <2>1. SavedTotal' = snap[c].total
    BY <2>0 DEF SavedTotal, Valid
  <2>2. ASSUME NEW k \in Unsaved(c) PROVE owner'[k] # Gone
    <3>1. owner[k] # Gone /\ (pc[c] = "write" => owner[k] # c) /\ k \in 1 .. MaxTotal
      BY <2>0 DEF OwnInv, Unsaved
    <3>2. CASE pc[c] = "rwrite"
      BY <1>0, <3>1, <3>2 DEF Unlock
    <3>3. CASE pc[c] = "write"
      <4>1. Forget(c)
        BY <1>0, <3>3 DEF Unlock
      <4> QED BY <3>1, <3>3, <4>1 DEF Forget
    <3> QED BY <2>0, <3>2, <3>3 DEF Marshalled
  <2>3. EndedIsSaved'
    BY <1>0, <2>1, <2>2 DEF EndedIsSaved, Unsaved
  <2> QED BY <1>1, <2>3 DEF OwnInv
<1> QED BY <1>2, <1>3

LEMMA StepOwn ==
  ASSUME IInv, OwnInv, [Next]_vars
  PROVE  OwnInv'
<1>0. TypeOK /\ MutexInv
  BY DEF IInv
<1>1. CASE Restart
  <2>1. \A c \in Conns : pc'[c] \notin Marshalled
    BY <1>1 DEF Restart, Marshalled
  <2>2. SavedTotal' = total' /\ total' \in Nat
    <3>1. SavedTotal' = SavedTotal /\ total' = SavedTotal
      BY <1>1 DEF Restart, Load, SavedTotal, Valid
    <3> QED BY <1>0, <3>1, SavedIsNat
  <2>3. EndedIsSaved'
    <3>0. \A n \in Nat : n + 1 .. n = {}
      OBVIOUS
    <3>1. SavedTotal' + 1 .. total' = {}
      BY <2>2, <3>0, Zenon
    <3> QED BY <3>1 DEF EndedIsSaved
  <2> QED BY <2>1, <2>3 DEF OwnInv
<1>2. CASE Tick \/ UNCHANGED vars
  BY <1>2, BesideOwners DEF Tick, vars
<1>3. ASSUME NEW c \in Conns, Handler(c) PROVE OwnInv'
  <2>1. CASE \/ HandshakeFails(c) \/ Authenticated(c) \/ KeepPeriod(c)
             \/ Refuse(c) \/ Open(c) \/ Finish(c) \/ Lock(c)
    <3>1. PICK from \in PCs, to \in PCs \ Marshalled : Go(c, from, to)
      BY <2>1 DEF HandshakeFails, Authenticated, KeepPeriod, Refuse, Open, Finish, Lock,
                  PCs, Marshalled
    <3>2. \A d \in Conns : pc'[d] \in Marshalled => pc'[d] = pc[d]
      BY <1>0, <3>1, GoMoves
    <3>3. /\ UNCHANGED <<total, disk, snap, owner, failed>>
          /\ lock' = {} => lock = {}
      BY <2>1 DEF HandshakeFails, Authenticated, KeepPeriod, Refuse, Open, Finish, Lock
    <3> QED BY <3>2, <3>3, BesideOwners
  <2>2. CASE UpEnds(c)
    BY <2>2, BesideOwners DEF UpEnds
  <2>3. CASE Rollover(c)
    <3>1. lock' # {} /\ lock = {} /\ Go(c, "roll", "rtrunc")
      BY <2>3 DEF Rollover
    <3>2. \A d \in Conns : pc'[d] \notin Marshalled
      BY <1>0, <3>1, LockFreeMeansAlone, GoMoves DEF PCs, Marshalled, Persisting
    <3> QED BY <3>1, <3>2 DEF OwnInv, EndedIsSaved
  <2>4. CASE Count(c) \/ UpCountsLast(c)
    BY <1>0, <2>4, CountKeepsOwn
  <2>5. CASE Truncate(c)
    <3>1. pc[c] \in Persisting /\ lock' = lock /\ total' = total
          /\ snap' = [snap EXCEPT ![c] = [total |-> total, start |-> windowStart]]
          /\ \A d \in Conns \ {c} : pc'[d] = pc[d]
      BY <1>0, <2>5 DEF Truncate, Go, Persisting, TypeOK
    <3>2. lock = {c} /\ \A d \in Conns \ {c} : pc[d] \notin Persisting
      BY <1>0, <3>1 DEF MutexInv
    <3>3. snap'[c].total = total /\ total \in Nat
      BY <1>0, <3>1, SavedIsNat DEF TypeOK
    <3>4. Unsaved(c)' = {}
      BY <3>1, <3>3 DEF Unsaved
    <3>5. \A d \in Conns : pc'[d] \in Marshalled => d = c
      BY <3>1, <3>2 DEF Marshalled, Persisting
    <3>6. EndedIsSaved'
      BY <3>1, <3>2 DEF EndedIsSaved
    <3> QED BY <3>4, <3>5, <3>6 DEF OwnInv
  <2>6. CASE Write(c) \/ WriteFails(c)
    BY <2>6, WriteKeepsOwn
  <2> QED BY <1>3, <2>1, <2>2, <2>3, <2>4, <2>5, <2>6 DEF Handler
<1> QED BY <1>1, <1>2, <1>3 DEF Next

(***************************************************************************)
(* What a connection that has ended counted is on disk, whenever no writer *)
(* is at work and the last write was complete: for any number of           *)
(* connections ending at once, and any rollover and restart in between     *)
(* (protection.go:186-200, server.go:130-133).                             *)
(***************************************************************************)
THEOREM EndedAreSaved == Spec => []EndedIsSaved
<1>1. Init => OwnInv
  <2> SUFFICES ASSUME Init PROVE OwnInv
    OBVIOUS
  <2>1. \A c \in Conns : pc[c] \notin Marshalled
    BY DEF Init, Marshalled
  <2>2. SavedTotal = 0 /\ total = 0
    BY DEF Init, SavedTotal, Valid, Absent
  <2> QED BY <2>1, <2>2 DEF OwnInv, EndedIsSaved
<1>2. IInv /\ OwnInv /\ [Next]_vars => OwnInv'
  BY StepOwn
<1>3. OwnInv => EndedIsSaved
  BY DEF OwnInv
<1> QED
  BY <1>1, <1>2, <1>3, Invariance, PTL DEF Spec
=============================================================================
