---------------------------- MODULE TrafficQuota ----------------------------
(***************************************************************************)
(* The traffic fuse of the server (server/protection.go): bytes of all     *)
(* tunnels are added to one total, the total and the start of its period   *)
(* are written to traffic.txt when a connection ends and when a period     *)
(* rolls over, and a new tunnel is refused once the total has reached the  *)
(* quota.  Handlers run concurrently; the mutex s.mu serialises the writers*)
(* but os.WriteFile is a truncation and a write, and the process may die   *)
(* between any two steps.                                                  *)
(***************************************************************************)
EXTENDS Integers

CONSTANTS
  Conns,    \* connection slots
  Quota,    \* maxGB in units of counted data; 0 turns the fuse off
  Days,     \* quotaDays in ticks; 0 means one period for ever
  MaxTime,  \* bound of the model: the clock stops here
  MaxTotal  \* bound of the model: at most so much data is counted

Late == "late"
Gone == "gone"

ASSUME QuotaAssumption ==
  /\ Quota \in Nat /\ Days \in Nat /\ MaxTime \in Nat /\ MaxTotal \in Nat
  /\ {Late, Gone} \cap Conns = {}

VARIABLES
  now,          \* the clock
  total,        \* s.total
  windowStart,  \* s.windowStart
  disk,         \* traffic.txt
  lock,         \* the connections whose handler holds s.mu: one at most
  pc,           \* where each handler is
  up,           \* whether the upstream goroutine of a connection runs
  snap,         \* what the writer marshalled
  owner,        \* history: whose each counted unit is: a connection's that has
                \*   not ended, Late: counted for one that had already saved, and
                \*   not marshalled since, or Gone: nobody's any more
  failed,       \* history: the last write did not complete
  written       \* history: the last complete content this process wrote

vars == <<now, total, windowStart, disk, lock, pc, up, snap, owner, failed, written>>

Contents == [total : 0 .. MaxTotal, start : 0 .. MaxTime]
Absent == [total |-> -1, start |-> 0]   \* no file
Empty == [total |-> -2, start |-> 0]    \* truncated and not written
Valid(f) == f.total >= 0

\* "roll", "check": maybeRollover and overQuota; "end": the deferred
\* persistTotal; "trunc"/"write": persistLocked, reached from the end of a
\* connection, and "rtrunc"/"rwrite", reached from a rollover.
PCs == {"idle", "roll", "check", "relay", "end", "trunc", "write", "rtrunc", "rwrite"}

TypeOK ==
  /\ now \in 0 .. MaxTime
  /\ total \in 0 .. MaxTotal
  /\ windowStart \in 0 .. MaxTime
  /\ disk \in Contents \cup {Absent, Empty}
  /\ lock \subseteq Conns
  /\ pc \in [Conns -> PCs]
  /\ up \in [Conns -> BOOLEAN]
  /\ snap \in [Conns -> Contents]
  /\ owner \in [1 .. MaxTotal -> Conns \cup {Late, Gone}]
  /\ failed \in BOOLEAN
  /\ written \in Contents \cup {Absent}

NoSnap == [total |-> 0, start |-> 0]
Nobodys == [k \in 1 .. MaxTotal |-> Gone]

Init ==
  /\ now = 0 /\ total = 0 /\ windowStart = 0
  /\ disk = Absent /\ lock = {} /\ failed = FALSE /\ written = Absent
  /\ pc = [c \in Conns |-> "idle"]
  /\ up = [c \in Conns |-> FALSE]
  /\ snap = [c \in Conns |-> NoSnap]
  /\ owner = Nobodys

Go(c, from, to) == pc[c] = from /\ pc' = [pc EXCEPT ![c] = to]

(***************************************************************************)
(* handleServerConn, as far as the meter is concerned.                     *)
(***************************************************************************)
\* A slot is free again when both goroutines of its connection are gone.
HandshakeFails(c) ==
  /\ Go(c, "idle", "end")
  /\ ~ up[c]
  /\ UNCHANGED <<now, total, windowStart, disk, lock, up, snap, owner, failed, written>>

Authenticated(c) ==
  /\ Go(c, "idle", "roll")
  /\ ~ up[c]
  /\ UNCHANGED <<now, total, windowStart, disk, lock, up, snap, owner, failed, written>>

PeriodOver == Days > 0 /\ now - windowStart > Days

\* Without a period (Days = 0) maybeRollover returns before it locks.
KeepPeriod(c) ==
  /\ Go(c, "roll", "check")
  /\ Days = 0 \/ lock = {}
  /\ ~ PeriodOver
  /\ UNCHANGED <<now, total, windowStart, disk, lock, up, snap, owner, failed, written>>

Rollover(c) ==
  /\ Go(c, "roll", "rtrunc")
  /\ lock = {}
  /\ PeriodOver
  /\ lock' = {c}
  /\ total' = 0
  /\ windowStart' = now
  /\ owner' = Nobodys
  /\ UNCHANGED <<now, disk, up, snap, failed, written>>

OverQuota == Quota > 0 /\ total >= Quota

Refuse(c) ==
  /\ Go(c, "check", "end")
  /\ OverQuota
  /\ UNCHANGED <<now, total, windowStart, disk, lock, up, snap, owner, failed, written>>

Open(c) ==
  /\ Go(c, "check", "relay")
  /\ ~ OverQuota
  /\ up' = [up EXCEPT ![c] = TRUE]
  /\ UNCHANGED <<now, total, windowStart, disk, lock, snap, owner, failed, written>>

Add(who) ==
  /\ total < MaxTotal
  /\ total' = total + 1
  /\ owner' = [owner EXCEPT ![total + 1] = who]

\* A Read or Write of countingConn, in either direction.
Count(c) ==
  /\ pc[c] = "relay"
  /\ Add(c)
  /\ UNCHANGED <<now, windowStart, disk, lock, pc, up, snap, failed, written>>

Finish(c) ==
  /\ Go(c, "relay", "end")
  /\ UNCHANGED <<now, total, windowStart, disk, lock, up, snap, owner, failed, written>>

\* The upstream goroutine ends by itself: with the connection, or after it,
\* when a last read that had data when the handler closed is still added.
UpEnds(c) ==
  /\ up[c]
  /\ up' = [up EXCEPT ![c] = FALSE]
  /\ UNCHANGED <<now, total, windowStart, disk, lock, pc, snap, owner, failed, written>>

UpCountsLast(c) ==
  /\ up[c]
  /\ pc[c] \notin {"relay"}
  /\ up' = [up EXCEPT ![c] = FALSE]
  /\ Add(IF pc[c] \in {"end", "trunc"} THEN c ELSE Late)
  /\ UNCHANGED <<now, windowStart, disk, lock, pc, snap, failed, written>>

(***************************************************************************)
(* persistTotal and persistLocked.                                         *)
(***************************************************************************)
LockFree(c) ==  \* mutant: persistTotal does not take s.mu
  /\ Go(c, "end", "trunc")
  /\ lock' = lock \cup {c}
  /\ UNCHANGED <<now, total, windowStart, disk, up, snap, owner, failed, written>>

\* The units of x are nobody's any more.
Forget(x) == owner' = [k \in 1 .. MaxTotal |-> IF owner[k] = x THEN Gone ELSE owner[k]]

NoPersist(c) ==  \* mutant: the total is only written on rollover
  /\ Go(c, "end", "idle")
  /\ Forget(c)
  /\ UNCHANGED <<now, total, windowStart, disk, lock, up, snap, failed, written>>

Lock(c) ==
  /\ Go(c, "end", "trunc")
  /\ lock = {}
  /\ lock' = {c}
  /\ UNCHANGED <<now, total, windowStart, disk, up, snap, owner, failed, written>>

Truncate(c) ==
  /\ Go(c, "trunc", "write") \/ Go(c, "rtrunc", "rwrite")
  /\ snap' = [snap EXCEPT ![c] = [total |-> total, start |-> windowStart]]
  /\ disk' = Empty
  /\ Forget(Late)
  /\ UNCHANGED <<now, total, windowStart, lock, up, failed, written>>

\* Leaving s.mu: back to overQuota after a rollover, else the handler is gone.
Unlock(c) ==
  /\ lock' = lock \ {c}
  /\ IF pc[c] \in {"rtrunc", "rwrite"}
     THEN pc' = [pc EXCEPT ![c] = "check"] /\ UNCHANGED owner
     ELSE pc' = [pc EXCEPT ![c] = "idle"] /\ Forget(c)

Write(c) ==
  /\ pc[c] \in {"write", "rwrite"}
  /\ disk' = snap[c]
  /\ written' = snap[c]
  /\ failed' = FALSE
  /\ Unlock(c)
  /\ UNCHANGED <<now, total, windowStart, up, snap>>

\* The error of os.WriteFile is ignored: the open or the write may fail.
WriteFails(c) ==
  /\ pc[c] \in {"trunc", "rtrunc", "write", "rwrite"}
  /\ failed' = TRUE
  /\ Unlock(c)
  /\ UNCHANGED <<now, total, windowStart, disk, up, snap, written>>

(***************************************************************************)
(* The process dies; newTrafficServer reads traffic.txt, and an absent or  *)
(* unreadable file means a new period with nothing counted.                *)
(***************************************************************************)
Load(f) == IF Valid(f) THEN f ELSE [total |-> 0, start |-> now]

Restart ==
  /\ total' = Load(disk).total
  /\ windowStart' = Load(disk).start
  /\ lock' = {} /\ failed' = FALSE /\ written' = Absent
  /\ pc' = [c \in Conns |-> "idle"]
  /\ up' = [c \in Conns |-> FALSE]
  /\ snap' = [c \in Conns |-> NoSnap]
  /\ owner' = Nobodys
  /\ UNCHANGED <<now, disk>>

Tick ==
  /\ now < MaxTime
  /\ now' = now + 1
  /\ UNCHANGED <<total, windowStart, disk, lock, pc, up, snap, owner, failed, written>>

Handler(c) ==
  \/ HandshakeFails(c) \/ Authenticated(c)
  \/ KeepPeriod(c) \/ Rollover(c) \/ Refuse(c) \/ Open(c)
  \/ Count(c) \/ Finish(c) \/ UpEnds(c) \/ UpCountsLast(c)
  \/ Lock(c) \/ Truncate(c) \/ Write(c) \/ WriteFails(c)

Next == Restart \/ Tick \/ \E c \in Conns : Handler(c)

Spec == Init /\ [][Next]_vars

-----------------------------------------------------------------------------
(***************************************************************************)
(* Nothing an ended connection has counted is still only in memory: with   *)
(* no writer at work and the last write complete, what a crash would lose  *)
(* is data of connections that are still open, or was counted by an        *)
(* upstream goroutine after its handler had saved (protection.go:186-200,  *)
(* server.go:130-133).                                                     *)
(***************************************************************************)
SavedTotal == IF Valid(disk) THEN disk.total ELSE 0

EndedIsSaved ==
  (lock = {} /\ ~ failed) => \A k \in SavedTotal + 1 .. total : owner[k] # Gone

(***************************************************************************)
(* The saved total of a period never goes back: however many connections   *)
(* end at once, a writer with an older total cannot come second            *)
(* (protection.go:187-200).                                                *)
(***************************************************************************)
SavedNeverGoesBack ==
  [][(Valid(written) /\ Valid(written') /\ written'.start = written.start)
       => written'.total >= written.total]_vars
=============================================================================
