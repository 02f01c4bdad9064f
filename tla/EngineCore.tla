----------------------------- MODULE EngineCore -----------------------------
(***************************************************************************)
(* The life of the mobile engine (mobile/core/core.go): the package's      *)
(* globals running and cancel, under one mutex, and the goroutine of each  *)
(* StartTunCore.  That goroutine clears running twice: after Serve has     *)
(* returned, and again in its deferred function, which also runs after a   *)
(* panic.  Between the two the mutex is free, so the application may start *)
(* the next engine there.                                                  *)
(***************************************************************************)
EXTENDS Integers, FiniteSets

CONSTANTS
  Engines,  \* engine goroutines that can exist at a time
  NoEngine      \* cancel = nil

ASSUME EngineAssumption == NoEngine \notin Engines

VARIABLES
  running,    \* the global running
  cancel,     \* the engine whose context the global cancel ends, or NoEngine
  eng,        \* where each engine's goroutine is
  cancelled,  \* the engines whose context is done
  last        \* history: the engine StartTunCore started last, or NoEngine

coreVars == <<running, cancel, eng, cancelled, last>>

\* "ended": Serve has returned.  "deferring": the first assignment is done, or
\* Serve panicked, and the deferred function runs.
EnginePhases == {"none", "serving", "ended", "deferring"}

CoreTypeOK ==
  /\ running \in BOOLEAN
  /\ cancel \in Engines \cup {NoEngine}
  /\ eng \in [Engines -> EnginePhases]
  /\ cancelled \subseteq Engines
  /\ last \in Engines \cup {NoEngine}

CoreInit ==
  /\ running = FALSE
  /\ cancel = NoEngine
  /\ eng = [e \in Engines |-> "none"]
  /\ cancelled = {}
  /\ last = NoEngine

Alive == {e \in Engines : eng[e] # "none"}

(***************************************************************************)
(* StartTunCore returns 1 while running; otherwise, with valid arguments,  *)
(* it overwrites cancel and starts an engine.                              *)
(***************************************************************************)
StartKeepsCancel(e) ==  \* mutant: an old cancel function is not replaced
  /\ ~ running
  /\ eng[e] = "none"
  /\ running' = TRUE
  /\ cancel' = IF cancel = NoEngine THEN e ELSE cancel
  /\ eng' = [eng EXCEPT ![e] = "serving"]
  /\ cancelled' = cancelled \ {e}
  /\ last' = e

StartTunCore(e) ==
  /\ ~ running
  /\ eng[e] = "none"
  /\ running' = TRUE
  /\ cancel' = e
  /\ eng' = [eng EXCEPT ![e] = "serving"]
  /\ cancelled' = cancelled \ {e}
  /\ last' = e

\* running stays true until the engine's goroutine clears it.
StopTunCore ==
  /\ cancel # NoEngine
  /\ cancelled' = cancelled \cup {cancel}
  /\ cancel' = NoEngine
  /\ UNCHANGED <<running, eng, last>>

(***************************************************************************)
(* The engine's goroutine.                                                 *)
(***************************************************************************)
Moves(e, from, to) == eng[e] = from /\ eng' = [eng EXCEPT ![e] = to]

\* Serve returns because the context is done ...
ServeCancelled(e) ==
  /\ e \in cancelled
  /\ Moves(e, "serving", "ended")
  /\ UNCHANGED <<running, cancel, cancelled, last>>

\* ... or with the tun device's error.
ServeFails(e) ==
  /\ Moves(e, "serving", "ended")
  /\ UNCHANGED <<running, cancel, cancelled, last>>

Panic(e) ==
  /\ Moves(e, "serving", "deferring")
  /\ UNCHANGED <<running, cancel, cancelled, last>>

SetStopped(e) ==
  /\ Moves(e, "ended", "deferring")
  /\ running' = FALSE
  /\ UNCHANGED <<cancel, cancelled, last>>

DeferredLogs(e) ==  \* mutant: the deferred function only closes the log
  /\ Moves(e, "deferring", "none")
  /\ UNCHANGED <<running, cancel, cancelled, last>>

Deferred(e) ==
  /\ Moves(e, "deferring", "none")
  /\ running' = FALSE
  /\ UNCHANGED <<cancel, cancelled, last>>

EngineStep(e) ==
  ServeCancelled(e) \/ SetStopped(e) \/ Deferred(e)

CoreNext ==
  \/ \E e \in Engines : StartTunCore(e)
  \/ StopTunCore
  \/ \E e \in Engines : EngineStep(e) \/ ServeFails(e) \/ Panic(e)

CoreSpec == CoreInit /\ [][CoreNext]_coreVars

(***************************************************************************)
(* The runtime schedules the engine's goroutine, and Serve looks at its    *)
(* context.  Nobody has to start or stop an engine.                        *)
(***************************************************************************)
CoreFairSpec == CoreSpec /\ \A e \in Engines : WF_coreVars(EngineStep(e))

-----------------------------------------------------------------------------
(***************************************************************************)
(* RunningCore never reports an engine that is not there: while running is *)
(* set, the goroutine of the engine started last still exists, also when   *)
(* that engine panicked (core.go:65-77, 119-124).                          *)
(***************************************************************************)
RunningMeansAlive == running => last \in Engines /\ eng[last] # "none"

(***************************************************************************)
(* The engine started last can be stopped for as long as it serves,        *)
(* however many others ended, panicked or were stopped around its start:   *)
(* cancel is its own, or it is already cancelled (core.go:61-63, 113-116). *)
(***************************************************************************)
LatestIsCancellable ==
  \A e \in Engines :
    last = e /\ eng[e] = "serving" /\ e \notin cancelled => cancel = e

(***************************************************************************)
(* An engine that was cancelled goes away, and after it running is clear   *)
(* unless another one has been started since (core.go:75-77, 99-104).      *)
(***************************************************************************)
CancelledGoes ==
  \A e \in Engines :
    (e \in cancelled /\ eng[e] = "serving") ~> eng[e] = "none" /\ (running => last # e)
=============================================================================
