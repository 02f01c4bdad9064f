-------------------------------- MODULE Panel --------------------------------
(***************************************************************************)
(* The web panel (web/web.go, web/web_api.go): one process that starts and *)
(* kills the client as a child, takes over the system proxy and rotates    *)
(* the password.  Its handlers run concurrently; most hold webManager.mu   *)
(* from start to end, also while they write web.json and client.pid and    *)
(* while they wait for the client to listen.  The panel may be killed at   *)
(* any moment, also between truncating a file and writing it; the client   *)
(* and the system setting outlive it.                                      *)
(***************************************************************************)
EXTENDS SysProxy, FiniteSets

CONSTANTS
  Machines,  \* platforms with the user's own proxy setting
  Threads,   \* requests the panel handles at a time
  Pids,      \* process identifiers of client processes
  Passwords, \* passwords the user or the server may choose
  NoPass,    \* the blank password
  None

ASSUME PanelAssumption ==
  /\ Machines \subseteq UNION {{p} \X UserSettings(p) : p \in Platforms}
  /\ NoPass \notin Passwords
  /\ None \notin Pids
  /\ None \notin Undos

VARIABLES
  plat, user,  \* the platform and the user's own proxy setting
  sys,         \* the system proxy setting
  up,          \* is a panel running?
  cfg,         \* m.cfg: the mode and the password
  webFile,     \* web.json: a configuration, or None: cut short
  undo,        \* m.undoFunc
  child,       \* m.child
  pidFile,     \* client.pid: a client, or None: absent or cut short
  authFile,    \* auth, read by a client when it starts
  proc,        \* the client processes
  th,          \* where each request is, for which job, and the mode SaveConfig has read
  killed,      \* history: a panel was killed while it held the system proxy
  failed,      \* history: a backup could not be read, or an undo not be run to its end
  late, lost   \* history: clients the panel no longer waits for or whose
               \* password was lost; clients whose handle or record was

worldVars == <<plat, user>>
proxyVars == <<sys, undo, failed>>
cfgVars == <<cfg, webFile>>
clientVars == <<child, pidFile, authFile, proc, late, lost>>
vars == <<worldVars, proxyVars, up, cfgVars, clientVars, th, killed>>

Modes == {"pac", "all", "off"}

\* web.json is being written; a client has started and client.pid is being
\* written; waiting until it listens.  In all three the mutex is held.
Holding == {"saving", "record", "wait"}
PCs == {"idle", "start", "save", "rotated", "restart"} \cup Holding

\* What SetMode, RotateServerPass, SaveConfig (without and with a restart of
\* the client) and Start do after that.
Jobs == {"mode", "rotate", "keep", "respawn", "start"}

Gone == [st |-> "none", pass |-> NoPass]
Idle == [pc |-> "idle", job |-> "start", mode |-> "off"]

Init ==
  /\ \E m \in Machines : plat = m[1] /\ user = m[2]
  /\ sys = user
  /\ up = FALSE
  /\ cfg \in [mode : {"pac"}, pass : Passwords \cup {NoPass}]
  /\ webFile = cfg
  /\ undo = None /\ child = None /\ pidFile = None
  /\ authFile = NoPass
  /\ proc = [p \in Pids |-> Gone]
  /\ th = [t \in Threads |-> Idle]
  /\ killed = FALSE /\ failed = FALSE
  /\ late = {} /\ lost = {}

Running == {p \in Pids : proc[p].st # "none"}
Starting == {p \in Pids : proc[p].st = "starting"}
ClientAlive == \E p \in Pids : proc[p].st = "listening"

Locked == \E t \in Threads : th[t].pc \in Holding

At(t, pc) == up /\ th[t].pc = pc
For(t, pc, job) == At(t, pc) /\ th[t].job = job
Go(t, pc, job) == th' = [th EXCEPT ![t] = [Idle EXCEPT !.pc = pc, !.job = job]]

-----------------------------------------------------------------------------
(***************************************************************************)
(* applyProxy: undo what is applied, then apply the mode.  An undo that    *)
(* fails or panics is forgotten like one that has succeeded.               *)
(***************************************************************************)
Apply(mode, s) == IF mode = "pac" THEN ApplyPAC(plat, s) ELSE ApplyAll(plat, s)

Releases == IF undo = None THEN {[sys |-> sys, ok |-> TRUE]} ELSE Undone(undo, sys)

Applied(mode, released) ==
  \/ /\ mode = "off"
     /\ sys' = released.sys /\ undo' = None
     /\ failed' = (failed \/ ~ released.ok)
  \/ /\ mode # "off"
     /\ \E a \in Apply(mode, released.sys) :
          /\ sys' = a.sys /\ undo' = a.undo
          /\ failed' = (failed \/ ~ released.ok \/ ~ a.ok)

ApplyProxyOver(mode) ==  \* mutant: the old setting is not undone first
  IF mode = "off" THEN \E r \in Releases : Applied("off", r)
                  ELSE Applied(mode, [sys |-> sys, ok |-> TRUE])

ApplyProxy(mode) == \E r \in Releases : Applied(mode, r)

(***************************************************************************)
(* killChild kills the child and whatever client.pid names.                *)
(***************************************************************************)
Reached == {child, pidFile} \cap Pids

KillHandle == [p \in Pids |-> IF p = child THEN Gone ELSE proc[p]]  \* mutant: client.pid unread

KillReached == [p \in Pids |-> IF p \in Reached THEN Gone ELSE proc[p]]

KillChild ==
  /\ proc' = KillReached
  /\ child' = None /\ pidFile' = None
  /\ late' = late \ Reached /\ lost' = lost \ Reached
  /\ UNCHANGED authFile

(***************************************************************************)
(* spawn writes auth, starts a client and records it; the first two may    *)
(* fail and then it returns an error, the third may fail unseen.  From the *)
(* start of the client until client.pid is written the file holds what it  *)
(* held or is cut short.                                                   *)
(***************************************************************************)
Spawn ==
  /\ cfg.pass # NoPass
  /\ authFile' = cfg.pass
  /\ \E p \in Pids :
       /\ proc[p] = Gone
       /\ proc' = [proc EXCEPT ![p] = [st |-> "starting", pass |-> NoPass]]
       /\ child' = p
  /\ pidFile' \in {pidFile, None}
  /\ lost' = lost \cup (Reached \cap Running)
  /\ UNCHANGED late

SpawnFails ==
  /\ authFile' \in {authFile} \cup (IF cfg.pass = NoPass THEN {} ELSE {NoPass, cfg.pass})
  /\ UNCHANGED <<child, pidFile, proc, late, lost>>

WritePidFile(t) ==
  /\ At(t, "record")
  /\ \/ pidFile' = child /\ UNCHANGED lost
     \/ UNCHANGED pidFile /\ lost' = lost \cup ({child} \cap Running)
  /\ Go(t, "wait", th[t].job)
  /\ UNCHANGED <<worldVars, proxyVars, up, cfgVars, child, authFile, proc, late, killed>>

\* saveWebConfig, entered with the new configuration: web.json is the old one
\* or cut short until it is written, and stays cut short if it cannot be.
SaveWebConfig(new) == cfg' = new /\ webFile' \in {webFile, None}

WebConfigSaved == webFile' \in {None, cfg} /\ UNCHANGED cfg

-----------------------------------------------------------------------------
(***************************************************************************)
(* Start: take over a client that already listens, or spawn one and wait   *)
(* up to 3 seconds for it.                                                 *)
(***************************************************************************)
Start(t) ==
  /\ At(t, "idle")
  /\ Go(t, "start", "start")
  /\ UNCHANGED <<worldVars, proxyVars, up, cfgVars, clientVars, killed>>

TakeOver(t) ==
  /\ At(t, "start") /\ ~ Locked /\ ClientAlive
  /\ IF undo = None THEN ApplyProxy(cfg.mode) ELSE UNCHANGED proxyVars
  /\ Go(t, "idle", "start")
  /\ UNCHANGED <<worldVars, up, cfgVars, clientVars, killed>>

StartSpawns(t) ==
  /\ At(t, "start") /\ ~ Locked /\ ~ ClientAlive
  /\ \/ Spawn /\ Go(t, "record", "start")
     \/ SpawnFails /\ Go(t, "idle", "start")
  /\ UNCHANGED <<worldVars, proxyVars, up, cfgVars, killed>>

StartReady(t) ==
  /\ For(t, "wait", "start") /\ ClientAlive
  /\ ApplyProxy(cfg.mode)
  /\ Go(t, "idle", "start")
  /\ UNCHANGED <<worldVars, up, cfgVars, clientVars, killed>>

StartGivesUp(t) ==
  /\ For(t, "wait", "start") /\ ~ ClientAlive
  /\ KillChild
  /\ Go(t, "idle", "start")
  /\ UNCHANGED <<worldVars, proxyVars, up, cfgVars, killed>>

\* Stop, as a request or as the middle of a rotation, which then calls Start.
Stop(t) ==
  /\ ~ Locked
  /\ \/ At(t, "idle") /\ UNCHANGED th
     \/ At(t, "restart") /\ Go(t, "start", "start")
  /\ KillChild
  /\ ApplyProxy("off")
  /\ UNCHANGED <<worldVars, up, cfgVars, killed>>

SetMode(t, mode) ==
  /\ At(t, "idle") /\ ~ Locked
  /\ SaveWebConfig([cfg EXCEPT !.mode = mode])
  /\ Go(t, "saving", "mode")
  /\ UNCHANGED <<worldVars, proxyVars, up, clientVars, killed>>

SetModeSaved(t) ==
  /\ For(t, "saving", "mode")
  /\ WebConfigSaved
  /\ IF ClientAlive \/ undo # None THEN ApplyProxy(cfg.mode) ELSE UNCHANGED proxyVars
  /\ Go(t, "idle", "start")
  /\ UNCHANGED <<worldVars, up, clientVars, killed>>

(***************************************************************************)
(* SaveConfig reads the mode before it locks.  restarts: the address, the  *)
(* port, the DNS list or the transport changed.  Changed domains rebuild   *)
(* the PAC of a client that is kept; one that is restarted has no proxy    *)
(* set at that point.                                                      *)
(***************************************************************************)
SaveConfig(t) ==
  /\ At(t, "idle")
  /\ th' = [th EXCEPT ![t] = [pc |-> "save", job |-> "keep", mode |-> cfg.mode]]
  /\ UNCHANGED <<worldVars, proxyVars, up, cfgVars, clientVars, killed>>

SaveKeeps(t, pass) ==
  /\ Go(t, "saving", "keep")
  /\ late' = late \cup (IF pass = cfg.pass THEN {} ELSE Starting)
  /\ UNCHANGED <<proxyVars, child, pidFile, authFile, proc, lost>>

SaveStops(t) == KillChild /\ ApplyProxy("off") /\ Go(t, "saving", "respawn")

SaveNotRestarting(t) ==  \* mutant: a new password alone does not restart the client
  /\ At(t, "save") /\ ~ Locked
  /\ \E pass \in Passwords \cup {NoPass}, restarts \in BOOLEAN :
       /\ IF restarts /\ ClientAlive THEN SaveStops(t) ELSE SaveKeeps(t, pass)
       /\ SaveWebConfig([mode |-> th[t].mode, pass |-> pass])
  /\ UNCHANGED <<worldVars, up, killed>>

SaveCommit(t) ==
  /\ At(t, "save") /\ ~ Locked
  /\ \E pass \in Passwords \cup {NoPass}, restarts \in BOOLEAN :
       /\ IF (restarts \/ pass # cfg.pass) /\ ClientAlive
          THEN SaveStops(t) ELSE SaveKeeps(t, pass)
       /\ SaveWebConfig([mode |-> th[t].mode, pass |-> pass])
  /\ UNCHANGED <<worldVars, up, killed>>

SaveKept(t) ==
  /\ For(t, "saving", "keep")
  /\ WebConfigSaved
  /\ \/ undo # None /\ cfg.mode = "pac" /\ ApplyProxy("pac")
     \/ UNCHANGED proxyVars
  /\ Go(t, "idle", "start")
  /\ UNCHANGED <<worldVars, up, clientVars, killed>>

SaveRespawns(t) ==
  /\ For(t, "saving", "respawn")
  /\ WebConfigSaved
  /\ \/ Spawn /\ Go(t, "record", "respawn")
     \/ SpawnFails /\ Go(t, "idle", "start")
  /\ UNCHANGED <<worldVars, proxyVars, up, killed>>

\* After the wait the mode is applied whether or not the client listens.
SaveWaited(t) ==
  /\ For(t, "wait", "respawn")
  /\ ApplyProxy(cfg.mode)
  /\ late' = late \cup Starting
  /\ Go(t, "idle", "start")
  /\ UNCHANGED <<worldVars, up, cfgVars, child, pidFile, authFile, proc, lost, killed>>

(***************************************************************************)
(* RotateServerPass: without the mutex until the server has answered; then *)
(* one critical section stores the password, another stops the client,     *)
(* another starts it.                                                      *)
(***************************************************************************)
RotateAnswered(t) ==
  /\ At(t, "idle") /\ cfg.pass # NoPass
  /\ Go(t, "rotated", "start")
  /\ UNCHANGED <<worldVars, proxyVars, up, cfgVars, clientVars, killed>>

RotateStore(t) ==
  /\ At(t, "rotated") /\ ~ Locked
  /\ \E pass \in Passwords : SaveWebConfig([cfg EXCEPT !.pass = pass])
  /\ Go(t, "saving", "rotate")
  /\ late' = late \cup Starting
  /\ UNCHANGED <<worldVars, proxyVars, up, child, pidFile, authFile, proc, lost, killed>>

RotateStored(t) ==
  /\ For(t, "saving", "rotate")
  /\ WebConfigSaved
  /\ Go(t, IF ClientAlive THEN "restart" ELSE "idle", "start")
  /\ UNCHANGED <<worldVars, proxyVars, up, clientVars, killed>>

\* The server has the new password and the clients are not restarted yet.
Rotating(t) == th[t].pc = "restart" \/ (th[t].pc = "saving" /\ th[t].job = "rotate")

(***************************************************************************)
(* The process.  On a signal it stops the client, gives the proxy back and *)
(* exits (a request that gets in between is a Stop and a Kill); a kill     *)
(* does neither.  A panel that is started loads web.json, or the default   *)
(* configuration with no password when it is cut short, and calls Start.   *)
(***************************************************************************)
PanelEnds == up' = FALSE /\ th' = [t \in Threads |-> Idle]

Exit ==
  /\ up /\ ~ Locked
  /\ KillChild
  /\ ApplyProxy("off")
  /\ PanelEnds
  /\ UNCHANGED <<worldVars, cfgVars, killed>>

LoadWebConfig == IF webFile = None THEN [mode |-> "pac", pass |-> NoPass] ELSE webFile

\* An orphan keeps the old password when its rotation was cut off or the
\* configuration it was started with did not reach web.json.
Kill ==
  /\ up
  /\ undo' = None /\ child' = None
  /\ killed' = (killed \/ undo # None)
  /\ late' = late \cup Starting
       \cup (IF (\E t \in Threads : Rotating(t)) \/ LoadWebConfig.pass # cfg.pass
             THEN Running ELSE {})
  /\ lost' = lost \cup (IF \E t \in Threads : th[t].pc = "record"
                        THEN {child} \cap Running ELSE {})
  /\ PanelEnds
  /\ UNCHANGED <<worldVars, sys, failed, cfgVars, pidFile, authFile, proc>>

Run(t) ==
  /\ ~ up
  /\ up' = TRUE
  /\ cfg' = LoadWebConfig
  /\ Go(t, "start", "start")
  /\ UNCHANGED <<worldVars, proxyVars, webFile, clientVars, killed>>

(***************************************************************************)
(* A client reads auth, which must not be blank, and listens; a second one *)
(* cannot have the port and exits.  Any client may crash.                  *)
(***************************************************************************)
Listen(p) ==
  /\ proc[p].st = "starting" /\ ~ ClientAlive /\ authFile # NoPass
  /\ proc' = [proc EXCEPT ![p] = [st |-> "listening", pass |-> authFile]]
  /\ UNCHANGED <<worldVars, proxyVars, up, cfgVars, child, pidFile, authFile, th, killed,
                 late, lost>>

ClientExits(p) ==
  /\ proc[p].st # "none"
  /\ proc' = [proc EXCEPT ![p] = Gone]
  /\ late' = late \ {p} /\ lost' = lost \ {p}
  /\ UNCHANGED <<worldVars, proxyVars, up, cfgVars, child, pidFile, authFile, th, killed>>

ThreadStep(t) ==
  \/ Start(t) \/ TakeOver(t) \/ StartSpawns(t) \/ WritePidFile(t)
  \/ StartReady(t) \/ StartGivesUp(t) \/ Stop(t)
  \/ \E mode \in Modes : SetMode(t, mode)
  \/ SetModeSaved(t)
  \/ SaveConfig(t) \/ SaveCommit(t) \/ SaveKept(t) \/ SaveRespawns(t) \/ SaveWaited(t)
  \/ RotateAnswered(t) \/ RotateStore(t) \/ RotateStored(t)

Next ==
  \/ \E t \in Threads : ThreadStep(t) \/ Run(t)
  \/ Exit \/ Kill
  \/ \E p \in Pids : Listen(p) \/ ClientExits(p)

Spec == Init /\ [][Next]_vars

-----------------------------------------------------------------------------
(***************************************************************************)
(* The user's proxy is given back.  However requests, mode changes, exits  *)
(* and changes that are refused half way mix, while the panel holds        *)
(* nothing the setting in force is the user's, and while it holds it,      *)
(* undoing leads back to it (web.go:249-272, sysproxy).  Excluded, each a  *)
(* step the code does not survive: a panel that was killed while it held   *)
(* the setting, whose successor takes its leftover for the user's; a value *)
(* that could not be read for the backup; and an undo that failed, or      *)
(* panicked, and is only logged and forgotten.                             *)
(***************************************************************************)
ProxyGivenBack ==
  killed \/ failed \/
    Effective(IF undo = None THEN sys ELSE Restored(undo, sys)) = Effective(user)

(***************************************************************************)
(* A client that runs can be stopped: the panel has its handle or its pid  *)
(* is on file, also when it was started by a panel that was killed since   *)
(* (web.go:297-325).  Excluded are a client that was still starting when   *)
(* the next one displaced it, one whose record could not be written, and   *)
(* one whose panel was killed before it was.                               *)
(***************************************************************************)
ClientIsReachable == Running \subseteq Reached \cup lost

(***************************************************************************)
(* A client listens with the configured password whenever no rotation is   *)
(* about to restart it (web.go:396-413, 417-441): an old password would    *)
(* get its address banned.  Excluded are the clients that were still       *)
(* starting when the password changed or the panel gave up on them, and    *)
(* those of a panel that was killed before it had restarted them or before *)
(* the password was in web.json, which its successor then does not know.   *)
(***************************************************************************)
ClientHasPassword ==
  (\A t \in Threads : ~ Rotating(t)) =>
    \A p \in Pids : proc[p].st = "listening" /\ p \notin late \cup lost =>
      proc[p].pass = cfg.pass
=============================================================================
