----------------------------- MODULE PanelProofs ------------------------------
(***************************************************************************)
(* For every platform, user setting, number of requests and of processes:  *)
(* the panel gives the user's proxy back, never loses its hold on a client,*)
(* and lets none listen with an old password.  The first rests on what     *)
(* applying a mode and undoing it do to the part of the setting that is in *)
(* force, on each platform.                                                *)
(***************************************************************************)
EXTENDS Panel, TLAPS

\* Undone to this, the user has the setting back that was in force.  Under
\* GNOME the mode that was saved must be "none" throughout.
Good(s) ==
  /\ s \in Settings
  /\ Effective(s) = Effective(user)
  /\ plat = "linux" => ~ s.urlOn /\ ~ s.srvOn

UserInv == <<plat, user>> \in Machines

\* What the panel's undo leads to.
Released == IF undo = None THEN sys ELSE Restored(undo, sys)

ProxyInv ==
  /\ UserInv
  /\ sys \in Settings
  /\ undo \in Undos \cup {None}
  /\ killed \in BOOLEAN /\ failed \in BOOLEAN
  /\ killed \/ failed \/ Good(Released)

LEMMA UserType ==
  ASSUME UserInv
  PROVE  /\ plat \in Platforms /\ user \in Settings
         /\ user.urlOn => user.url = "user"
         /\ plat = "linux" => ~ user.urlOn /\ ~ user.srvOn
  BY PanelAssumption DEF UserInv, UserSettings, Settings, Values, Platforms

LEMMA MixedType ==
  ASSUME NEW s \in Settings, NEW t \in Settings, NEW done
  PROVE  Mixed(s, t, done) \in Settings
  BY DEF Mixed, Settings

LEMMA NothingIsUndone ==
  ASSUME NEW s \in Settings
  PROVE  Nothing \in Undos /\ Restored(Nothing, s) = s
<1>1. Blank \in Settings
  BY DEF Blank, Settings, Values
<1>2. Nothing \in Undos
  BY <1>1 DEF Nothing, Undos
<1>3. Mixed(s, Blank, {}) = s
  BY DEF Mixed, Settings
<1> QED
  BY <1>2, <1>3 DEF Restored, Nothing

\* What a mode makes of a setting.
LEMMA SettingsApplied ==
  ASSUME plat \in Platforms, NEW s \in Settings
  PROVE  /\ PacOn(plat, s) \in Settings /\ AllOn(plat, s) \in Settings
         /\ [s EXCEPT !.url = "ours"] \in Settings
         /\ [s EXCEPT !.url = "ours"].urlOn = s.urlOn
         /\ [s EXCEPT !.url = "ours"].srv = s.srv
         /\ [s EXCEPT !.url = "ours"].srvOn = s.srvOn
         /\ plat = "darwin" => /\ PacOn(plat, s).srv = s.srv /\ PacOn(plat, s).srvOn = s.srvOn
                               /\ AllOn(plat, s).url = s.url /\ AllOn(plat, s).urlOn = s.urlOn
  BY DEF PacOn, AllOn, Settings, Values, Platforms

\* What an applied mode must be: a setting with an undo that, when the backup
\* was read, leads back to what was in force.
Undoable(a, s) ==
  /\ a.sys \in Settings /\ a.undo \in Undos
  /\ Good(s) /\ a.ok => Good(Restored(a.undo, a.sys))

LEMMA WindowsUndone ==
  ASSUME UserInv, plat = "windows", NEW s \in Settings, NEW on \in Settings,
         NEW a \in ApplyWindows(s, on)
  PROVE  Undoable(a, s)
<1>1. PICK done \in SUBSET RegValues, b \in Reports(BackupProxy(s), RegValues) :
        a = Took(Mixed(s, on, done), RestoreProxy(b), b = BackupProxy(s))
  BY DEF ApplyWindows
<1>2. BackupProxy(s) \in Settings
  BY DEF BackupProxy, Settings, Values
<1>3. b \in Settings
  <2>1. Blank \in Settings
    BY DEF Blank, Settings, Values
  <2> QED
    BY <1>1, <1>2, <2>1, MixedType DEF Reports
<1>4. /\ a.sys = Mixed(s, on, done) /\ a.undo = RestoreProxy(b) /\ a.ok = (b = BackupProxy(s))
  BY <1>1 DEF Took
<1>5. a.sys \in Settings
  BY <1>4, MixedType
<1>6. a.undo \in Undos /\ a.undo.does = RegValues /\ a.undo.saved = b
  BY <1>3, <1>4 DEF RestoreProxy, Undos, RegValues, Parts
<1>7. Restored(a.undo, a.sys) = b
  <2>1. UNION RegValues = {"url", "urlOn", "srv", "srvOn"}
    BY DEF RegValues
  <2>2. Mixed(a.sys, b, RegValues) = b
    BY <1>3, <2>1 DEF Mixed, Settings
  <2> QED
    BY <1>6, <2>2 DEF Restored
<1>8. ASSUME Good(s) PROVE Effective(BackupProxy(s)) = Effective(user)
  BY <1>8, UserType DEF Good, BackupProxy, Effective, Settings, Values
<1> QED
  BY <1>2, <1>4, <1>5, <1>6, <1>7, <1>8 DEF Undoable, Good

LEMMA LinuxUndone ==
  ASSUME UserInv, plat = "linux", NEW s \in Settings,
         NEW a \in ApplyLinuxPAC(s) \cup ApplyLinuxAll(s)
  PROVE  Undoable(a, s)
<1>0. /\ PacOn("linux", s) \in Settings /\ AllOn("linux", s) \in Settings
      /\ [s EXCEPT !.url = "ours"] \in Settings
      /\ [s EXCEPT !.url = "ours"].urlOn = s.urlOn
      /\ [s EXCEPT !.url = "ours"].srvOn = s.srvOn
  BY SettingsApplied, UserType
<1>1. CASE \E on \in {s, [s EXCEPT !.url = "ours"]} : a = Took(on, Nothing, TRUE)
  <2>1. PICK on \in {s, [s EXCEPT !.url = "ours"]} : a = Took(on, Nothing, TRUE)
    BY <1>1
  <2>2. on \in Settings /\ on.urlOn = s.urlOn /\ on.srvOn = s.srvOn
    BY <1>0
  <2>3. a.sys = on /\ a.undo = Nothing
    BY <2>1 DEF Took
  <2>4. Restored(a.undo, a.sys) = on /\ a.undo \in Undos
    BY <2>2, <2>3, NothingIsUndone
  <2>5. Good(s) => Good(on)
    BY <2>2 DEF Good, Effective
  <2> QED
    BY <2>2, <2>3, <2>4, <2>5 DEF Undoable
<1>2. CASE \E on \in Settings, parts \in SUBSET Parts, b \in Settings,
             read \in BOOLEAN, ok \in BOOLEAN :
             /\ a = Took(on, UndoLinux(parts, b, read), ok)
             /\ ok => read /\ b = s
  <2>1. PICK on \in Settings, parts \in SUBSET Parts, b \in Settings,
             read \in BOOLEAN, ok \in BOOLEAN :
             /\ a = Took(on, UndoLinux(parts, b, read), ok)
             /\ ok => read /\ b = s
    BY <1>2
  <2>2. a.sys = on /\ a.undo = UndoLinux(parts, b, read) /\ a.ok = ok
    BY <2>1 DEF Took
  <2>3. a.undo \in Undos /\ a.undo.saved = b
        /\ a.undo.does = parts \cup (IF read THEN {GnomeMode} ELSE {})
    <3>1. GnomeMode \in Parts
      BY DEF GnomeMode, Parts
    <3> QED
      BY <2>1, <2>2, <3>1 DEF UndoLinux, Undos
  <2>4. Restored(a.undo, a.sys) \in Settings
    BY <2>1, <2>2, <2>3, MixedType DEF Restored
  <2>5. ASSUME Good(s), a.ok PROVE Good(Restored(a.undo, a.sys))
    <3>1. b = s /\ read
      BY <2>1, <2>2, <2>5
    <3>2. {"urlOn", "srvOn"} \subseteq UNION a.undo.does
      BY <2>3, <3>1 DEF GnomeMode
    <3>3. Restored(a.undo, a.sys).urlOn = s.urlOn /\ Restored(a.undo, a.sys).srvOn = s.srvOn
      BY <2>3, <3>1, <3>2 DEF Restored, Mixed
    <3> QED
      BY <2>4, <2>5, <3>3 DEF Good, Effective
  <2> QED
    BY <2>1, <2>2, <2>3, <2>4, <2>5 DEF Undoable
<1>3. ASSUME a \in GnomeAuto(s)
      PROVE  \E b \in Reports(s, {{"url"}}), read \in BOOLEAN :
               a = Took(PacOn("linux", s), UndoLinux({{"url"}}, b, read), read /\ b = s)
  BY <1>3 DEF GnomeAuto
<1>4. ASSUME a \in GnomeManual(s)
      PROVE  \E done \in {{GnomeMode}, {GnomeMode, {"srv"}}}, read \in BOOLEAN :
               a = Took(Mixed(s, AllOn("linux", s), done), UndoLinux({}, s, read), read)
  BY <1>4 DEF GnomeManual
<1>5. ASSUME NEW b \in Reports(s, {{"url"}}) PROVE b \in Settings
  <2>1. Blank \in Settings
    BY DEF Blank, Settings, Values
  <2> QED
    BY <1>5, <2>1, MixedType DEF Reports
<1>6. ASSUME NEW done PROVE Mixed(s, AllOn("linux", s), done) \in Settings
  BY <1>0, MixedType
<1>7. {{"url"}} \in SUBSET Parts /\ {} \in SUBSET Parts
  BY DEF Parts
<1>8. CASE a \in Left(s) \cup Left([s EXCEPT !.url = "ours"])
  <2>1. \E on \in {s, [s EXCEPT !.url = "ours"]} : a = Took(on, Nothing, TRUE)
    BY <1>8 DEF Left
  <2> QED
    BY <1>1, <2>1
<1>9. CASE a \in GnomeAuto(s)
  <2>1. PICK b \in Settings, read \in BOOLEAN :
          a = Took(PacOn("linux", s), UndoLinux({{"url"}}, b, read), read /\ b = s)
    BY <1>3, <1>5, <1>9
  <2>2. (read /\ b = s) \in BOOLEAN
    OBVIOUS
  <2> QED
    BY <1>0, <1>2, <1>7, <2>1, <2>2
<1>10. CASE a \in GnomeManual(s)
  <2>1. PICK done \in {{GnomeMode}, {GnomeMode, {"srv"}}}, read \in BOOLEAN :
               a = Took(Mixed(s, AllOn("linux", s), done), UndoLinux({}, s, read), read)
    BY <1>4, <1>10
  <2> QED
    BY <1>2, <1>6, <1>7, <2>1
<1> QED
  BY <1>8, <1>9, <1>10 DEF ApplyLinuxPAC, ApplyLinuxAll

LEMMA MacUndone ==
  ASSUME UserInv, plat = "darwin", NEW mode \in {"pac", "all"}, NEW s \in Settings,
         NEW changes \in SUBSET Settings,
         \A on \in changes :
           /\ mode = "pac" => on.srv = s.srv /\ on.srvOn = s.srvOn
           /\ mode = "all" => on.url = s.url /\ on.urlOn = s.urlOn,
         NEW a \in ApplyMac(mode, s, changes)
  PROVE  Undoable(a, s)
<1>1. CASE a = Took(s, Nothing, TRUE)
  <2>1. a.sys = s /\ a.undo = Nothing
    BY <1>1 DEF Took
  <2>2. Restored(a.undo, a.sys) = s /\ a.undo \in Undos
    BY <2>1, NothingIsUndone
  <2> QED
    BY <2>1, <2>2 DEF Undoable
<1>2. CASE \E on \in changes, u \in {RestoreMac(mode, s), RestoreMac("pac", Blank)} :
             a = Took(on, u, u = RestoreMac(mode, s))
  <2>1. PICK on \in changes, u \in {RestoreMac(mode, s), RestoreMac("pac", Blank)} :
             a = Took(on, u, u = RestoreMac(mode, s))
    BY <1>2
  <2>2. a.sys = on /\ a.undo = u /\ a.ok = (u = RestoreMac(mode, s)) /\ on \in Settings
    BY <2>1 DEF Took
  <2>3. ASSUME NEW m \in {"pac", "all"}, NEW b \in Settings PROVE RestoreMac(m, b) \in Undos
    <3>1. RestoreMac(m, b).saved \in Settings /\ RestoreMac(m, b).does \in SUBSET Parts
          /\ RestoreMac(m, b) = [does |-> RestoreMac(m, b).does, saved |-> RestoreMac(m, b).saved]
      BY <2>3 DEF RestoreMac, Settings, Parts
    <3> QED
      BY <3>1 DEF Undos
  <2>4. Blank \in Settings
    BY DEF Blank, Settings, Values
  <2>5. u \in Undos
    BY <2>1, <2>3, <2>4
  <2>6. Restored(RestoreMac(mode, s), on) \in Settings
    BY <2>2, <2>3, MixedType DEF Restored, Undos
  <2>7. Effective(Restored(RestoreMac(mode, s), on)) = Effective(s)
    <3>1. CASE mode = "pac"
      <4>1. on.srv = s.srv /\ on.srvOn = s.srvOn
        BY <2>1, <3>1
      <4>2. CASE s.urlOn /\ s.url # "none"
        <5>1. RestoreMac(mode, s) = [does |-> {{"url"}, {"urlOn"}}, saved |-> s]
          BY <3>1, <4>2 DEF RestoreMac
        <5> QED
          BY <4>1, <5>1 DEF Restored, Mixed, Effective
      <4>3. CASE ~ (s.urlOn /\ s.url # "none")
        <5>1. RestoreMac(mode, s) = [does |-> {{"urlOn"}}, saved |-> [s EXCEPT !.urlOn = FALSE]]
          BY <3>1, <4>3 DEF RestoreMac
        <5> QED
          BY <4>1, <4>3, <5>1 DEF Restored, Mixed, Effective, Settings
      <4> QED
        BY <4>2, <4>3
    <3>2. CASE mode = "all"
      <4>1. on.url = s.url /\ on.urlOn = s.urlOn
        BY <2>1, <3>2
      <4>2. CASE s.srvOn /\ s.srv # "none"
        <5>1. RestoreMac(mode, s) = [does |-> {{"srv", "srvOn"}}, saved |-> s]
          BY <3>2, <4>2 DEF RestoreMac
        <5> QED
          BY <4>1, <5>1 DEF Restored, Mixed, Effective
      <4>3. CASE ~ (s.srvOn /\ s.srv # "none")
        <5>1. RestoreMac(mode, s) = [does |-> {{"srvOn"}}, saved |-> [s EXCEPT !.srvOn = FALSE]]
          BY <3>2, <4>3 DEF RestoreMac
        <5> QED
          BY <4>1, <4>3, <5>1 DEF Restored, Mixed, Effective, Settings
      <4> QED
        BY <4>2, <4>3
    <3> QED
      BY <3>1, <3>2
  <2> QED
    BY <2>1, <2>2, <2>5, <2>6, <2>7 DEF Undoable, Good
<1>3. CASE a \in Left(s)
  BY <1>1, <1>3 DEF Left
<1>4. CASE a \in MacChanged(mode, s, changes)
  <2>1. \E on \in changes, u \in {RestoreMac(mode, s), RestoreMac("pac", Blank)} :
          a = Took(on, u, u = RestoreMac(mode, s))
    BY <1>4 DEF MacChanged
  <2> QED
    BY <1>2, <2>1
<1> QED
  BY <1>3, <1>4 DEF ApplyMac

LEMMA ApplyIsUndone ==
  ASSUME UserInv, NEW mode \in {"pac", "all"}, NEW s \in Settings, NEW a \in Apply(mode, s)
  PROVE  Undoable(a, s)
<1>0. plat \in Platforms
  BY UserType
<1>1. CASE plat = "windows"
  <2>1. \E on \in {PacOn(plat, s), AllOn(plat, s)} : a \in ApplyWindows(s, on)
    BY <1>1 DEF Apply, ApplyPAC, ApplyAll
  <2> QED
    BY <1>0, <1>1, <2>1, SettingsApplied, WindowsUndone
<1>2. CASE plat = "linux"
  <2>1. a \in ApplyLinuxPAC(s) \cup ApplyLinuxAll(s)
    BY <1>2 DEF Apply, ApplyPAC, ApplyAll
  <2> QED
    BY <1>2, <2>1, LinuxUndone
<1>3. CASE plat = "darwin"
  <2>1. PacOn(plat, s) \in Settings /\ AllOn(plat, s) \in Settings
        /\ [s EXCEPT !.url = "ours"] \in Settings
    BY <1>0, SettingsApplied
  <2>2. CASE mode = "pac"
    <3> DEFINE changes == {s, [s EXCEPT !.url = "ours"], PacOn(plat, s)}
    <3>1. a \in ApplyMac("pac", s, changes)
      BY <1>3, <2>2 DEF Apply, ApplyPAC
    <3>2. changes \in SUBSET Settings
          /\ \A on \in changes : on.srv = s.srv /\ on.srvOn = s.srvOn
      BY <1>0, <1>3, <2>1, SettingsApplied
    <3> HIDE DEF changes
    <3> QED
      BY <1>3, <3>1, <3>2, MacUndone
  <2>3. CASE mode = "all"
    <3> DEFINE changes == {s, AllOn(plat, s)}
    <3>1. a \in ApplyMac("all", s, changes)
      BY <1>3, <2>3 DEF Apply, ApplyAll
    <3>2. changes \in SUBSET Settings
          /\ \A on \in changes : on.url = s.url /\ on.urlOn = s.urlOn
      BY <1>0, <1>3, <2>1, SettingsApplied
    <3> HIDE DEF changes
    <3> QED
      BY <1>3, <3>1, <3>2, MacUndone
  <2> QED
    BY <2>2, <2>3
<1> QED
  BY <1>0, <1>1, <1>2, <1>3 DEF Platforms

-----------------------------------------------------------------------------
(***************************************************************************)
(* The proxy.  An action leaves it alone, applies a mode, or is a kill.    *)
(***************************************************************************)
LEMMA ReleasedIsASetting ==
  ASSUME ProxyInv, NEW r \in Releases
  PROVE  r.sys \in Settings /\ (r.ok => r.sys = Released)
<1>1. CASE undo = None
  <2>1. r = [sys |-> sys, ok |-> TRUE]
    BY <1>1 DEF Releases
  <2> QED
    BY <1>1, <2>1 DEF ProxyInv, Released
<1>2. CASE undo # None
  <2>1. undo \in Undos /\ undo.saved \in Settings /\ sys \in Settings
    BY <1>2 DEF ProxyInv, Undos
  <2>2. PICK done \in SUBSET undo.does :
          r = [sys |-> Mixed(sys, undo.saved, done),
               ok |-> Mixed(sys, undo.saved, done) = Restored(undo, sys)]
    BY <1>2 DEF Releases, Undone
  <2> QED
    BY <1>2, <2>1, <2>2, MixedType DEF Released
<1> QED
  BY <1>1, <1>2

LEMMA ProxyKept ==
  ASSUME ProxyInv, UNCHANGED <<plat, user, sys, undo, killed, failed>> PROVE ProxyInv'
<1>1. Released' = Released
  BY DEF Released
<1> QED
  BY <1>1 DEF ProxyInv, UserInv, Good

LEMMA ModeApplied ==
  ASSUME ProxyInv, UNCHANGED <<plat, user, killed>>,
         NEW mode \in Modes, ApplyProxy(mode)
  PROVE  ProxyInv'
<1>1. PICK r \in Releases : Applied(mode, r)
  BY DEF ApplyProxy
<1>2. r.sys \in Settings /\ (r.ok => r.sys = Released)
  BY ReleasedIsASetting
<1>3. CASE mode = "off"
  <2>1. sys' = r.sys /\ undo' = None /\ failed' = (failed \/ ~ r.ok)
    BY <1>1, <1>3 DEF Applied
  <2>2. Released' = r.sys
    BY <2>1 DEF Released
  <2> QED
    BY <1>2, <2>1, <2>2 DEF ProxyInv, UserInv, Good
<1>4. CASE mode # "off"
  <2>1. PICK a \in Apply(mode, r.sys) :
          sys' = a.sys /\ undo' = a.undo /\ failed' = (failed \/ ~ r.ok \/ ~ a.ok)
    BY <1>1, <1>4 DEF Applied
  <2>2. mode \in {"pac", "all"}
    BY <1>4 DEF Modes
  <2>3. Undoable(a, r.sys)
    BY <1>2, <2>1, <2>2, ApplyIsUndone DEF ProxyInv
  <2>4. Released' = Restored(a.undo, a.sys)
    BY <2>1, <2>3, PanelAssumption DEF Released, Undoable
  <2>5. killed' \/ failed' \/ Good(Restored(a.undo, a.sys))
    BY <1>2, <2>1, <2>3 DEF ProxyInv, Undoable
  <2> QED
    BY <2>1, <2>3, <2>4, <2>5 DEF ProxyInv, UserInv, Good, Undoable
<1> QED
  BY <1>3, <1>4

\* The modes applied are modes.
Configs == [mode : Modes, pass : Passwords \cup {NoPass}]

ModeInv ==
  /\ cfg \in Configs /\ webFile \in Configs \cup {None}
  /\ th \in [Threads -> [pc : PCs, job : Jobs, mode : Modes]]
  /\ ~ up => \A t \in Threads : th[t].pc = "idle"
  /\ \A t, u \in Threads : th[t].pc \in Holding /\ th[u].pc \in Holding => t = u

LEMMA GoTypes ==
  ASSUME ModeInv, NEW t \in Threads, NEW pc \in PCs, NEW job \in Jobs, Go(t, pc, job)
  PROVE  /\ th' \in [Threads -> [pc : PCs, job : Jobs, mode : Modes]]
         /\ th'[t].pc = pc /\ th'[t].job = job
         /\ \A u \in Threads \ {t} : th'[u] = th[u]
  BY DEF ModeInv, Go, Idle, PCs, Modes, Jobs

LEMMA LoadTypes == ModeInv => LoadWebConfig \in Configs
  BY DEF ModeInv, LoadWebConfig, Configs, Modes

LEMMA Names ==
  /\ {"idle", "start", "save", "rotated", "restart", "saving", "record", "wait"} = PCs
  /\ {"mode", "rotate", "keep", "respawn", "start"} = Jobs
  /\ {"saving", "record", "wait"} = Holding
  BY DEF PCs, Jobs, Holding

\* A step of a request moves it and no other, except Stop as a request of its
\* own and SaveConfig, which leaves it with the mode it has read.  It holds the
\* mutex only when no other does, and records only what it has spawned.
Moved(t) ==
  \E pc \in PCs, job \in Jobs :
    /\ Go(t, pc, job)
    /\ pc \in Holding => ~ Locked \/ th[t].pc \in Holding
    /\ pc = "record" => Spawn

LEMMA OneMoves ==
  ASSUME ModeInv, NEW t \in Threads, ThreadStep(t) \/ Run(t)
  PROVE  th' = th \/ SaveConfig(t) \/ Moved(t)
<1>1. CASE Start(t) \/ TakeOver(t) \/ StartReady(t) \/ StartGivesUp(t) \/ Run(t)
  <2>1. \E pc \in {"idle", "start"} : Go(t, pc, "start")
    BY <1>1 DEF Start, TakeOver, StartReady, StartGivesUp, Run
  <2> QED
    BY <2>1, Names DEF Moved
<1>2. CASE Stop(t) \/ SetModeSaved(t) \/ SaveKept(t) \/ SaveWaited(t) \/ RotateAnswered(t)
           \/ RotateStored(t)
  <2>1. th' = th \/ \E pc \in {"idle", "start", "rotated", "restart"} : Go(t, pc, "start")
    BY <1>2 DEF Stop, SetModeSaved, SaveKept, SaveWaited, RotateAnswered, RotateStored
  <2> QED
    BY <2>1, Names DEF Moved
<1>3. CASE WritePidFile(t)
  <2>1. Go(t, "wait", th[t].job) /\ th[t].job \in Jobs /\ th[t].pc \in Holding
    BY <1>3, Names DEF WritePidFile, ModeInv, At
  <2> QED
    BY <2>1, Names DEF Moved
<1>4. CASE SaveCommit(t) \/ RotateStore(t) \/ \E mode \in Modes : SetMode(t, mode)
  <2>1. ~ Locked /\ \E job \in {"keep", "respawn", "rotate", "mode"} : Go(t, "saving", job)
    BY <1>4 DEF SaveCommit, SaveStops, SaveKeeps, RotateStore, SetMode
  <2> QED
    BY <2>1, Names DEF Moved
<1>5. CASE StartSpawns(t) \/ SaveRespawns(t)
  <2>1. \/ \E job \in {"start", "respawn"} : Go(t, "record", job) /\ Spawn
        \/ Go(t, "idle", "start")
    BY <1>5 DEF StartSpawns, SaveRespawns
  <2>2. ~ Locked \/ th[t].pc \in Holding
    BY <1>5, Names DEF StartSpawns, SaveRespawns, At, For
  <2> QED
    BY <2>1, <2>2, Names DEF Moved
<1> QED
  BY <1>1, <1>2, <1>3, <1>4, <1>5 DEF ThreadStep

LEMMA ModeStep == ModeInv /\ [Next]_vars => ModeInv'
<1> SUFFICES ASSUME ModeInv, [Next]_vars PROVE ModeInv'
  OBVIOUS
<1> USE DEF cfgVars
<1>1. ASSUME NEW t \in Threads, ThreadStep(t) \/ Run(t)
      PROVE  ModeInv'
  <2>1. th' \in [Threads -> [pc : PCs, job : Jobs, mode : Modes]]
    <3>1. CASE SaveConfig(t)
      BY <3>1 DEF SaveConfig, ModeInv, PCs, Jobs, Configs
    <3>2. CASE th' = th
      BY <3>2 DEF ModeInv
    <3> QED
      BY <1>1, <3>1, <3>2, OneMoves, GoTypes DEF Moved
  <2>2. cfg' \in Configs /\ webFile' \in Configs \cup {None}
    <3>1. CASE \/ Start(t) \/ TakeOver(t) \/ StartSpawns(t) \/ StartReady(t) \/ StartGivesUp(t)
               \/ WritePidFile(t) \/ Stop(t) \/ SaveConfig(t) \/ SaveWaited(t)
               \/ RotateAnswered(t)
      <4>1. UNCHANGED cfgVars
        BY <3>1 DEF Start, TakeOver, StartSpawns, StartReady, StartGivesUp, WritePidFile, Stop,
             SaveConfig, SaveWaited, RotateAnswered
      <4> QED
        BY <4>1 DEF ModeInv
    <3>2. CASE SetModeSaved(t) \/ SaveKept(t) \/ SaveRespawns(t) \/ RotateStored(t)
      <4>1. WebConfigSaved
        BY <3>2 DEF SetModeSaved, SaveKept, SaveRespawns, RotateStored
      <4> QED
        BY <4>1 DEF ModeInv, WebConfigSaved
    <3>3. CASE SaveCommit(t) \/ RotateStore(t) \/ \E mode \in Modes : SetMode(t, mode)
      <4>1. \E new \in Configs : SaveWebConfig(new)
        BY <3>3 DEF SaveCommit, RotateStore, SetMode, ModeInv, Configs
      <4> QED
        BY <4>1 DEF ModeInv, SaveWebConfig
    <3>4. CASE Run(t)
      BY <3>4, LoadTypes DEF Run, ModeInv
    <3> QED
      BY <1>1, <3>1, <3>2, <3>3, <3>4 DEF ThreadStep
  <2>3. up'
    <3>1. CASE \/ Start(t) \/ TakeOver(t) \/ StartSpawns(t) \/ StartReady(t) \/ StartGivesUp(t)
               \/ WritePidFile(t) \/ Stop(t) \/ SaveConfig(t) \/ SaveWaited(t)
               \/ RotateAnswered(t) \/ Run(t)
      BY <3>1 DEF Start, TakeOver, StartSpawns, StartReady, StartGivesUp, WritePidFile, Stop,
           SaveConfig, SaveWaited, RotateAnswered, Run, At, For
    <3>2. CASE SetModeSaved(t) \/ SaveKept(t) \/ SaveRespawns(t) \/ RotateStored(t)
      BY <3>2 DEF SetModeSaved, SaveKept, SaveRespawns, RotateStored, At, For
    <3>3. CASE SaveCommit(t) \/ RotateStore(t) \/ \E mode \in Modes : SetMode(t, mode)
      <4>1. up /\ up' = up
        BY <3>3 DEF SaveCommit, RotateStore, SetMode, At
      <4> QED
        BY <4>1
    <3> QED
      BY <1>1, <3>1, <3>2, <3>3 DEF ThreadStep
  <2>4. \A u, v \in Threads : th'[u].pc \in Holding /\ th'[v].pc \in Holding => u = v
    <3>1. CASE SaveConfig(t)
      BY <3>1, Names DEF SaveConfig, ModeInv
    <3>2. CASE th' = th
      BY <3>2 DEF ModeInv
    <3>3. CASE Moved(t)
      <4>1. PICK pc \in PCs, job \in Jobs :
              Go(t, pc, job) /\ (pc \in Holding => ~ Locked \/ th[t].pc \in Holding)
        BY <3>3 DEF Moved
      <4>2. th'[t].pc = pc /\ \A u \in Threads \ {t} : th'[u] = th[u]
        BY <4>1, GoTypes
      <4>3. pc \in Holding => \A u \in Threads \ {t} : th[u].pc \notin Holding
        BY <4>1 DEF Locked, ModeInv
      <4> QED
        BY <4>2, <4>3 DEF ModeInv
    <3> QED
      BY <1>1, <3>1, <3>2, <3>3, OneMoves
  <2> QED
    BY <2>1, <2>2, <2>3, <2>4 DEF ModeInv
<1>2. CASE Exit \/ Kill
  BY <1>2, Names DEF Exit, Kill, PanelEnds, Idle, ModeInv, Modes
<1>3. ASSUME NEW p \in Pids, Listen(p) \/ ClientExits(p)
      PROVE  ModeInv'
  BY <1>3 DEF Listen, ClientExits, ModeInv
<1>4. CASE UNCHANGED vars
  BY <1>4 DEF vars, ModeInv
<1> QED
  BY <1>1, <1>2, <1>3, <1>4 DEF Next

LEMMA ProxyStep == ModeInv /\ ProxyInv /\ [Next]_vars => ProxyInv'
<1> SUFFICES ASSUME ModeInv, ProxyInv, [Next]_vars PROVE ProxyInv'
  OBVIOUS
<1> USE DEF worldVars, proxyVars
<1>0. cfg.mode \in Modes /\ {"off", "pac"} \subseteq Modes
  BY DEF ModeInv, Configs, Modes
<1>1. ASSUME NEW t \in Threads,
             \/ Start(t) \/ StartSpawns(t) \/ StartGivesUp(t) \/ WritePidFile(t)
             \/ SaveConfig(t) \/ SaveRespawns(t) \/ RotateAnswered(t) \/ RotateStore(t)
             \/ RotateStored(t) \/ Run(t) \/ \E mode \in Modes : SetMode(t, mode)
      PROVE  ProxyInv'
  <2>1. UNCHANGED <<plat, user, sys, undo, killed, failed>>
    BY <1>1 DEF Start, StartSpawns, StartGivesUp, WritePidFile, SaveConfig, SaveRespawns,
         RotateAnswered, RotateStore, RotateStored, Run, SetMode
  <2> QED
    BY <2>1, ProxyKept
<1>2. ASSUME NEW t \in Threads,
             \/ TakeOver(t) \/ StartReady(t) \/ SaveWaited(t) \/ Stop(t)
             \/ SetModeSaved(t) \/ SaveCommit(t) \/ SaveKept(t)
      PROVE  ProxyInv'
  <2>1. UNCHANGED <<plat, user, killed>>
    BY <1>2 DEF TakeOver, StartReady, SaveWaited, Stop, SetModeSaved, SaveCommit, SaveKept
  <2>2. \/ ApplyProxy(cfg.mode) \/ ApplyProxy("off") \/ ApplyProxy("pac")
        \/ UNCHANGED <<sys, undo, failed>>
    <3>1. CASE TakeOver(t) \/ StartReady(t) \/ SaveWaited(t) \/ Stop(t) \/ SetModeSaved(t)
      BY <3>1 DEF TakeOver, StartReady, SaveWaited, Stop, SetModeSaved
    <3>2. CASE SaveCommit(t) \/ SaveKept(t)
      BY <3>2 DEF SaveCommit, SaveStops, SaveKeeps, SaveKept
    <3> QED
      BY <1>2, <3>1, <3>2
  <2> QED
    BY <1>0, <2>1, <2>2, ModeApplied, ProxyKept
<1>3. CASE Exit
  <2>1. UNCHANGED <<plat, user, killed>> /\ ApplyProxy("off")
    BY <1>3 DEF Exit
  <2> QED
    BY <1>0, <2>1, ModeApplied
<1>4. CASE Kill
  <2>1. UNCHANGED <<plat, user, sys, failed>> /\ undo' = None
        /\ killed' = (killed \/ undo # None)
    BY <1>4 DEF Kill
  <2>2. undo = None => Released' = Released
    BY <2>1 DEF Released
  <2> QED
    BY <2>1, <2>2 DEF ProxyInv, UserInv, Good
<1>5. ASSUME NEW p \in Pids, Listen(p) \/ ClientExits(p)
      PROVE  ProxyInv'
  BY <1>5, ProxyKept DEF Listen, ClientExits
<1>6. CASE UNCHANGED vars
  BY <1>6, ProxyKept DEF vars
<1> QED
  BY <1>1, <1>2, <1>3, <1>4, <1>5, <1>6 DEF Next, ThreadStep

(***************************************************************************)
(* The user's own proxy setting is given back, on every platform and for   *)
(* every setting the user may have, by any sequence of requests, refused   *)
(* changes and exits, up to the first backup that could not be read, undo  *)
(* that failed or kill that left the setting taken (web.go:249-272,        *)
(* sysproxy).                                                              *)
(***************************************************************************)
THEOREM UserGetsProxyBack == Spec => []ProxyGivenBack
<1>1. Init => ModeInv /\ ProxyInv
  <2> SUFFICES ASSUME Init PROVE ModeInv /\ ProxyInv
    OBVIOUS
  <2>1. sys = user /\ undo = None /\ killed = FALSE /\ failed = FALSE
    BY DEF Init
  <2>2. UserInv
    <3>1. PICK m \in Machines : plat = m[1] /\ user = m[2]
      BY DEF Init
    <3>2. m = <<m[1], m[2]>>
      <4>1. PICK p \in Platforms : m \in {p} \X UserSettings(p)
        BY <3>1, PanelAssumption
      <4> QED
        BY <4>1
    <3> QED
      BY <3>1, <3>2 DEF UserInv
  <2>3. Released = user
    BY <2>1 DEF Released
  <2>4. user \in Settings /\ (plat = "linux" => ~user.urlOn /\ ~user.srvOn)
    BY <2>2, UserType
  <2>5. Good(Released)
    BY <2>3, <2>4 DEF Good
  <2>6. ProxyInv
    BY <2>1, <2>2, <2>4, <2>5 DEF ProxyInv
  <2>7. ModeInv
    BY Names DEF Init, ModeInv, Configs, Idle, Modes
  <2> QED
    BY <2>6, <2>7
<1>2. ModeInv /\ ProxyInv /\ [Next]_vars => (ModeInv /\ ProxyInv)'
  BY ModeStep, ProxyStep
<1>3. ProxyInv => ProxyGivenBack
  BY DEF ProxyInv, ProxyGivenBack, Good, Released
<1> QED
  BY <1>1, <1>2, <1>3, PTL DEF Spec

-----------------------------------------------------------------------------
(***************************************************************************)
(* The client.  The handle and the record agree unless one is missing or   *)
(* the record is being written, so a panel that is killed loses only what  *)
(* the record still holds, and the client it was about to record.          *)
(***************************************************************************)
Procs == [Pids -> [st : {"none", "starting", "listening"}, pass : Passwords \cup {NoPass}]]

Recorded ==
  child \in Running =>
    child = pidFile \/ child \in lost \/ \E t \in Threads : th[t].pc = "record"

\* What a record names besides the child was displaced by it.
Displaced ==
  /\ child \in Pids /\ pidFile \in Running => pidFile = child \/ pidFile \in lost
  /\ \A t \in Threads : th[t].pc = "record" => child \in Pids

HoldInv ==
  /\ child \in Pids \cup {None} /\ pidFile \in Pids \cup {None}
  /\ proc \in Procs
  /\ authFile \in Passwords \cup {NoPass}
  /\ Recorded /\ Displaced
  /\ ClientIsReachable

LEMMA GoneType == Gone \in [st : {"none", "starting", "listening"}, pass : Passwords \cup {NoPass}]
  BY DEF Gone

LEMMA KillHolds ==
  ASSUME HoldInv, KillChild, \A t \in Threads : th'[t].pc # "record"
  PROVE  HoldInv'
<1>1. proc' = KillReached /\ child' = None /\ pidFile' = None /\ lost' = lost \ Reached
      /\ authFile' = authFile
  BY DEF KillChild
<1>2. \A p \in Pids : KillReached[p] = IF p \in Reached THEN Gone ELSE proc[p]
  BY DEF KillReached
<1>3. Running' = Running \ Reached
  BY <1>1, <1>2 DEF Running, Gone
<1>4. proc' \in Procs
  BY <1>1, GoneType DEF HoldInv, KillReached, Procs
<1>5. child' \notin Running'
  BY <1>1, PanelAssumption DEF Running
<1> QED
  BY <1>1, <1>3, <1>4, <1>5, PanelAssumption
     DEF HoldInv, ClientIsReachable, Recorded, Displaced

LEMMA SpawnHolds ==
  ASSUME ModeInv, HoldInv, Spawn, NEW t \in Threads, NEW job \in Jobs, Go(t, "record", job)
  PROVE  HoldInv'
<1>1. PICK p \in Pids :
        /\ proc' = [proc EXCEPT ![p] = [st |-> "starting", pass |-> NoPass]]
        /\ child' = p
  BY DEF Spawn
<1>2. pidFile' \in {pidFile, None} /\ authFile' = cfg.pass
      /\ lost' = lost \cup (Reached \cap Running)
  BY DEF Spawn
<1>3. Running' \subseteq {p} \cup Running
  BY <1>1 DEF Running, HoldInv, Procs
<1>4. proc' \in Procs
  BY <1>1 DEF HoldInv, Procs
<1>5. p \in Reached'
  BY <1>1 DEF Reached
<1>6. th'[t].pc = "record"
  BY GoTypes, Names
<1>7. authFile' \in Passwords \cup {NoPass}
  BY <1>2 DEF ModeInv, Configs
<1>8. ClientIsReachable'
  BY <1>2, <1>3, <1>5 DEF HoldInv, ClientIsReachable
<1>9. Recorded'
  BY <1>6 DEF Recorded
<1>10. Displaced'
  <2>1. child' \in Pids
    BY <1>1
  <2>2. ASSUME pidFile' \in Running' PROVE pidFile' = child' \/ pidFile' \in lost'
    <3>1. pidFile' \in Pids /\ pidFile' = pidFile
      BY <1>2, <2>2, PanelAssumption DEF Running
    <3>2. pidFile = p \/ pidFile \in Reached \cap Running
      BY <1>3, <2>2, <3>1 DEF Reached
    <3> QED
      BY <1>1, <1>2, <3>1, <3>2
  <2> QED
    BY <2>1, <2>2 DEF Displaced
<1> QED
  BY <1>1, <1>2, <1>4, <1>7, <1>8, <1>9, <1>10 DEF HoldInv

LEMMA HoldKept ==
  ASSUME HoldInv, UNCHANGED <<child, pidFile, proc, lost>>,
         authFile' \in Passwords \cup {NoPass},
         \A t \in Threads : th[t].pc = "record" <=> th'[t].pc = "record"
  PROVE  HoldInv'
<1>1. Running' = Running /\ Reached' = Reached
  BY DEF Running, Reached
<1> QED
  BY <1>1 DEF HoldInv, ClientIsReachable, Recorded, Displaced

\* A request that spawns nothing leaves the one that is recording.
LEMMA RecordsOn ==
  ASSUME ModeInv, HoldInv, NEW t \in Threads, ThreadStep(t), th[t].pc # "record",
         UNCHANGED proc
  PROVE  \A u \in Threads : th[u].pc = "record" <=> th'[u].pc = "record"
<1>0. ~ Spawn
  BY DEF Spawn, Gone, HoldInv, Procs
<1>1. CASE Moved(t)
  BY <1>0, <1>1, GoTypes DEF Moved
<1>2. CASE SaveConfig(t)
  BY <1>2 DEF SaveConfig, ModeInv
<1> QED
  BY <1>1, <1>2, OneMoves

\* While one request kills the child no other is recording one.
LEMMA NoneRecords ==
  ASSUME ModeInv, NEW t \in Threads, Stop(t) \/ StartGivesUp(t) \/ SaveCommit(t)
  PROVE  \A u \in Threads : th'[u].pc # "record"
<1>1. \A u \in Threads : th[u].pc # "record"
  BY Names DEF Stop, StartGivesUp, SaveCommit, Locked, ModeInv, For, At
<1>2. \/ th' = th
      \/ \E pc \in {"idle", "start", "saving"}, job \in Jobs : Go(t, pc, job)
  BY Names DEF Stop, StartGivesUp, SaveCommit, SaveStops, SaveKeeps
<1> QED
  BY <1>1, <1>2, GoTypes, Names

LEMMA RunRecordsNothing ==
  ASSUME ModeInv, NEW t \in Threads, Run(t)
  PROVE  \A u \in Threads : th[u].pc # "record" /\ th'[u].pc # "record"
<1>1. \A u \in Threads : th[u].pc = "idle"
  BY DEF Run, ModeInv
<1>2. Go(t, "start", "start")
  BY DEF Run
<1> QED
  BY <1>1, <1>2, GoTypes, Names

LEMMA HoldStep == ModeInv /\ HoldInv /\ [Next]_vars => HoldInv'
<1> SUFFICES ASSUME ModeInv, HoldInv, [Next]_vars PROVE HoldInv'
  OBVIOUS
<1> USE DEF clientVars
<1>0. cfg.pass \in Passwords \cup {NoPass}
  BY DEF ModeInv, Configs
<1>1. ASSUME NEW t \in Threads,
             \/ Start(t) \/ TakeOver(t) \/ StartReady(t) \/ SetModeSaved(t)
             \/ SaveConfig(t) \/ SaveKept(t) \/ SaveWaited(t)
             \/ RotateAnswered(t) \/ RotateStore(t) \/ RotateStored(t)
             \/ Run(t) \/ \E mode \in Modes : SetMode(t, mode)
      PROVE  HoldInv'
  <2>1. UNCHANGED <<child, pidFile, authFile, proc, lost>>
    BY <1>1 DEF Start, TakeOver, StartReady, SetModeSaved, SaveConfig, SaveKept, SaveWaited,
         RotateAnswered, RotateStore, RotateStored, Run, SetMode
  <2>2. CASE Run(t)
    BY <2>1, <2>2, RunRecordsNothing, HoldKept DEF HoldInv
  <2>3. CASE ~ Run(t)
    <3>1. th[t].pc # "record"
      BY <1>1, <2>3 DEF Start, TakeOver, StartReady, SetModeSaved, SaveConfig, SaveKept,
           SaveWaited, RotateAnswered, RotateStore, RotateStored, SetMode, At, For
    <3>2. \A u \in Threads : th[u].pc = "record" <=> th'[u].pc = "record"
      BY <1>1, <2>1, <2>3, <3>1, RecordsOn DEF ThreadStep
    <3> QED
      BY <2>1, <3>2, HoldKept DEF HoldInv
  <2> QED
    BY <2>2, <2>3
<1>2. ASSUME NEW t \in Threads, StartSpawns(t) \/ SaveRespawns(t)
      PROVE  HoldInv'
  <2>1. CASE Spawn /\ \E job \in Jobs : Go(t, "record", job)
    BY <2>1, SpawnHolds
  <2>2. CASE SpawnFails
    <3>1. th[t].pc # "record"
      BY <1>2 DEF StartSpawns, SaveRespawns, At, For
    <3>2. \A u \in Threads : th[u].pc = "record" <=> th'[u].pc = "record"
      BY <1>2, <2>2, <3>1, RecordsOn DEF ThreadStep, SpawnFails
    <3>3. authFile' \in Passwords \cup {NoPass} /\ UNCHANGED <<child, pidFile, proc, lost>>
      BY <1>0, <2>2 DEF SpawnFails, HoldInv
    <3> QED
      BY <3>2, <3>3, HoldKept
  <2> QED
    BY <1>2, <2>1, <2>2, Names DEF StartSpawns, SaveRespawns
<1>3. ASSUME NEW t \in Threads, StartGivesUp(t) \/ Stop(t)
      PROVE  HoldInv'
  BY <1>3, KillHolds, NoneRecords DEF StartGivesUp, Stop
<1>4. ASSUME NEW t \in Threads, SaveCommit(t)
      PROVE  HoldInv'
  <2>1. CASE KillChild
    BY <1>4, <2>1, KillHolds, NoneRecords
  <2>2. CASE UNCHANGED <<child, pidFile, authFile, proc, lost>>
    <3>1. th[t].pc # "record"
      BY <1>4 DEF SaveCommit, At
    <3>2. \A u \in Threads : th[u].pc = "record" <=> th'[u].pc = "record"
      BY <1>4, <2>2, <3>1, RecordsOn DEF ThreadStep
    <3> QED
      BY <2>2, <3>2, HoldKept DEF HoldInv
  <2> QED
    BY <1>4, <2>1, <2>2 DEF SaveCommit, SaveStops, SaveKeeps
<1>5. ASSUME NEW t \in Threads, WritePidFile(t)
      PROVE  HoldInv'
  <2>1. /\ UNCHANGED <<child, authFile, proc>>
        /\ \/ pidFile' = child /\ lost' = lost
           \/ pidFile' = pidFile /\ lost' = lost \cup ({child} \cap Running)
    BY <1>5 DEF WritePidFile
  <2>2. Running' = Running
    BY <2>1 DEF Running
  <2>0. child \in Pids /\ \A u \in Threads : th'[u].pc # "record"
    <3>1. Go(t, "wait", th[t].job) /\ th[t].pc = "record" /\ th[t].job \in Jobs
      BY <1>5 DEF WritePidFile, At, ModeInv
    <3>2. \A u \in Threads \ {t} : th[u].pc # "record"
      BY <3>1, Names DEF ModeInv
    <3>3. child \in Pids
      BY <3>1 DEF HoldInv, Displaced
    <3> QED
      BY <3>1, <3>2, <3>3, GoTypes, Names
  <2>3. CASE pidFile' = child /\ lost' = lost
    <3>1. ClientIsReachable' /\ Recorded' /\ Displaced' /\ pidFile' \in Pids \cup {None}
      BY <2>0, <2>1, <2>2, <2>3 DEF HoldInv, ClientIsReachable, Recorded, Displaced, Reached
    <3> QED
      BY <2>1, <3>1 DEF HoldInv
  <2>4. CASE pidFile' = pidFile /\ lost' = lost \cup ({child} \cap Running)
    <3>1. ClientIsReachable' /\ Recorded' /\ Displaced' /\ pidFile' \in Pids \cup {None}
      BY <2>0, <2>1, <2>2, <2>4 DEF HoldInv, ClientIsReachable, Recorded, Displaced, Reached
    <3> QED
      BY <2>1, <3>1 DEF HoldInv
  <2> QED
    BY <2>1, <2>3, <2>4
<1>6. CASE Exit
  BY <1>6, KillHolds DEF Exit, PanelEnds, Idle
<1>7. CASE Kill
  <2>1. /\ child' = None /\ UNCHANGED <<pidFile, authFile, proc>>
        /\ lost' = lost \cup (IF \E t \in Threads : th[t].pc = "record"
                              THEN {child} \cap Running ELSE {})
    BY <1>7 DEF Kill
  <2>2. Running' = Running /\ Reached' = {pidFile} \cap Pids
    BY <2>1, PanelAssumption DEF Reached, Running
  <2>3. child \in Running => child = pidFile \/ child \in lost'
    BY <2>1 DEF HoldInv, Recorded
  <2>4. ClientIsReachable'
    BY <2>1, <2>2, <2>3 DEF HoldInv, ClientIsReachable, Reached, Running
  <2>5. child' \notin Running'
    BY <2>1, <2>2, PanelAssumption DEF Running
  <2>6. \A t \in Threads : th'[t].pc # "record"
    BY <1>7 DEF Kill, PanelEnds, Idle
  <2> QED
    BY <2>1, <2>4, <2>5, <2>6, PanelAssumption DEF HoldInv, Recorded, Displaced
<1>8. ASSUME NEW p \in Pids, Listen(p)
      PROVE  HoldInv'
  <2>1. /\ proc[p].st = "starting"
        /\ proc' = [proc EXCEPT ![p] = [st |-> "listening", pass |-> authFile]]
        /\ UNCHANGED <<child, pidFile, authFile, lost, th>>
    BY <1>8 DEF Listen
  <2>2. Running' = Running /\ Reached' = Reached
    BY <2>1 DEF Running, Reached, HoldInv, Procs
  <2>3. proc' \in Procs
    BY <2>1 DEF HoldInv, Procs
  <2> QED
    BY <2>1, <2>2, <2>3 DEF HoldInv, ClientIsReachable, Recorded, Displaced
<1>9. ASSUME NEW p \in Pids, ClientExits(p)
      PROVE  HoldInv'
  <2>1. /\ proc' = [proc EXCEPT ![p] = Gone] /\ lost' = lost \ {p}
        /\ UNCHANGED <<child, pidFile, authFile, th>>
    BY <1>9 DEF ClientExits
  <2>2. Running' = Running \ {p} /\ Reached' = Reached
    BY <2>1 DEF Running, Reached, HoldInv, Gone, Procs
  <2>3. proc' \in Procs
    BY <2>1, GoneType DEF HoldInv, Procs
  <2> QED
    BY <2>1, <2>2, <2>3 DEF HoldInv, ClientIsReachable, Recorded, Displaced
<1>10. CASE UNCHANGED vars
  <2>1. UNCHANGED <<child, pidFile, authFile, proc, lost, th>>
    BY <1>10 DEF vars
  <2> QED
    BY <2>1, HoldKept DEF HoldInv
<1> QED
  BY <1>1, <1>2, <1>3, <1>4, <1>5, <1>6, <1>7, <1>8, <1>9, <1>10 DEF Next, ThreadStep

(***************************************************************************)
(* A running client can always be stopped, also by the panel that is       *)
(* started after one that was killed, except one that was displaced or     *)
(* whose record did not reach the disk (web.go:297-325).                   *)
(***************************************************************************)
THEOREM ClientsStayReachable == Spec => []ClientIsReachable
<1>1. Init => ModeInv /\ HoldInv
  BY Names, GoneType, PanelAssumption DEF Init, ModeInv, Configs, HoldInv, ClientIsReachable,
     Recorded, Displaced, Running, Gone, Idle, Modes, Procs
<1>2. ModeInv /\ HoldInv /\ [Next]_vars => (ModeInv /\ HoldInv)'
  BY ModeStep, HoldStep
<1>3. HoldInv => ClientIsReachable
  BY DEF HoldInv
<1> QED
  BY <1>1, <1>2, <1>3, PTL DEF Spec

-----------------------------------------------------------------------------
(***************************************************************************)
(* The password.  A client that is starting and still waited for will read *)
(* the configured one or none; a panel that is down comes back with the    *)
(* password its clients have, or none of them is waited for.               *)
(***************************************************************************)
PassInv ==
  /\ ~ up => LoadWebConfig.pass = cfg.pass \/ Running \subseteq late \cup lost
  /\ Starting \subseteq late \cup lost \/ authFile \in {cfg.pass, NoPass}
  /\ ClientHasPassword

\* Clients that the panel killed or displaced are not waited for.
LEMMA KillClears ==
  ASSUME HoldInv, KillChild
  PROVE  Running' \subseteq lost'
<1>1. proc' = KillReached /\ lost' = lost \ Reached
  BY DEF KillChild
<1>2. Running' = Running \ Reached
  BY <1>1 DEF Running, KillReached, Gone
<1> QED
  BY <1>1, <1>2 DEF HoldInv, ClientIsReachable

LEMMA SpawnClears ==
  ASSUME HoldInv, Spawn
  PROVE  /\ authFile' = cfg.pass
         /\ \A p \in Pids : proc'[p].st = "listening" => p \in lost'
<1>1. PICK q \in Pids : proc' = [proc EXCEPT ![q] = [st |-> "starting", pass |-> NoPass]]
  BY DEF Spawn
<1>2. authFile' = cfg.pass /\ lost' = lost \cup (Reached \cap Running)
  BY DEF Spawn
<1>3. \A p \in Pids : proc[p].st = "listening" => p \in lost'
  BY <1>2 DEF HoldInv, ClientIsReachable, Running
<1> QED
  BY <1>1, <1>2, <1>3 DEF HoldInv, Procs

\* When all that runs is killed or displaced, nothing is claimed of it.
LEMMA ClearedHasPassword ==
  ASSUME Running' \subseteq lost'
  PROVE  PassInv'
BY DEF PassInv, ClientHasPassword, Running, Starting

\* A step of a panel that is up, leaves clients and password alone, and ends
\* no rotation but by giving the clients up.
LEMMA PassKept ==
  ASSUME PassInv, UNCHANGED <<proc, lost>>, cfg'.pass = cfg.pass,
         authFile' \in {authFile, cfg.pass, NoPass},
         late \subseteq late',
         \A t \in Threads : Rotating(t) => Rotating(t)',
         up'
  PROVE  PassInv'
BY DEF PassInv, ClientHasPassword, Starting

LEMMA RotatesOn ==
  ASSUME ModeInv, NEW t \in Threads, ThreadStep(t), ~ Rotating(t)
  PROVE  \A u \in Threads : Rotating(u) => Rotating(u)'
<1>1. \A u \in Threads \ {t} : th'[u] = th[u]
  BY OneMoves, GoTypes DEF Moved, SaveConfig, ModeInv
<1> QED
  BY <1>1 DEF Rotating

LEMMA PassStep == ModeInv /\ HoldInv /\ PassInv /\ [Next]_vars => PassInv'
<1> SUFFICES ASSUME ModeInv, HoldInv, PassInv, [Next]_vars PROVE PassInv'
  OBVIOUS
<1> USE DEF clientVars, cfgVars
<1>0. cfg = [cfg EXCEPT !.mode = cfg.mode] /\ \A mode : [cfg EXCEPT !.mode = mode].pass = cfg.pass
  BY DEF ModeInv, Configs
<1>1. ASSUME NEW t \in Threads,
             \/ Start(t) \/ TakeOver(t) \/ StartReady(t) \/ SaveWaited(t) \/ SaveConfig(t)
             \/ RotateAnswered(t)
      PROVE  PassInv'
  <2>1. /\ UNCHANGED <<proc, authFile, lost, cfg>> /\ late \subseteq late' /\ up'
        /\ ~ Rotating(t)
    BY <1>1 DEF Start, TakeOver, StartReady, SaveWaited, SaveConfig, RotateAnswered, At, For,
         Rotating
  <2> QED
    BY <1>1, <2>1, RotatesOn, PassKept DEF ThreadStep
<1>2. ASSUME NEW t \in Threads,
             SetModeSaved(t) \/ SaveKept(t) \/ \E mode \in Modes : SetMode(t, mode)
      PROVE  PassInv'
  <2>1. CASE SetModeSaved(t) \/ SaveKept(t)
    <3>1. UNCHANGED <<proc, authFile, lost, cfg, late>> /\ up' /\ ~ Rotating(t)
      BY <2>1 DEF SetModeSaved, SaveKept, WebConfigSaved, At, For, Rotating
    <3> QED
      BY <1>2, <3>1, RotatesOn, PassKept DEF ThreadStep
  <2>2. ASSUME NEW mode \in Modes, SetMode(t, mode) PROVE PassInv'
    <3>1. /\ UNCHANGED <<proc, authFile, lost, late>> /\ up' /\ ~ Rotating(t)
          /\ cfg' = [cfg EXCEPT !.mode = mode]
      BY <2>2 DEF SetMode, SaveWebConfig, At, Rotating
    <3> QED
      BY <1>0, <1>2, <3>1, RotatesOn, PassKept DEF ThreadStep
  <2> QED
    BY <1>2, <2>1, <2>2
<1>3. ASSUME NEW t \in Threads, StartSpawns(t) \/ SaveRespawns(t)
      PROVE  PassInv'
  <2>1. cfg' = cfg /\ up' /\ ~ Rotating(t)
    BY <1>3 DEF StartSpawns, SaveRespawns, WebConfigSaved, At, For, Rotating
  <2>2. CASE Spawn
    <3>1. authFile' = cfg.pass /\ \A p \in Pids : proc'[p].st = "listening" => p \in lost'
      BY <2>2, SpawnClears
    <3> QED
      BY <2>1, <3>1 DEF PassInv, ClientHasPassword
  <2>3. CASE SpawnFails
    <3>1. authFile' \in {authFile, cfg.pass, NoPass} /\ UNCHANGED <<proc, lost, late>>
      BY <2>3 DEF SpawnFails
    <3> QED
      BY <1>3, <2>1, <3>1, RotatesOn, PassKept DEF ThreadStep
  <2> QED
    BY <1>3, <2>2, <2>3 DEF StartSpawns, SaveRespawns
<1>4. ASSUME NEW t \in Threads, StartGivesUp(t) \/ Stop(t)
      PROVE  PassInv'
  <2>1. KillChild
    BY <1>4 DEF StartGivesUp, Stop
  <2> QED
    BY <2>1, KillClears, ClearedHasPassword
<1>5. ASSUME NEW t \in Threads, WritePidFile(t)
      PROVE  PassInv'
  <2>1. /\ UNCHANGED <<proc, authFile, cfg, late>> /\ lost \subseteq lost' /\ up'
        /\ ~ Rotating(t)
    BY <1>5 DEF WritePidFile, At, Rotating
  <2>2. \A u \in Threads : Rotating(u) => Rotating(u)'
    BY <1>5, <2>1, RotatesOn DEF ThreadStep
  <2> QED
    BY <2>1, <2>2 DEF PassInv, ClientHasPassword, Starting
<1>6. ASSUME NEW t \in Threads, SaveCommit(t)
      PROVE  PassInv'
  <2>1. PICK pass \in Passwords \cup {NoPass}, restarts \in BOOLEAN :
          /\ IF (restarts \/ pass # cfg.pass) /\ ClientAlive
             THEN SaveStops(t) ELSE SaveKeeps(t, pass)
          /\ SaveWebConfig([mode |-> th[t].mode, pass |-> pass])
    BY <1>6 DEF SaveCommit
  <2>2. up' /\ ~ Rotating(t) /\ cfg'.pass = pass
    BY <1>6, <2>1 DEF SaveCommit, At, Rotating, SaveWebConfig
  <2>3. CASE SaveStops(t)
    BY <2>3, KillClears, ClearedHasPassword DEF SaveStops
  <2>4. CASE SaveKeeps(t, pass) /\ ~ ((restarts \/ pass # cfg.pass) /\ ClientAlive)
    <3>1. UNCHANGED <<proc, authFile, lost>> /\ late \subseteq late'
          /\ (pass # cfg.pass => Starting \subseteq late')
      BY <2>4 DEF SaveKeeps
    <3>2. CASE pass = cfg.pass
      BY <1>6, <2>2, <3>1, <3>2, RotatesOn, PassKept DEF ThreadStep
    <3>3. CASE pass # cfg.pass
      <4>1. \A p \in Pids : proc'[p].st # "listening"
        BY <2>4, <3>1, <3>3 DEF ClientAlive
      <4>2. Starting' \subseteq late'
        BY <3>1, <3>3 DEF Starting
      <4> QED
        BY <2>2, <4>1, <4>2 DEF PassInv, ClientHasPassword
    <3> QED
      BY <3>2, <3>3
  <2> QED
    BY <2>1, <2>3, <2>4
<1>7. ASSUME NEW t \in Threads, RotateStore(t)
      PROVE  PassInv'
  <2>1. /\ up' /\ late' = late \cup Starting /\ UNCHANGED <<proc, authFile, lost>>
        /\ Go(t, "saving", "rotate")
    BY <1>7 DEF RotateStore, At
  <2>2. Starting' \subseteq late'
    BY <2>1 DEF Starting
  <2>3. Rotating(t)'
    BY <2>1, GoTypes, Names DEF Rotating
  <2> QED
    BY <2>1, <2>2, <2>3 DEF PassInv, ClientHasPassword
<1>8. ASSUME NEW t \in Threads, RotateStored(t)
      PROVE  PassInv'
  <2>1. /\ up' /\ UNCHANGED <<proc, authFile, lost, late, cfg>>
        /\ Go(t, IF ClientAlive THEN "restart" ELSE "idle", "start")
    BY <1>8 DEF RotateStored, WebConfigSaved, At, For
  <2>2. Starting' = Starting
    BY <2>1 DEF Starting
  <2>3. CASE ClientAlive
    <3>1. Rotating(t)'
      BY <2>1, <2>3, GoTypes, Names DEF Rotating
    <3> QED
      BY <2>1, <2>2, <3>1 DEF PassInv, ClientHasPassword
  <2>4. CASE ~ ClientAlive
    BY <2>1, <2>2, <2>4 DEF PassInv, ClientHasPassword, ClientAlive
  <2> QED
    BY <2>3, <2>4
<1>9. CASE Exit
  <2>1. KillChild
    BY <1>9 DEF Exit
  <2> QED
    BY <2>1, KillClears, ClearedHasPassword
<1>10. CASE Kill
  <2>1. /\ UNCHANGED <<cfg, webFile, proc, authFile>> /\ lost \subseteq lost'
        /\ late' = late \cup Starting
             \cup (IF (\E t \in Threads : Rotating(t)) \/ LoadWebConfig.pass # cfg.pass
                   THEN Running ELSE {})
    BY <1>10 DEF Kill
  <2>2. Starting' \subseteq late' /\ Running' = Running /\ LoadWebConfig' = LoadWebConfig
    BY <2>1 DEF Starting, Running, LoadWebConfig
  <2>3. ClientHasPassword'
    <3>1. CASE \E t \in Threads : Rotating(t)
      BY <2>1, <3>1 DEF ClientHasPassword, Running
    <3>2. CASE ~ \E t \in Threads : Rotating(t)
      BY <2>1, <3>2 DEF PassInv, ClientHasPassword
    <3> QED
      BY <3>1, <3>2
  <2>4. LoadWebConfig'.pass = cfg'.pass \/ Running' \subseteq late'
    BY <2>1, <2>2
  <2> QED
    BY <2>1, <2>2, <2>3, <2>4 DEF PassInv
<1>11. ASSUME NEW t \in Threads, Run(t)
       PROVE  PassInv'
  <2>1. /\ ~ up /\ up' /\ cfg' = LoadWebConfig /\ UNCHANGED <<proc, authFile, lost, late>>
    BY <1>11 DEF Run
  <2>2. \A u \in Threads : ~ Rotating(u)
    BY <2>1 DEF ModeInv, Rotating
  <2>3. CASE cfg'.pass = cfg.pass
    BY <2>1, <2>2, <2>3 DEF PassInv, ClientHasPassword, Starting
  <2>4. CASE Running \subseteq late \cup lost
    BY <2>1, <2>4 DEF PassInv, ClientHasPassword, Starting, Running
  <2> QED
    BY <2>1, <2>3, <2>4 DEF PassInv
<1>12. ASSUME NEW p \in Pids, Listen(p)
       PROVE  PassInv'
  <2>1. /\ p \in Starting /\ authFile # NoPass
        /\ proc' = [proc EXCEPT ![p] = [st |-> "listening", pass |-> authFile]]
        /\ UNCHANGED <<up, cfg, webFile, authFile, th, late, lost>>
    BY <1>12 DEF Listen, Starting
  <2>2. /\ proc'[p].pass = authFile /\ \A q \in Pids \ {p} : proc'[q] = proc[q]
        /\ Starting' \subseteq Starting /\ Running' \subseteq Running
    BY <2>1 DEF HoldInv, Procs, Starting, Running
  <2>3. ClientHasPassword'
    BY <2>1, <2>2 DEF PassInv, ClientHasPassword, Rotating
  <2>4. LoadWebConfig' = LoadWebConfig
    BY <2>1 DEF LoadWebConfig
  <2> QED
    BY <2>1, <2>2, <2>3, <2>4 DEF PassInv
<1>13. ASSUME NEW p \in Pids, ClientExits(p)
       PROVE  PassInv'
  <2>1. /\ proc' = [proc EXCEPT ![p] = Gone] /\ UNCHANGED <<up, cfg, webFile, authFile, th>>
        /\ late' = late \ {p} /\ lost' = lost \ {p}
    BY <1>13 DEF ClientExits
  <2>2. /\ proc'[p].st = "none" /\ \A q \in Pids \ {p} : proc'[q] = proc[q]
        /\ Starting' = Starting \ {p} /\ Running' = Running \ {p}
    BY <2>1 DEF HoldInv, Procs, Starting, Running, Gone
  <2>3. ClientHasPassword'
    BY <2>1, <2>2 DEF PassInv, ClientHasPassword, Rotating
  <2>4. LoadWebConfig' = LoadWebConfig
    BY <2>1 DEF LoadWebConfig
  <2> QED
    BY <2>1, <2>2, <2>3, <2>4 DEF PassInv
<1>14. CASE UNCHANGED vars
  <2>1. UNCHANGED <<up, cfg, webFile, authFile, proc, th, late, lost>>
    BY <1>14 DEF vars
  <2> QED
    BY <2>1 DEF PassInv, ClientHasPassword, Starting, Running, LoadWebConfig, Rotating
<1> QED
  BY <1>1, <1>2, <1>3, <1>4, <1>5, <1>6, <1>7, <1>8, <1>9, <1>10, <1>11, <1>12, <1>13, <1>14
     DEF Next, ThreadStep

(***************************************************************************)
(* No client listens with a password that is not the configured one, for   *)
(* any number of requests, clients and rotations, and across kills of the  *)
(* panel and truncated files, unless a rotation is about to restart it or  *)
(* the panel is no longer waiting for it (web.go:119-130, 396-441).        *)
(***************************************************************************)
THEOREM ClientsHavePassword == Spec => []ClientHasPassword
<1>1. Init => ModeInv /\ HoldInv /\ PassInv
  BY Names, GoneType, PanelAssumption DEF Init, ModeInv, Configs, HoldInv, ClientIsReachable,
     Recorded, Displaced, Running, Gone, Idle, Modes, Procs, PassInv, ClientHasPassword, Starting
<1>2. ModeInv /\ HoldInv /\ PassInv /\ [Next]_vars => (ModeInv /\ HoldInv /\ PassInv)'
  BY ModeStep, HoldStep, PassStep
<1>3. PassInv => ClientHasPassword
  BY DEF PassInv
<1> QED
  BY <1>1, <1>2, <1>3, PTL DEF Spec
=============================================================================
