------------------------------ MODULE SysProxy ------------------------------
(***************************************************************************)
(* How the system proxy setting is taken over and given back (sysproxy/).  *)
(* A setting has two halves: an automatic configuration URL and a proxy    *)
(* server, each with a switch.                                             *)
(*   windows: AutoConfigURL (on when it exists), ProxyServer, ProxyEnable  *)
(*   linux:   autoconfig-url and http/https/socks-host; mode = auto turns  *)
(*            the first on, manual the second, none neither                *)
(*   darwin:  autoproxyurl and socksfirewallproxy, switched independently  *)
(* Values are "user" (whatever the user had), "ours" and "none".  Any tool *)
(* or registry call may fail; the code logs that, or not even that, and    *)
(* goes on, and an undo that panics is dropped where it stopped.           *)
(***************************************************************************)
Platforms == {"windows", "linux", "darwin"}

Values == {"user", "ours", "none"}

Settings == [url : Values, urlOn : BOOLEAN, srv : Values, srvOn : BOOLEAN]

\* What one command or registry call sets, on one platform or another.
Parts == SUBSET {"url", "urlOn", "srv", "srvOn"}

\* An undo function: the calls it makes and the values it writes with them.
Undos == [does : SUBSET Parts, saved : Settings]

Blank == [url |-> "none", urlOn |-> FALSE, srv |-> "none", srvOn |-> FALSE]

Nothing == [does |-> {}, saved |-> Blank]  \* func() {}

\* s with those parts as they are in t.
Mixed(s, t, done) ==
  LET some == UNION done IN
  [url   |-> IF "url" \in some THEN t.url ELSE s.url,
   urlOn |-> IF "urlOn" \in some THEN t.urlOn ELSE s.urlOn,
   srv   |-> IF "srv" \in some THEN t.srv ELSE s.srv,
   srvOn |-> IF "srvOn" \in some THEN t.srvOn ELSE s.srvOn]

\* What applications use: the values that are switched on.
Effective(s) ==
  <<IF s.urlOn THEN s.url ELSE "none", IF s.srvOn THEN s.srv ELSE "none">>

(***************************************************************************)
(* What an undo leads to when every call of it succeeds, and what it may   *)
(* lead to; ok: none failed that mattered.                                 *)
(***************************************************************************)
Restored(u, s) == Mixed(s, u.saved, u.does)

Undone(u, s) ==
  LET Ends == {Mixed(s, u.saved, done) : done \in SUBSET u.does} IN
  {[sys |-> e, ok |-> e = Restored(u, s)] : e \in Ends}

\* What a getter reports of s when some of these values cannot be read.
Reports(s, parts) == {Mixed(s, Blank, unread) : unread \in SUBSET parts}

PacOn(plat, s) ==
  [s EXCEPT !.url = "ours", !.urlOn = TRUE, !.srvOn = (plat = "darwin" /\ s.srvOn)]

AllOn(plat, s) ==
  [s EXCEPT !.srv = "ours", !.srvOn = TRUE,
            !.url = IF plat = "windows" THEN "none" ELSE s.url,
            !.urlOn = (plat = "darwin" /\ s.urlOn)]

\* What a mode leaves and the undo it returns; ok: the backup was read.
Took(sys, undo, ok) == [sys |-> sys, undo |-> undo, ok |-> ok]

\* Left as it is, or where a refused change has left it, with nothing to undo.
Left(s) == {Took(s, Nothing, TRUE)}

-----------------------------------------------------------------------------
(***************************************************************************)
(* windows.  backupProxy: a PAC URL that is already ours is a leftover of  *)
(* a killed panel and is not worth restoring.  restoreProxy writes back    *)
(* everything.                                                             *)
(***************************************************************************)
RegValues == {{"url", "urlOn"}, {"srv"}, {"srvOn"}}

BackupProxy(s) ==
  IF s.url = "ours" THEN [s EXCEPT !.url = "none", !.urlOn = FALSE] ELSE s

RestoreProxy(b) == [does |-> RegValues, saved |-> b]

ApplyWindows(s, on) ==
  {Took(Mixed(s, on, done), RestoreProxy(b), b = BackupProxy(s)) :
     done \in SUBSET RegValues, b \in Reports(BackupProxy(s), RegValues)}

(***************************************************************************)
(* linux.  gsettings may be missing or refuse, before or after the URL was *)
(* written, and then nothing is restored.  A mode that could not be read   *)
(* is written back as "", which gsettings refuses.                         *)
(***************************************************************************)
GnomeMode == {"urlOn", "srvOn"}

UndoLinux(parts, b, modeRead) ==
  [does |-> parts \cup (IF modeRead THEN {GnomeMode} ELSE {}), saved |-> b]

GnomeAuto(s) ==
  {Took(PacOn("linux", s), UndoLinux({{"url"}}, b, read), read /\ b = s) :
     b \in Reports(s, {{"url"}}), read \in BOOLEAN}

GnomeManual(s) ==
  {Took(Mixed(s, AllOn("linux", s), done), UndoLinux({}, s, read), read) :
     done \in {{GnomeMode}, {GnomeMode, {"srv"}}}, read \in BOOLEAN}

ApplyLinuxPAC(s) == Left(s) \cup Left([s EXCEPT !.url = "ours"]) \cup GnomeAuto(s)

ApplyLinuxAll(s) == Left(s) \cup GnomeManual(s)

(***************************************************************************)
(* darwin.  restoreMac writes back the half that was changed, and only if  *)
(* it was on; a getter that failed has left it a blank URL, in both modes. *)
(* Without a list of services nothing is changed or restored.              *)
(***************************************************************************)
RestoreMac(mode, b) ==
  CASE mode = "pac" /\ b.urlOn /\ b.url # "none" ->
         [does |-> {{"url"}, {"urlOn"}}, saved |-> b]
    [] mode = "pac" /\ ~ (b.urlOn /\ b.url # "none") ->
         [does |-> {{"urlOn"}}, saved |-> [b EXCEPT !.urlOn = FALSE]]
    [] mode = "all" /\ b.srvOn /\ b.srv # "none" ->
         [does |-> {{"srv", "srvOn"}}, saved |-> b]
    [] OTHER ->
         [does |-> {{"srvOn"}}, saved |-> [b EXCEPT !.srvOn = FALSE]]

MacChanged(mode, s, changes) ==
  {Took(on, u, u = RestoreMac(mode, s)) :
     on \in changes, u \in {RestoreMac(mode, s), RestoreMac("pac", Blank)}}

ApplyMac(mode, s, changes) == Left(s) \cup MacChanged(mode, s, changes)

-----------------------------------------------------------------------------
\* ApplyPAC and ApplyAll: what they may leave, and the undo they return.
ApplyPAC(plat, s) ==
  CASE plat = "windows" -> ApplyWindows(s, PacOn(plat, s))
    [] plat = "linux"   -> ApplyLinuxPAC(s)
    [] OTHER            -> ApplyMac("pac", s, {s, [s EXCEPT !.url = "ours"], PacOn(plat, s)})

ApplyAll(plat, s) ==
  CASE plat = "windows" -> ApplyWindows(s, AllOn(plat, s))
    [] plat = "linux"   -> ApplyLinuxAll(s)
    [] OTHER            -> ApplyMac("all", s, {s, AllOn(plat, s)})

\* The user's setting.  A switch that is on has a value, and on windows a URL
\* has no switch of its own.  A manual or automatic proxy under GNOME is not
\* given back (see README), so there the mode is none.
UserSettings(plat) ==
  {s \in [url : {"user", "none"}, urlOn : BOOLEAN, srv : {"user", "none"}, srvOn : BOOLEAN] :
     /\ s.urlOn => s.url = "user"
     /\ s.srvOn => s.srv = "user"
     /\ plat = "windows" => s.urlOn = (s.url = "user")
     /\ plat = "linux" => ~ s.urlOn /\ ~ s.srvOn}
=============================================================================
