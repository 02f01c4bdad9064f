----------------------------- MODULE ServerFiles ------------------------------
(***************************************************************************)
(* The files a server lives by: its password (auth), written at the first  *)
(* start, by -rotate-pass and by the admin API while connections read it   *)
(* (main.go, server/protection.go); the self-signed pair it makes once and *)
(* clients pin (server.go, loadOrCreateCert); and the issued pair that a   *)
(* script replaces under it while handshakes reload it (server.go, Run).   *)
(* os.WriteFile truncates, then writes; the process may die in between.    *)
(*                                                                         *)
(* A number stands for the content of a file of a pair: certificate and    *)
(* key fit when theirs is the same.  0 is no file or no value.             *)
(***************************************************************************)
EXTENDS Integers, FiniteSets

CONSTANTS
  Passwords,   \* passwords that can be asked for; the first and random ones
  Rotations,   \* requests to /_admin/pass at a time
  Handshakes,  \* TLS handshakes at a time
  MaxSelf,     \* bound of the model: self-signed pairs made
  MaxIssued    \* bound of the model: pairs the script installs

Absent == "absent"   \* no file
Empty == "empty"     \* truncated and not written
Mixed == "mixed"     \* a longer password under a shorter one
None == "none"

VARIABLES
  workload,  \* bound of the model: "rotate" or "renew", see Init
  proc,      \* where the process is: "down", its start, "up"
  auth, authV,               \* the password file and s.authV
  given,                     \* whether s.authV is the value of -auth
  rot,                       \* each request: [pc, pw]
  certPem, keyPem, selfV,    \* the self-signed pair on disk and in memory
  made,                      \* self-signed pairs made so far
  issued,                    \* the issued pair: [gen, ok, time] each
  hotCert, hotMod, mu,       \* what handshakes have loaded, and their mutex
  hs,                        \* each handshake: [pc, mod, chain, want, got]
  alone,     \* history: no other request overlapped the ones at work
  promised,  \* history: the password of the last answer "ok", or None
  pinned     \* history: the self-signed certificates clients were shown

authVars == <<auth, authV, given, rot, alone, promised>>
selfVars == <<certPem, keyPem, selfV, made>>
hot == <<hotCert, hotMod, mu, hs>>
vars == <<workload, proc, authVars, selfVars, issued, hot, pinned>>

Pems == {"fullchain", "privkey"}
NoRot == [pc |-> "none", pw |-> None]
NoHs == [pc |-> "none", mod |-> 0, chain |-> 0, want |-> 0, got |-> 0]

\* The two activities share nothing but the process, so a behaviour has one, and
\* a server that renews is asked for one password.
Init ==
  /\ workload \in {"rotate", "renew"}
  /\ proc = "down"
  /\ auth = Absent /\ authV = None /\ given = FALSE
  /\ rot = [r \in Rotations |-> NoRot] /\ alone = TRUE /\ promised = None
  /\ certPem = 0 /\ keyPem = 0 /\ selfV = 0 /\ made = 0 /\ pinned = {}
  /\ issued = [f \in Pems |-> [gen |-> 0, ok |-> TRUE, time |-> 0]]
  /\ hotCert = 0 /\ hotMod = 0 /\ mu = None
  /\ hs = [h \in Handshakes |-> NoHs]

At(from, to) == proc = from /\ proc' = to

-----------------------------------------------------------------------------
(***************************************************************************)
(* serverCmd: the password is made when there is none or the operator asks *)
(* for it, and an empty file is refused.  With -auth no file is read.      *)
(***************************************************************************)
GivenAuth ==
  /\ workload = "rotate"
  /\ At("down", "self")
  /\ \E p \in Passwords : authV' = p
  /\ given' = TRUE
  /\ UNCHANGED <<workload, auth, rot, alone, promised, selfVars, issued, hot, pinned>>

ReadAuth ==
  /\ auth \notin {Absent, Empty}
  /\ At("down", "self")
  /\ authV' = auth
  /\ UNCHANGED <<workload, auth, given, rot, alone, promised, selfVars, issued, hot, pinned>>

TruncateAuth(rotatePass) ==
  /\ (rotatePass /\ workload = "rotate") \/ auth = Absent
  /\ At("down", "auth")
  /\ auth' = Empty /\ promised' = None
  /\ UNCHANGED <<workload, authV, given, rot, alone, selfVars, issued, hot, pinned>>

\* The new password is in the log; or the write failed, which is fatal.
WriteAuth ==
  /\ \/ /\ At("auth", "self")
        /\ \E p \in Passwords : auth' = p /\ authV' = p /\ promised' = p
     \/ At("auth", "down") /\ UNCHANGED <<auth, authV, promised>>
  /\ UNCHANGED <<workload, given, rot, alone, selfVars, issued, hot, pinned>>

(***************************************************************************)
(* loadOrCreateCert: a pair is made unless both files are there.  A file   *)
(* that was truncated and not written is -1: it is there, and unusable.    *)
(***************************************************************************)
LoadSelf ==
  /\ certPem # 0 /\ keyPem # 0
  /\ At("self", "up")
  /\ selfV' = IF certPem = keyPem /\ certPem > 0 THEN certPem ELSE 0
  /\ UNCHANGED <<workload, authVars, certPem, keyPem, made, issued, hot, pinned>>

OpenCert ==
  /\ certPem = 0 \/ keyPem = 0
  /\ made < MaxSelf
  /\ At("self", "cert")
  /\ made' = made + 1 /\ certPem' = -1
  /\ UNCHANGED <<workload, authVars, keyPem, selfV, issued, hot, pinned>>

WriteCert ==
  /\ At("cert", "open")
  /\ certPem' = made
  /\ UNCHANGED <<workload, authVars, keyPem, selfV, made, issued, hot, pinned>>

OpenKey ==
  /\ At("open", "key")
  /\ keyPem' = -1
  /\ UNCHANGED <<workload, authVars, certPem, selfV, made, issued, hot, pinned>>

WriteKey ==
  /\ At("key", "up")
  /\ keyPem' = made /\ selfV' = made
  /\ UNCHANGED <<workload, authVars, certPem, made, issued, hot, pinned>>

\* mutant: a pair that could not be saved is served all the same
SelfUnsaved ==
  /\ proc \in {"cert", "open", "key"} /\ proc' = "up"
  /\ selfV' = made
  /\ UNCHANGED <<workload, authVars, certPem, keyPem, made, issued, hot, pinned>>

\* A write fails: the server runs without a self-signed pair.
SelfFails ==
  /\ proc \in {"cert", "open", "key"} /\ proc' = "up"
  /\ UNCHANGED <<workload, authVars, selfVars, issued, hot, pinned>>

\* The process dies, at any point.
Crash ==
  /\ proc # "down" /\ proc' = "down"
  /\ authV' = None /\ given' = FALSE /\ selfV' = 0 /\ hotCert' = 0 /\ hotMod' = 0 /\ mu' = None
  /\ rot' = [r \in Rotations |-> NoRot] /\ alone' = TRUE
  /\ hs' = [h \in Handshakes |-> NoHs]
  /\ UNCHANGED <<workload, auth, promised, certPem, keyPem, made, issued, pinned>>

-----------------------------------------------------------------------------
(***************************************************************************)
(* adminPassRotate and setAuth.                                            *)
(***************************************************************************)
Goes(r, from, to) == rot[r].pc = from /\ rot' = [rot EXCEPT ![r].pc = to]
Busy == {r \in Rotations : rot[r].pc # "none"}

OpenAuth(r) ==
  /\ proc = "up" /\ workload = "rotate" /\ rot[r].pc = "none"
  /\ \E p \in Passwords : rot' = [rot EXCEPT ![r] = [pc |-> "write", pw |-> p]]
  /\ auth' = Empty
  /\ alone' = (Busy = {}) /\ promised' = None
  /\ UNCHANGED <<workload, proc, authV, given, selfVars, issued, hot, pinned>>

\* Another request may have written since this one truncated the file.
WriteNew(r) ==
  /\ Goes(r, "write", "store")
  /\ auth' \in {rot[r].pw} \cup (IF auth = Empty THEN {} ELSE {Mixed})
  /\ UNCHANGED <<workload, proc, authV, given, alone, promised, selfVars, issued, hot, pinned>>

WriteIgnored(r) ==  \* mutant: the error of the write is ignored
  /\ Goes(r, "write", "store")
  /\ UNCHANGED <<workload, proc, auth, authV, given, alone, promised, selfVars, issued, hot,
                 pinned>>

WriteFails(r) ==
  /\ rot[r].pc = "write" /\ rot' = [rot EXCEPT ![r] = NoRot]
  /\ UNCHANGED <<workload, proc, auth, authV, given, alone, promised, selfVars, issued, hot,
                 pinned>>

Store(r) ==
  /\ rot[r].pc = "store" /\ rot' = [rot EXCEPT ![r] = NoRot]
  /\ authV' = rot[r].pw /\ given' = FALSE
  /\ promised' = IF alone THEN rot[r].pw ELSE None
  /\ UNCHANGED <<workload, proc, auth, alone, selfVars, issued, hot, pinned>>

-----------------------------------------------------------------------------
(***************************************************************************)
(* The script has the two files truncated and written in any order.        *)
(* Two writes that a handshake falls between have different times.         *)
(***************************************************************************)
There(f) == issued[f].gen > 0 \/ ~ issued[f].ok
LaterTime == issued["fullchain"].time + issued["privkey"].time + 1
Whole ==
  /\ \A f \in Pems : issued[f].ok
  /\ issued["fullchain"].gen = issued["privkey"].gen

\* What is installed is no longer what a handshake at work began with.
Touch(f, gen, ok) ==
  /\ issued' = [issued EXCEPT ![f] = [gen |-> gen, ok |-> ok, time |-> LaterTime]]
  /\ hs' = [h \in Handshakes |-> [hs[h] EXCEPT !.want = 0]]
  /\ UNCHANGED <<workload, proc, authVars, selfVars, hotCert, hotMod, mu, pinned>>

OpenPem(f) ==
  /\ workload = "renew" /\ issued[f].ok /\ issued[f].gen < MaxIssued
  /\ \A g \in Pems : issued[f].gen <= issued[g].gen
  /\ Touch(f, issued[f].gen, FALSE)

WritePem(f) == ~ issued[f].ok /\ Touch(f, issued[f].gen + 1, TRUE)

(***************************************************************************)
(* GetCertificate: the times of both files, then, under the mutex, the     *)
(* loaded pair, or the files if they are newer; else the self-signed pair. *)
(***************************************************************************)
HsUnchanged == UNCHANGED <<workload, proc, authVars, selfVars, issued>>

Shows(h, got) == hs' = [hs EXCEPT ![h].pc = "done", ![h].got = got]
ShowsSelf(h) ==
  /\ Shows(h, 0)
  /\ pinned' = IF selfV > 0 THEN pinned \cup {selfV} ELSE pinned

StatChain(h) ==
  /\ proc = "up" /\ workload = "renew" /\ hs[h].pc = "none"
  /\ IF There("fullchain")
     THEN /\ hs' = [hs EXCEPT ![h] =
               [pc |-> "stat", mod |-> issued["fullchain"].time, chain |-> 0, got |-> 0,
                want |-> IF Whole THEN issued["fullchain"].gen ELSE 0]]
          /\ UNCHANGED pinned
     ELSE ShowsSelf(h)
  /\ HsUnchanged /\ UNCHANGED <<hotCert, hotMod, mu>>

Later(m, n) == IF m > n THEN m ELSE n

StatKey(h) ==
  /\ hs[h].pc = "stat"
  /\ IF There("privkey")
     THEN /\ hs' = [hs EXCEPT ![h].pc = "lock", ![h].mod = Later(@, issued["privkey"].time)]
          /\ UNCHANGED pinned
     ELSE ShowsSelf(h)
  /\ HsUnchanged /\ UNCHANGED <<hotCert, hotMod, mu>>

ShowsLoaded(h) ==  \* mutant: what was loaded once is not compared with the files
  /\ hs[h].pc = "lock" /\ mu = None
  /\ hotCert > 0
  /\ Shows(h, hotCert)
  /\ HsUnchanged /\ UNCHANGED <<hotCert, hotMod, mu, pinned>>

ShowsHot(h) ==
  /\ hs[h].pc = "lock" /\ mu = None
  /\ hotCert > 0 /\ hs[h].mod <= hotMod
  /\ Shows(h, hotCert)
  /\ HsUnchanged /\ UNCHANGED <<hotCert, hotMod, mu, pinned>>

Content(f) == IF issued[f].ok THEN issued[f].gen ELSE 0

LoadChain(h) ==
  /\ hs[h].pc = "lock" /\ mu = None
  /\ hotCert = 0 \/ hs[h].mod > hotMod
  /\ mu' = h
  /\ hs' = [hs EXCEPT ![h].pc = "load", ![h].chain = Content("fullchain")]
  /\ HsUnchanged /\ UNCHANGED <<hotCert, hotMod, pinned>>

LoadKey(h) ==
  /\ hs[h].pc = "load" /\ mu' = None
  /\ IF hs[h].chain > 0 /\ hs[h].chain = Content("privkey")
     THEN /\ hotCert' = hs[h].chain /\ hotMod' = hs[h].mod
          /\ Shows(h, hs[h].chain) /\ UNCHANGED pinned
     ELSE ShowsSelf(h) /\ UNCHANGED <<hotCert, hotMod>>
  /\ HsUnchanged

Done(h) ==
  /\ hs[h].pc = "done" /\ hs' = [hs EXCEPT ![h] = NoHs]
  /\ HsUnchanged /\ UNCHANGED <<hotCert, hotMod, mu, pinned>>

Start ==
  \/ GivenAuth \/ ReadAuth \/ \E rotatePass \in BOOLEAN : TruncateAuth(rotatePass)
  \/ WriteAuth \/ LoadSelf
  \/ OpenCert \/ WriteCert \/ OpenKey \/ WriteKey \/ SelfFails

Handshake(h) ==
  StatChain(h) \/ StatKey(h) \/ ShowsHot(h) \/ LoadChain(h) \/ LoadKey(h) \/ Done(h)

Next ==
  \/ Start \/ Crash
  \/ \E r \in Rotations : OpenAuth(r) \/ WriteNew(r) \/ WriteFails(r) \/ Store(r)
  \/ \E f \in Pems : OpenPem(f) \/ WritePem(f)
  \/ \E h \in Handshakes : Handshake(h)

Spec == Init /\ [][Next]_vars

-----------------------------------------------------------------------------
(***************************************************************************)
(* A password that was answered "ok", or logged at the start, is on disk   *)
(* and the one in force, through crashes and failed starts, until someone  *)
(* asks for another.  The requests must not have overlapped, and a server  *)
(* started with -auth lives by that until it is asked for another          *)
(* (protection.go:176-184, main.go:113-126).                               *)
(***************************************************************************)
AckedSurvives ==
  promised # None => auth = promised /\ (authV # None /\ ~ given => authV = promised)

(***************************************************************************)
(* A self-signed certificate a client was shown, and may have pinned, is   *)
(* on disk with its key: every later start shows the same one, wherever    *)
(* the process died before (server.go:249-289, client.go:358-373).         *)
(***************************************************************************)
PinnedIsOnDisk == \A g \in pinned : certPem = g /\ keyPem = g

(***************************************************************************)
(* A handshake that begins after a renewal is complete is shown the new    *)
(* certificate, however other handshakes loaded the files while they were  *)
(* being replaced (server.go:63-86).                                       *)
(***************************************************************************)
RenewedIsShown ==
  \A h \in Handshakes : hs[h].pc = "done" /\ hs[h].want > 0 => hs[h].got = hs[h].want
=============================================================================
