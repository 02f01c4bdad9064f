# A verification of caotun in TLA+

caotun is a TLS tunnel: a client (desktop proxy, or the engine inside the mobile
apps) opens one TLS or WebSocket connection per proxied connection to a server
abroad, proves a shared password, names a target, and the two relay bytes. A web
panel runs the desktop client and manages the server through an HTTP API on the
tunnel port. This directory holds TLA+ models of the parts whose correctness
depends on order, concurrency, time or failure, the TLC runs that check them, and
TLAPS proofs of their most important properties. Paths below are relative to the
repository's `src/` (the Go module), except the README's, which is the
repository's; `file.go:n` is a line of it.

## 1. Inventory

Each part: the state it keeps, its operations, what makes it hard, and what must be
true of it.

**Server** (`server/`)

| Part | State | Operations | Hard because | Correct when |
|---|---|---|---|---|
| Admission and session, `server.go:104-247` | `active`, one goroutine (then two) per connection, 15 s deadline | accept on two listeners, `handleServerConn`, relay | the limit is checked in one goroutine and counted in another; eight return paths; two copies without a deadline, and one of them closes | slots are counted exactly, the target's connection never outlives its handler, the handshake ends, a closing target releases everything |
| Ban table, `protection.go:94-167` | `bans`, `banEnabled`, `security.json` | `banned`, `recordFail`, `recordOK`, `setBanEnabled` | connections admitted before a ban are judged after it; pruning; the switch is three separate steps | bans are earned, stand, and end; the bounded table is invisible; an acknowledged switch survives a restart |
| Traffic quota, `protection.go:57-92,169-218` | `total`, `windowStart`, `traffic.txt` | count, roll over, refuse, persist, load | concurrent ends, crashes inside `os.WriteFile`, data counted after the last save | what ended connections counted is saved, the saved total never goes back |
| Password rotation, `protection.go:174-184`, `admin.go:100-118` | `authV`, file `auth` | `setAuth`, the start of the server | two rotations at once, a crash inside the write, starts with `-auth` | what was acknowledged is on disk and in force |
| Admin API, `admin.go` | none of its own | queries, rotation, switch | shares the ban table and the port with tunnels | authenticated like a tunnel |
| DNS relay, `dnsrelay.go` | `dnsCache` | one query per tunnel | no deadline on its reads, cache shared by all tunnels | an answer belongs to its question |
| Certificates, `server.go:30-93` | `hotCert`, `hotMod`, two files | `GetCertificate` | two files replaced one after the other | a valid loaded certificate is not given up |

**Client and shared code** (`tunnel/`, `protocol/`, `ws/`, `cnroute/`, `proxylist/`)

| Part | State | Operations | Hard because | Correct when |
|---|---|---|---|---|
| Tunnel dialer, `client.go:316-418` | one connection per dial | CA check, fingerprint check, upgrade, HMAC, target, status | the other end decides in between; no deadline after TLS | both ends agree on the outcome, stay in step, never wait for each other |
| Trust on first use, `client.go:69-76,358-373` | `fingerprint.txt`, a copy per process | compare, record | the copy is never refreshed | a changed fingerprint is refused |
| Local proxy, `client.go:126-306` | none | SOCKS5, CONNECT, relay | bytes read ahead during negotiation | no byte lost or invented |
| Router, `route.go` | a cache with a TTL | `decide` | resolves outside its lock | a name that may be blocked never goes direct |
| CN table, `cnroute.go`; domain list, `proxylist.go` | constant tables | merge, search, match | 32-bit boundaries | membership is that of the listed ranges |
| DNS forwarder, `dns.go` | none | try upstreams in order | its own tunnel needs DNS | the server's name never goes through the tunnel |
| Protector, `protect.go` | one unix connection | send a descriptor, read `ok` | a deadline set once; stale acknowledgements | an acknowledged descriptor is the one sent |
| Target codec, `protocol.go`; frames, `ws.go` | none / bytes left of a frame | encode, decode | one-byte and two-byte lengths | decoding gives back what was encoded |

**Mobile** (`tun2sock/`, `mobile/core/`)

| Part | State | Operations | Hard because | Correct when |
|---|---|---|---|---|
| Fake-ip pool, `fakeip.go` | two maps and a counter | `obtain`, `lookup` | applications keep answers while the pool is rebuilt | the maps are inverse; a connection reaches the name that was asked for |
| Tun engine, `tun2sock.go` | the network stack | DNS, TCP dispatch, relay | every flow is a goroutine that may block on a host or a server | no loop through the tun, flows of a stopped engine end |
| Engine life cycle, `mobile/core/core.go` | `running`, `cancel` | start, stop, end, panic | the old engine's goroutine still writes `running` | what `RunningCore` says is true; the engine can be stopped |
| Platform glue (`mobile/`, Kotlin, ArkTS) | the platforms' VPN objects | pass parameters | – | – |

**Panel** (`web/`, `sysproxy/`): configuration, a child process and its pid file, the
system proxy setting and its backup; start, stop, change mode, save, rotate. Hard
because a panel may be killed at any moment, also half way through a file, and be
started again, because every command on the system setting may fail, and because some
fields are read outside its mutex. Correct when the user's own proxy setting is
restored, no configuration change is lost and the client runs with the password
the server has.

**Others**: log rotation (`logrotate.go`), command line (`main.go`), scripts and pages.

How they interact: the accept loops call the ban table and read the slot counter; the
handler calls the ban table, the quota and the DNS relay; the admin API shares the
WebSocket port and calls ban table, quota and password; the panel talks to the admin
API over HTTP and to the client only by starting and killing it, through the files
`auth`, `fingerprint.txt` and `client.pid`; the mobile engine calls the dialer, the
protector, the CN table and the pool, and the platform calls only start and stop.

`PROJECT.json` lists the parts with their status, and under "hazards" every
behaviour of the list above that is hard to test, at its line.

## 2. What is modelled

| Module | Code | State | Actions |
|---|---|---|---|
| `ServerConn` | `server.go:104-247` | per connection a program counter, the client's end, the target's connection, the upstream goroutine, whether the handler is in a write to the client; `active` | `TlsAccept`, `WsAccept`, `PeekRequest`, `Upgrade` (the two ways in), `Begin` ... `DialOK` (handler), `DownReads`, `DownWritten`, `DownEnds`, `DownWriteFails`, `UpEnds` (the two copies), `DnsServed`, `DnsEnds` (the DNS relay), `CloseBoth`, `Uncount` (the deferred functions, in their order) |
| `Tunnel` | `client.go:316-418`, `server.go:127-205`, `ws.go:155-222` | one dial: both program counters, both directions of the wire, the deadline, what each end believes | every read and write of the handshake at either end, the two TLS attempts, the DNS path, `Deadline`, `Break` |
| `Stream` | `client.go:160-306`, `ws.go:33-144` | the application's bytes in the socket, the buffered reader, the frames and the target; three goroutines, the write mutex | `AppSpeaks`, `AppLeaves` (application), `Fill`, `Greets`, `Requested`, `Reached`, `Refuse`, `Abandoned` (negotiation), `UpReads`/`UpHead`/`UpBody`/`UpEnds`, `DownFrame`/`DownRest`/`PongHead`/`PongBody`/`DownEnds` (the copies, a frame being two writes), the server's end: `SrvReads`, `SrvSends`, `SrvEnds` |
| `BanPolicy` | `protection.go:94-141` | per address a strike count, the time since the last strike, the time left of the ban | `Admit`, `Fail`, `Succeed`, `Leave`, `Flip`, `Wipe`, `Restart`, `Tick` |
| `BanList` | the same, with `145-167` and `admin.go:33-60,136-149` | the table with absolute times, the switch, `security.json`, connections in flight | `Accept`, `AuthFail`, `AuthOK`, `HangUp`; `AskSwitch`, `SetFlag`, `ClearBans`, `TruncFile`, `WriteFile`, `WriteFails`; `Restart`, `Tick` |
| `TrafficQuota` | `protection.go:57-92,169-218` and its calls in `server.go` | total, period, `traffic.txt`, the lock, each handler and its upstream goroutine | `Rollover`, `KeepPeriod`, `Refuse`, `Open`, `Count`, `Finish`, `UpCountsLast`, `Lock`, `Truncate`, `Write`, `WriteFails`, `Restart`, `Tick` |
| `ServerFiles` | `protection.go:170-184`, `admin.go:100-118`, `main.go:96-126`, `server.go:30-93,249-289` | the files `auth`, `cert.pem`, `key.pem` and the issued pair, what the process and each handshake have loaded | the start (`GivenAuth` with `-auth`, `ReadAuth`, `TruncateAuth`, `WriteAuth`, `LoadSelf`, `OpenCert` ... `WriteKey`, `SelfFails`), `Crash`, rotation requests (`OpenAuth`, `WriteNew`, `WriteFails`, `Store`), the renewing script (`OpenPem`, `WritePem`), handshakes (`StatChain`, `StatKey`, `LoadChain`, `LoadKey`, `Shows*`) |
| `Names` | `route.go`, `dns.go`, `dnsrelay.go`, the name lookups of `client.go` | the router's cache, the relay's cache, per thread a stack of calls | `Connect`, `ConnectLiteral`, `RouteWhite`, `RouteHit`, `RouteMiss`, `Judged`, `RouteStore`; `DirectDial`, `TunnelDial`, `Dialled`; `Forward`, `NextUpstream`; `RelayHit`, `RelayAsk`, `RelayFails`, `RelayPut`; `Tick` |
| `Codecs` | `protocol.go`, `client.go:216-271`, `ws.go:52-80,109-137`, `protocol/dns.go`, `dnsrelay.go:81-127`, `fakeip.go:90-115`, `cnroute.go:43-97`, `proxylist.go:22-38` | one input and the output of one function | `SocksTarget`, `ConnectTarget`, `SendHead`, `ParseQuery`, `LoadTable`, `MatchList`: each feeds one input through the encoder and the decoder |
| `FakeIPPool` | `fakeip.go`, `tun2sock.go:101-137,207-248` | the two maps and `next`; per application its last answer | `Query`, `Deliver`, `Lose`, `Connect`, `Tick` |
| `Tun2sock` | `tun2sock.go:139-375`, `protect.go`, the host in `VpnAbility.ets:115-144` | the goroutine of each flow; per dialer the channel to the host with the bytes of its answers, its mutex and deadline; whether there is a path to the host; the sockets it has marked | `TCP`, `DNS`, `NotProtected`, `Lock`, `Send`, `Acked`, `SendFails`, `Host`, `Deadline`, `Connects`, `UpReads`, `UpWritten`, `RelayEnds`, `RelayAborted`, `Cancelled`, `DeviceFails` |
| `EngineCore` | `mobile/core/core.go` | `running`, `cancel`, where each engine's goroutine is | `StartTunCore`, `StopTunCore`, `ServeCancelled`, `ServeFails`, `Panic`, `SetStopped`, `Deferred` |
| `SysProxy` | `sysproxy/` | none: a setting, what `ApplyPAC`/`ApplyAll` may make of it on each platform when any of their commands fails, and what their undo functions may give back | operators, used by `Panel` |
| `Panel` | `web.go`, `web_api.go` | the setting, the configuration and `web.json`, the undo function, the child, `client.pid`, `auth`, the client processes, the requests | `Start`, `TakeOver`, `StartSpawns`, `WritePidFile`, `StartReady`, `StartGivesUp`; `Stop`; `SetMode`, `SetModeSaved`; `SaveConfig`, `SaveCommit`, `SaveKept`, `SaveRespawns`, `SaveWaited`; `RotateAnswered`, `RotateStore`, `RotateStored`; `Run`, `Exit`, `Kill`, `Listen`, `ClientExits` |

Abstractions common to all: addresses, names and passwords are model values; time is
a count of ticks; a byte stream is a sequence of messages, of numbered bytes (`Stream`)
or a yes/no (open, closed); logging is left out. `os.WriteFile` is two steps, a
truncation and a write, because that is what it does; in `Panel` the first of them lies
somewhere in the step before the write, so the file holds the old content there or none. A crash forgets every variable
that is not a file. Variables called *history* are read by properties only.

Each `MC*` module only extends its specification, naming the inputs and the symmetric
sets where symmetry is used (never in a run with a liveness property).
Definitions marked *mutant* are not part of any behaviour: each is a plausible bug
that is substituted for the definition after it, to see that a property notices.

How the modules compose:

- `BanList` implements `BanPolicy` (`ImplementsPolicy`, with the mapping at the end of
  `BanList`): an absent entry and one whose window and ban are over are the same
  abstract state, so that making, keeping and pruning entries is invisible.
- `Panel` runs on `SysProxy`: what a request may make of the system setting, what its undo
  function has captured and what it may give back are sets that `SysProxy` defines.
- `Names` is itself a composition of router, dialers, forwarder and relay: a call of one
  by another is a frame on the thread's stack, so rings between them are visible.
- `Tun2sock` composes Serve, its flows, both dialers and both protectors.
- `ServerConn`, `BanList`, `TrafficQuota` and `Tunnel` cut the same handler along four
  different concerns; where one leaves an outcome free (is the password right? is the
  quota used up?) another one models how it comes about. `Stream` starts where `Tunnel`
  ends, and `Codecs` shows what a "target", a "frame" or a "query" of the others is in bytes.

## 3. Runs

| Run | Question | Bounds |
|---|---|---|
| `ban_list` | Are bans earned (`BanEarned`), do they stand (`BanStands`), is the table the policy (`ImplementsPolicy`), is the switch kept (`OffMeansEmpty`, `SwitchPersists`)? | 2 addresses (so that one prunes the other), 1 tunnel and 2 admin requests in flight, which may overlap, threshold 2, ban 2, window 0, pruning above 1 entry, clock to 3: a ban begins, ends and begins again, and an entry gets older than the ban, so that a failure of the other address prunes it |
| `fake_ip` | Do names and addresses stay paired (`PoolConsistent`), and does a connection reach its name (`RightName`)? | 4 names over a pool of 3, so it is rebuilt; 2 applications; TTL 1 |
| `quota` | Is what was counted saved (`EndedIsSaved`), never overwritten by less (`SavedNeverGoesBack`)? | 2 connections, quota 2, 1-tick period over 3 ticks, 3 units of data |
| `server_conn` | Are slots and connections given back, does the handshake end, does a closing target release everything that no client holds by not reading? | 3 connections over a limit of 2 |
| `tunnel` | Do the two ends agree (`Agreement`), stay in step (`InStep`), does every dial return (`DialEnds`)? | 2 targets and a DNS target, right or wrong password, with and without WebSocket, either attempt, 2 pieces of data |
| `stream` | Is every byte carried once, in order and to the right place, also bytes sent before the proxy answered; does one end close the other? | 3 bytes up, 2 down, 1 ping; the application sends and closes at any point of its negotiation; reads of any length |
| `names` | Is no verdict older than its TTL and a lookup, does an answer fit its question, are the caches bounded, is the ring through the tunnel broken? | 2 threads; 2 hosts, one on the list, one filtered question, the server's name in two spellings; 2 upstreams; router cache of 1, relay cache of 1 (limit 0), so both overflow; TTLs 2 and 1, lookups of up to 1 tick |
| `codecs` | Do the pairs of encoders and decoders fit? | names of 0, 1, 254, 255 bytes and strings of addresses, ports at byte limits, IPv4, IPv6 and mapped addresses; CONNECT hosts of up to 300 bytes with ports that are negative, too big or no number; frame lengths around 126, 65536 and beyond; queries of 0 to 2 labels up to 63 bytes, whole and cut at every byte; all lists of up to 3 blocks over 3-bit addresses, in every order the unstable sort may leave; names of up to 3 labels, lists with an empty entry |
| `tun2sock` | Does only a marked socket connect, does every dial end, does a cancelled engine leave no flow that is not blocked in a write? | 2 flows over both dialers: two of one dialer meet at its mutex, a descriptor is used again, a refusal leaves a byte to the next one; with and without a path to the host |
| `engine` | Are `running` and `cancel` right while engines overlap? | 3 engine goroutines at a time |
| `server_files` | Does an acknowledged password survive (`AckedSurvives`), is what a client pinned on disk (`PinnedIsOnDisk`), is a renewal shown (`RenewedIsShown`)? | 2 passwords and 2 rotation requests, with and without `-auth`, or 2 handshakes and 2 renewals (`workload` chooses: the two never touch the same file); 2 self-signed pairs, so crashes can interrupt the making of one |
| `panel` | Does undoing lead back to the user's proxy setting, can every recorded client be stopped, does the client have the current password? | 2 concurrent requests, 2 processes, 2 passwords, 3 machines, one of each platform (`MCMachines`), seen through a view (below) |

The bounds are the smallest at which two actors can meet in every step of the
others: a third address, name, or connection adds symmetric copies, not new meetings;
each clock runs far enough for what it times to end and to begin again. `MaxTime`, `MaxTotal`, `MaxData`, `MaxSelf`,
`MaxIssued`, `Data`, `Reply`, `Pings` and `workload` are bounds of the models, not of the
code. The parameters that are constants of the code (thresholds, sizes, TTLs) are shrunk
so that the limit is reached. `panel` identifies states by `View` of `MCPanel`, which leaves
out what no step and no property tells apart: an undo that has not failed counts only
through the setting it leads back to, since `applyProxy` always undoes first; after a kill
or a failure nothing is claimed of the proxy and it is not looked at; nor are `auth` while
no client may still read it and the passwords of clients that nothing is claimed of.
Deadlock is not checked where the system may stop: the panel has
exited, a connection is over, an input was processed, no time is left to pass.

Known divergences. Reading the code for the models turned up behaviour that a comment or
the README does not lead one to expect. Unless a row says that it is not modelled, the
models have this behaviour, and the properties are stated so that they exclude it explicitly.

| Where | What the code does |
|---|---|
| `protection.go:125`, README.md:63 | the ban window bounds the gap between two failures, not ten of them: 10 failures over 45 minutes ban |
| `protection.go:112` | the ban table grows past 4096 when the failures are recent |
| `protection.go:155` | two concurrent switch requests can leave memory and `security.json` apart (`SwitchPersists` is about requests that no other overlapped: `alone`) |
| `server.go:117` | several goroutines pass the `-max-conns` check before one counts |
| `server.go:135,197` | a client that vanishes holds its slot until its silent target closes: the upstream copy ends and closes nothing |
| `server.go:192,202` | a client that stays and never reads holds its slot, the target's closed connection and both goroutines as long as it likes: a write to it has no deadline (`HeldByClient` in `RemoteEndReleases`) |
| `server.go:224` | the WebSocket goroutine reads its request without a deadline |
| `server.go:166-170` | status 2 can be overtaken by the reset of closing with the target unread |
| `protection.go:186-199` | a crash loses the counts of all open connections, and between truncation and write it zeroes the quota |
| `protection.go:174-184` | a crash inside a rotation leaves an empty password file, and the next start refuses; overlapping rotations leave memory and disk apart, or a mixture on disk (`promised` is forgotten there) |
| `main.go:113`, `protection.go:176`, README.md:156,276 | a start with `-auth` reads no file: a server whose password was rotated over the API has the old one again after it (`given` in `AckedSurvives`) |
| `server.go:252-254,281-287` | a crash inside a write of the self-signed pair leaves a truncated file that can be read: no later start makes a new pair, and the fallback is gone until someone deletes it |
| `server.go:73-80` | while the issued pair is being replaced a handshake may be shown the self-signed certificate although a loaded one is still valid |
| `dnsrelay.go:104,125,130` | the comments say "the first 4 bytes" where 2 are replaced, and that ANCOUNT, NSCOUNT and ARCOUNT are cleared where only ANCOUNT is: the answer to an EDNS query announces an additional record that it has not (`QuestionsAgree` says so) |
| `protocol/dns.go:33-56` | of a question that is cut the forwarder's parser returns the labels it has met, where the other two refuse it (`QuestionsAgree` says so) |
| `protocol.go:75,79`, `client.go:258-263` | of a CONNECT host of 256 bytes or more only the length is cut, so the server reads another name, another port and the rest as data; a port is cut to 16 bits and one that is no number is 0 (excluded in `SameTarget`, where the port is modulo 2^16) |
| `fakeip.go:56` | a rebuild gives addresses out again at once: an application's unexpired answer may lead to another name (`rebuilt` in `RightName`) |
| `protect.go:50-54`, `VpnAbility.ets:130,137` | of the three bytes of a refusal two are read; on a connection that is kept after it the third one makes the next answer a refusal too (never an acknowledgement: `AckedMeansProtected`) |
| `client.go:79,106`, `TunService.kt:199` | without a path to the host no socket is marked; Android passes none and keeps the server out of the tun by its routes, which are not modelled (`path` in `AckedMeansProtected`) |
| `tun2sock.go:185-200` | a relay that is blocked writing to a server which does not read survives the cancelled engine: only the other copy could close it (`FlowsEnd`) |
| `tun2sock.go:135,193-194` | the two counters of a relay are logged the wrong way round |
| `tun2sock.go:101-137` | `ForwarderRequest.Complete` is called only when no endpoint could be made; a failing device ends `Serve` with its flows still running (`FlowsEnd` is about a cancelled one) |
| `core.go:33,62,76,119` | an ended engine's deferred function clears the `running` of the next one; a third start then overwrites its `cancel`, and two engines run of which one cannot be stopped |
| `cnroute.go:74` | `last.end + 1` is 0 after a range that ends at 255.255.255.255, and the range after it is not merged into it (excluded in `TableIsMembership`) |
| `client.go:52`, `client.go:244-290` | a `log.Fatalf` skips the deferred functions; a CONNECT whose headers are cut by an EOF is dialled anyway; local negotiation and `finishTunnel` have no deadline |
| `dns.go:88` | a server name that is configured with a final dot is not recognised in a query, so the ring is not broken (`Names` has no such name) |
| `web.go:417-441` | `SaveConfig` reads the mode before it locks; two rotations from the panel, or a lost reply of one, leave the panel with an old password |
| `web.go:297-301`, `305-331` | a panel killed between starting a client and recording it loses it, and so does one that cannot write `client.pid`; a client that was starting is displaced by the next one (`lost`) |
| `web.go:119-130` | a panel killed while it writes `web.json`, or one that could not, leaves it cut short: the next one runs with the default configuration and no password while the old client goes on (`late`) |
| `web.go:345-347`, `409-412` | a client that starts too slowly is killed by `Start` but kept by `SaveConfig`, and reads the password of a later configuration or an earlier one (`late`) |
| README.md:222, `web.go:331`, `sysproxy_unix.go:70,204` | a panel that is started again after a kill is said to give the proxy back when it exits; it takes what the killed one left for the user's setting, except a PAC URL on windows, which it removes without knowing the user's (`killed` in `ProxyGivenBack`) |
| `web.go:250-259`, `sysproxy_unix.go:147-164,211-215` | an undo whose commands fail is only logged, one that panics not even finished, and both are forgotten: the proxy stays as it is (`failed` in `ProxyGivenBack`) |
| `sysproxy_unix.go:101-145,191-197`, `sysproxy_windows.go:59-94` | a value that cannot be read is backed up as if it were not set, so the undo removes it (`failed`) |
| `sysproxy_unix.go:199-237` | a manual GNOME proxy keeps the panel's host after the global mode, and a PAC URL stays changed when the mode is refused after it was written (`UserSettings` leaves a GNOME user without a proxy) |

## 4. Fairness

- `ServerConn`: weak fairness of each connection's server steps, and of the end of its upstream
  goroutine once the target's connection is closed: the Go scheduler runs every goroutine,
  deadlines fire, a write to a dead path fails by keepalive. A step that needs a client or a
  target to speak or to read is not fair: the copies have no deadline, and either may stay in
  a write (`DownWritten` and, while the target is open, `UpEnds` are not fair).
- `Tunnel`: weak fairness of the client's and of the server's steps. The TLS handshake
  and the dial of the target have timeouts in the code, so they end one way or the
  other. Applications, targets and the deadline owe nothing.
- `Stream`: weak fairness of the negotiation, of each goroutine's reads and writes, and of
  the server's reader. Nobody has to send, to ping, to close or to end.
- `Tun2sock`: weak fairness of each flow's steps up to its connection and of each protector's
  deadline, and strong fairness of taking a protector's mutex: Go's mutex hands itself to a
  goroutine that has waited for a millisecond. A dial ends by the timeouts of its dialer and
  of the server's handshake (see `Tunnel`). Strong fairness of `RelayAborted`: a copy that comes
  back from its writes again and again reads from an aborted endpoint until that is empty. A
  write need not end, the host may never answer, nobody has to open, close or cancel.
- `EngineCore`: weak fairness of each engine's goroutine; `Serve` watches its context.
- All others are checked for safety only.

## 5. Proofs

Proved by TLAPS for all values of the constants that satisfy the named assumptions. The
assumptions say that counts and times are natural numbers (positive where zero means
"off" in the code), that a window is no longer than the ban and a pool smaller than its
network, that sets whose size is counted are finite and that "none" is none of the values.

- `BanListProofs`. The types and `BanWithinEntry` (no entry's failure lies in the future
  and its ban ends within `BanDuration` of it) are inductive together.
  `BanWithinEntry` is what `BanStands` needs: pruning removes only entries older than
  `BanDuration`, whose ban is therefore over. `OffMeansEmpty` is strengthened by what a
  request in phase `clear` still owes. `SwitchPersists` needs what a request at work on the
  switch has done so far, as long as no other has overlapped it (`SwitchInv`). `BanEarned`
  needs what an entry's count means: that many last failures of its address, none
  more than a window after the one before (`Streak`), through pruning, restarts of the
  count and the trimming of the history (`EarnInv`). `Refinement`: initial states map to initial states;
  for each action of `BanList` a lemma shows the mapped step: most are a step of the
  policy or a stutter, and the work is in pruning (a stutter for the pruned address),
  `AuthFail` (a strike, whether the entry exists, is stale or was just pruned) and `Tick`
  (absolute times against countdowns).
- `TrafficQuotaProofs`. That a saved total never goes back is not inductive: `IInv` adds that
  the handler inside `persistLocked` is alone (`MutexInv`), that what it marshalled is of the
  current period and between what this process wrote last and what it has counted
  (`SnapInv`), and that the last write is no later than the counters (`WrittenInv`). A
  rollover, which lowers the total, moves the period past everything written.
  `EndedIsSaved` names the owner of every unit a crash would lose; `OwnInv` says it of the
  snapshot of the handler that is writing too: what lies above it belongs to connections
  that are not over, and not to the writer when it is about to end.
- `ConnectionProofs`. Of `ServerConn`: `ActiveIsExact` and `RemoteIsOwned` are inductive with the types. Every
  step but `Begin` and `Uncount` keeps the set of counted handlers; those two change it by
  one element, and its cardinality with it.
  Of `Codecs`: `HeadCarried` and `SameTarget` hold of each input by itself, so the proofs are
  about the bytes. What is read is taken from known places of a sequence joined from known
  parts (`HeadParts`, `JoinFour`): a head or a target says by its first bytes where the
  others are (`Lengths`, `ReadBack`), no field is cut (`NothingCut`, `Halves`), and an address
  with the prefix of a mapped one is the mapped form of its last four bytes (`MappedBack`).
  Whether a host goes as an address is for `ParseIP` to say, of which is assumed only that it
  returns an address of 4 or 16 bytes or none.
  The assumptions: an address was read in full, a byte is below 256, and the length of a
  frame has zeros in its high four bytes, which is all that `Length` writes there.
  `QuestionsAgree` and `ListsDecide` are about inputs of any length, so about what recursive
  functions compute. Induction over numbers comes from well-founded sets (`Least`, `UpTo`,
  `DownTo`), and a recursive definition gets its equation from a lemma that such a function
  exists (`WalkExists`, `LoadIs`, `SearchExists`, `NameIs`).
  *Questions*: the labels of a message lie at places that their lengths fix (`LabelsLaid`,
  `MessageIs`); from the root label back to the first, the walk meets each (`WalkWhole`), and a
  walk over a question that is cut before its root never meets one (`WalkCut`); so all three
  parsers see the same labels, type and end of a whole question, and of a cut one two of them
  fail and the forwarder's has the first labels (`QuestionIsRead`).
  *Tables*: each step of the merge keeps the ranges apart, in order, and holding the same
  addresses (`JoinMerges`, `LoadMerges`), from any order the sort may leave (`RangesAre`); in
  such a table the search finds the first range that does not end before the address
  (`SearchFinds`), the only one that can hold it (`TableDecides`).
  *Lists*: a name is its first label, a dot, and the name of the others (`NameIs`). No label
  holds a dot, so what follows a dot of a name is the name of its later labels
  (`EndIsLater`), and equal names have equal labels (`SameNames`): a suffix of characters
  after a dot is a suffix of labels (`LabelsDecide`), in lower case too (`SpellingLower`).
  The assumptions: labels of a question have 1 to 63 bytes, its identifier and type 16 bits;
  a block begins at its first address and lies in the address space, which `net.ParseCIDR`
  guarantees; labels of a listed name are not empty and have no dot.
- `TunnelProofs`. One invariant relates the program counters of both ends to the contents of
  both directions of the wire: for each place of the server what it may still read
  (`ServerInv`), for each place of the client what it has written and what may be on its way
  to it (`ClientInv`), and what a closed server has decided (`ClosedInv`). `Agreement` and
  `InStep` follow from it. `Carried` of `Stream` needs to know what every buffer on the way
  holds (`StreamInv`). Upward: socket, reader and client hold the application's script, each
  from where the next one stops (`SourceInv`); the wire holds whole frames, and only the
  goroutine that holds the write mutex can have left one unfinished, at its end (`WireInv`).
  Downward: the frames and what is left of the last one continue what the application has
  heard (`DownInv`). Both say it with a witness, the number of bytes before each piece of
  the wire or each frame: a step shifts or extends the witness, so that no sum over the
  frames, hence no induction over them, is needed. `PlaceInv` says which places of the
  goroutines go together.
- `ServerFilesProofs`. Three invariants, one for each pair of actors that share files:
  `AuthInv` (where the promised password is while requests and starts are at work),
  `SelfInv` (which half of the self-signed pair is on disk at each step of a start, and that
  nothing unfinished was ever shown) and `HotInv` (what a handshake has read is no newer than
  the files, and what is loaded belongs to the modification time it is kept under, once the
  renewal is complete).
- `PanelProofs`. `ProxyInv`: while no panel was killed holding the setting, no backup was
  unreadable and no undo has failed, undoing what it holds gives a setting that is effectively
  the user's. Its step is by platform and mode, over all the ways `SysProxy` allows a mode to
  end. `HoldInv`: the handle and the pid on file agree unless one is missing or the record is
  being written (`Recorded`), and what a new client displaces is in `lost` (`Displaced`), so a
  kill loses only what the record still has. `ModeInv` types the configuration, the file and the
  requests, of which at most one holds the mutex. `ClientHasPassword` is inductive with
  `PassInv`: a client that is waited for and has not read the file yet will read the configured
  password, and a panel that is down has no request half done.
- `NamesProofs`. One invariant over the threads' stacks (`NamesInv`): every frame that waits
  is one that its callee's caller can be (`GoodStack`), what a thread holds between an
  answer and its use fits the frame on top (`HeldFits`, `RetFits`), and for each cache age and
  time left add up to at most a lifetime and a lookup (`CachesInv`). Freshness of verdicts
  and answers, the fit of answers, the bound of both caches and the broken ring follow.
- `MobileProofs`. Of `Tun2sock`: only the holder of a protector's mutex writes to its
  connection, and a connection that may still be read holds, behind at most a byte left of
  a refusal, nothing but the holder's request or the answer to it; with such a byte before it no
  answer reads as ok; a connection whose deadline has passed is never read again. So an ok is
  the answer to the descriptor that was sent (`TunInv`, `OwedTo`, `OnlyMarkedConnect`).
  Of `EngineCore`: `RunningMeansAlive` and `LatestIsCancellable` are inductive.
  Of `FakeIPPool`: `InverseMaps` is inductive with the types; with
  `next = |d2i| + 1` and the taken addresses being exactly those below `next`, the first
  candidate is always free (`FirstTryIsFree`), which is why the loop of `obtain` ends.
  `RightName` and `AddressStable` follow step by step.

Three modules of proofs are about more than one specification, whose variables and actions
therefore have different names: `CoreSpec`, `PoolSpec`, `StreamSpec` and `CodecSpec` are what
other modules call `Spec`.

Only model-checked: everything temporal beyond `[]` (`HandshakeEnds`, `RemoteEndReleases`,
`DialEnds`, `CancelledGoes`, `DataArrives`, `BothEnd`, `DialsEnd`, `FlowsEnd`), because the prover
cannot handle liveness under fairness nor ENABLED. Every invariant and every action property
that a run checks is also a theorem.
No module declares a RECURSIVE operator.

## 6. Not modelled

- Cryptography, HTTP and JSON parsing beyond what a guard asks, pages, scripts, the
  user-space network stack.
- Log rotation (`logrotate.go`): one writer and one file; a failed reopen stops the log.
- The tun device's packets and `EAGAIN`, platform glue (`mobile/`, Kotlin, ArkTS): `EngineCore`
  takes any order of its calls.
- The DNS listeners and the framing of `DNSOverTCP`; the parsing of CIDR lines and the private
  ranges of `DirectOK`; the PAC server, `ProxyOverride` and several network services of a Mac.
- The life of a trusted fingerprint in a client process (`client.go:69-76`): read once, one
  assignment. What the server owes it is `PinnedIsOnDisk`.
- The system proxy, in small: a failing `RegOpenKeyExW` ends the panel (`log.Fatal`), and a kill
  in the middle of `applyProxy` is one before or after it. A kill between `killChild` and the
  save in `SaveConfig` is a client that exits and a kill; a request between `Stop` and
  `os.Exit` is a `Stop` and a `Kill`. A `web.json` that cannot even be opened for writing keeps
  its old content for good.
- The routes by which Android keeps the server out of its tun. What the host of HarmonyOS does
  with a request whose connection is closed: it would mark more sockets, never fewer.
- The command line, but for `-auth` and `-rotate-pass`.
- The plain-number format of an old `traffic.txt`. A power failure that loses what the kernel
  had accepted: only the death of the process is a crash here.

## 7. What is left

1. A composition of `Panel` with `ServerFiles`: two panels, or a lost reply, and one server's
   password.
2. An abstract specification of the relay (two FIFO channels that close together) with `Stream`
   as its implementation, in place of `Carried`.
3. The DNS listeners with the system resolver's retries, beside `Names`.
