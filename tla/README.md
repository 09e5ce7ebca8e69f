# EntGuard in TLA+

EntGuard orchestrates WireGuard VPNs: an orchestrator keeps servers, users,
devices and their adjacencies in PostgreSQL and pushes every change to VPN
server instances, which apply it to the kernel or to VPP; clients log in for a
configuration and are told by the end of their session that it is out of date.
These modules specify the parts where processes, goroutines, statements and
the kernel must agree on who may connect with what.

Paths below are relative to `src/`.

## 1. Inventory

| Component | State it keeps | Operations | Hard to get right |
|---|---|---|---|
| **Configuration watchers** `service/rpc/vpns.go`, `service/vcm/postgres.go` 1990-2135, `pkg/conc/map.go` | registry tag -> channel; status per server; `running_replicas`; a goroutine per stream | `SubscribeWG`, `WatchWireGuardConfig` and its cancel, `notifyWGConfigChanges`, `receiveFromServer` | reconnects that race with the old stream; unbuffered hand-over with a timeout; state keyed by tag, by server and by stream |
| **VPN server agent** `cmd/vpn_server/vpns/vpns.go` | the configuration it believes in, its WireGuard client, its stream | `Connect`, `ReconnectOnError`, `Disconnect`, `processWireGuardUpdates`, `reconfigureWireGuardVPN` | differences applied step by step with errors in between; the rebuild from scratch |
| **Linux and VPP WireGuard clients** `cmd/vpn_server/vpns/wireguard` | the device, its peers and routes; what the client remembers of them | `AddWireGuard`, `UpdateWireGuardInterface`, `AddPeers`, `DelPeers`, `Close` | many calls per operation, each of which may fail; exclusive route additions (Linux), roll-backs and what a dead client leaves (VPP) |
| **Notification pipeline** triggers in `db/migrations/postgres`, `HandlePeerUpdates`, `HandleServerUpdates`, `HandleSessionsUpdatesForHealthcheckService` | PostgreSQL's queues; a goroutine per channel | one handler each | order between the channels; data read later than announced; process death on the first error |
| **Configuration manager (VCM)** `service/vcm` | servers, interfaces, adjacencies, templates | CRUD, resynchronisation, the healthcheck address of a server | checks and writes in separate statements, many rows one by one |
| **Healthcheck sessions** `service/rpc/healthcheck.go`, `cmd/healthcheck` | the watcher's channel; a map of sessions | `SubscribeForSessionsUpdates`, `ReconnectOnError`, pings | sessions read before the subscription; a map replaced while it is used |
| **User and device manager** `service/user` | users, passwords, TOTP secrets, devices, slots, pools, addresses | CRUD, `AssignDeviceSlot`, `ResyncDevices`, allocation | decisions on what was read before; sessions invalidated last |
| **VPN client RPC, MFA** `service/rpc/vpnc.go`, `auth.go`, `pkg/mfa` | sessions; the last TOTP counter | `GetConfiguration`, `MFAAuthenticate` | replay of one code by two logins; a login around a change |
| **Certificate provider, secrets** `pkg/certs`, `pkg/crypto/aesgcm`, `cmd/egvpn/cmd/crypt.go` | CA, used tags, encrypted columns | start, issue, `egvpn crypt` | statements with a crash in between; a tool beside the orchestrator |
| **Address arithmetic** `pkg/ip`, `pkg/addresspools` | none | ranges, overlap, first free address | boundaries of ranges |
| **egvpn** `cmd/egvpn` | containers, volumes, files, kernel settings of a host | `config init`, `start`, `stop`, `restart` | sequences of external calls without undo, two terminals |
| **Rate limiter, REST API, orchestrator process, LDAP, telemetry, UI** | see `PROJECT.json` | | |

How they interact. A VPN server instance calls `GetConfiguration`, configures
its device and then opens `SubscribeWG`; the handler registers a channel for
the instance's certificate tag. A transaction on `adjacencies` or on the server
tables makes a trigger call `pg_notify`; the goroutines `HandlePeerUpdates` and
`HandleServerUpdates` each listen on a channel of their own, look the watched
tags up and hand the notification to each handler in turn (five seconds at
most); the handler sends it on its stream and waits for the answer, which
becomes the server's status. A third goroutine does the same with changes of
sessions for the healthcheck service, which answers clients' pings: a client
whose session is gone asks for its configuration anew. So everything that
changes what a client was given has to end its session, in one more statement
after the change. REST handlers call the managers, which have no transaction
around most of what they do. Any error of a goroutine started by
`cmd/orchestrator/main.go` 138-151 ends the process.

What makes each component correct:

- *Watchers*: one handler per tag; a handler never loses its entry; no stuck
  instance holds the others for ever; the status tells the truth.
- *Agent and clients*: what the device has is what the instance believes, unless
  it reported a failure; a removed peer cannot connect.
- *Pipeline*: every change reaches every subscribed instance, in an order that
  leaves it with what the database has.
- *Sessions*: a revoked session reaches the healthcheck service, and whatever
  changes a client's configuration or credentials ends its session.
- *Tables*: limits, distinct names and addresses, one adjacency per pair, although
  the database enforces none of them; every row that must follow another does.
- *MFA*: a code is accepted once.
- *Secrets*: one key for all, nothing lost; certificates hold until they are meant not to.
- *Host*: what was saved, started and removed fits together after any failure.

`PROJECT.json` lists the hazards line by line, with the properties that cover
them or why none does.

## 2. Modules

```
TagLease <--implements-- ConfigWatch <--EXTENDS, implements-- PeerSync <-- OperationProofs
                                                                 |          (and Egvpn)
                                                                 | EXTENDS
WgCommon <-- LinuxWg, VppWg <--INSTANCE-- WgClient <--------- VpnsAgent <-- AgentSync
SessionSync   DeviceSlots   Accounts   Servers   Secrets   Adjacencies   Addressing   Egvpn
     ^             ^            ^         ^         ^           ^            ^
     SessionSyncProofs, DeviceSlotsProofs, AccountsProofs, ServersProofs, SecretsProofs,
     AdjacenciesProofs, AddressingProofs
```

**ConfigWatch** models the orchestrator's side of the streams. `handler[c]` is
the program counter of the `SubscribeWG` goroutine of stream `c`, one state for
each point where it can block or another goroutine can come between;
`watchers` is `configWatchers`, `status` the status store, `replicas` the
column `running_replicas`, `notifying[n]` the channel goroutine `n` is in the
`select` of `notifyWGConfigChanges` with, `exchange[c]` the notification on the
wire and its answer. The deferred calls are actions (`Cancel`, `Return`),
because other goroutines run between them. `GiveUp` is the five-second timeout:
it may fire whenever nobody is receiving. Hang-ups, refused streams, a server
that is deleted meanwhile and a restart of the process are modelled.

**TagLease** is the abstract specification of the registry: a slot per tag, held
by one stream at a time, passed on only by becoming empty, and never given to a
stream that has released or been refused one. `Lease` in ConfigWatch is the
refinement mapping: the holder is the registered stream, and a stream is retired
when its handler is past its cancel.

**LinuxWg** and **VppWg** give every operation of a client as the set of its
outcomes, over a device of peers, routes and interface configuration; **WgCommon**
is what they share and **WgClient** the interface behind which the agent has
one or the other. `Faulty` lets any call fail for reasons of its own, at each
point where the code returns an error, with what was done before it. VppWg has
the client's own record of peers and routes beside VPP's, the roll-backs, and
what a client that is gone leaves in VPP.

**VpnsAgent** composes them into the agent's handlers, again as sets of
outcomes: `Reconfigure` is `reconfigureWireGuardVPN` with the rebuild from
scratch, `HandleAddPeer` and `HandleDelPeer` are the peer notifications,
`Connect` and `Reconnect` the configuration that was asked for.

**AgentSync** puts one instance, with either client, on a channel that loses
nothing, with several devices, allowed IPs that overlap, changes in the
database and failures of the device.

**PeerSync** is the composition: transactions, PostgreSQL's queues, the two
goroutines, the streams of ConfigWatch (extended: its actions are conjoined
with what is sent) and instances that apply notifications as VpnsAgent says.
`trouble[t]` is a history variable: what came between the instance's last
request for the configuration and now that may put it out of sync.

**SessionSync** is the third pipeline: the trigger on `devices`, the goroutine
that turns a change into a deletion and an addition if the device is monitored
by then, the handler of a stream and the shared, lazily created channel, and
the healthcheck service that reads all sessions, subscribes, handles
notifications and starts again when the stream breaks. `lost[s]` records why an
announcement did not reach the list.

The next five modules have one shape. A request (`call[c]`) is a record of the
statement it will execute next and of what it has read; each statement is an
action, since the managers have transactions around few of them and
PostgreSQL's default isolation lets any other statement come between. A failed
statement ends the request with what was done before it.

- **DeviceSlots**: the devices of one user while clients ask for their configuration
  (`AssignDeviceSlot`, then the queries of `GetConfiguration`) and administrators
  create, update, connect, disconnect and delete devices; expiry of sessions,
  restart with `EnforceDPULimit`.
- **Accounts**: users with name, password, MFA type, TOTP secrets and the
  certificate authority of clients; a login passes `BasicAuth`, the second factor
  and stores its session, each in statements of its own, while administrators
  change what it was checked against and invalidate sessions last.
- **Adjacencies**: adjacencies and their templates: create, update, delete, the
  interfaces they must fit, deletion of servers and devices, creation of a device
  from templates, and the resynchronisation of all devices with the templates,
  which is a long sequence of such statements.
- **Servers**: a server's record and interface, its healthcheck address and the
  entries (adjacencies, templates, LDAP templates) that must allow it, to which a
  change is carried one by one.
- **Addressing**: pools, device templates and addresses, on addresses of `Width`
  bits. The arithmetic of `pkg/ip` and `pkg/addresspools` is a set of operators
  (`Subnet`, `Usable`, `Overlap`, `FirstAvailableAddress`), and the resynchronisation
  categorises and allocates as `ResyncDevices` does.

**Secrets** has the encrypted columns, `egvpn crypt` as one transaction of many
statements that locks what it has updated, orchestrators that start on a key and
load, make or replace the CA, issue certificates and check them by CA and tag.

**Egvpn** has the commands `config init`, `start`, `stop` and `restart` as lists
of steps that two terminals work through, over a host of files, containers,
volumes and huge pages. Every step may fail or be the last; a `stop` prints what
fails and goes on.

**MC...** modules give TLC its values. Definitions marked *Variant* belong to no
specification: each is the definition that follows it with a plausible bug,
listed under `mutants` in `PROJECT.json` with the property that detects it.

### History variables

What the code does not exclude is named by a history variable and excused by
the property, so that the property says exactly what is left: `raced`,
`unsafe`, `crossed`, `disturbed` (requests that overlapped, with the rows or
names they touched), `stale` and `unchecked` (rows written from what was no
longer so), `moved`, `aborted`, `excuse` (why a session may be outdated: "late",
"overlap", "failed", ...), `trouble`, `lost` and `causes`. Each is set by the
actions that take part in the overlap and by no others, and no guard reads one
except where a bound (`MaxCauses`) counts them. TLC reaches each of these causes.

### Abstractions and assumptions

- A key, an address, a destination, a name, an interface configuration is a model
  value; logging, metrics and formatting are left out, as are permissions.
- `status` is a single store: `nil`, an error, `ErrDisconnected` or unset.
- A connection is used once; whoever reconnects opens another.
- A process of an instance that starts on Linux finds no WireGuard device of its
  own; on VPP it finds what the last one left. A failed `Connect` ends the process.
- The stream's context is cancelled whenever `SubscribeWG` gets to its cancel
  function after a hang-up, so the query it runs in that context fails.
- `GetConfiguration` and `HandleServerUpdates` read the interface and the
  adjacencies in two queries; one reading stands for both, because the two change
  independently and each change is notified on its own.
- The keys of devices are distinct. The database does not enforce this; two
  devices with one key would be one peer to the kernel.
- PeerSync takes peers whose allowed IPs do not overlap (`Distinct`), AgentSync
  takes any that `CreateAdjacency` and `UpdateAdjacency` let through.
- The rate limiters of the agent and of the healthcheck service may drop any notification.
- Goroutines within an instance are one step per notification.
- VPP, as `VppWg` takes it: adding a peer whose key exists fails, adding a route that
  exists and removing one that does not succeed, preshared keys are not passed on.
- DeviceSlots: identifiers are never reused (a sequence); `key` stands for a key
  pair with its addresses; `peered` for the adjacency of the user's template, all
  runs have one (`HasServer`); an unset `last_time_connected` is 0, which sorts
  first as the queries ask (`NULLS FIRST`). `CreateAdjacency`'s checks and its
  insertion are one step there; Adjacencies takes them apart.
- Accounts: the name stands for the notification text too, which is compared and
  stored with it; a code is the number of its period.
- Servers has of an adjacency only what concerns the healthcheck address, Adjacencies
  the rest. Only a server of the LDAP template may be given an empty list of allowed
  IPs (`Allowed`): its handler asks for none, those of adjacencies do; the list then stays
  empty unless the server has a healthcheck. Entries of both kinds may move to another server. A
  listing or an update that fails while the address is carried ends its pass
  (`CarryFails`), as an update does that would leave a list without a member.
- Adjacencies: an update that brings no server-side list keeps that of the row, also
  when the row moves to another device (`Kept`, the COALESCE of the query).
- Addressing: names of pools are left out; `DeleteDevice` is one step, since its
  statements are the subject of Adjacencies. In some initial states a pool has been
  changed since its template named it. A resynchronisation notes a device in which a
  statement fails and goes on with the next (`FailDevice`); only a device that it got
  through with is said to be in line. Addresses are of one family: `SpanAssumption` leaves
  out the IPv6 ranges that `ValidateAddressPool` (`service/user/address_pool.go:176`)
  lets in, and for which `ToBroadcastAddress` (`pkg/ip/ip.go:40`) has no answer but a panic;
  `service/user/device.go:947` says that IPv6 is not supported yet.
- Secrets: the five tables with secrets beside `root_ca` are one, which the tool
  takes before `root_ca`. A ciphertext is the pair of its key and its content.
- Egvpn: the paths a command takes lead to one directory; images, a telegraf
  configuration of the operator's own and three more kernel settings are left out.
  A write of the options or of the name that fails leaves the old file or nothing that
  can be read, since the file is emptied first; a generated file is written whole or not
  at all. The day-0 file may end before its end (`ScanFails`): the loop that applies its
  lines does not ask for the scanner's error.

## 3. Runs

| Run | Asks | Bounds |
|---|---|---|
| `config_watch` | registry, status, exchange, lease; does a notifier get free, is a broken stream's tag freed | 2 servers, 3 tags (two of one server), 2 streams, 1 notifier; 361,000 states |
| `agent_sync` | does an instance without failures stay in sync, is a confirmed deletion effective, on Linux and on VPP | 2 keys, 5 peers (3 on VPP), 2 interfaces, 2 notifications under way, 1 failure; 608,000 states |
| `peer_sync` | does an instance without trouble have what the database has | 1 instance, 2 streams, 1 device, 2 transactions; 755,000 states |
| `peer_sync_live` | do the queues drain | 1 stream; 858,000 states |
| `device_slots` | is a limit, a distinct external id or the currency of a session lost by anything but the named overlaps | 3 calls, 2 external ids, 2 keys, limit 1, 2 devices ever; 859,000 states |
| `session_sync` | does the healthcheck service's list follow the sessions, does it settle, does an error lead to a fresh list | 1 device, 2 sessions, 2 streams, 2 requests, 2 reconnect attempts; 461,000 states |
| `accounts` | is a code accepted once, does a session follow the credentials, are names distinct | 3 calls, 2 names, 3 users ever, 2 periods; 1,006,000 states |
| `adjacencies` | do adjacencies keep what they were checked for, do sessions follow, is a resynchronised device in line | 2 requests, 2 servers, 2 devices, 3 addresses, 2 routes; 1,956,000 states |
| `servers` | does the healthcheck address reach every entry and leave with the server's, do sessions follow | 2 requests, 2 servers, 2 addresses, 1 device, 3 lists of allowed IPs, one of them empty; 1,437,000 states |
| `addressing` | is an address given once, does the search find the least, does a resynchronisation leave devices in line and take no more than it must | 2 requests, 2 devices, 1 template, 2 pools, 3 bits; 1,421,000 states |
| `secrets` | one key, nothing lost, certificates valid as long as meant | 2 rows, 2 keys, 2 orchestrators, 1 tag, 2 CAs, 1 kind of trouble; 2,662,000 states |
| `egvpn` | do saved options, containers, volumes, files and huge pages fit together after any sequence of commands | 4 commands, 2 terminals, 2 directories, 2 names, 2 day-0 lines, 1 kind of trouble; 2,978,000 states |

An invariant whose name ends in *Sound* is the conjunction of a module's type
invariant with its properties about single states of the tables; each conjunct
is named and has a mutant of its own.

Why the bounds are enough. ConfigWatch: what goes wrong with a registry needs a
holder and a contender for its tag, and the status, keyed by server, a stream of
the server's other instance; notifiers do not touch each other's state, so one
is every one. AgentSync: an instance moves at most one peer against another at
a time, so two peers with crossing destinations show every conflict of routes,
and two messages are what one update sends; one failure is enough to put belief
and device apart, and a second begins where the first led. PeerSync and
SessionSync: the conflicts are between one notification of each goroutine and
between a stream and its successor. The modules of requests: an overlap is of two
requests, and a session adds a client (DeviceSlots, Accounts: three calls), while
where the session is a flag of the device, two requests are enough. Each call is
made once, so a history is bounded by the number of calls and not by time.
Addressing: three bits hold two subnets of four addresses in one of eight, so
that a range may end with its subnet, begin within it or overlap another.
Secrets, Egvpn: `MaxCauses` bounds how many different kinds of trouble one
behaviour has, not how often; one is enough, because a property excuses each on
its own. `CHECK_DEADLOCK FALSE` is set only where the bounded inputs (streams used
once, requests counted) let the system stop.

Runs without liveness use symmetry where model values are interchangeable.
`peer_sync` has a VIEW that leaves out the status store and the replica counter,
which no guard reads, and the kinds of trouble where only its presence matters.
The VIEW of DeviceSlots leaves out the local variables of calls that have ended,
and configurations whose session is stored nowhere.

### Fairness

Weak fairness of each handler goroutine, of each notifying goroutine and, in
SessionSync, of the healthcheck service's own goroutines: the Go scheduler runs
what can run, and `time.After` fires. Nothing is assumed of VPN servers, of the
network, of clients or of who restarts a process: they may never answer.
`NotifierGetsFree`, `BrokenStreamFreesTag`, `QueuesDrain`, `RevocationSettles` and
`ErrorLeadsToFreshList` hold under that alone.

## 4. What the checks show

Streams: a tag is registered exactly while one handler serves it, although cancel
deletes by tag without looking at the owner (the write lock and the order of the
deferred calls are what make it so); no status other than "disconnected"
outlives the last handler; an instance never owes two answers. Agent:
reconfiguring by differences keeps belief and device equal as long as no call
fails, over either client; a confirmed deletion has removed the peer even if
earlier calls failed, on VPP also from interfaces that a dead client left. An
instance in service is out of sync only for one of five recorded reasons: it
reported a failure, a notification was lost, timed out or was dropped, or a
snapshot and a notification crossed. The healthcheck service's list differs
from the valid sessions only while an announcement is under way or after one was
skipped or undelivered.

Tables: a session ends after every change of what it was given for, but for a
failed last statement, a change computed from what another request had
overwritten, and a login that stores its session after the change was complete.
Limits, names, external ids, pairs and addresses are distinct unless two
requests overlapped. A TOTP code is accepted once because the conditional update
decides, not the check before it. A resynchronisation leaves devices exactly in
line with templates and pools in whatever order it reads them. Secrets: with the
tool alone on the database, nothing is lost or left under two keys wherever it
stops. Host: a restart fails only for a reason outside the tool.

Two errors pass for success, and the properties name them among what they excuse. A
statement that fails while `UpdateServer` carries a healthcheck address to the entries
is only logged (`service/vcm/postgres.go:511-526`), and the request ends the sessions and
succeeds: the entries after it lack the address, or keep the one of the past (`aborted`),
until a later change gets through. A start whose day-0 file cannot be read on
(`cmd/egvpn/cmd/start.go:254`) goes on with VPP configured in part (the cause "unread").

Disagreements between the code and what the repository says, each stated as a
property that TLC refutes with the configuration named (no run lists them):

1. `AgentSyncScratch.cfg`, **the rebuild from scratch fails whenever there are
   peers** (`cmd/vpn_server/vpns/vpns.go:455`): `AddWireGuard` has added the routes
   that `AddPeers` adds again, and adding a route is exclusive. Line 438 relies on
   the rebuild.
2. `PeerSyncGap.cfg`, **changes between `GetConfiguration` and `SubscribeWG` are lost**
   (`service/vcm/postgres.go:2122`); `README.md:11` promises "keeping every peer in sync".
3. `PeerSyncCrossing.cfg`, **a snapshot can overtake a peer's notification** and
   remove the peer (`service/vcm/postgres.go:313`).
4. `DeviceSlotsOne.cfg`, **a user can exceed the limit of devices**
   (`service/user/device.go:300`); `docs/entguard-guide.md:1156` says "Open source
   version of EntGuard allows one device per user".
5. `DeviceSlotsKey.cfg`, **a key can change without ending the session**
   (`service/user/device.go:486`): the comparison is with a row read before the
   transaction. `service/user/session.go:132`: "Private & public key - yes".
6. `SessionSyncDeleted.cfg`, **the end of the session of a device deleted with its
   template is not announced** (`service/vcm/postgres.go:1992`): its adjacencies are
   gone when the notification is handled. Line 1991 clears the sessions "to trigger
   healtcheck sessions updates".
7. `AdjacenciesServer.cfg`, **deleting a server leaves the sessions of its devices**
   (`service/vcm/postgres.go:691`); `service/user/session.go:142` asks for it "if
   some existing adjacency is deleted".
8. `AddressingSession.cfg`, **a resynchronisation changes addresses and leaves the
   session** (`service/user/device.go:810`); `service/user/session.go:133`:
   "Addresses - yes".

Stated in the modules without a configuration: `ReplicaCountExact` (ConfigWatch:
`running_replicas` is decreased in a cancelled context,
`service/vcm/postgres.go:2024`), `DisconnectedMeansGone` (ConfigWatch: the deferred
status update at `service/rpc/vpns.go:122` is keyed by server),
`ShownInSyncIsInSync` (AgentSync: at `service/rpc/vpns.go:295` a success clears an
earlier error), `SessionMatchesDevice` (DeviceSlots: at
`service/user/device.go:567` a session is stored in a device that another client
has overwritten since it was found). Not modelled as a property: `egvpn restart`
promises the options "that were set during start, unless they are overwritten"
(`cmd/egvpn/cmd/restart.go:38`), but its `--service` has a default that always
overwrites the one saved.

## 5. Proofs

`OperationProofs` has the proofs about the operation of VPN servers: of the streams, of what
travels over them, and of `egvpn`, which shares no state with the others. Of ConfigWatch it proves, for any sets of servers,
tags, streams and notifiers, from `TagAssumption`, `NoneAssumption` and `DeploymentAssumption`:
`TypeCorrect`, `RegistryCorrect`, `StatusCorrect`, `ExchangeCorrect`, and
`LeaseCorrect`, that ConfigWatch implements TagLease.

The inductive invariant is `IInv == TypeOK /\ RegistrySound /\
StatusNeedsHandler /\ ExchangeInv`. `RegistrySound` is inductive as an
equivalence: as the implication "registered implies held" alone it would not
be, because cancel could then remove another handler's entry.
`OneOutstanding` is not inductive: it speaks of handlers that are listening
or sending, and a handler gets there from "subscribed", so `ExchangeInv` extends
it to the states before the first notification. Each conjunct has a lemma with a
step per action. `LeaseCorrect` maps each step to `Acquire` (Watch), `Release`
(Cancel), `Refuse` (a handler that leaves without having registered), `Reset`
(Restart) or a stutter; `Acquire` needs `RegistrySound`, to know that a handler
that is about to register holds nothing else.

Of PeerSync it proves, for one server (`OneServerAssumption`), any instances and streams, any
peers, interfaces and numbers of rows and changes, from `NotifierAssumption`, `SizesAssumption`
and `MessageAssumption`:

- `PipelineRefines`, that the pipeline implements ConfigWatch, and so `PipelineRegistry`: every
  invariant of ConfigWatch, and the lease, hold of it. Each action is a step of the registry and
  its streams or leaves them alone. Only the instances need an invariant for that (`Joined`): one
  that is subscribed reads a stream, so that what it does to "its" stream is done to one.
- `PipelineTypeCorrect`, which is not inductive: that a goroutine is handing over implies that it
  has something to hand over, which depends on where it got it. `PipeInv` follows a notification
  from the tables (`Stored`) through the queues (`Queued`) and the goroutine, which first
  deletes and then resolves the preshared key and adds (`Working`), to the stream
  (`MessageThere`) that an instance reads (`Reading`).
- `ReceivedOnce`: what an instance finds on its stream was sent on it, and on no stream do
  two instances read. That a stream has one reader comes from the registry's `tagOf`, which no
  step changes while the stream is open (`StreamKept`).

Of Egvpn it proves, for any terminals, directories and names, any options and any numbers of
lines, pages, commands and kinds of trouble, from `BoundAssumption`, `OptionsAssumption` and
`AbsentAssumption`: `HostCorrect`, `StartsCorrect`, `StopsCorrect` and `RestartsCorrect`, all
from `HostInv`. None of the four is inductive, because what a command leaves behind is the
sum of steps between which anything may happen. The invariant has:

- which steps each command has left (`Forms`). All commands have their steps in one order,
  `Rank`; so a list of steps is known by its set (`Sorted`, `Left`), except for the lines of
  the day0 configuration, which are counted (`LinesLeft`). The lemmas on lists
  (`TailLeft`, `ConcatSorted`, `StoppingForm`, `StartingForm`) rest on that and need no
  induction.
- that of two commands that would be in each other's way one is not under way, unless it
  is recorded that they were (`Alone`).
- what a command has brought about, as far as it depends on it (`Knowing`): a stop has no
  container it has removed (`StopKnows`), a start has saved its options before it runs anything
  and has the pages it asked for (`StartKnows`), its files are there and what it has run is
  up, and the lines left and the lines given make up the whole (`UpKnows`).
- for telemetry, that an initialisation has its note of the name still to make (`Naming`), that
  the files it will write are missing (`FilesMissing`), and that every certificate's
  name is the one noted or about to be (`Agreeing`); for a restart, that the saved directory
  has all that a start needs (`Restartable`).

`StopKnows` and `Restartable` together give `RestartSucceeds`: nothing that a restart can
find after its stop makes it fail.

`DeviceSlotsProofs` proves, for any sets of calls, external ids and keys, any
limit and any number of devices, from `LimitAssumption`, `ServerAssumption`,
`SessionAssumption` and `NoneAssumption`:

- `SlotsTypeCorrect`, and `LimitCorrect`, that the limit of devices is exceeded only
  after two calls were between the check and the insertion together.
  `LimitUnlessRaced` is not inductive: a call at the insertion must still have room.
  The invariant `IInv` adds `Room`: as long as nothing raced, at most one call is at
  the insertion, and the devices are fewer than the limit. Most steps are `Quiet`,
  adding no device and bringing no call to the insertion, and one lemma covers them;
  the counting rests on the library's facts about cardinality.
- `DistinctCorrect` and `SessionCorrect`, external ids and the currency of sessions,
  both from `SInv`. A call decides on what an earlier query found, so the invariant
  says what each program counter knows: a client's call that still looks for a device
  has seen none with its id, one that has a device has the only one (`IdsKnown`); a
  session is stored in the device whose configuration its call goes on to read
  (`SessionsKnown`); and what it has read is current unless an invalidation is pending
  (`ReadsKnown`). Each is claimed only while the overlap that would break it is not
  in `raced`.

`AccountsProofs` proves, for any sets of calls and names and any numbers of users and
periods, from `FirstAssumption`, `UserAssumption`, `ClockAssumption` and
`NoCallAssumption`, one invariant per question on top of the types (`Typed`):

- `UsersCorrect` (`NamesInv`): a name that a request has found free still is, and no
  second request is about to write it, or it is in `raced`.
- `CodesCorrect` (`CodesInv`): `CodeAcceptedOnce` speaks of two logins that have
  ended, and one of them was under way. The invariant adds that the counter of a secret
  is never below a code accepted for it (`CodesUsed`), that a login whose code another
  has used can no longer pass the conditional update (`CodesTaken`), and that secrets
  are made by the requests that write them, so that none comes back (`SecretsKnown`).
- `SessionsCorrect` (`SessionsInv`): a stored session is that of a login which has ended.

`SecretsProofs` proves, for any sets of rows, keys, orchestrators and tags and any
number of CAs and contents, from `BoundsAssumption`, `IdsAssumption` and
`KeyAssumption`: `SecretsCorrect`, `CertificatesCorrect` and `RetirementCorrect`. The
invariant `IInv` has what the tool knows while it is alone: the rows it has still to
update are as it read them, those it has noted are what they must become, and between
the two none is missing (`ToolKnows`). Without the last, the commit could leave a row
under the old key; without the first, an update could bring an old content back.
`KeysAgree` has one key for the rows and all who are up, `OneCA` one CA that all who are
up serve and all certificates in force are of; they hold as long as the causes that
break them are not recorded. `Numbers` has that a CA's identifier is given once:
`RetiredRejected` is not inductive without it.

`SessionSyncProofs` proves, for any devices and any numbers of sessions, streams,
requests and attempts, from `BoundsAssumption`, `AttemptsAssumption` and
`NoSessionAssumption`: `SessionsListed`, and `OneExchangeAtATime`, which states the part
of the invariant that makes the first true. `SessionsSound` says that the list is wrong
only while an announcement is under way, and not in which order announcements come: an
addition applied after the deletion would stay for good. The invariant follows a session
along its way: in the queue (`QueueKnown`), with the goroutine (`JobKnown`) and on the
stream (`SentKnown`) its addition is ahead of its deletion, the deletion is announced only
after it has ended, and a stream that the service has left carries nothing (`Exchanges`,
`ServiceKnown`).

`ServersProofs` proves, for any requests, servers, devices, addresses and lists of allowed
IPs, from `GiftAssumption`, `NetworkAssumption`, `CallAssumption`, `FirstAssumption` and
`NoneAssumption`:
`EntriesCorrect`, `HealthcheckCorrect` and `ServerSessionsCorrect`. A change of the
healthcheck address is carried to the entries one by one from lists that were read
before, so that `HealthcheckCovered` is broken by any step of another request if one does not
know where the carrying request stands. `Address` says it: which entries may still lack the
new address or keep the old one (`CarriedTo`, by pass, kind and what is still to do), that
a server is as the carrying request has written it unless it is in `crossed`
(`AloneOrCrossed`), and what a request that writes an entry has read (`AsRead`).
`SeenAgree` has that an entry with an identifier a request has read is of the same kind
and device still, because identifiers are given once, although an update may have moved it to another server
or changed its list. A pass that fails is recorded, and the
invariant asks nothing more of the entries it has left. `CarriedTo` is stated on a list of
entries and an address alone, so the steps of the loop are lemmas without primes.

`AdjacenciesProofs` proves, for any requests, servers, devices, addresses, interfaces and
routes, from `OwnAssumption`, `IfaceAssumption`, `OfferAssumption`, `LinkedAssumption`,
`HomeAssumption` and `NoneAssumption`: `RowsCorrect` and `AdjacencySessionsCorrect`; and,
with `ServerAssumption`, `DevicesCorrect`. A row
is sound because of what the request that wrote it had read, perhaps many statements
earlier, so the invariant speaks of that (`Knowing`): of the pair a request will write it
has seen at most the row it will replace (`FreeForSeen`), after the check nothing it has
seen clashes (`ClearOfSeen`), and of the servers a resynchronisation has still to come to it
has seen only the rows it will change (`Resyncs`). A row it has not seen is new, and then
`raced` names both. All of this is about a record of the request and the history alone, and
survives the steps of others because the history only grows (`KnowsMore`); most statements
only move their own request (`Reads`), and one lemma (`RowWritten`) has the argument for the
two that write a row. `Numbered` has that a row's identifier is given once.

`DevicesInLine` speaks of the end of a request, and of one that counts: as many rows as
templates, one per server. `Aligning` has what each stage has achieved for the device in
hand: a row of it is that of a template, or of a server still to come, or about to be written
or deleted (`ResyncAligns`); a new device has rows for the templates it has come to and no
others (`CreationAligns`). It is claimed of a request that no other has disturbed, and
`HarmlessOrNoted` has that every statement of another which could matter is noted. The
numbers follow at the end, from a bijection between the rows and the servers, which are
finitely many.

`AddressingProofs` proves, for any requests, devices, templates and ranges, any width of
an address and any finite set of pools, from `WidthAssumption`, `SpanAssumption`,
`PoolAssumption`, `GivenAssumption`, `ReservedAssumption` and `NoneAssumption`:

- `FirstAvailable`, about the operator alone: whatever is in use, the search returns the
  least usable address of a range, or nothing if there is none. It goes one address up
  until it is past the range or finds one unused. The least such address exists because
  numbers are well-founded, and the recursive function that finds it exists because one is
  given; so the proof needs no induction rule. `OneSubnet` has that the addresses of a
  valid range are of one subnet, which is why it is enough to step over the network address
  at the start and to stop at the broadcast address. `FirstFreeFound` states it of every
  request.
- `Categorized`, about the operator that sorts a device's addresses, by the same means:
  what is kept fits to the covered pools, one address each, has nothing new and nothing
  twice, and is everything if it is as long.
- `TypeCorrect` (`Typed`): which fields of a request have a value at each stage
  (`StageForm`), and that a listing names a pool once (`Listing`).
- `PoolsDisjoint`: `LookedAt` has that what a request for a template has looked at is still
  disjoint if nobody has changed a range of it since.
- `AddressesCorrect`: an address is chosen long before it is written, so that
  `NoAddressTwice` says nothing of it. `Chosen` does: the addresses that a request has
  found are free, pairwise different and each of a pool it has covered (`Fresh`,
  `InCovered`); and those a resynchronisation keeps are the device's own (`Kept`). It is
  claimed of a request that was alone; `AloneOK` has that another which writes is then not
  under way, so that no step of another can break it.
- `ResyncCorrect` (`AllBrought`): of the device in hand, what was read is what it has, in some
  order; what is kept, with what was found, has one address of each covered pool; and
  all pools are covered before it is written. The last step counts: an injection onto the
  pools makes the numbers equal. A device that needs no change is in line because what
  is kept is then all it has.
- `ResyncSpares`, the action property `ResyncTakesLittle`, from the same invariant
  (`Sparing`): the device in hand is still there; the only address of a pool finds the pool
  uncovered and so is kept, if for another (`LoneFound`, `SameLone`); and a device to be
  deleted lacks an address of a pool in which the search has found nothing.
- `DeviceSessionsEnd`: the invariant is inductive with `Typed`.

Every strengthened invariant was first checked by TLC on the instance of its module's run.
The temporal theorems follow one scheme: an *Effect* lemma says what a statement does
to the request that executes it and to the tables; lemmas on frames say which conjuncts
survive a step of that kind; one lemma per statement or per conjunct combines the two.

### Assumptions

`TagAssumption`, `LimitAssumption`, `BoundsAssumption` and the like give constants their
types. `WidthAssumption` adds that the sizes of subnets, powers of two, are positive
numbers, `PoolAssumption` that the pools and `ServerAssumption` of Adjacencies that the
servers are finitely many; `OptionsAssumption` has the options within what the commands'
flags can be, a start's without a path to a telemetry configuration; `SpanAssumption` has the
ranges that `ValidateAddressPool` lets in. `IdsAssumption` (rows of data and CAs have different identifiers) and `CallAssumption`
(requests and kinds of entries, from which the initial identifiers are made, are
different things) are about the model's own coding; `NetworkAssumption` has that
the network which contains every address is none of them. The
`None...Assumption`s and `AbsentAssumption` have that "nothing" is no value. TLC evaluates each on the runs.

### Only model-checked

- Liveness (`NotifierGetsFree`, `BrokenStreamFreesTag`, `QueuesDrain`, `RevocationSettles`,
  `ErrorLeadsToFreshList`): TLAPS does not reason about fairness and ENABLED here.
- `AgentSync`'s invariants and PeerSync's `SyncUnlessTroubled` (with the types, `PipelineSound`):
  what a client does to a device is a set of outcomes of sequences of calls, folded over the
  peers in any order; a proof needs induction over them.

### What the proofs changed in the models

- Adjacencies: two guards of `Proceed` overlapped, so that the next stage of a request was
  the model checker's choice; they are an order of cases now, as in the code. `DevicesInLine`
  also asked that the one allowed IP of a row is the address its writer had chosen for it (`ip`).
  A resynchronisation compares the allowed IPs only and leaves such a row alone, so it now asks
  for an address the server reaches.
- PeerSync extends ConfigWatch instead of instantiating it, so that what is proved of the
  streams can be cited; what the one server and the two goroutines are is assumed of its constants.
- Egvpn: the name that telemetry carries may be given as an option of a start, and need not be
  the certificate's; that is one of the recorded causes now.

## 6. Not modelled, and why

- Telemetry of an instance: it copies datagrams of a socket to a stream. Its start
  and end are left out with it; `AcceptUnix`'s timeout leaves the listener open
  (`cmd/vpn_server/vpns/vpns.go:619`), so a later start of telemetry fails.
- The goroutines and channels within an instance and the count of its reconnect
  attempts: one step per notification keeps PeerSync checkable.
- `UpdateDevice`'s own notifications beside the two goroutines, and adjacencies that
  move between servers, in PeerSync: a third notifier makes it too large.
- A restart of VPP under a live client.
- The REST API's tokens and permissions, read-only operations, the licence.
- LDAP users: a stub in this edition.
- Pools with IPv6 ranges.
- Names of servers and pools: a check and an insertion as in Accounts.
- `egvpn install`, `uninstall`, `status` and `report`: they fetch and remove images and
  print; a start without its images is a failed start.
- The user interface, and the cryptography, which is a library's.

`components` in `PROJECT.json` lists every part.

## 7. What is open

The model covers what the repository keeps state in, and every invariant of the runs but
three is proved: `PipelineSound`, `AgentSound` and `ConvergedWhenQuiet`. Their handlers fold
a client's calls over the peers of a configuration; what such a fold does for every
number of peers is for a prover with induction. Of `PipelineSound` the types are proved, which
do not depend on the folds.
