# TLA+ models of the netlink transport and namespace synchronisation

This directory holds TLA+ models of the core of this repository. The core is the part `spec.md` §1 describes: the netlink socket of `src/internal/netlink/socket.go` and the multi-namespace engine of `src/vnet/unix/net_namespace.go`, which is built on that socket. It also models the double-tagged punt and inject nodes of `src/vnet/ethernet/punt.go`, the dataplane's path between the switch and the host, and the Tomahawk switch's temperature monitor driver of `tmon.go`. Each module is translated from the Go source. `PROJECT.json` maps every definition that models code to the lines it stands for.

## The system

The parts, leaves first (spec §2):

| Part | Code | State | Operations |
|---|---|---|---|
| MessageCodec | `socket.go` gorx, 283-286, 312-356 | none (pure) | split a datagram at the aligned header lengths (`messageAlignLen`), panic on an incomplete header, classify each record by type, drop unknown types, replace a record that fails to decode by an `ErrorMessage` carrying its header |
| Socket | `socket.go` 61-209, 271-409 | fd, Rx and Tx channels (bounded), gorx/gotx goroutines, uint32 `seq` of gotx | `NewWithConfig` (bind, buffer negotiation, deferred cleanup on error), `Close`, gorx (recvmsg → decode → `s.rx <- msg`, close Rx on a read error), gotx (`range s.tx` → encode, dropping a request `msg.Read` fails on → assign seq → write, stop on a write error) |
| DumpProtocol | `socket.go` 222-269 | Listen's loop position and try count | `Listen` (for each request: send, `RxUntilDone`, retry up to 5 attempts), `RxUntilDone` (drain Rx until Done/Error, handler error ends it) |
| NamespaceRegistry | `net_namespace.go` 58-97, 231-239, 399-453 | `namespace_by_name`, `namespace_pool`, each namespace's sockets | `namespace_init`, `add_del_nsid`, `add` (pool index, setns retry window, sockets, listen), `del` (never called) |
| NamespaceWatcher | `net_namespace.go` 41-51, 110-145, 225-257 | inotify watch | `read_dir` scan, `watch_dir` events, `watch_namespace_add_del`, `netnsMessage` rescan |
| InitialSyncBarrier | `net_namespace.go` 99-108 | `n_initial_namespace_done`, `n_initial_namespace` | `netlink_dump_done` |
| Double-tagged punt and inject | `punt.go` 11-327 | the punt node's disposition pool and nexts, the inject node's dispositions by interface | `AddDisposition`, `DelDisposition`, `sw_if_add_del`, `Init`, `NodeInput` of both nodes (`punt_x1`/`punt_x2`, `inject_x1`/`inject_x2`) |
| Temperature monitor | `tmon.go` 15-108 | the sensor registers, control[0], soft_reset[1], the interrupt thresholds and enable (registers of the switch) | `tmon_init`, `show_bcm_temp`, `resetTemp`, `Temperature.get` |
| Interface tables | `net_namespace.go` 147-152, 259-325 | each namespace's `interface_by_index`/`interface_by_name`, `si_by_ifindex`, `interface_by_si`, tuntap namespaces | `add_del_interface` on RTM_NEWLINK / RTM_DELLINK |

How they interact:

1. `namespace_init` creates the default namespace and starts its `listen`, then scans `/var/run/netns`.
2. Each entry is added: a new namespace object gets a pool index, opens its sockets inside the namespace (setns), and starts its own `listen`.
3. Each `listen` runs the DumpProtocol on its socket. The dump replies and the kernel's multicast events arrive on the same Rx channel.
4. Link messages go to `add_del_interface`. An RTM_NEWNSID message triggers `netnsMessage`, which rescans the directory.
5. When a namespace's initial dump ends, `netlink_dump_done` counts it. When the count reaches the number of namespaces found at startup, the barrier fires.
6. The inotify watcher then adds and deletes namespaces as `ip netns add/del` changes the directory.

The punt and inject nodes stand apart from this. The switch sends a frame for the host with two VLAN tags naming a disposition; the punt node strips them and hands the frame to the disposition's next node. The inject node does the reverse for frames the host sends out of an interface.

The interleavings that make this hard to test:

- **Two pumps per socket.** gorx and gotx run concurrently.
- **Shared socket.** Kernel events interleave with dump replies on one socket.
- **Buffer overruns.** A full receive buffer drops datagrams, and the next recvmsg fails with ENOBUFS.
- **Retries.** Retries read what the previous attempt left behind in Rx.
- **Concurrent completions.** Dumps of several namespaces complete concurrently against one unsynchronised counter.
- **Directory races.** The directory changes while the scan, the watcher and the setns loop run.
- **Kernel dump races.** The kernel's link dump walks a live table while links change.

## Modules

### `NetlinkSocket` (Socket, DumpProtocol, MessageCodec)

One socket, its two pumps, `Listen` with the owner's handler, and the kernel as the environment.

- **Variables.** `sock`/`fdOpen` are the descriptor. `rxBlocked` says gorx is inside a Recvmsg that began before `Close`. `txq`/`rxq` are the Tx and Rx channels, bounded by `TxMessages`/`RxMessages`. `gotx`/`gorx` say whether each goroutine is alive. `seq` is gotx's counter, taken modulo `SeqWrap` (2^32 in the code). `pending` holds the messages of the datagram gorx is delivering. `lpc`/`li`/`tries` are Listen's position. `kdump`/`sockbuf`/`overrun` are the kernel's running dump, receive queue and ENOBUFS flag.
- **Actions.** Each Go statement sequence between two blocking points is one action:
  - `NewWithConfig`, `Close`, `GoTx`, `GoRxRecv`, `GoRxDeliver`;
  - `ListenNext`, `ListenSend`, `RxUntilDone` (one loop iteration, ending through `EndDrain`/`ListenRetry`);
  - `Receive`, the owner reading Rx after Listen returned.
- **Kernel environment.** `KernelRequest`, `KernelDump` and `KernelEvent`:
  - a dump request made while another dump runs gets an EBUSY error;
  - a dump sends at most `MaxData` data records and then Done, or an error;
  - events are multicast;
  - a datagram that finds `SockBuf` full is dropped and sets ENOBUFS.
- **Faults.** `Budget` bounds the faults: events, kernel errors, handler errors, undecodable records, write errors, requests `msg.Read` fails to encode, and `Close`.
- **gotx.** `GoTx` has the whole loop body: a request whose `msg.Read` fails is dropped and the loop continues (no sequence number is taken); otherwise the request is numbered and written, and a failed write ends the pump.
- **Close.** Linux `close()` does not wake a `recvmsg` already blocked on the descriptor. `Close` therefore chooses whether gorx, if it is between datagrams, is already inside Recvmsg (`rxBlocked`). If it is, the kernel socket lives on (`Alive`) with what it holds: that call returns only with a datagram or an error, after which the socket goes away. Otherwise the socket goes away at once and gorx's next Recvmsg fails on the closed descriptor.
- **Framing.** `Decode` frames a datagram the way gorx's loop does. `FrameFrom` is a RECURSIVE walk: it reads the header at offset `i`, panics if the header does not fit in `n`, and steps by `messageAlignLen(nlmsg_len)`.
  - The kernel lays the records out at `KernelAlign` offsets with the per-type lengths `RecLen`. `KernelAlign` is the kernel's own rounding, written separately from gorx's.
  - A header read where no record starts ends the walk as "garbled". The model does not track payload bytes. Correct framing never reaches that case.
- **Ghost variables.** `written`, `drains` and `delivered` record what was sent, how each drain ended and what the handler saw.

### `NetNamespace` (NamespaceRegistry, NamespaceWatcher, InitialSyncBarrier)

- **Objects.** Every `&net_namespace{}` the code allocates is an element of `Objs`. `nsByName` is `namespace_by_name` and `entries` is `namespace_pool.entries`. `obj[o]` holds the object's name, index, whether it has sockets, and the state of its initial dump.
- **Control thread.** The callbacks (`namespace_init`, `read_dir` entries, `watch_dir` events, `netnsMessage`) run one at a time on one control thread (`pc`). An `add` holds the thread through its setns loop (`adding`, `tries`).
- **Dump completions.** Each object's initial dump completes at any later time. `netlink_dump_done` is split into three steps, because `n_initial_namespace_done++` is a plain increment that spec §5 says runs concurrently: the load, the store, and the comparison with `n_initial_namespace`. The comparison reads the shared counter again at line 103. Without synchronisation the compiled code may instead reuse the value just stored, so the model allows either.
- **File system.** The environment is `DirAdd`, `Mount` and `DirDel`. `ip netns add` creates the entry first and bind-mounts it later, and setns fails until the mount. inotify reports changes only once the watch is set.
- **Panics.** A panic ends the process: every action is guarded by `~panicked`.

### `NamespaceInterfaces` (interface tables)

- **Handler.** `add_del_interface` runs over each namespace's link messages, in socket order.
- **Kernel.** Each namespace has a link table (`kif`). The initial RTM_GETLINK dump walks that live table in index order (`KernelDump`). `LinkAdd`, `LinkRename`, `LinkDel` and `LinkMove` change it and queue the multicast message.
- **Message order.** Dump entries and events reach the handler in the order the kernel made them.
- **Tuntap maps.** `tuntap_interface_by_name` and `tuntap_interface_by_ifindex` are filled by code outside `src/`, so here they are constants.
- **Dead branch.** `intf.tuntap` is never assigned anywhere, so the RTM_DELLINK unbinding branch is dead code and is not an action.

### `DoubleTaggedPunt` (the punt and inject nodes of `punt.go`)

- **Memory.** A frame is a record `[buf, start, si]`. `buf` is a sequence of 16-bit words, each the value of its two bytes in wire order, and `start` is the word where the data begins. Every access of the code is a run of whole words: the 12-byte address header and the 8-byte tag word. `Words`, `SetWords` and `Advance` are `DataOffset` reads and writes and `Ref.Advance`.
- **Host integers.** The tag word is a `vnet.Uint64`, modelled as four 16-bit lanes. A lane is at most 16 bits, so nothing passes TLC's 32-bit integers. Every shift and mask of the code moves whole lanes.
- **Byte order.** `Load64` and `Store64` give the lanes of a native load and store. The constant `BigEndian` (`vnet.HostIsNetworkByteOrder()`) decides the order, and `FromHost` is the byte reversal of the little-endian build.
- **Punt.**
  - `Lookup` is lines 59-83: `PuntIndex` (lines 69-76), the `Len()` bound and slot 0 for an unknown index.
  - `punt_x1` adds the untagging of lines 94-97.
  - `punt_x2` is two `punt_x1`s, except that the second frame is advanced by the first frame's disposition (line 158).
  - `Batched` is the NodeInput loop: pairs while two are left, then singles.
- **Inject.** `InjectWord` (lines 228-233) builds the tag word. `inject_x1` saves the header, moves the data down 8 bytes, and writes the tag word, then the header.
- **The pool and the nexts.** The elib pool and vnet's `AddNamedNext` are outside the repository. They are modelled by what the code needs of them:
  - `GetIndex` reuses a freed index or appends one;
  - `PutIndex` frees an index, and the slot keeps its data;
  - `Len` counts every slot ever made;
  - `AddNamedNext` returns a name's index, adding the name when it is new.
- **Ghost state.** `last` is the last NodeInput (its input and output vectors) since a disposition changed.
- **The reference.** `IsDoubleTagged` and `TagIndex` say what the tags mean, after the comment at line 48: both type fields are 0x8100, and the index is TAG1 with TAG0 as its high half. Each tag is read as the `VlanTag` the inject node writes.

### `TomahawkTmon` (the temperature monitor of `tmon.go`)

- **Arithmetic.** `Decode` is `Temperature.get`'s `float64((4100400 - 4870*f) / 10000.)`. The constant `10000.` takes the register's integer type, so the division truncates, and below about 0 °C (codes of 842 and above) the subtraction wraps modulo 2^32. `Div10000Uint32` computes the wrapped quotient without leaving TLC's integers. `maxTempThresh` is the code's `(410040 - 125*1000) / 478` = 596.
- **Driver actions.** `tmon_init` is one action (the register writes are queued and issued by `q.Do()`): clear BG_ADJF, restart tracking, write `(596<<10)|0x3ff` to thresholds 0-7 (the loop breaks after index 7), and enable `0x2000`. `show_bcm_temp` optionally restarts tracking (`reset 1`) and then prints `get` of every sensor. Its parse-error path changes nothing.
- **Hardware, assumed.** The register layer is not in the repository. The model assumes that:
  - a sensor's 10-bit code falls as it heats;
  - the max and min fields track the lowest and highest code since the last soft-reset pulse;
  - bits 10-19 of `thresholds[i]` are sensor i's high-temperature code, and the interrupt is raised when the code is at or below it;
  - bit 8+i of `enable` enables sensor i. So `0x2000` enables index 5, which is "sensor 6" when counted from 1, as in "sensor 8 is not used" for index 7.
  
  `Sense` is the hardware's step. The register fields are separate variables, because a packed 32-bit register exceeds TLC's integers.

## Runs

The MC modules give the constants. Each `.cfg` is one run.

| Run | Checks | Expect | What it shows |
|---|---|---|---|
| `socket` | TypeOK, HandlerSeesDumpsInOrder, FailureAfterExactlyMaxTries, FramingRecoversRecords | pass | A no-op and one dump request of up to two data records. The kernel may send errors (kernel errors and EBUSY). The following may each happen once: a notification, a handler error, an undecodable record, a failed write, a request `msg.Read` cannot encode, and a `Close`. At most three of these happen in one behaviour. The channels stay bounded. The handler sees each dump's data in order and never twice. Listen fails only after five failed attempts. gorx's loop splits every queued datagram into exactly the records the kernel wrote. |
| `socket_write_error_hang` | ListenTerminates | violation | One write fails and gotx stops, losing the retry's request. gorx keeps Rx open, so `RxUntilDone` waits for ever and Listen never returns (`socket.go:404`). |
| `socket_eof_success` | ListenSuccessImpliesCompleteDumps | violation | An event burst overruns the buffer, gorx ends and closes Rx, `range` ends, and `RxUntilDone` returns nil. Listen reports success although no dump finished. |
| `socket_stale_terminal` | DrainEndsOnOwnTerminal | violation | A handler error abandons a dump mid-way, and the retry takes the old dump's Done as its own. |
| `registry` | TypeOK | pass | Startup, watcher events, a rescan, racing add/del/mount and concurrent completions with the unsynchronised counter. The setns retry stays within its window. This run mainly exercises every registry and watcher action; the barrier's properties are checked by the two violation runs that follow. |
| `barrier_counts_late_namespace` | BarrierFiresOnceAfterStartupDumps | violation | A namespace created after startup is counted towards the startup target. The barrier fires before the default namespace's dump ended. |
| `barrier_never_fires` | BarrierEventuallyFires | violation | Completions that come before `n_initial_namespace` is set are compared with 0. The barrier never fires. |
| `tables` | TypeOK, IndexTableMatchesKernel, EveryInterfaceNamed | pass | With dump entries, adds, renames, deletes and moves interleaved, a synced namespace's index table is the kernel's, under current names. |
| `dellink_unknown_index` | NoNilDereference | violation | A link deleted before the dump reached it gives a DELLINK for an unseen index, and the handler dereferences nil. |
| `tmon_threshold` | InterruptOnlyAtMaxDegC | violation | After `tmon_init`, a sensor heated to code 590 raises the interrupt that the comment sets up for 125 °C. `get` decodes code 590 as 122 °C. The threshold code 596 decodes to 119 °C because `maxTempThresh` divides by 478, not 487. With 487 the code is 585, which decodes to 125, and the property holds (checked by hand with that one change). |
| `punt_nodes` | TypeOK, PuntDispatchesByTags, InjectTagsDecodable | pass | On a little-endian host, with dispositions added, freed and reused and interfaces added, every frame, alone or in a pair, goes to the next node and opaque of the disposition its tags name, or to the error next. The inject node writes the tags the punt node decodes as the interface's index. |
| `punt_x2_advance` | PuntStripsDoubleTag | violation | `punt_x2` advances the second frame of a pair by the first frame's `data_advance` (line 158). A frame punted beside a frame of another disposition reaches its next node at the wrong offset. |

Every property of a passing run also has a mutant in `PROJECT.json`: a plausible bug in the mapped definition that TLC shows the property catches.

## Bounds

### NetlinkSocket

- **Channels and buffer.** Channels of one message and a kernel buffer of two datagrams (`SockBuf = 2`). That is enough for a blocked gorx with a full buffer behind it, and for an event burst to overrun the buffer.
- **Dumps.** `MaxData = 2` data records per dump. Two records make the order between them observable, and data can interleave with events.
- **Faults.** The `socket` run allows each fault once and kernel errors twice, with at most `MaxFaults = 3` in one behaviour. EBUSY replies to a retry sent while the abandoned dump still runs cost nothing, so five failed attempts are reachable. With every fault at once the state space grows past 13 million states without finishing. The violation runs allow exactly one fault.
- **Sequence counter.** `SeqWrap = 16`. The runs send at most a handful of requests, so the counter never wraps. In the code the wrap needs 2^32 requests on one socket, and no property is stated about it.
- **Record lengths.** `MCRecLen` gives data and event records 37 bytes, unknown types 18, Done 20 and Error 36. Data and event records are not a multiple of 4, and a datagram carries up to two records. So the loop must round up between records, and a step by the raw length lands inside the padding.

### NetNamespace

- Two directory names, one present at startup, plus the default namespace.
- 3 namespace objects: the default and the startup namespace, plus one more for a rescan or a new namespace. With 4 the run takes over 4 minutes (28 million states), because every completion is three steps.
- 2 directory changes, 1 rescan, and 2 setns attempts in the window.

### NamespaceInterfaces

- Two namespaces, two indices, two names, one tuntap and 3 link changes.
- That covers a delete ahead of the dump cursor, a rename, a move, and a rename followed by a re-add.

### DoubleTaggedPunt

- **Host and dispositions.** A little-endian host, two next names, one opaque besides the zero one, and the advances 0 and 14 (past an Ethernet header).
- **Bounds.** Two punt `AddDisposition` calls, with any number of deletes, so a freed slot is reused. One inject `AddDisposition` and two interfaces.
- **Punt frames.** Frames tagged for slots 0 and 1, a frame whose index (256) is past the pool, and an untagged IPv4 frame.
- **Vectors.** Vectors of one and two frames, which reach `punt_x1`, `punt_x2` and every pairing of the four frames.

### TomahawkTmon

- Sensors 4 and 5 (only index 5 is enabled) and nine threshold registers, so one entry lies past the loop's break.
- Codes 585, 590, 596, 700 and 900 decode to 125, 122, 119, 69 and, wrapped, 429468. They include both sides of the threshold, the codes between the real and the intended threshold, and a sub-zero code.

### Known bugs with no run

Several defects have no violation run of their own. Each is listed as a hazard.

- **Close leaves a blocked gorx waiting.** `Close` does not wake a gorx already blocked in Recvmsg, so Rx stays open and a draining Listen waits like the `socket_write_error_hang` run, until some datagram happens to arrive. The same holds for a request that gotx drops because `msg.Read` fails (`socket.go:372-379`).
- **Sub-zero temperatures.** Below about 0 °C, `Temperature.get`'s subtraction wraps (`tmon.go:56`), and `show_bcm_temp` prints about 429400 degrees. The `tmon_threshold` model reaches this with code 900.
- **Stale filter verdict.** `run` recompiles only when `len(f.m) != len(f.s)` (`unix.go:45`). Re-adding a pattern with the other verdict after a run keeps the lengths equal, so `run` keeps the old verdict. Four calls show it.
- **Big-endian punt and inject.** On a big-endian host:
  - `p0 >> 16` is not masked, so every punted frame is an unknown disposition;
  - the inject node writes the two tags in each other's place.
  
  With `BigEndian = TRUE` in the `punt_nodes` configuration, `PuntDispatchesByTags` and `InjectTagsDecodable` are both violated. Every platform the repository builds for is little-endian.

- **Rename leaves the old key.** A rename leaves the old name as a key of `interface_by_name`. The code deletes the new name's key instead (spec §8.7). A single rename event shows it. The `tables` run's `EveryInterfaceNamed` still checks that the new name is a key.
- **Delete leaks the namespace.** A watcher delete only removes the name from `namespace_by_name`, because `ns.del` has no caller, so the sockets and the pool index leak. Spec §3 and §4.4 say deletion releases both.

## Fairness and deadlock

- **NetlinkSocket.** Weak fairness on the pumps, on Listen's steps, on the kernel's dump continuation and on `Receive`. The goroutines are runnable until they block, and the Go scheduler runs runnable goroutines. The environment's events and faults get no fairness.
- **NetNamespace.** Weak fairness on the control thread, on each dump completion and on the bind mount. `ip netns add` performs the mount right after creating the file.
- **TomahawkTmon.** No fairness and no liveness. The CLI command and the sensors act whenever they like.
- **DoubleTaggedPunt.** No fairness and no liveness. The nodes run when the dataplane hands them a vector, and nothing is promised about when.
- **Deadlock.** Every cfg except the punt and tmon runs has `CHECK_DEADLOCK FALSE`. The punt node can always be given another vector, and a sensor can always report again, so those runs check for deadlock. Once the bounded environment is exhausted, the real program blocks forever in recvmsg, in a channel receive or in the inotify read, so a final state is not an error. `ListenTerminates` states where blocking is a bug, and `socket_write_error_hang` shows the code doing it.

## Not modelled, and why

- **Malformed headers and attributes.** The framing loop is modelled over the datagrams the kernel writes. A header of length 0 (the loop spins) or longer than the datagram (a read of stale buffer bytes) is not something the kernel sends, and the model does not offer it. Attribute decoding inside a record is data the properties do not tell apart.
- **Transport failures after open.** `allocate_sockets`, `configure` and `iomux_add` failures in `add` are panics of the transport and are left out.
- **`del`.** `ns.del` is not modelled because nothing calls it (see "Known bugs with no run").
- **Concurrent registry writers.** `netnsMessage` and `watch_dir` run on different goroutines, but the model serialises them. The model therefore omits the unsynchronised map writes between them (listed as a hazard).
- **Read-only and display code.** `show_net_namespaces`, `interface_by_name`, `String` and the CLI.
- **Package registration.** `unix.go`'s `Init` and `GetMain` only register the package with vnet.
- **The interface filter (`unix.go` 17-62, 96-111).** Nothing in the repository runs it. Its model was retired in favour of the temperature monitor. Two of its hazards are described here and in `PROJECT.json`:
  - the stale verdict (above);
  - with two matching patterns of opposite verdicts, Go's random map order decides the verdict.
- **Parts outside the core.** Spec §1 excludes the dataplane, the hardware and the daemon framework.
  - `vnet_tun.go` is disabled by `if false`.
  - `vnet.go` is `PortEntry` and the init hooks.
  - `qsfp.go` is I2C access on a 10-second polling loop. Its state changes are the `lasts` cache and publishing on change. The page reads and the publish are I/O, and `QsfpPres.Write` and the presence checks are empty.
  - `tmon.go` is modelled, apart from the register layer it calls.
  - `bootd/types.go` holds message types and text tables.
  - The two `main.go` files register commands.
  - Also out: `wget`, `panicd` and `reg`.
- **The punt path's surroundings.** The elib pool, vnet's next registry and the frame buffers are modelled only as far as `punt.go` uses them. The choice of which disposition a switch port's tags name is made outside the repository.

## Plan

Built so far: `NetlinkSocket`, `NetNamespace`, `NamespaceInterfaces`, `DoubleTaggedPunt`, `TomahawkTmon`, their MC modules and the runs above. Next, in order:

1. A property relating `si_by_ifindex` to the kernel's links, for the tuntap rename and delete hazards.
2. Composition: `NetNamespace` driving per-namespace `NetlinkSocket` listens, so that the barrier's completions come from the socket model. The product of the `registry` and `tables` state spaces (about 700 thousand and 260 thousand states) is out of reach. A composition needs both sides abstracted first, for example each listen reduced to an abstract exchange of requests and terminals. An abstract exchange should be written only together with the fixes of the end-of-stream and stale-terminal bugs: it holds only where those bugs cannot happen.
