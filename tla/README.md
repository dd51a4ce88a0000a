# A TLA+ model of Cyberia VPN

Cyberia VPN has two halves: a Linux client (and node) written in Rust, which changes
firewall, interface, routing and resolver state through external commands, and a
control plane written in Go, which enrolls devices and delivers signed
configurations. What is hard in both is failure in the middle: a command that fails
after others took effect, a process killed between two of them, a write whose
durability is uncertain. The modules here keep that control flow, one external
command or file-system step at a time, and abstract the data.

## The system's parts

| Part | State | Operations | What is hard |
| --- | --- | --- | --- |
| Kill switch (`core/killswitch/src/lib.rs`) | `always_on`, policy | enable, disable, tunnel_established, tunnel_lost | none alone |
| Connection controller (same file) | kill switch, `transport_may_be_active`, the nftables table | new, connect, disconnect, disable | order of firewall and transport calls; partial and late failure |
| nftables backend (`core/killswitch/src/linux.rs`) | the table `cyberia_vpn` and its rules | apply | rules and tracked connections of an earlier policy |
| WireGuard adapter and backend (`core/transport/src/wireguard.rs`, `linux.rs`) | `connected`, `active_interface`, `active_rules`; link, addresses, routes, policy rules | bring_up, rollback_setup, bring_down, health | rollback that fails; rules outliving the link; deadlines; clock changes |
| DNS backend (`linux.rs`) | `active_interface`; resolver settings | configure, revert | clean-up that fails |
| Linux connection (`linux_connection.rs`) | the three above | connect, disconnect, disable | a failure in one part undone through the others |
| Linux client (`apps/linux-client`) | process, signal token and channel, lease | `--check`, run, signal handler | signals at any point, SIGKILL, restart over leftovers, a second client |
| Managed node and gateway (`linux.rs`) | node, gateway and manager flags, peers, routes; link, table, wg peers | start, stop, add_peer, remove_peer, health | two-part start and stop; belief versus kernel; leftover tables |
| Routing (`core/routing`) | current node, circuits | score, select, record_failure, record_success, delay | dwell, cooldown, saturation |
| Snapshot file (`internal/snapshot`) | lock, failed flag, file | Open, Read, Write, Close | crash or power loss in a commit |
| Enrollment (`internal/identity`) | devices, challenges | Issue, Enroll, open, close | one-time use across restarts; capacity; expiry |
| Configuration store, publisher, client state (`internal/configuration`, `cmd/config-publisher`) | envelopes; accepted version | Publish, Latest, Accept, open, close | late and repeated envelopes; lock contention; crashes on both sides |
| Registry, server lifecycle, HTTP, telemetry | nodes; listener; none | Transition; shutdown; handlers; Validate | see "Not modelled" |

`PROJECT.json` gives the status of every part, and its "hazards" the lines at which
things can go wrong with the properties that would show it.

## Modules

The client's connection, from the inside out:

- `KillSwitch`: the state machine as operators on a record.
- `ConnectionController`: the controller. An operation is split at its firewall and
  transport calls. `Command` is the shape of every external command: it succeeds only
  if possible, may always fail, and with `LateFailure` may fail after taking effect
  (the runner kills a child, or waiting for it fails, after its commit).
- `FailSecure`: the abstract promise over two observable facts, the policy in force
  and whether the session owns platform state: state appears only under filtering, the
  tunnel is admitted only from filtering, filtering is released only when nothing is
  owned.
- `AnyTransport`: the controller over any implementation of the `Transport` trait,
  given by its contract.
- `SetupPlan`: the commands `configure` and `install_routes` issue for a profile.
- `WireGuardTunnel`: adapter and backend, running such a list of commands. A rule
  outlives the interface; everything else goes with it. `Vec<PolicyRule>` is the set
  of positions whose rule it holds, removed newest first.
- `LinuxDns`: the resolvectl backend.
- `LinuxConnection`: controller, tunnel and DNS composed: a caller's step is taken
  jointly with its callee's call or return. The environment may stop the context
  (deadline, cancellation) or remove the interface.
- `ConnectionApi`: any caller of the connection's operations.
- `LinuxClient`: successive runs of the process. What a run created is "own"; `Start`
  turns it into "stale", the next run's past.

What the kernel makes of it:

- `OutputFilter`: the rendered nftables transaction, the table it leaves, and the
  packets of the host that get out, with connections tracked from before.
- `TableClient`, `TwoClients`: two client processes with their leases over the one
  table, each with the controller over any transport.
- `NodeGateway`: packets through a node: the forwarding table and connection tracking
  over starts with different policies, stops and crashes. The interface has its own
  variable, since `stop` removes the table first. What the table lets through is
  tracked; what passes without a table may or may not be, depending on what else the
  host tracks connections for. A connection remembers its first packet, whether it was
  answered, and whether it was opened without a table.
- `TunnelHealth`: `health` of the tunnel over reconnects and a clock that is adjusted.
- `ManagedNode`: `LinuxManagedWireGuardNode` with node, gateway, peers and health. Its
  variable `lateFailure` never changes: a behaviour either has commands that fail after
  taking effect or has none.

What is decided from inputs:

- `AddressPlan`: networks, interface addresses and peer routes, with the shifts of
  `networks_overlap` and `network_matches_address`. `NodePlan`: a node's networks,
  routes and interface addresses, given one item at a time.
- `KeyText`: a key from hexadecimal text to bytes to base64.
- `ClientProfile`: a configuration seen by `--check` and then by a run, in the order
  in which each looks at its fields, up to the point where filtering is armed.
- `RouteScore`, `RouteSelector`, `Backoff`: scoring, selection with dwell time, margin
  and circuits, and the waits between attempts, in integers with their widths.
  `PathScore`: the score of a path whose measurements get worse.
- `Powers`: powers of two as a function, for the shifts in `AddressPlan`, `KeyText` and
  `Backoff`.

The control plane:

- `SnapshotFile`: write, rename and directory sync; `visible` is what a process reads,
  `mayRemain` what a power loss may leave.
- `EnrollmentStore`: the durable store over it, with ghost sets of acknowledged
  challenges and enrollments.
- `ConfigStore`: the configuration store, opened by the API server and by the
  publisher under one lock. `ClientState`: the version a device recorded.
  `ConfigDelivery`: an instance of each (`Host` and `Client`), over a network that
  delays, repeats and reorders.

`MCConnectionApi`, `MCLinuxClient`, `MCControlPlane`, `MCHostNetwork` and
`MCDecisions` are instances for TLC. The last three put machines that share no state in
one run: a behaviour chooses one and the others stay at their start, so the states add
up and do not multiply. The modules ending in `Proofs` hold the theorems.

A call that is refused without changing anything is a step that is not taken in
`ManagedNode`, `EnrollmentStore`, `ConfigStore` and `ClientState`; in the client
modules, where the result drives the caller, it is an "err" result.

Definitions introduced by a comment "Mutant" are wrong versions of the definition
after them. Each property is known to fail when one of them is put in its place.

## Runs

| Run | Question | Bounds |
| --- | --- | --- |
| `any_transport` | Does the controller keep the promise over any transport? | three valid interface names and an invalid one; late failures |
| `connection_api` | Any sequence of operations, any failing command | one profile: an IPv4 default route, a second IPv6 network, an IPv6 default route, so rules of both families lie between other commands; no late failures, since `BlockedWhileChanging` is about what the code knows |
| `linux_client` | Signals, kills, restarts, late failures | unbounded number of runs; leftovers of any kind in the initial state |
| `managed_node` | Lifecycle, peers, health | three keys, two routes, capacity two, a failure counter that saturates at two; behaviours with and without late failures |
| `host_network` | What gets out of a host, and when is a tunnel healthy? | filter: two tunnels, two endpoints, an uplink, any tracked connections; clients: two processes, one runtime directory, two interfaces, commands that fail have no effect; gateway: 3-bit addresses, two accepted plans and a refused one, hosts inside and outside both, two tracked connections; health: clock up to 5 with a limit of 2, a failure counter that saturates at two |
| `decisions` | Do the checks, keys, networks, scores, routes and waits come out right at their edges? | configurations that differ from a good one in at most two fields or two key characters, keys of 5 bytes (the last base64 group is partial); families of 2 and 3 bits, up to two networks and addresses; scores up to 2 with a u32 of 3, so that every saturation happens; two nodes, an `Instant` that ends one step after the clock, cooldown, dwell, margin and threshold 2; a 4-bit u32 and a `Duration` of at most 50 for the waits |
| `control_plane` | Do the stores lose nothing acknowledged, with crashes at every step of a commit? | enrollment: two accounts, devices and keys (the keys symmetric), capacity two, three challenges, clock up to two with a lifetime of one: a store full of devices or challenges, races and expiry all occur; configuration: two devices, three versions, capacity two: an older, an equal and a newer envelope can all be on their way, and a foreign one |

The bounds on values are small because the code compares values only with each other
and with its limits; the instances put the limits inside the range of the values.
The unmodelled remainder of the state (a longer list of networks, a third client)
goes through the same code as the second.

Five runs expect a violation and document a disagreement:

- `failed_bring_up`: the backend trait requires that a failed `bring_up` leaves no
  interface; `rollback_setup` forgets what it failed to remove. The client stays
  fail-secure (`transport_may_be_active` stays set).
- `not_connected`: `disconnect` starts with the revert of DNS, which answers "transport
  is not connected" when nothing is configured. Once a teardown has failed with DNS not
  configured, in a connect that was undone or in a disconnect past its revert, every
  later `disconnect` gives that answer with the tunnel up: it neither blocks nor tears
  down, though it is documented to do both.
- `managed_node_retry`: the same shape in the managed node: with the gateway disabled
  and the interface not deleted, `stop` can never complete. (A start whose gateway and
  clean-up both fail likewise ends with the node active and the manager not: start
  answers AlreadyConnected and stop NotConnected.)
- `established_flows`: `component-contracts.md:104-105` says that blocking permits
  established flows; the rendered table has no such rule (a test asserts that), and
  `PolicyDecidesAlone` holds because of that.
- `unsolicited_traffic`: `component-contracts.md:140-141` says that unsolicited uplink
  traffic and lateral client traffic remain blocked. `stop` removes the table before the
  interface; what is opened in between can stay tracked, and the established rule of
  the next start lets it through. `ForwardedAsConfigured` is what remains true.

Liveness (`OperationsReturn`, `SignalStopsClient`, `ClientSettles`) is checked under
weak fairness of the steps the object or the process takes by itself: the operating
system schedules a single-threaded process, and the commands it runs end. No fairness
is assumed of callers, signals, crashes or deadlines, nor of a command's success.
`SignalStopsClient` needs the buffered slot of the shutdown channel. The control plane
has no liveness run: a store does nothing by itself, and no retry is in its code.

## What the modules show besides

Behaviours met while modelling that some property has to except, by a named operator
or ghost, or that the model has and no property is about:

- `stop` of a managed node removes the table that restricts forwarding before it
  removes the interface, so peers are on it unfiltered in between, and for good when
  the deletion fails (`linux.rs:399`).
- The gateway's `enable` adds to a table that a killed process or a late failure left,
  and never flushes it: networks of the earlier policy go on being accepted (`leftover`
  in `NodeGateway`).
- Node health compares numbers of peers: two late failures that cancel out, one peer
  too many and one too few, are reported as healthy (`linux.rs:830`).
- All clients share one table, so the release by one client lifts the filtering of
  another, an always-on one included; and leases in different runtime directories do
  not exclude each other even on one interface. `AdmittedIsManaged` is what remains
  true with one directory.
- `--check` accepts a dot in the interface name, which the adapter refuses before
  anything is armed, and a timeout that cannot be added to an `Instant`, at which
  `connect` panics after filtering was armed (`BeyondTheCheck`).
- `decode_key` takes a plus sign for the first of two digits, and panics when a
  two-byte character lies across a pair (`KeyText`).
- `record_failure` leaves the circuit closed when the end of the cooldown cannot be
  represented (`Failing`, which looks at `failedAt`, the time of the last recorded
  failure).
- `FileStore.Publish` knows no limit on devices and `load` does: the 10001st device can
  be published and then the store no longer opens (`Capacity` in `ConfigStore`;
  `configuration/file.go:49`). The instance has no more devices than the capacity.
- A store opened over a rename that was never synced serves content that a power loss
  can still take back, and a device that accepted it refuses the version published in
  its place (`unsynced` in `ConfigStore`).
- A device that crashes after recording an acceptance and before applying it has no
  use of that version any more and waits for a newer one (`ClientState`).
- The publisher fails while the server has the store open: both take the lock for
  their lifetime (`ConfigStore`).

## Proofs

TLC checks small instances; the theorems hold for every value of the constants:
every set of interfaces, every list of setup commands, every number of peers, routes,
devices and versions, and with late failures unless their absence is named below. A
property is seldom inductive by itself; the strengthening is named for each. A step
that Z3 does not find names Zenon, and one that needs more than a few seconds names
its limit, so that no prover is started in vain: `tlapm` does not end those that run
out of time, and on a long module they take the memory of the rest.

- `KillSwitchProofs`: what the methods of the kill switch return, cited by the rest.
- `AnyTransportProofs`: type correctness, `AlwaysOnNeverReleased`, and refinement of
  `FailSecure`. `FailSecure`'s release step needs "nothing owned", which the code
  tests by `transport_may_be_active`; so the inductive invariant says that the flag
  is set whenever something is owned and during setup, and that while it is set, or
  the controller is always-on, neither the policy in force nor the one in memory is
  `Disabled`.
- `LinuxClientProofs`, first half: the composed connection under any caller
  (`ConnectionApi`), where ownership is link and rules. Four invariants on top of each
  other:
  `Inv` says which rules can be in the kernel at each point of setup and teardown
  (those of `pendingRules` while the backend works, those of `active_rules` when
  connected) and gives `ReleasedOnlyWhenClean`, `FlagCoversResources`, `RulesTracked`
  and the refinement of `FailSecure`.
  `Order` says which part of an operation can be running with which call outstanding,
  and the policy meanwhile: `DnsOnlyOverTunnel` and, without late failures,
  `BlockedWhileChanging`.
  `SwitchInv` relates memory and table: `AlwaysOnNeverReleased`, and
  `PolicyInForce` without late failures.
  `TunnelBuilt` and `DnsBuilt` say how much of setup is in effect at each position:
  `AdmitsOnlyCompleteTunnel`, `ForeignUntouched` and, with `Order`, which keeps the
  tunnel-only policy in force from DNS setup to the return of connect,
  `ConnectOkMeansProtected`.
- `LinuxClientProofs`, second half: those invariants are kept by start, crash, signal
  and restart, because `Start` turns what is owned into the past and the constructor
  arms filtering before anything else. `RunInv` adds what each phase of a run relies on:
  `ExitOkMeansClean`, `FilteredWhileUp`, `OnlyReleaseLifts`.
- `ManagedNodeProofs`: `PeersInv` says that a node that is not active has no peers on
  either side, and gives `RoutesNotStolen` and `RoutesBelongToPeers` with late failures
  and `PeersMatchKernel` without; `PhaseInv` orders interface and gateway:
  `ForeignLinkUntouched`, and without late failures `GatewayOnlyOverNode`.
- `HostNetworkProofs`: each transaction replaces the whole table, so it is the one of
  the policy applied last (`PolicyDecidesAlone`); a connection that
  is tracked was opened to the uplink or while no table was in place, answered or not,
  and the rules are those of the plan unless a table was left behind (`GatewayInv`,
  which gives `ForwardedAsConfigured`); the age the clock shows
  falls short of the true one by no more than it was set back (`HealthyIsRecent`).
  For two clients over one table, `ClientsInv` says that their leases differ
  (`LeasedApart`) and of each that its flag is set before its transport connects and
  that its interface is not admitted during any call of its transport (`Managed`):
  `AdmittedIsManaged`, from two hypotheses. Both clients use one runtime directory,
  since leases in another exclude nobody; and a command that fails changed nothing,
  since otherwise the table can be ahead of the flag.
- `DecisionProofs`: every property of the `decisions` run, for every width, limit and
  input. Induction is stated for sets, since the provers cannot use it for operators:
  a set with 0 and the successor of each member holds every natural. From it come the
  values of `Pow2` and that they multiply.
  - `DelayWithinJitter`: validated attempts stay below the width of the shift; where
    the multiplication overflows, the exponential delay is above the maximum; the rest
    are bounds of integer quotients.
  - `WorseNeverScoresHigher`: each quality is monotone and at most `QualityMax`, hence
    so is their weighted mean.
  - `FailingNodeExcluded`, `AnswerNearBest`, `NoFlapping`: `CircuitInv` says that the
    failure counter follows the true streak up to the threshold and that the deadline
    is the one of the last failure; `SelectorInv` adds the two properties, which are
    then inductive.
  - `AddressesAssignedOnce`: equal blocks of a longer prefix are equal blocks of a
    shorter one, so networks that share an address are found by `networks_overlap`;
    that each address lies in exactly one network although `validate_for_node` looks
    for an address of every network is a pigeonhole argument over the equal counts.
  - `RefusedNeverArms`, `AcceptedStarts`: `ProfileInv` says, of each stage of a run,
    which inputs it has accepted, and of each refusal, which it has not.
  - `KeyHandedOver`: a text that decodes has a digit at every place; a chunk of three
    bytes is six digits, each sextet is a digit and a half, and so bit i of the code is
    bit i of the text for each of the 24 places of a chunk.
- `EnrollmentStoreProofs`: every content that is in memory, being written or possibly
  left on disk is `Sound`: restorable, with all acknowledged enrollments, and without
  the challenges they used. Hence `AcknowledgedSurvives`, `ChallengeUsedOnce`,
  `MemoryIsTheFile` and `AlwaysRestorable`.
- `ConfigDeliveryProofs`: `HostInv`, that all copies cover what was published, because
  the lock admits one process and a usable store is its file (`PublishedSurvives`);
  `DeviceInv`, that what a device applied is in all its file may be left with
  (`AppliedOnlyIncreases`); and `AllBacked`, that versions served, written or left at
  the device are in all the host may be left with (`DeviceNotAhead`).

Assumptions are those named in the modules: the "none" values (`NoInterface`, `NoRule`,
`NoKey`, `NoFile`, `NoSnapshot`) are not among the values they stand beside, `Setup` is
a sequence of commands, counters and limits are naturals, capacity and lifetime of the enrollment
store are not zero, the device is one of the devices, and the configured interface
passes the kill switch's own name check (the adapter's check admits fewer names).

The configurations that the theorems on `ClientProfile` start from are any set of
`WellTyped` ones: the key is a sequence of text bytes and the timeout a natural; the
policies of `WorseNeverScoresHigher` are any set of `RoutingPolicy` records.

Every safety property and action property of the passing runs is also a theorem. Only
model-checked: liveness (`OperationsReturn`, `SignalStopsClient`, `ClientSettles`),
since it needs fairness and ENABLED, which are beyond the provers; and the five
expected violations, which are counterexamples.

## Not modelled

- The node registry: an in-memory map without a caller outside its tests. `Transition`
  is one compare-and-set under one mutex, so a model of it would restate it.
- The server's lifecycle: what becomes of requests that outlive the shutdown timeout
  is decided by `net/http` and by `os.Exit`; for the stores it is a crash, which
  `EnrollmentStore` and `ConfigStore` have at every step.
- HTTP decoding, token digests and status codes, and the validation of telemetry:
  functions of one input without state. The configuration handler is `Serve`.
- Signatures, proofs of possession and validity periods of envelopes: refusals that
  change nothing, taken before the steps that are modelled. File permissions, sizes
  and JSON syntax are failures of an open, a write or a field.
- In `ManagedNode` nobody else removes the interface, and in `EnrollmentStore` the wall
  clock does not go backwards.
