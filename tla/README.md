# A TLA+ model of solana-gun-quic-client

TLA+ specifications of the client library in `src/src/`, TLC configurations that check
them on small instances, and TLAPS proofs of every safety property they check, for all
values of the constants. Every definition is translated from the Rust source; `PROJECT.json`
maps each to its lines.

## 1. The system

The library submits Solana transactions to an ingress server over one QUIC connection
that a bearer token authenticates.

| Component | Source | State it keeps | Operations | Hard behaviour |
|---|---|---|---|---|
| Session | `client.rs` 32-243, 357-403 | the slot `connection`, `reconnect_lock`, per call: the connection it read, attempts, backoff | `send_transaction_bytes`, `reconnect`, `close`, dropping any of these futures | clones of one client send concurrently on one connection; one of them closes it under the others; all reconnect at once; acknowledgements are lost; futures are dropped anywhere |
| Token handshake | `client.rs` 272-286, 331-355, 408-448 | none of its own; the connection's `close_reason` | `dial_and_handshake`, `map_close`, `connection_close_error`, `code_to_err`, `is_terminal` | the reply, the close with its code, a 750 ms timeout and the loss of the connection race each other; the server's count of connections lags |
| Connect | `client.rs` 50-150 | name to verify, address tried, last error | `connect`, `connect_addr`, `connect_with_source` | an error at one address and the attempt at the next |
| Address parsing | `client.rs` 102-113, 289-309 | none | `split_host_port`, the split in `connect_with_source`, tokio's `lookup_host` | three parsers read one text; two of them decide which name is verified and which is resolved |
| Probing | `autoconfig.rs` 167-184, 354-510 | tasks, permits, the folds `best` / `first_err` / `results` / `failures` | `probe_all`, `probe_one`, `probe_addrs`, `probe_addr`, `select_best` | tasks end in any order, time out, are lost; more endpoints than permits |
| Autoconfiguration | `autoconfig.rs` 186-328 | the `FallbackReason`, the `EndpointSource` | `connect_auto`, `try_discovered`, `discover` | any stage may fail after the earlier ones succeeded; who sees the token, and when |
| Discovery response | `autoconfig.rs` 134-165 | none | `parse_endpoints` | blanks, duplicates and malformed entries, while the order decides ties later on |
| Backoff | `client.rs` 196-231, 375-391, `config.rs` 89 | the current backoff | `next_backoff`, `apply_jitter`, `jittered`, the policy's part of `validate` | saturation, cap, float jitter, and the sum of it all |
| Validation | `config.rs`, `client.rs` 313-329, `autoconfig.rs` | none | `ClientConfig::validate`, `AutoConfig::validate`, `validate_token` | boundaries |
| TLS and endpoint setup | `tls.rs`, `client.rs` 245-270 | none | `build_endpoint`, `system_roots` | none of its own |
| Errors | `error.rs` | none | the enums, `Display` | none of its own |

How they interact: `connect_auto` calls discovery, probing and then
`connect_addr_with_source` for the endpoint chosen, or `connect_with_source` for the
fallback. Both build the `Inner` that all clones of a client share. A send reads the
slot, runs `send_on` under `send_timeout`, and on a timeout or a lost connection enters
`reconnect`, which serialises on `reconnect_lock` and calls `dial_and_handshake`, the
same function the first connect uses. The only shared mutable state is the slot, the
lock, and the state quinn keeps for a connection. The server is outside the repository.

What makes each component correct:

- *Session*: one connection at a time, whatever the interleaving; a transaction is
  offered at most twice; nothing stays open behind the last close; a stuck send returns
  within a number of dials that the limits fix.
- *Handshake*: the loop ends for good when the token has been refused or TLS rejects the
  server, and for no other reason; a loop whose token is good reconnects once the server
  has forgotten the dead connections.
- *Connect*: it gives up only after every address, with the error of the last one, and TLS
  verifies the name that was resolved.
- *Backoff*: a reconnect returns within the time its policy adds up to.
- *Discovery response*: every usable entry once, in the order of first appearance.
- *Probing*: the fastest endpoint that answered is selected, and a total failure
  reports every endpoint, in whatever order results arrive.
- *Autoconfiguration*: the token goes to the selected endpoint only, the fallback is
  used whenever that fails and not rejected then, and `endpoint_source()` tells which
  endpoint is in use and what was measured of it.

## 2. The modules

| Module | Models | Checked by | Proved in |
|---|---|---|---|
| `Submission` | what the session promises (abstract) | through `AtMostOneReplay` | `SessionProofs` |
| `Session` | slot, send, reconnect loop, close | `MCSession`: `session_safety`, `session_liveness`, `auth_liveness`, `ok_once_queued`, `timeout_closes` | `SessionProofs`, `SessionWaiting` |
| `Delivery` | what the peer reads of a `Session`'s streams; EXTENDS it | `MCDelivery`: `delivery` | `DeliveryProofs` |
| `Backoff` | the time of a reconnect | `MCBackoff`: `backoff` | `BackoffProofs` |
| `Handshake` | token handshake, close codes, a lagging server | `MCHandshake`: `handshake` | `HandshakeProofs` |
| `Address` | the parsers of host:port | through `Connect` and `Discovery` | `ConnectProofs` |
| `Connect` | `connect_with_source`; EXTENDS `Address` | `MCConnect`: `connect`, `refusal_surfaces` | `ConnectProofs` |
| `Discovery` | `parse_endpoints`; EXTENDS `Address` | through `AutoConnect` | `AutoConnectProofs` |
| `Probing` | `probe_all` and below | `MCProbing`: `probing` | `ProbingProofs` |
| `AutoConnect` | `connect_auto`; EXTENDS `Discovery`, INSTANCEs `Probing` and `Connect` | `MCAutoConnect`: `autoconnect` | `AutoConnectProofs` |

### Session

A *task* owns a clone of the client and runs one call at a time. `pc[t]` names the await
the call is suspended at: `open_uni`, `write_all`, `stopped` in `send_on`; `lock`,
`dial`, `sleep`, `install` (waiting for the slot's write lock with a connection in hand)
in `reconnect`; `close` and `closing` in `close`. A step is what a task does from one
await to the next. Reading the slot is a step of its own, so whatever a call does with
the connection it read may be late, also for `close`.

Connections are numbered in the order they are established: `Arc::ptr_eq` is equality of
numbers. `live` holds those neither lost nor closed; losing and closing need not be told
apart, because every later use of either ends in an error `is_reconnectable_send_error`
accepts. `stream[t]` is what the peer knows of the call's stream. `ahead[t]` is the
queue of tokio's fair mutex: who was waiting when `t` came.

| Code | Actions |
|---|---|
| `send_transaction_bytes` | `StartSend`, `RejectTooLarge`; its match on the attempt's result is `Failed` |
| `send_on`, `send_on_timed` | `OpenUni`, `WriteAll`, `SendAcked`, `SendLost`, `SendStopped`, `SendTimeout` |
| `reconnect` | `ReuseConnection`, `BeginReconnect`, `DialSucceeds`, `Install`, `DialTerminal`, `DialExhausted`, `DialBackoff`, `Wake` |
| `close` | `BeginClose`, `Close`, `EndpointIdle` |
| dropping a future | `CancelSend`, `CancelClose`; dropping the guard, the place in the queue and a dialled connection are part of it |
| dropping a handle | `DropHandle`; with the last handle the shared state goes, and the connection with it (`Leave`) |
| peer and network | `PeerReceives`, `PeerStops`, `LoseConnection` |

A dial is one wait with all its outcomes: `dial_and_handshake` under `connect_timeout`
either gives a connection or one of `DialErrors`. `Handshake` looks inside.
`waited[t]` is the one history variable: dials resolved while `t` was in `reconnect`.

### Delivery

`send_on_timed` gives an attempt up by dropping it, and its stream with it; so does a
caller who drops the call. `Delivery` runs the actions of `Session` and adds `streams`, the
fate of the first and the replay stream of each call. `GivenUp` is what becomes of a stream
that is dropped: complete but not acknowledged, it is `late`; half written, it is `torn`,
because quinn finishes a stream that is dropped and so passes off a part as the whole,
unless its connection is already closed (`gone`). `ReadLate` is the peer that reads a
`late` or `torn` stream at any later time, before the replay, during it or after, and
whatever the client has closed since: packets sent before a CONNECTION_CLOSE that is lost
or overtaken are still read. `Becomes` follows the stream of the attempt that runs.

### Backoff

One reconnect with durations: `DialEnds(d)` and `DialFails(d)` take up to
`connect_timeout`, `Sleep(s)` one of the lengths `jittered` may return, and `now` and
`slept` add up. Durations are integers that saturate at `MaxDuration`, as `Duration` does;
`jittered` halves with integer division and adds what a float factor below 1 can leave of
the other half, rounded. `Reject` is `ClientConfig::validate`, of which only the policy's
conditions are here.

### Handshake

The client side has one action for each exit of `handshake`, and the loop around it has
`max_attempts` None: only a terminal error ends it. It starts from the connection
`connect_addr` has made, which a send then finds closed. A dial may be answered by somebody
whose certificate the client does not trust (`trusted`, `CertificateChanges`): quinn then
fails with a `TransportError`, which is terminal. `Tls`, terminal too, comes from setting up
the endpoint, which the loop does not do again. The server is derived from the close
codes of `client.rs` 26-30, the protocol summary of `src/README.md` and the stub server of
the tests. Messages are a set, so they overtake each other. The server admits `Limit`
connections, counts one until it hears the client's close or expires it, and may revoke
the token at any time. Data that has arrived is readable after the connection has closed,
as in quinn; data that is on its way to a connection the client has given up is lost
(`Reaching`).

`open` are the connections the client's endpoint keeps up: a failed handshake drops its
connection, which closes it (`OpenAfterDrop`) and sends a `bye`. Connection numbers are
reused once neither side has anything left of them (`Free`), so the loop may go round
without end while the state space is finite. What happens to a good token by bad luck is
a *fault*, and faults are counted: a dial that fails, a connection that is lost, a timeout
although nothing is wrong, a server that closes for reasons of its own, a certificate that
is not trusted, and a server that finishes the handshake stream with something else than `OK` before it closes.

### Address and Connect

A text is a sequence of characters, of which the parsers tell apart the brackets, the
colon, the plus sign `u16::from_str` accepts, and digits; the port ends at `MaxPort`.
`split_host_port` and `connect_host` are the two parsers of the code, `lookup_host` is the
external third.

`Connect` has one action per outcome of a stage. `addr` is the text, `server_name` what
TLS will verify, `settings` whether all other checks pass; `offered` are the addresses
that may have seen the token, also when the future is dropped during a dial, and the history
`errors` holds the error of each address tried, of which the code keeps the last (`LastErr`).

### Discovery, Probing, AutoConnect

`Discovery` is `parse_endpoints` as a fold over the entries of a response, with
`ListsUsable`, which says of a list that it is the right one without computing it.

In `Probing`, `Start(n)` begins with `n` endpoints (`found`); every endpoint has a task
(`queued`, `lookup`, `probing`, `joined`) and every address a probe in `running`; `Holders`
are the tasks with a permit. A latency is an arbitrary measured value, unrelated to the
order in which probes end, because probes start at different times. A task's end and its
joining are one step: a join set hands out tasks in the order they finish, and the folds
see nothing else. `ProbeAborts` and `TaskAborts` are the `JoinError` branches. `measured`
and `failed` are history.

`AutoConnect` goes through the stages `validate`, `roots`, `discover`, `parsed` (a list
is there, perhaps empty), `probe`, `dial` and `fallback`. `UseList` is `P!Start` with as
many endpoints as the list has, `ProbeStep` is `P!Probe` and `FallbackStep` `C!Step`; the
fallback's text is `Connect`'s `addr`, checked by `split_host_port` in `Validate` and
parsed by `connect_host` when it is used. The dial of the selected endpoint is one step,
as in `Session`. `source` is the whole record `endpoint_source()` returns: endpoint, address
and latency of a discovered endpoint (`SourceOfChosen`), text and reason of the fallback
(`FallbackSource`).

## 3. The runs

`autoconnect` takes about a minute and a half, every other run under one. Deadlock is
checked in all of them, and each module's next-state relation has an explicit disjunct for
the states where it rests.

| Run | Instance | Shows |
|---|---|---|
| `session_safety` | 2 tasks, 3 sends each, `max_attempts` 2, one dial error of each class (`Unauthorized` terminal, `Connection` and `Elapsed` transient) | `TypeOK`, `IInv`, `SingleConnection`, `LastCloseLeavesNothing`, `ReconnectWaitBound`, `AtMostOneReplay` |
| `delivery` | 2 tasks, 1 send each | `OkIsDelivered` |
| `session_liveness` | 2 tasks, 1 send each, `FairSpec`, no symmetry | `EveryCallReturns`, `LastClosesReturn` |
| `auth_liveness` | the same, `max_attempts` None, authentication errors only | `EveryCallReturns` |
| `ok_once_queued` | 1 task, 1 send, reconnect disabled | *violated*: `OkOnceQueued` |
| `timeout_closes` | 1 task, 1 send | *violated*: `TimeoutCloses` |
| `backoff` | 96 policies, durations of three bits, at most 4 dials | `BackoffTypeOK`, `OnSchedule`, `Paced`, `StuckReturns` |
| `handshake` | `Limit` 1, 3 connections known, 3 faults, `FairSpec` | `TerminalIsDeserved`, `RefusalStops`, `Recovers`, `StaleTokenStops` |
| `connect` | all texts of up to 6 of the characters `[ ] : 0 9 +`, ports to 90, one name, 3 addresses, all errors | `EveryAddressTried`, `VerifiesResolvedName`, `ParsersAgree` |
| `refusal_surfaces` | 2 addresses | *violated*: `RefusalSurfaces` |
| `probing` | 1 to 3 endpoints, 2 addresses, 2 permits, 2 latencies | `FastestSelected`, `FailureIsTotal`, `FirstAddressReported` |
| `autoconnect` | responses of up to 3 entries of 5 kinds, 6 fallback texts, 2 addresses, 1 permit | `TokenOnlyToChosen`, `SourceIsTrue`, `FallbackIsAccepted`, `ParsedWell`, `FallbackUsed` |

Where a module has a type invariant its runs check it too.

The bounds, and why they are enough. `MaxCalls`: with three sends a task can find the slot
replaced twice by the other one and replace it itself in between, and a newcomer can get
ahead of a task that waits more than once, which is what breaks `ReconnectWaitBound` when
the queue has no order; longer queues are left to `WaitIsBounded`, which is proved for any
number of tasks. `max_attempts` 2 has a backoff and an exhaustion. `MaxConns` 3: a first connection, a
reconnect that meets its ghost in the server's count, and a third one that meets a
revocation; three faults lose the first, fail the second and disturb the third. `Limit` 1
is where a ghost matters most. Six characters hold a bracketed literal with a port of one
digit, a bracketed name with a signed port, or both ends malformed; `DecimalValue` makes
99 a port beyond the range and 90 the last in it. `MaxDuration` 7: doubling 4 leaves it.
`Policies` lie on both sides of every test of `validate`; `max_attempts` 0, 1, 4 and None.
Three endpoints on two permits make one wait; two latencies make ties, within and between
endpoints. The symmetry of `session_safety` and `delivery` is in the tasks, which
nothing orders; the liveness runs use none.

Each property of a passing run has a mutant in `PROJECT.json`: a definition of the same
module named `Mutant...`, placed before the one it replaces, which makes the property
fail.

### Fairness

`Session!Fairness`: weak fairness for what timers, the lock and the runtime bring about.
Every attempt is inside `tokio::time::timeout` (370), every dial inside another (203), so
`AttemptEnds` and `DialResolves` cannot stay enabled for ever; `LockGranted` is the
fairness of tokio's `Mutex` and the polling of a runnable task; `Install`, `Wake`, `Close`
and `EndpointIdle` are a write lock nobody holds across an await, a sleep, a step without
an await, and the endpoint's notification. The peer and the network owe nothing: no
fairness for `PeerReceives`, `LoseConnection`, `OpenUni` or `WriteAll`, nor for callers.
`LastClosesReturn` speaks of clones that all close: a clone that reconnects after
another's `close` and is then dropped leaves its connection to the other, whose
`wait_idle` then waits for the server. `EveryCallReturns` needs a finite `max_attempts`:
with `None` and an unreachable server the loop goes on by design. `auth_liveness` shows
what is left of it with `None`.

`Handshake!FairSpec`: the loop dials and the handshake runs on (`Dial`, `Handshaken`: a
sleep, a runnable task); a packet that is not lost arrives (`Delivery`: quinn
retransmits until a connection is given up, and giving it up is a fault); and, for each
connection, the server answers a token line, hears a close, and expires a connection whose
client is gone (a server's idle timeout). The last group is an assumption about the
server, without which no client could promise `Recovers`. Faults are finitely many, which
is what "the network works again" means here. No fairness for `Reconnect` (it needs a
send), for a fault or for a revocation.

`AutoConnect!Fairness`: discovery, lookups, probes and dials all have timeouts. Every
probing step makes progress, so weak fairness of `ProbeStep` as a whole is enough.

## 4. Where code and documentation differ

- `OkOnceQueued`: `send_transaction_bytes` is documented to return `Ok` once the bytes
  are in the local send buffer. `send_on` waits in `stopped()` for the peer to
  acknowledge the stream. The run has reconnect disabled: a send whose stream is finished
  returns `Timeout`. With reconnect it is replayed although the peer may have it.
- `TimeoutCloses`: on `send_timeout` "the connection is closed". The replay's timeout
  does not close the fresh connection, nor does any timeout with `reconnect.enabled`
  false.
- `RefusalSurfaces`: authentication errors are surfaced "immediately". In `connect` a
  refusal at one address is followed by the next address, whose outcome replaces it.
  (The reconnect loop does keep the promise: `RefusalStops`, `StaleTokenStops`.)

Two more observations are modelled without a violated run of their own. "One transaction
per stream" (`src/README.md:8`): a stream that a timeout or a dropped call gives up half
written is finished by quinn, so the peer may read a truncated transaction as a complete
stream, before the replay or after it. After a first timeout the connection is closed at
once, so that no more is sent, but what is on its way may still be read; after the replay's
timeout, a dropped call, or with reconnect disabled nothing closes it. `OkIsDelivered` shows
that `Ok` never rests on such a stream. And
`split_host_port` accepts texts `lookup_host` cannot resolve, `[name]:port` or
`[::1]:+9`: such a fallback passes validation and fails with `Resolve` when it is needed.
`ParsersAgree` therefore says that the parsers never disagree about the host, not that
every accepted text resolves.

## 5. What is proved

With TLAPS: every invariant and every action property that a run checks, and the
refinement. Liveness is not. Each proof has the same outline: an inductive invariant
(`IInv`, `Inv`, `WaitInv`, `DeliveryInv`, `PaceInv` or `AutoInv`, each of which TLC has
checked as an invariant of a run first), one lemma or step per action, and theorems that
read the properties off it.

| Component | Theorem | Statement |
|---|---|---|
| Session | `SessionProofs!Typing` | `Spec => []TypeOK` |
| | `SessionProofs!Invariance` | `Spec => []IInv` |
| | `SessionProofs!OneConnection` | `Spec => []SingleConnection` |
| | `SessionProofs!NothingLeftOpen` | `Spec => []LastCloseLeavesNothing` |
| | `SessionProofs!Refinement` | `Spec => AtMostOneReplay`, i.e. `Session` implements `Submission` |
| | `SessionWaiting!WaitIsBounded` | `Spec => []ReconnectWaitBound` |
| Delivery | `DeliveryProofs!OkMeansDelivered` | `DeliverySpec => []OkIsDelivered` |
| Backoff | `BackoffProofs!BackoffTyping` | `Spec => []BackoffTypeOK` |
| | `BackoffProofs!BoundedReconnect` | `Spec => []StuckReturns` |
| | `BackoffProofs!BackoffOnSchedule` | `Spec => []OnSchedule` |
| | `BackoffProofs!SleepsArePaced` | `Spec => []Paced` |
| Handshake | `HandshakeProofs!HandshakeTyping` | `Spec => []HandshakeTypeOK` |
| | `HandshakeProofs!StopsOnlyForCause` | `Spec => TerminalIsDeserved` |
| | `HandshakeProofs!RefusalIsFinal` | `Spec => RefusalStops` |
| Connect, Address | `ConnectProofs!ConnectTyping` | `Spec => []ConnectTypeOK` |
| | `ConnectProofs!TriesEveryAddress` | `Spec => []EveryAddressTried` |
| | `ConnectProofs!VerifiedNameIsResolved` | `Spec => []VerifiesResolvedName` |
| | `ConnectProofs!ParsersAlike` | `Spec => []ParsersAgree` |
| Probing | `ProbingProofs!ProbingTyping` | `Spec => []ProbingTypeOK` |
| | `ProbingProofs!SelectsFastest` | `Spec => []FastestSelected` |
| | `ProbingProofs!ReportsEveryFailure` | `Spec => []FailureIsTotal` |
| | `ProbingProofs!ReportsFirstAddress` | `Spec => []FirstAddressReported` |
| AutoConnect | `AutoConnectProofs!AutoTyping` | `Spec => []AutoTypeOK` |
| | `AutoConnectProofs!TokenGoesToChosen` | `Spec => []TokenOnlyToChosen` |
| | `AutoConnectProofs!SourceTells` | `Spec => []SourceIsTrue` |
| | `AutoConnectProofs!FallbackAccepted` | `Spec => []FallbackIsAccepted` |
| Discovery | `AutoConnectProofs!ParsesEveryResponse` | `Spec => []ParsedWell` |
| composition | `AutoConnectProofs!FallbackComesFirst` | the safety part of `FallbackUsed` |
| | `AutoConnectProofs!ProbesAsPromised` | `Spec => []` of what is proved of `Probing` |
| | `AutoConnectProofs!FallbackIsConnect` | `Spec => C!Spec`, i.e. `AutoConnect` implements `Connect` |

### The assumptions

Each is an `ASSUME` of the module it is about, and TLC evaluates it on the runs.
`Session`: the tasks are a finite nonempty set, the limits are natural numbers,
`max_attempts` may be `None`, the dial errors are some of those the code knows. `Backoff`:
a policy is one `ReconnectPolicy` can hold. `Handshake`: a server admits at least one
connection and at least one is known; the bounds are natural numbers. `Probing`: at least one permit (the constant
is 16), endpoint and address, latencies are natural numbers. `Address`: a name DNS knows
is not empty and has no bracket or colon (`NamesAssumption`; without it lookup_host could
resolve the text `[a]` as a name). `Connect`: a text is a sequence of characters.
`AutoConnect`: a body that is a list is a sequence of texts, and no list is longer than
`Count`, which is what the array of tasks in `Probing` is made for; in the code the list
is as long as it is.

### Session

`SingleConnection` is not inductive. That a dial finds no open connection rests on a
chain: only one task dials (`LockDiscipline`); the slot still holds what that task gave
up (`HolderIsCurrent`, from the pointer comparison under the lock and from nobody else
installing); what a task gives up is dead (`StaleIsDead`, from the close on timeout), and
stays dead because numbers are not used twice (`Numbering`); and what is open is in the
slot or in the hands of the task about to put it there (`LiveIsReachable`). Their
conjunction with the types is `SlotInv`. `IInv` adds `ClosersKnow`: once nobody sends any
more, an open connection is one that some task has read and is about to close. Its step
case is `BeginClose`: when the last sender begins to close, nobody is installing, so all
that is open is in the slot it reads. `NothingOutlives` says the same of the last handle
that leaves.

`Refinement` maps the slot to `current`, liveness of the slot's connection to `up`, and
each call to a stage and a carrier. Lemma `Frame` reduces a step to the task that takes
it; `RefFail` needs that the close on timeout hits the connection of the failed attempt,
`RefInstall` that the replaced connection is dead and the new number larger, `RefReuse`
that a changed slot is a newer one.

`WaitIsBounded` is a potential argument. `Claims` says of every waiting task that what it
has waited, the dials the holder of the lock may still make, and a full round for each
task ahead of it are no more than a full round for all the others. A dial moves one unit
from the holder's part to the task's own. When the lock passes on, the new holder leaves
the queue of all others, and its round becomes the holder's part: that it was ahead of
all of them needs the order of the queue (`QueueOrder`), which is tokio's fairness. A
task that joins has everybody else ahead of it but the holder (`Sizes` counts them). The
step lemmas speak of `StepKinds`, the few ways in which an action touches the queue and
the counts.

### Delivery

`DeliveryInv` ties `streams` to the state of `Session`: `StreamOf` and `FateOf` say which
fate the stream of the running attempt has in each state of its call, and a replay runs
only with the first connection down. That is where `SlotInv` comes in (`DownStaysDown`): a
connection number that is dead is never live again. `TaskStep` proves the invariant for
the kinds of steps a call can take (`TaskKinds` sorts the actions of `Session` into them),
`LateStep` for a peer that reads later: only a stream that has been given up changes, and
no result rests on one.

### Backoff

`StuckReturns` bounds the end of a reconnect and says nothing of its middle. `Inv` adds
`Budget`: before a dial at most `attempts` dials and as many sleeps have been spent, before
a sleep one sleep less; and `WithinPolicy`: the backoff lies between the bounds that
`validate` has compared, so no sleep is longer than `max_backoff` (`NextWithin`,
`JitterWithin`). That is where the validation is needed: with `max_backoff` below
`initial_backoff` the first sleep breaks the bound. The products are handled by `OneMore`
and `Monotone`, and `DialCost` adds one dial to a budget.

`ScheduleSteps` is the arithmetic of `next_backoff`: doubling, saturating and capping
what is `min(initial * 2^k, max)` gives the same with `k + 1`, because `max_backoff` is
itself a representable duration; `PowerDoubles` is the exponential law behind it, got by
counting subsets. The sums of `Paced` are a recursive function. An induction theorem
cannot be cited for it, so `SumsUpTo`, `SumsAgree` and `SumExists` show by least
counterexamples that there is one function of all sums, and `WholeSteps` and
`HalvesSteps` that it grows by one term at a time.

### Handshake

`CodesAreEarned` says that a terminal code is on the wire, or known to the client, only
once the token is not valid, and `Unannounced` that a server which has not seen the token
line cannot have answered it. A server that closes for reasons of its own, or because its
count lags, sends other codes; a token once revoked stays so. `StopIsDeserved` goes through
the steps that may end the loop: a `TransportError` only comes from a dial while the
certificate is not trusted, every other terminal error is a code that was earned.
`RefusalIsFinal` follows
from the client's actions alone, once the types are known.

### Connect and Address

Everything `Connect` adds to the parsers is `TriesInOrder` (one error for each address
before `next`) and `NameIsSplit`.
`LooksUpTheSame` is the heart: for a text of any length, what `lookup_host` resolves is
what `connect` took for the host. It turns on where characters are: the text before the
last colon has a closing bracket at its end only if the first closing bracket of the text
is that one, since a literal between them has none, and neither has a name.
`SplitsAlike` is the same for `split_host_port`, which accepts less.

### Probing

The folds are invariants over what has been measured: `BestIsFastest` and
`FirstErrIsFirst` per endpoint while its probes end, `OutcomeOfJoined` and
`JoinedWithOutcome` over the endpoints as their tasks end, `AnswerIsRight` for the result.
`SelectBest` shows that the choice of `select_best` exists, whatever the set of results.
`ProbesHaveTasks` is what makes them hold: nothing is measured for a task that has been
joined.

### AutoConnect and Discovery

`AutoInv` is the invariant of `Probing` together with an account of the stages: what is
known, what has been started and what may have been shown the token at each of them
(`StageOrder`, `ListIsParsed`, `ReasonIsTrue`, `TokenIsHeld`, `SourceIsSet`). The probes
of `connect_auto` are steps of `Probing` (`SameProbe`), so `ProbingProofs` is cited and
not repeated; only the drop of the future is new (`ProbesDropped`). `SelectedProbes`
gives that no probe is running once one is selected. That the fallback is accepted uses
`SplitsAlike`'s argument again (`FallbackSplits`), and that the selected endpoint splits
uses `ParsesWell`: what is listed has been split before, so `InvalidResponse` means an
empty list.

`ParsesWell` is about the fold of `parse_endpoints`. `FoldExists` shows by the least
counterexample that the function the fold is defined by exists, `FoldStep` that it takes
one entry at a time, and `ListStep` that `Lists`, the statement about the first `k`
entries, passes from `k - 1` to `k`: what is appended is new, and its earliest place is
`k`, beyond the places of all before.

### Only model-checked

Everything under fairness (`EveryCallReturns`, `LastClosesReturn`, `FallbackUsed`,
`Recovers`, `StaleTokenStops`): liveness and `ENABLED` are out of the prover's reach. Of
`FallbackUsed` the safety part is proved. The three violated properties are
counterexamples and stay with TLC. What `DecimalValue` computes for a port of any length
is a fold nothing has been proved of: the theorems about the parsers hold whatever the
value of a port is, and that ports are told apart at `MaxPort` is checked on the run.

## 6. Not modelled

- Validation other than of host:port and of the backoff policy (trust roots, send, idle
  and keep-alive times, the token's characters, the discovery URL, the probe timeout): one
  outcome, pass or not. Nothing later relies on more than that they passed.
- JSON: a response is a list of strings in one of the two shapes, or neither. The HTTP
  request is one step. `error_summary` and `error_chain` only word errors.
- Bytes. A stream is whole or cut; a message of the handshake is one message.
- TLS and QUIC configuration, logging, error texts, the examples: no state of their own.
- Keep-alive and idle timeout inside quinn: they appear as `LoseConnection`.

## 7. Plan

Done: sections 2 to 5, in the order Session with Submission and its proofs, Handshake,
Probing, Connect, AutoConnect, Backoff with its proofs, Address, Discovery, Delivery, then
the proofs of the remaining safety properties. What is left, most important first:

1. An abstract specification of `probe_all` (one choice among the endpoints that
   answered) and of `connect_auto` (who is offered the token, in which order), and the
   proofs that `Probing` and `AutoConnect` implement them.
2. That a dial of `Session` is a run of `Handshake`: the outcomes in `DialErrors` are those
   `Handshake` can end in, and a connection it hands over is one the server has accepted.
3. `DecimalValue` for ports of any length, by the same argument as the fold of
   `parse_endpoints`.
