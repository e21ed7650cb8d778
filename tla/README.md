# Runtrol: models, checks and proofs

Runtrol is a local runtime: one daemon per machine that starts and supervises
coding-agent processes (Claude Code, Codex, any ACP agent), gives every session
an event stream that editors, terminals and a phone can watch and reconnect to,
hosts their command lines on pseudo terminals, and carries messages, input and
approvals between them. This directory holds TLA+ modules for the parts of it
whose correctness depends on the order of events, the TLC configurations that
check them on small instances, and proofs, checked by TLAPS, that hold for every
value of the constants. Paths below are relative to `crates/` of the repository.

Contents: [parts](#1-the-system-and-its-parts) ·
[modules](#2-modules-and-the-code-they-model) · [runs](#3-runs) ·
[fairness](#4-fairness) · [proofs](#5-proofs) ·
[findings](#6-findings-and-observations) · [left out](#7-what-is-left-out) ·
[plan](#8-plan) · [how to run](#9-running-it)

## 1. The system and its parts

| part | where | state it keeps | operations | what makes it correct | here |
|---|---|---|---|---|---|
| event hub | `runtrol-core/src/events`, the session relay of `runtrol-daemon/src/runtime_serve/watch_relay.rs`, the subscription of `runtrol-runtime-client/src/client.rs` | stream and epoch, sequencer, replay window, one bounded queue per watcher | publish, attach, subscribe, receive, resume | no event skipped in silence, none shown twice, bounded memory, every lag told | `SessionHub` |
| session manager | `runtrol-core/src/session` | live sessions, slots reserved, agents lent, providers being updated | reserve, attach, close, lend, return, pump | process count bounded, a hold never orphaned, no two writers in one tree | `SessionManager` |
| daemon owner loop | `runtrol-daemon/src/serve.rs`, `dispatch.rs` | the manager, waiting replies, guards | one select arm per source | every reservation is attached, cancelled or released | in the three modules that meet it |
| courier | `runtrol-courier/src`, `runtrol-daemon/src/courier_gate` | mailboxes, calls, rooms, receipts; managed sessions, workers, waiting connections, the expiry task | send, receive, answer, cancel, rooms, spawn | at most once, no lost wake-up, a call ended only for cause, nothing leaks | `Courier`, `CourierGate` |
| native claims | `runtrol-daemon/src/native_claims.rs`, `generations.rs`, `terminal_surface/` | who holds a provider's conversation, also across generations | reserve, commit, name, release, drain, relay | one owner per conversation, also while one generation hands over to the next | `NativeClaims` |
| runtime control | `runtrol-daemon/src/runtime_control.rs`, `runtrol-store/src/integration_mutations.rs` | leases of control, the ledger of mutations | acquire, renew, release, submit, approve, open, cool | a mutation is delivered once, an answer stays true, control passes fairly | `RuntimeControl` |
| isolated workspaces | `runtrol-daemon/src/isolated_workspace` | durable rows, worktrees, who lives in them | prepare, bind, resume, release, recover | nothing removed under a process or with work in it | `Worktrees` |
| terminal host | `runtrol-core/src/terminal` | output ring, screen, order of input, failure, exit | publish, apply, answer, write, resize, attach, tell the exit | lossless authority, exact views, exit told and told last | `TerminalHost` |
| generation authority, audit relay | `runtrol-daemon/src/generation_authority.rs`, `audit_relay.rs` | frozen grants, audit lines acknowledged | push, refuse, replay | a draining generation honours a revocation | plan |
| runtime terminals | `runtrol-daemon/src/runtime_terminal` | control of a terminal: priority and leases | view, take control, release | one writer, priority to the person | plan |
| child processes | `runtrol-childproc/src` | tracked process trees and their durable registry | spawn, track, kill, recover | no child outlives its keeper | plan |
| update | `runtrol-update/src` | staged, installed and previous version | stage, swap, confirm, roll back | a failed update leaves a version that runs | plan |
| pairing and integrations | `runtrol-daemon/src/pairing_admin.rs`, `runtrol-store/src/integrations.rs` | devices, integrations, grants, one-time codes | pair, grant, revoke | a revoked grant allows nothing | plan |
| store | `runtrol-store/src` | redb tables | single transactions | atomic by the database | taken as given |
| presence, grants and scopes | `runtrol-security/src` | proofs of presence | prove, expire | checks of one value each | not modelled |
| window registry and focus | `runtrol-daemon/src/window_registry` | which window shows which process | observe, forget | a cache of what the system says | not modelled |
| IPC, transport, relay | `runtrol-ipc`, `runtrol-transport` | frames, Noise sessions, sockets | read, write, handshake | bounded frames, in order | taken as given |
| drivers | `runtrol-drivers`, `runtrol-provider` | provider dialogue | parse, translate | every line an event or a refusal | nondeterministic provider |
| vault, command line, clients, sites | `runtrol-vault`, `runtrol-cli`, `clients`, `extensions`, `pwa`, `relay`, `site` | view state | render, reconnect | presentation | not modelled |

**How they meet.** The owner loop is one task. It owns the session manager and,
through it, every event hub; connections, drivers, exits and the relay to other
generations are tasks of their own that talk to it through bounded channels. A
slot, an agent or an exclusion leaves the owner as a guard that comes back in a
message, also when the task that holds it is dropped. The courier and the claim
registry are values behind one lock each; a worktree's row is behind a file lock
and outlives the daemon, as do the ledger of mutations and the generations'
locator. A terminal host is a small set of tasks around one ring.

**What is hard** is therefore not data races but the order in which tasks are
heard, and what a crash leaves behind: a reservation answered after its asker
has gone, an agent returned after its session closed, a watcher that reconnects
with a position of a hub that is gone, a queue that is full exactly when its
reader must be told so, a process born before the row that names it can be
written, an identifier judged by another clock than the row that remembers it, a
successor that opens what its predecessor has not let go. `PROJECT.json` lists
these hazards one by one, each at its line, with the properties that would catch
it going wrong.

## 2. Modules and the code they model

Every definition that stands for code is listed with its file and lines under
`map` in `PROJECT.json`. Definitions whose comment says *Mutant of ...* are the
deliberately wrong variants the properties are tried against; nothing else uses
them.

| module | extends | role |
|---|---|---|
| `ReplayRing` | | the replay window as an operator on sequences |
| `WatchStream` | | the abstract promise of a watch: a log per attach and positions in it |
| `SessionHub` | `ReplayRing` | hub, queues, writers and consumers; implements `WatchStream` |
| `SessionManager` | | the owner of live sessions and the tasks that ask it |
| `Courier` | | the courier as a value: operators from one value to the next; its loops are `After` |
| `CourierGate` | `Courier` | the lock around it, connections, dialogues, workers, expiry |
| `NativeClaims` | | the claim registry, its users, and generations that hand over |
| `RuntimeControl` | | leases of control and the ledger of mutations over restarts |
| `Worktrees` | | one durable row, its directory, and who may live in it |
| `TerminalHost` | | the lanes of one hosted command line |
| `MC...` | its module | instances for TLC: sessions of one tree or several, symmetry, views |
| `...Proofs` | its module | theorems and their proofs |

**SessionHub** (`events/*`, `watch_relay.rs`, `client.rs:1925-2045`). `live`,
`stream`, `epoch`, `next`, `srcEnd` are the hub and its sequencer; `ring` the
replay window; `view[w]` everything of one watcher on the daemon's side: whether
its receiving and sending ends exist, what it replays, what is queued, the one
item its writer holds, and whether that item still counts against its lease.
`accepted`, `pending`, `gap` and `at` are the SDK's consumer. `Publish` is a
driver's frame through the sequencer (which may report that its own position went
back), the window and the fan-out; `Attach`, `CloseSession` and `OpenSession`
change the attach; `Subscribe`, `Recv`, `DeliverEvent`, `DeliverLagged`,
`StreamEnds` and `Accept` are a watcher's life; `Drop` and `Restart` lose its
connection or its process. A frame is its kind, its position and its size. The
owner is one task, so each hub operation is one step.

**SessionManager** (`session/manager.rs`, and the arms of `serve.rs` and
`dispatch.rs` that use it). `live`, `opening`, `inFlight`, `updating` and the two
counters are the fields of `SessionManager`; `task[t]` is what one connection's
task does and holds; `mail` the tokens given back and not yet heard. A token is
one of the Rust guards, and `Carries(t)` what dropping the task sends. Requests,
attachments and returned agents travel on three channels, so `mail` is unordered.
`working` records prompts that a provider took and has not finished.

**Courier / CourierGate** (`runtrol-courier/src`, `courier_gate/*`). The courier
owns no thread and no clock; each of its calls is an operator on the value, in
two halves: what it accepts and what it does. An action of the gate is what
happens between taking the lock and letting it go. A wait registers for the ring,
looks, and sleeps outside the lock (`armed`, `asleep`, `rung`); a call it opened
is abandoned in a second step if its connection goes. `expirer` is the expiry
task: it looks, sleeps until the next deadline, and is rung by whatever changes
the courier.

**NativeClaims** (`native_claims.rs`, `generations.rs`, `terminal_surface/launch`,
`dispatch.rs`). `structured`, `pending` and `terminals` are a generation's own
claims; `remote` what its peers said they hold; `legacy`, `compatible` and
`misses` the barrier and the patience of the relay, whose loop is `round`. `work`
is every session and terminal from admission to end. `Start`,
`BeginDrain`, the steps of a relay round, `Leave` and `Crash` are the generations'
life.

**RuntimeControl** (`runtime_control.rs`, `integration_mutations.rs`). `ledger` is
the table that outlives daemons, `memory` the in-memory copy of one, `leases` the
control leases, `proc` each session's process as far as control can see it,
`flight` the command of a mutation while a connection carries it, and `answered`
(a history) what drivers have answered to the opens of a mutation. The owner
answers a request in one step; `DiesWithin` is a daemon that dies between the two
writes of such a step. An open is taken, delivered to the provider, and answered by
the driver (`DriverAnswers`) with an agent or an error. `FinishOpen` records an
agent as done. `OpenDenied` records as denied an open refused on its way and one
whose driver answered with an error, even after the provider had it.
`OpenAbandoned` is everything that is recorded as unknown: a deadline, an
authority or an attachment that is gone, a dropped connection.

**Worktrees** (`isolated_workspace/*`). `row` is the durable row, `disk` and `work`
the directory, `op` the operation that holds the row's stripe lease and whether
its copy is still of the row's revision, `occ[p]` how far the Runtime that starts
process `p` has got, `live` the processes, `seen[s]` the copy a session's close or
reopen read before it took the lease. `Crash` ends a Runtime between any two
steps; its Git commands may leave half a checkout and its processes may run on.
`KeeperCompletes` is the keeper's proof that all processes of a generation ended;
with `Keepers = FALSE` (`completion.rs` off Windows) a generation counts as ended
as soon as it is gone. After its `Birth` a process may run and exit before it is
bound, as off Windows; on Windows it is prepared first and runs once bound, which
is one of those orders.

**TerminalHost** (`terminal/mod.rs`, `completion.rs`, `operation.rs`, `opening/`,
`runtime_serve/terminal_stream.rs`). The reader thread and its queue (`reader`,
`incoming`), the host task (`host`, `next`), the authority (`authority`,
`through`, `permit`, `screen`, `available`), the order of input (`order`,
`caller`), the ending (`finished`, `failure`, `watcher`, `child`, `console`) and
the viewers (`view`). The runtime has one thread, so an action is what a task does
between two points where it really waits; the reader, the writer and the stop
worker are threads. `Shared::finish` does not wait, so its flag and the
backpressure it releases are one variable. `console` says where the terminal runs:
one of Windows is `open` and then `closed` by the exit watcher; a Unix pseudo
terminal is `kept`, since finishing it closes nothing. A kill may fail, which is
reported and not tried again, so `Fail` may leave the child running.

## 3. Runs

Each run asks a distinct question. All of `Spec` is explored: TLC reports no
state left on its queue.

| run | instance | states | shows |
|---|---|---|---|
| `hub` | 1 watcher, 5 frames of sizes 1, 3 (notice), 5, 7, window of 2 frames and 4 bytes, queue of 2 frames and 9 bytes, 2 hubs of 2 attaches, 1 lost connection | 377k | `TypeOK`, `LagIsTold`, `MemoryBounded`, `ReplayIsExact`, the refinement `WatchPromise`, and `CatchesUp` |
| `manager` | 2 tasks, 3 sessions of one tree and one CLI, 2 slots, 4 generations of tokens | 1.53M | `TypeOK`, `HoldsAreExact`, `ProcessesAreExact`, `ChangesRunAlone`, `WriterAlone` |
| `manager_live` | 2 tasks, 1 slot, opens and closes | 31k | `EveryWaitEnds` |
| `manager_work` | 1 task, opens and sends | | finding: `WorkIsNotEvicted` is violated |
| `courier` | 2 connections, 3 messages, ask, receive, answer, cancel | 412k | `TypeOK`, `SleepersMissNothing`, `MailIsExact`, `CallsEndForCause`, `HandoffIsExact` |
| `courier_rooms` | 2 connections, 2 calls, 1 room, a clock that may be set back | 80k | `RoomsAreExact` |
| `courier_ends` | 1 connection, tell, spawn, room, receive, answer; dialogue turned off and on | 140k | `MailboxesMatchGate`, `EverythingExpires` |
| `claims` | 2 generations, 1 session and 2 terminals of which 2 begin, 1 conversation, 1 folder, patience 2, crashes | 482k | `TypeOK`, `ClaimsAreTrue`, `SoleOwner`, `HandoverHolds`, `BarrierRunsOut` |
| `control` | 2 daemons, 2 mutations, 2 integrations, 1 session, ledger of 1 row, clock of 3 moments | 411k | `TypeOK`, `LeaseNamesItsProcess`, `RepeatedOnlyIfEarly`, `OutcomesAreTrue`, `ControlPassesFairly` |
| `control_repeat` | 1 mutation, clock of 5 moments | | finding: `NeverRepeated` is violated |
| `worktrees` | 2 Runtimes, 1 worker and 2 resuming terminals, or 2 sessions | 262k | `TypeOK`, `OccupancyIsTrue`, `RowIsTrue`, `RemovedOnlyWhenVacant` |
| `terminal` | 1 viewer, 1 caller, ring of 1 chunk, reader queue of 1, 2 admissions, 2 chunks | 477k | `TypeOK`, `Lossless`, `ViewsAreExact`, `ExitIsLast`, `FailureIsFinal`, `ExitIsTold` |

**Why the bounds are enough.** They are chosen so that every limit is reached and
every race has its actors, and larger instances were explored once without
change of outcome.

- *hub*: the window evicts by frames and by bytes, holds a loss marker, and is
  crossed by a resume; the queue fills by frames and by bytes; a frame of 5 is
  larger than the whole byte budget and goes alone. Two hubs of two attaches make
  cursors of another stream and of another epoch.
- *manager*: two slots and two tasks are the fewest for an eviction beside an
  open; three sessions of one tree make every pair of them conflict. Four
  generations let a slot be reused twice. The run drops `working`, which its
  properties do not read, from the state (`VIEW`). An instance of two providers
  and nested trees passes too (4.7M states). Generations count up to
  `MaxGeneration` where the code counts to `u64::MAX`.
- *courier*: two connections make a wait and the other end of its call; a third
  message makes the reused call identifier and the late reply. Mailboxes hold 1
  or 2 envelopes, so they fill. One connection with tells, three messages and two
  body sizes passes as well (274k).
- *claims*: two generations are one handover; three would be two handovers in a
  row, whose frozen claims the code exports again. A third begun work and a
  second conversation (1.43M) change nothing.
- *control*: two daemons are one restart; the clock of three moments passes the
  window, the skew and the lifetime of a lease. Two ledger rows pass with
  `acquire`, `submit` and `start` (4.04M).
- *worktrees*: two Runtimes overlap or follow each other; three pass (1.16M).
- *terminal*: a ring of one chunk for two written ones makes publication wait,
  overruns the authority once exit has freed publication and makes a viewer lag; three chunks
  (1.95M) and two callers (1.29M) pass without the liveness property.

`CHECK_DEADLOCK FALSE` stands where the modelled system may really come to rest: a
session nobody watches, a courier without mail, a worktree that is released.


## 4. Fairness

Liveness is checked under the fairness the code's scheduling gives, and no more.

- *hub*: `WF(Watcher(w))` for every watcher. The runtime polls every connection
  task; a client that keeps watching reads, accepts and reconnects. Nothing makes
  the provider speak: `CatchesUp` is about what was published.
- *manager*: the arms of the owner loop are fair (`WF(Owner(t))`), since the loop
  polls its sources in turn; so are a victim's close, the end of a stop or of a
  cleanup (both bounded by a grace period and a kill), and a task hearing what was
  decided about it. A driver's opening, a provider's send, removals, updates and
  what a client asks are not.
- *courier*: `FairSpec` says, as `[]<>` formulas over states each step leaves, that a
  notified waiter looks again, a connection that has gone is abandoned, the expiry
  task makes its three steps, and the clock reaches `MaxTime`. No wait is assumed
  to time out.
- *terminal*: the host's tasks are scheduled, a blocked write is given up at its
  deadline, a child whose kill succeeded exits, and the reader of a *closed* console
  ends. The last is Windows: closing the pseudo console ends its output. On Unix
  `finish` closes nothing (`pty/unix.rs:131-137`), end of file waits for the last
  holder of the slave, and a kill reaches the root process only, so a descendant
  may keep the reader for good; nothing fair ends it, and `ExitIsTold` claims the
  exit there only once the reader has ended. Nor does anything fair end a child that
  was not killed or whose kill failed.
- *claims*, *control*, *worktrees*: safety only, no fairness.

## 5. Proofs

TLC checks instances; the theorems below hold for every value of the constants
that the assumption of the module allows (`HubAssumption`, `ManagerAssumption` and
so on, evaluated by TLC on every run). Each proof has the same plan: an
inductive invariant `IInv`, checked by TLC before it was proved; a lemma that `Init`
implies it; one lemma per action that the action keeps it, with a step per
conjunct; and the properties as consequences. The temporal step is a
single application of the rule for invariants.

| module | inductive invariant | theorems (property stated) |
|---|---|---|
| `SessionHubProofs` | `TypeOK`, the window is dense and ends at the live boundary, every subscriber expects the next position, `HistoryOK`, `ConsumersOK`, `FlowOK`, `ReserveOK`, `LagIsTold`; for memory `MemInv` | `HubInvariant`, `HubTypeCorrect` (`TypeOK`), `WindowStaysDense`, `SubscribersStayAligned`, `LagIsAlwaysTold` (`LagIsTold`), `HubImplementsWatch` (`WatchPromise`), `ResumesAreExact` (`ReplayIsExact`), `MemoryStaysBounded` (`MemoryBounded`) |
| `SessionManagerProofs` | `TypeOK`, `OwnerInv` (keys apart, what is out is live but not with its owner, updates and cleanups exclude), `TaskInv` (holds match the phases of the tasks), `GuardsAreExact`, `ProcessesBounded` | `ManagerInvariant`, `ManagerTypeCorrect` (`TypeOK`), `HoldsStayExact` (`HoldsAreExact`), `ProcessesStayExact` (`ProcessesAreExact`), `ChangesAlwaysRunAlone` (`ChangesRunAlone`), `WritersStartAlone` (`WriterAlone`) |
| `RuntimeControlProofs` | `TypeOK`, `MutationsOK` (trace, ledger row and delivery of each request agree), `LeasesOK` | `ControlInvariant`, `ControlTypeCorrect` (`TypeOK`), `TimelyIsNotRepeated` (`RepeatedOnlyIfEarly`), `RecordsAreTrue` (`OutcomesAreTrue`), `LeasesNameProcesses` (`LeaseNamesItsProcess`), `ControlIsPassedFairly` (`ControlPassesFairly`) |
| `TerminalHostProofs` | `LaneInv` (types, queue, lanes, screen, `Lossless`), `TurnTypes`, `ViewInv` | `HostInvariant`, `HostTypeCorrect` (`TypeOK`), `AuthorityIsLossless` (`Lossless`), `ViewsStayExact` (`ViewsAreExact`), `ExitComesLast` (`ExitIsLast`), `FailureStays` (`FailureIsFinal`) |
| `WorktreesProofs` | `Base`: types, `KindOK`, `ProcessesOK`, `LeaseOK`, `OwnersOK`, `DiskOK`, `GenerationsOK`, `CopiesOK`; with keepers also `Vacancy` | `WorktreeInvariant`, `WorktreeTypeCorrect` (`TypeOK`), `RowStaysTrue` (`RowIsTrue`), `OccupancyStaysTrue` (`OccupancyIsTrue`), `RemovalIsVacant` (`RemovedOnlyWhenVacant`) |
| `NativeClaimsProofs` | `Base`: types, `RoundsOK`, `PhasesOK`, `WorksOK`, `StructuredOK`, `TerminalsOK`, `SoleOwner`, `CountedOK`, `HandedOK`; where the locator can be read also `HandoverOK` | `ClaimsInvariant`, `ClaimsTypeCorrect` (`TypeOK`), `ClaimsStayTrue` (`ClaimsAreTrue`), `OneOwner` (`SoleOwner`), `HandoverIsSafe` (`HandoverHolds`), `BarriersRunOut` (`BarrierRunsOut`) |
| `CourierGateProofs`, over the lemmas of `CourierProofs` | `Sound` (types, mail in the mailbox of its target, bytes charged), `GatesOK`, `MailboxesMatchGate`, `ConnectionsOK`; with identifiers that are new also `Exact`; for sleepers `WaitersOK` and `SleepersHeard`; for final states `RepliesSettled` | `TypeCorrect` (`TypeOK`), `MailboxesStayMatched` (`MailboxesMatchGate`), `AccountsBalance` (`BytesAreCharged`, the sums in `BytesExact`), `MailStaysExact` (`MailIsExact`), `RoomsStayExact` (`RoomsAreExact`), `NoWakeUpIsLost` (`SleepersMissNothing`), `CallsEndOnlyForCause` (`CallsEndForCause`), `WaitersReadOnlyTheirReply`, `NoMessageReturns`, `FinalStatesStay`, `HandoffStaysExact` (`HandoffIsExact`) |

**The arguments, and why the invariants are what they are.**

- *Hub*. `WatchPromise` is a refinement: every step of the hub with its queues,
  window, failures and reconnects is a step of `WatchSpec` or a stutter. The proof
  needs that the window is a dense run of positions, so that a resume that finds
  its cursor inside has missed nothing, and that a queue holds exactly the
  positions between what was read and what the subscriber expects. Exact resumption
  adds that positions identify the frames of the window (`AnswerIsFromWindow`), so
  that a replay of the right positions is a replay of the right frames. The memory
  bound rests on `MemInv` (a lag item is the last of what is held, and only a retired
  watcher has one) and on the sum of bytes: what appending and dropping a frame do to
  it (`BytesOfAppend`, `BytesOfTail`) is proved by taking a smallest counterexample
  (`UpTo`, from the well-foundedness of the naturals).
- *Manager*. A guard leaves the owner with a token, and what the owner records is
  compared with the token when it returns. One would expect to need that
  generations are fresh; the proof does not: exactness (`GuardsAreExact`: each
  token is held once, by the phase that needs it) already excludes a stale one.
  `Occupied <= MaxHot` is not an invariant, because an update or a cleanup may hold
  a key beside the slots; the bound on processes is proved by mapping processes
  into the live and opening keys at the moment a slot is found free.
- *Control*. `NeverRepeated` is false (section 6), so the invariant carries the
  premise: a request minted by a clock that was not ahead is either in the
  ledger, or too old for every later daemon. `OutcomesAreTrue` says what a recorded
  outcome means: done, that the provider was reached; denied, that no driver
  brought an agent, and that if the provider was reached its driver answered with an
  error. It does not say that a denied open never reached its provider,
  which is false (section 6). `MutationsOK` keeps the place of a flight, the driver's
  answer and the record of one mutation together.
- *Terminal*. What lets the authority never miss a byte is an inequality between
  three counters (written, applied, kept), which each publication waits to keep;
  views rest on it. `ExitIsLast` excuses what the code excuses: when exit is told the
  authority has applied every chunk, or a failure is recorded, or more than the ring
  was published past it after exit freed publication (section 6).
- *Worktrees*. A directory is removed by an operation that checked, some steps
  earlier, that nobody lives there. `NobodyLeft` keeps that true until the removal:
  for a chat's row because the cleanup excludes its own Runtime's sessions and no
  other Runtime may open one (`SessionsOfRow`), for a worker's because whoever could
  still be born needs the lease (`LeaseOK`), and because a process left behind by a
  dead Runtime contradicts the keeper's recorded proof (`GenerationsOK`,
  `Complete`). `OneOccupant` needs the same of a resumption (`ResumerAlone`). Those
  two theorems are stated for generations with keepers; without them they are
  false (section 6). Types and `RowIsTrue` hold either way.

- *Claims*. That nobody works unclaimed is one equivalence per registry, with the
  awkward case spelled out (`Awaited`, `Settled`): a born terminal whose exit is seen
  before its claim is committed. The handover spans three parties, and `Guarded`
  says what a successor knows of a predecessor at each moment: it is barred, or it
  holds every claim the predecessor has kept, or its patience is spent. An answer
  on its way already holds them (`round[g].answer`), and a kept claim can only
  shrink after the drain began (`KeptShrinks`): a session may move to a conversation
  nobody else knows yet, never back to one that was handed over (`HandedOK`). The
  theorem is stated for a locator that can be read; one that fails to be read shows
  no peers and clears the barrier (section 6).

- *Courier*. Its operations are loops over mailboxes, calls and rooms. Every loop is one
  operator, `After`, of a step, a start and a sequence; the step is a function, so that
  one lemma (`LoopReaches`: what each step keeps, the loop keeps) is about all of
  them. `CourierProofs` has one lemma for each operation of the courier: what it
  needs and what it leaves (`SweepEffect`, `SendEffect`, `SessionEndedEffect`, ...).
  Nearly all of them only take away (`Lighter`); the sums of bytes then balance
  because taking a set of mail out of a queue splits its bytes (`OnlySplitsBytes`)
  and totals add (`TotalAdds`). None of it assumes that an identifier is new, and
  none that the clock goes forward.

  Exactness says more: that bytes, mailboxes, calls, rooms and remembered
  identifiers agree. The invariant is `Exact`, in parts named for what they hold
  (`Fits`, `UniqueMail`, `Remembers`, `CallHolds`, `MailHolds`, `RoomHolds`, ...). It
  is false in the middle of an operation, since ending a session takes its mail
  first, then its rooms, then its calls, and retires each message as it goes. So
  the lemmas are about `Coherent(c, D)`, the same but for a set `D` of calls
  that the operation is about to end, and count what it has still to retire
  (`Debt(c, D)`); a finished operation has neither (`Exact(c)` is `Coherent(c, {})`
  with no debt). Each loop is shown to use up its set and its debt. The two theorems
  have a premise, `[][IdsAreNew]_vars`: a message that comes to wait was not the ask
  of a reply still unread. The courier refuses an identifier only while it
  remembers it (section 6), so without the premise they are false; senders mint
  identifiers that do not repeat, so they meet it. It asks nothing of how many
  identifiers are remembered: the theorems cover every value of `Remembered`,
  where the runs remember every message. TLC found both `IdsAreNew` and
  `Exact` to hold on the instances of the courier's runs.

  That no wake-up is lost (`SleepersMissNothing`) takes one invariant more: as
  long as its time has not come, a waiter knows its call (`KnowsItsCall`): a call
  with the ask it waits for has the deadline and the partner that the waiter
  noted. A step that rings nobody leaves the courier as it was or swept. So a sweep
  ends a sleeper's call before its time only if the reply to it has been sent,
  and then that reply is mail the sleeper could take, which it had none of. The
  theorem has two premises besides `IdsAreNew`. By `AsksAreNew` the ask somebody
  waits for gives its identifier to no other message meanwhile; by `ClockGoesOn` the
  clock is not set back. The first is again what minted identifiers give. The
  second is a bound on what is claimed, since the code reads the wall clock, and the
  run keeps to it too: when a call's time has come, a refused ask or a list of another
  connection ends the call and rings nobody, and a clock set back after that
  leaves its waiter asleep, before its time, on a call that is gone.

  That calls end for a cause (`CallsEndForCause`) is a statement about single steps from
  exact states. Each operation has a lemma for what it may end and what it leaves as
  the reason: a sweep spares a call whose time has not come unless the reply to it
  has left the mail (`Spared`), a send ends at most the call it cancels (`SentOver`),
  a read only the call whose reply it took (`OnlyReads`), the end of a session or a
  room its own (`OnlyLeaves`, `EndedWithRoom`), a cleanup the one call it was given
  (`OnlyAbandons`). `OneOperation` composes them with the sweep that comes first:
  what the sweep ended must still have its reason after the operation, which is
  where a reply sent in the same step would break it, were it not that a reply is
  accepted only for a call that is still open.

  That the handoff is exact (`HandoffIsExact`) is three statements about steps. A wait
  ends in its own mailbox, with the reply to its own ask: `WaitersReadOnlyTheirReply`,
  from `IdsAreNew` alone. What left its mailbox stays out: `NoMessageReturns`, which
  needs besides that a message does not take the identifier of one that the sweep
  of the same operation has just forgotten (`ForgottenIsNotReused`; minted
  identifiers give that too). And the state a message was given in the end stays:
  `FinalStatesStay`. The last is the hard one, because the code remembers only so many
  ends (256, `src/crates/runtrol-courier/src/limits.rs:79`): a loop may forget a message
  to make room and then come upon it once more, and note its end again, as if for
  the first time. What an operation may still end is `MayEnd`: mail that waits, the
  asks of calls, and the asks of replies that wait; `Concludes` says of each loop that it
  gives states to nothing else, and `Finishes` of each operation. A message that is over
  neither waits nor is asked for, so only a reply that waits can end it again, as
  "Replied"; and that such an ask was replied before is the invariant
  `RepliesSettled`. It survives a sweep because a reply is never later than its call, so
  that a call whose time has come has no reply left to wait for.

**What is only model-checked.** Liveness (`CatchesUp`, `EveryWaitEnds`,
`EverythingExpires`, `ExitIsTold`) needs ENABLED and is out of the prover's reach.

## 6. Findings and observations

Two runs expect a violation; both are disagreements between the code and what
its documents say.

- `manager_work` / `WorkIsNotEvicted`: a session that works may be the victim of an
  eviction: `victim` filters on `busy`, which is the owner's lending, and not on the
  state the tier reads (`manager.rs:1627` against `tier.rs:20` and
  `docs/coreRuntime.md:31`).
- `control_repeat` / `NeverRepeated`: an identifier minted by a clock that is ahead
  outlives the ledger's row, so its repeat is delivered again
  (`runtime_control.rs:1573` against `docs/runtimeProtocol.md:227-228`).

Observations made while modelling, with no run of their own:

- *Worktrees without keepers*. Outside Windows `proven` answers TRUE
  (`completion.rs`), so a successor may sweep a worktree while a child of the dead
  Runtime still runs in it: a Runtime that dies between the worker's birth and its
  binding leaves a row without a process. `docs/sessionDialogue.md:103-106` promises
  more; `resume.rs:648-684` and `tests/terminal.rs:172-196` expect what the code does.
- *Worktrees*. A crash between `git worktree remove` and the save leaves a row
  without a directory for good; one between `mkdir` and capturing the
  identity strands the row; a partial checkout left by a killed `git worktree add` is
  accepted as ready if it is linked and at its base (`mod.rs:267`); a release that
  finds the lease busy is lost until the next start's sweep; a structured row
  cannot be reopened by a later Runtime on Windows.
- *Terminal*. Exit may be told with accepted bytes that the authority never consumed
  and no failure recorded: once exit has freed publication the ring may overrun the
  authority, which then just ends (`terminal/mod.rs:1154-1159`), though
  `docs/terminalSurface.md:121-123` says the exit event "also waits for the terminal
  authority to consume those bytes". `ExitIsLast` holds with that case excused.
- *Terminal*. A kill that fails is reported and not tried again
  (`terminal/mod.rs:1015-1036`), so the child may run on behind a failed terminal. On
  Unix a descendant that holds the slave keeps the exit of its root untold.
- *Terminal*. After a resize whose rebuild panicked, another resize before the
  child is gone declares the blank screen available again, so that an attach gets
  a complete checkpoint without the content (`terminal/mod.rs:758-779` against
  `docs/terminalSurface.md:60-62`).
- *Hub*. The code's gap carries the first retained frame, where
  `docs/coreRuntime.md:143-145` speaks of the live boundary. `hub.attach()` runs only in
  tests: `Live::attached` makes a fresh hub.
- *Claims*. A dead draining generation's claims stay until another publishes; the
  locator fails open (`generations.rs:318`), so an unreadable one breaks
  `HandoverHolds`; a peer is sent a snapshot that includes its own claims
  (`generations.rs:392`), so an unnamed terminal of a draining generation can be
  refused its own name by the echo, though `native_claims.rs:312-315` says only its
  own claims are excluded.
- *Courier*. A message identifier is refused only while it is remembered. Once the
  oldest are forgotten, one that is used again may be retired by an unread reply to
  its first use, so that the retired identifiers hold a live one, which
  `courier/mod.rs:86` excludes. Senders mint identifiers that do not repeat, and give
  one by hand only to repeat a send.
- *Control*. Every error of `driver.open` is recorded as denied
  (`runtime_serve/session_control.rs:653-667`), also one that comes after the
  provider took the open: Codex answers with a conversation the driver cannot use
  (`codex/agent.rs:164-174`), a connection breaks. `deny_open` calls it "a
  deterministic pre-provider refusal" (`runtime_control.rs:620`). The same error of a command is an unknown outcome
  (`runtime_control.rs:798-804`).
- *Control*. The memory of mutations is never pruned; a repeat of a resume that
  succeeded is answered as a changed session before it is looked up.

## 7. What is left out

- *Hub*: the content of frames; the gap's first frame; attach of a hub that lives.
- *Manager*: any idle session may be the victim (the code takes the least recent);
  draining; `u64::MAX` is `MaxGeneration`.
- *Courier*: hops and the visited chain, bodies (a length), proofs of the process
  tree, semaphores and pages of lists, the limit of hosted terminals. A worker is
  launched as on Windows, which allows more interleavings. No run forgets an
  identifier (section 5).
- *Claims*: one provider; each session and terminal begins once; draining and the
  locator's update are one step; a relayed request that timed out is not delivered
  later; official attach, observed mirrors, the audit relay, a second folder.
  `Rechecks = FALSE` (Unix) allows more than Windows does.
- *Control*: a draining daemon; eviction, seen as the end of a process; answers that
  leave no trace.
- *Worktrees*: a collision of stripes, which only refuses; edits by a person; claims
  on native conversations, the migration of old rows. A child of Git ends with
  its Runtime; an `agent.close` that failed is taken to have ended the process.
- *Terminal*: what the screen draws, coalescing, geometry, a fed mirror and its
  `release`, the birth of the process.
- The parts marked "taken as given", "not modelled" and "plan" in section 1, with
  the reason in `PROJECT.json`.

## 8. Plan

In order: the control of terminals (`runtime_terminal`, priority and
leases); the generation authority with the audit relay, beside `NativeClaims`; the registry of child
processes; the update transaction; pairing and integrations.

## 9. Running it

In this directory, with the TLA+ tools and the community modules on the path:

    tlc -workers 2 -config MCWorktrees.cfg MCWorktrees
    tlapm WorktreesProofs.tla

Each run of section 3 is a module `MC...` with a configuration of its own;
`PROJECT.json` pairs them, maps every definition to the lines it models, and lists
for every property a change of the code's model that breaks it.
