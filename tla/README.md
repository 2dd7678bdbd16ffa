# focusrite-controller: specifications

focusrite-controller is a daemon, `focusrited`, that owns a Scarlett audio
interface through ALSA, and a touchscreen client, `focusrite-ui`, that talks to
it over a Unix socket. This directory holds TLA+ modules that model both,
TLC configurations that check them on small instances, and TLAPS proofs of what
matters most for every instance. Paths below are under `src/crates/`.

## 1. The system

| Component | Code | State it keeps | Operations |
|---|---|---|---|
| Device policy | `focusrited/src/lib.rs`, `Service` | cached snapshot, online flag, revision, profile table | connect, command, level-group command, refresh, wait for change, mark offline, save/review/apply profile |
| Level groups | `focusrited/src/groups.rs` | none: integer maps and a validation | `map_level`, `unmap_level`, `LevelGroup::validate` |
| Device worker | `focusrited/src/worker.rs` | a bounded request channel, one reply channel per call, the thread that owns the `Service` | one method per request, `stop`, drop; the thread's loop |
| Profile store | `focusrited/src/profile_store.rs` | a text file and a temporary file beside it | load, save |
| Dashboard configuration | `focusrited/src/dashboard_store.rs` | a JSON file; in memory fixed for the life of a process | defaults, validate, load, save, import, export |
| Local IPC server | `focusrited/src/ipc.rs` | listener, clients with bounded output queues, last state broadcast | accept, read, handle, broadcast, flush, disconnect, stop |
| Daemon process | `focusrited/src/main.rs`, `startup.rs` | shutdown flag | start in order, poll the state, stop in order, dashboard CLI |
| Scarlett adapter | `focusrited/src/scarlett2_alsa.rs` | event subscription, set of writable controls | snapshot, write, wait for change |
| Touchscreen client | `focusrite-ui/src/main.rs` | connection, shown state and revision, pending commands, profile review, lock screen | read the socket, apply messages, flush commands, lock and unlock, draw |
| Calibration and layout | same file | presentation only | arithmetic on touch positions |

**How they interact.** Clients send JSON lines to the IPC server. Its one thread
calls the worker's methods, which send a request into one bounded channel and
block for an answer; the worker thread alone calls `Service`, and `Service`
alone calls the device. State flows back by answers and by a poll of the
worker's state that the IPC server broadcasts when it changed. The profile
table is loaded by `main`, handed to the worker, and written back by the worker
inside the request that saves a profile. The interface itself is nobody's: its
front panel moves, its cable is pulled, another unit appears under the same
card name, and any call may fail.

**What is hard, and what makes each part correct.**

- *Policy.* One request is many device calls, and the interface changes between
  any two. State must never be advanced optimistically; a revision must name one
  view; a review must be current when its apply begins, and the apply must write
  only what was reviewed; a report must account for every write; a group must
  stop at its first failure; after a disturbance the cache must catch up even
  when events were lost.
- *Groups.* Rounding, clamping and integer widths: levels stay declared, a
  repeated command does not creep, like faders keep their order.
- *Worker.* Sends, a stop and the end of the thread interleave: an answer must
  say whether the call was carried out, nobody may wait for ever, health checks
  and events must not starve, and a stop must release the device.
- *Store.* A save is five file operations, each of which may fail, be killed or
  lose its effect: the store must always load, answered saves must survive, and
  failed ones be undone.
- *IPC server.* Bounded queues per client, events that replace older events,
  overflow that disconnects one client.
- *Processes and files.* A socket path, a stored dashboard and a temporary file
  that any number of processes name, each of which may be killed anywhere.
- *Touchscreen.* Messages of an old connection or revision, malformed lines,
  commands that wait, a focus that outlives its dashboard, a lock that must not
  let through what was touched before it.

`PROJECT.json` lists each hazard at its line with the property that covers it,
or why none does yet.

## 2. The modules

```
LevelMap ---- LevelGroup ---- LevelDrag            VersionedView
   |                                                     ^ refined by
   +--------- Service ---- DaemonRestart                 |
                 +---------------------------------------+

LocalServer --- refines ---> StateFeed <--- is used by --- Touchscreen
                                                               |
DeviceWorker      ProfileStore      DaemonStart            ScreenLock
```

**LevelMap** is the arithmetic of `groups.rs` and of the loop body of
`command_level_group`. Rust's truncating division is TLA+'s `\div` here because
every numerator is non-negative (`LevelGroupProofs!NumeratorsBounded`, which also
bounds them so that `i64` holds them; the casts to `i32` and `u16` lose nothing
because the results are in range).

**LevelGroup** isolates what accepted group commands do to the levels when
every write is confirmed: one action, `Drag`, is one command. **LevelDrag** adds
history to judge a whole finger movement.

**Service** is `lib.rs`, one action for the code between two calls into the
device:

| Code | Actions |
|---|---|
| `Service::connect` | `Init` |
| validation and planning before the first device call | `Command`, `LevelGroup`, `ReviewProfile`, `SaveProfile`, `ApplyReviewedProfile` |
| `Device::write` and its outcomes | `WriteLands`, `WriteIsIgnored`, `WriteFails` |
| the resnapshot that confirms it | `Confirm` |
| an entry that makes no device call | `Skip`, `Reject` |
| `refresh` from the three-second health check | `HealthCheck` |
| `wait_for_change` | `Subscribe`, `SubscribeFails`, `EventArrives`, `EventReadFails`, `PollFails` |
| the interface | `FrontPanel`, `Unplug`, `Plug` |

`plan` is what a request has decided to write, `at` the loop's position,
`confirming` that a write is waiting for its resnapshot. A plan is fixed before
the first write, as in the code: a group's targets and an apply's statuses are
computed from one snapshot and used after others have replaced it. A request the
code refuses before its first device call changes nothing and is a stuttering
step. `reviews`, `wrote` and the `began` and `seen` fields are history.

**VersionedView** is what the daemon promises readers of its state; `Service`
refines it with the cached view under its revision.

**DaemonRestart** adds the end of the process between any two of those steps and
a new one: the revision starts at 1 again, the profile table is as stored, and
clients keep the review handles they have.

**DeviceWorker** is `worker.rs`: callers, the channel, the batch loop (`Take`,
`Handle`, `EndBatch`, `Poll`, `HealthCheck`/`NoCheckDue`), `stop` with its join,
and the end of the thread in the order in which Rust drops what `run` owns
(`Close` the receiver, then `Release` the device). What a request does to the
device is `Service`'s matter; here it is carried out once and answered.

**ProfileStore** is the worker's `ProfileSave` with `profile_store.rs`, one file
operation per action, the failure of any, a kill, a power loss, and the next
start. The encoding is modelled by what it cannot carry: an empty name (written
as no field) and an array (written as a bare `A`).

**LocalServer** is the loop of `ipc.rs::run`, one action per step of its thread
that another process can see:

| Code | Actions |
|---|---|
| `accept_clients` | `Accept`, `NoMoreToAccept` |
| the poll of `worker.state()` and `broadcast` | `Poll` |
| `retain_mut`'s closure | `Turn`, `EndTurn` (within the actions that end a turn) |
| `read_client`: two calls of `process_requests` with a read between | `AnswerWithState`, `AnswerPlainly`, `Reject`, `Read`, `HangUp`, `ReadIsOver` |
| `flush_client` | `Write`, `WritePart`, `TakeRejection`, `WriteFails`, `Flushed` |
| the worker and the clients' processes | `Change`, `Connect` |

`lines` says whether a whole request waits in a client's input; a client's
`outbound` queue holds messages by their revision and size; `begun` is the
revision of the message of which the socket has taken a part. Clients that leave
are forgotten, as in the code. `refused`, `asked`, `answered`, `best`, `met` and
`first` are history.

**StateFeed** is what that server promises the programs connected to it: the
state first, an answer to every request in its order, and word of newer
revisions, which takes the place of older word nobody has received a part of.
`LocalServer` implements it (`ServesFeed`, its safety and its fairness), and
**Touchscreen** is built on it, so the client is checked against everything the
server may do without the server's turns and byte counts.

**Touchscreen** is `focusrite-ui/src/main.rs` between the socket and the screen,
with the daemon at the other end ended and started again:

| Code | Actions |
|---|---|
| `spawn_socket_reader`: connecting, its first request | `Connect`, `CannotConnect` |
| its loop: write one request, read one line | `WriteRequest`, `ReadLine`, `ReadTimesOut`, `ReadEnds` |
| `receive` and `apply` | `TakeEvent`, with `Apply`, `Gap`, `AsksAgain` |
| a control's commands and `flush_commands` in one frame | `TouchTarget`, `SendPending` |
| dashboard labels, the profile panel | `TouchLabel`, `TouchProfiles` |
| `lock`, `auto_lock_due`, `locked_ui` | `Lock`, `Unlock` |
| the daemon and its server | `StartDaemon`, `EndDaemon`, `StateChanges`, `Accept`, `Announce`, `Serve`, `SendPart`, `Drop` |

A state is named by the daemon it comes from and its revision, which is what
`apply` compares (`instance_id`, `revision`). One level and one group stand for
all: each is throttled and pending by itself, and levels are sent before groups.
A frame is one action, since `ui` takes in every event before it draws; how much
of what is pending is due is any part of it. `touched`, `dropped`, `forgot`,
`overtaken` and `happened` are history; `dropped` holds the touches that locks have
found waiting.

**ScreenLock** is the arithmetic of the lock screen, `advance_unlock` and
`unlock_expired`, and what a row of touches with their times makes of the lock, as
a recursive function of how many have been taken in.

**DaemonStart** is what processes of `focusrited` do to the files they share, one
file operation per action: `main`'s order of load, connect, remove a stale
socket, bind, listen, permissions; the end of the server thread and the second
removal by `Drop`; and the command line's import with its temporary file, as
inodes and names. `overlap`, `clashed` and `imported` are history.

The `MC*` modules and the `.cfg` files give constants their values; the `*Proofs`
modules hold the theorems (section 4).

## 3. What the runs check

| Run | Shows | Bounds |
|---|---|---|
| `level_group` | levels stay declared, a settled group does not move, like faders keep their order, one command rounds each member once: half a native step of its own, half of one of the anchor's, and one position | two like coarse faders, one with a negative minimum, one finer than the scale; every start, targets on and beside rounding points |
| `level_drag` | finding: a slow drag leaves a coarse member behind | a fine anchor, one coarse member, targets by 100 |
| `service` | revisions name views, reports account for writes, groups stop at failures, reviews are current and applies as reviewed, state comes from the hardware, the cache reconciles with the interface, `VersionedView` is implemented | 2 units, 2 controls, 2 stored profiles; 3 requests and 3 disturbances, together 4 |
| `profile_swap` | finding: an apply crosses to another unit | a spare unit with nothing read-only, 1 disturbance |
| `stale_review` | finding: a review outlives its process | 1 unit, 2 requests, 1 disturbance, 1 restart |
| `restart` | a process's own reviews stay current, and an older one lets through only its own values | as above with 3 requests, together 4 with the disturbance |
| `profile_store` | the store loads, answered saves are stored, failed ones undone | 2 valid names and the empty one, 3 saves, 2 crashes |
| `device_worker` | answers tell what happened, stop releases the device, sent calls return, health checks and events do not starve | 3 callers, a channel of 2, batches of 2; calls without bound |
| `local_server` | `StateFeed` is implemented, bytes are counted right, refused and overflowed clients get what was queued, the error last, reading clients learn the current state | 2 clients, 3 requests of one, 3 revisions, queues of 2 bytes against states of 2, 1 and 2, batches of 1 |
| `touchscreen` | a blank screen is owed a state, a quiet one is current, touches keep their order, a lock ends those that wait, the focus is on the dashboard shown, the corners unlock, the screen catches up | 2 daemons, 3 connections, 4 revisions, 2 touches, at most 2 unread events, 3 touches, changes, ends and mishaps together; 5 touches of the lock, each at time 0, 4 or 5 against a timeout of 4 |
| `daemon_start` | a daemon that listens can be reached, the last import is what is stored, a start that fails has a cause that is still there | 3 processes, 2 units, 6 starts, stops, kills and exchanges; symmetric in processes and units |
| `refused_client` | finding: a request after a refusal is carried out | 1 client, 4 requests, batches of 2 |

The bounds let each interesting case happen: two controls of unequal range and a
unit whose second control is read-only make plans that are partly applied,
skipped and refused; two disturbances are a lost event and the failure that
hides it; three callers and a channel of two make one block; a batch of two
against three callers never finds the channel empty; three saves replace, fail
and replace again; three revisions put a newer event in the place of an older
one, the larger third of them overflows a queue in which it takes the place of
the smaller second, and three requests in batches of one are a first one, one
that is refused and one taken up after it in the same turn; three connections to two
daemons are a restart and a dropped connection, four revisions let a group
command skip one, and three happenings are, for instance, a touch, a part of a
message and the end of the daemon in the middle of it; three processes are a
daemon, its successor and an import beside them, or three daemons in a row; five
touches are an attempt given up and a whole one after it. A *disturbance* is a
front-panel move, an unplug or a failed or ignored call; a failure forced by an absent unit is not counted, and neither
is plugging in. Deadlock is not checked where the program may really stop:
requests and disturbances are bounded, and a worker with no callers has ended.

Every property of a passing run has a mutant of the code in the modules, a
plausible slip such as a comparison left out or a reset forgotten, which the run
detects.

**Fairness.** `Service` assumes weak fairness of serving a request, of waiting
for changes and of health checks, each of the worker thread; nothing of clients,
fingers or cables. `device_worker` shows the last two of the worker's loop
itself (`EventsAreAwaited`, `HealthChecksGoOn`), under weak fairness of the
thread's steps and of the clock. A caller blocked on a full channel is promised
nothing: the channel does not say who is next, so `SentCallsReturn` speaks of
requests that have entered it.

`local_server` assumes that the server's thread runs (weak fairness of it as a
whole) and that the socket of a client whose peer keeps reading takes a message
again and again (strong fairness of `Write` for those clients only). The
exception in `ReadersAreInformed` is the code's: the state polled first is
broadcast to nobody, so a client accepted just before that poll at an older
revision learns of it with the next change only (`ipc.rs:114`).

`touchscreen` assumes of the server that it accepts, announces, answers and drops
(weakly fair). That it announces and delivers is `ServesFeed`'s; the rest is the
turn of the server's loop, which reads every client, and the assumption that
accepting a connection does not fail for ever. It assumes of the reader thread that it connects, writes and reads, and of
the app that it takes in what it was told and repaints while commands are
pending. `ReadLine` is strongly fair because the server's messages come in
parts; nothing is assumed of the user or of daemons being started.
`ScreenCatchesUp` therefore excuses a daemon that does not run, connections used
up by the bound, and the two cases under *Observations* in which the code does
not catch up by itself.

**Findings.** Four runs show the code disagreeing with a document or comment.

1. `level_drag`: `command_level_group` takes every member's position anew from
   its rounded native level (`lib.rs:335`), so a drag of many small commands
   accumulates rounding and a coarse member may never move, without any
   clipping. `docs/phases/phase-4c-dashboard-groups.md:52` promises that
   relative balance is preserved and `:138` names only clipping as changing it.
   The property allows one native step of each member for rounding.
2. `profile_swap`: the device identity is compared once, before the first write
   of an apply (`lib.rs:516`); a resnapshot may bring another unit into the
   cache and the loop goes on. `lib.rs:88` says profiles never cross this
   boundary. The property looks only at what the daemon itself believed when it
   wrote, so it does not ask for the impossible.
3. `stale_review`: a handle is a revision and a fingerprint without the process's
   `instance_id`, and revisions restart at 1 (`lib.rs:236`, `:507`);
   `docs/protocol.md:45` says apply rejects a stale review before any write.
4. `refused_client`: `read_client` processes first what an earlier turn has left
   in the input and then, without looking at `closing`, what one read brings
   (`ipc.rs:181`). A request read in the turn in which a left-over line was
   refused, or overflowed the queue, is carried out. `docs/protocol.md:37` says
   a malformed request receives one error and its connection closes, and the
   test at `ipc.rs:1074` that an overflow stops the remaining commands.

**Observations.** These follow from the modules as well; the properties name
them as the exceptions they are.

- *Removing another daemon's socket.* A daemon that has found the path stale
  removes whatever is there when it comes to it, and one that ends removes the
  path twice (`ipc.rs`, the end of the thread and `Drop`), possibly its
  successor's. `docs/phases/phase-4a-local-touchscreen.md:321` says that startup
  never removes a live daemon socket, and `:328` that a restart never removes a
  live peer's. `LiveSocketIsKept` holds until two daemons start or end at once
  (`overlap`), and not without that condition. The service manager starts one
  daemon at a time.
- *A lower revision shown last.* An event may overtake a reply of an older
  state in the queue, and the client takes the reply that follows for newer.
  The old state stays until the next change (`overtaken`).
- *A protocol error that stays.* After a malformed line, which a read timeout in
  the middle of a message makes, the client shows no state and asks for none
  until the next one comes.
- *A focus without its dashboard.* A malformed line takes away the state but not
  the focus. If the next state is another daemon's with another dashboard, the
  panel is drawn for a control that is not on it, where the code expects one
  (`forgot`).
- *Requests for another daemon.* Pending commands and queued requests survive a
  disconnect and go to the next daemon, in their order (`TouchesInOrder`).
- *Commands that a lock does not reach.* `lock` clears what waits in the app. What
  the app has handed to the reader is written as soon as there is a connection
  (`focusrite-ui/src/main.rs:98`), also when the screen has been locked since, and even when
  another user has unlocked it. `LockEndsWaiting` says nothing of those.
- *Imports at once.* Two imports share `dashboard.tmp`; one may put in place what
  the other is still writing (`imported = "clash"`).

## 4. What is proved

The proofs hold for every value of the constants under the named assumptions:
`ServiceAssumption` (kinds of the constants), `GroupAssumption` (each member has
a proper range), `WorkerAssumption` (capacity and batch are positive, `Nobody`
calls nothing), `DaemonStartAssumption` (names of processes, units and marks are
distinct, the processes finitely many), `RestartAssumption` (the bound is a
number), `StoreAssumption` (the adapter makes no array writable, which the
comment at `profile_store.rs:87` relies on and `scarlett2_alsa.rs:305` provides),
`ServerAssumption` (each message fits into an empty queue, a batch is positive;
readers, limits and sizes are otherwise arbitrary), `TouchscreenAssumption` and
`LockAssumption` (the bounds are numbers, there is room for an event).

Every safety invariant, action property and refinement of a passing run is
proved, but for the fairness in `ServesFeed`.

- **LevelGroupProofs**. Of the two maps: they stay in range, are monotone,
  `map_level` undoes `unmap_level` on ranges of at most 1000 steps, and
  numerators are bounded. Of a drag: type correctness, `SettledGroupStays`,
  `OrderKept`, and `OneDragRounds`, from `RoundTrip`: a position mapped to a
  level and back is off by at most half a native step and half a position. A
  drag is the member's round trip and the anchor's.
- **ServiceProofs**: `TypeOK` is inductive. That a revision names one view needs
  that every step *numbers* its view (`StepsAreNumbered`: the view changes
  exactly when the revision rises by one), which also gives the refinement of
  `VersionedView`. For reviews the invariant is `PlanIsReviewed`: an apply's plan
  is ready only where its review was, because its view is the review's, and what
  was written came from that plan. For reports and groups it is `Progress`:
  planned controls are distinct, nothing ahead of `at` is written or reported,
  what is written is reported unless it is being confirmed, and a failed group
  is idle with nothing after the failure. The properties alone are not
  inductive: they say nothing of the writes still to come. The module goes on to
  `DaemonRestart`: `ReviewsAcrossRestarts`, for any number of restarts. Revisions
  name views only for reviews of the running process (`OwnRevisionNamesView`),
  which is enough for its own applies; what holds of older reviews too is that a
  plan is of the review's profile (`PlanIsOfReview`).
- **ProfileStoreProofs**: `StoreInv` says where the save stands from what the two
  files hold (before the rename the store holds what was answered; from the
  write on the temporary file holds the new table, and is synced when renamed),
  and that every table in memory can be encoded.
- **DeviceWorkerProofs**: `WorkerInv` says that a call in progress is at exactly
  one place (its sender, the channel, the worker's hand, the reply channel, or
  lost with the channel), and what `done` and `result` then are.
- **DaemonStartProofs**: `LiveSocketIsKept`, for any number of processes. The
  invariant, `Relies`, says what a starting daemon relies on from one file
  operation to the next while no other starts or ends: having found the path
  stale or missing it still is, so that what it removes is nobody's.
  `StartsUnlessPrevented`, that a start fails only for a cause that is still
  there, needs the same of what it has merely seen (`AsSeen`): what is at the
  path when it comes to connect or to remove, and nothing when it comes to bind.
  And `LastImportIsStored`, from `ImportInv`: an import that no other disturbs
  owns the temporary file, which holds what its step says; two at once know of
  each other (`clashed`); and no import holds the inode of the file in place.
  That there is a free inode for each is the pigeonhole principle
  (`UnusedExists`).
- **LocalServerProofs**. `TypeCorrect` includes that `bytes` is the sum of the
  sizes of what is queued; as the sum is a recursive function, that it exists and
  what appending, removing and replacing make of it come first, by a least
  counterexample. `ClosedClientsHaveAll` rests on `Owed`: the refusal waits to be
  queued, is the last message of the queue, or has been received, and a client
  that has been told everything is asked for nothing more. Each step does one of
  five things to one client's queue (`QueueStep`), so neither proof looks at all
  actions twice. `ServerImplementsFeed` is the refinement, for any clients, sizes
  and limits. The queues without sizes are the feed's outboxes (`Boxes`), the
  messages of which the socket has a part are `Begun`, clients to be closed are
  `Ending`, and refusals not yet queued are `Untold`. `Accept` is the feed's
  `Join`, an answered request is `Answers`, `Reject` is `Refuse`, `TakeRejection`
  is `TellRefusal`, a write is a delivery, a part of one begins a message, `Poll`
  is `Announce`, the end of a turn may be `Leave`, and the rest stutters. What
  the feed says of a client that is being closed (`Listened`) is as weak as the
  code requires: `read_client` serves requests that come along with the one that
  ended the connection.
- **StateFeedProofs**: what follows from `StateFeed` alone, for any revisions.
  Of word nobody has a part of, at most one message waits, hence the `CHOOSE` in
  `Client::queue` has one candidate; nothing that waits before word is newer
  than it; and every step leaves replies and begun messages as and where they
  are. The three need each other: word can take its place in front of replies
  only because none of them is newer than the served revision.
- **TouchscreenProofs**, for any number of daemons, connections, revisions,
  touches and mishaps, against the feed above:
  - `LockEndsCommands`: no request in the reader's channel or on the connection,
    nothing that waits and nothing obeyed is a touch that a lock has found
    waiting (`NothingDropped`). That the lock itself makes this so needs
    `TouchesInOrder`: what it drops is newer than all that was handed over.
  - `FocusStaysOnDashboard`: as long as no malformed line has taken the state
    alone, the focus is on the daemon shown (`FocusIsShown`).
  - `TouchesStayInOrder`: `TouchesInOrder` is inductive. One lemma says that a
    frame appends at most one command of each control, and one that doing so
    keeps the order of what was sent, done and is still pending.
  - `BlankScreenIsOwed`: the state has to be owed not only now but after each of
    the events that wait, since one of them may blank the screen (`Owed`); and
    every answer to a snapshot request carries a state (`RepliesCarry`).
  - `QuietScreenIsCurrent`: the last state on its way to a screen is the daemon's
    latest, wherever it is: in the queue, among the events, or shown
    (`LastIsLatest`). Until the first announcement the client's own request still
    waits (`FirstIsAsked`), and word in the queue has been announced
    (`WordsAnnounced`).
  - `LockOpensForCorners`: for any row of touches in the order of their times and
    any timeout, the lock opens exactly if four of them in a row are the corners
    clockwise and in time. What the lock keeps, a step and a time, is the only
    attempt that could still succeed (`Knows`), shown touch by touch and then by a
    least counterexample. `OpensForCornersOnly` is `UnlockIsClockwise` for any of
    its bounds.

**Only model-checked**: everything under fairness (`Reconciles`,
`SentCallsReturn`, `HealthChecksGoOn`, `EventsAreAwaited`, `ReadersAreInformed`,
`ScreenCatchesUp`, and that `LocalServer` is as fair as `StateFeed` asks in
`ServesFeed`), since liveness and `ENABLED` are out of the prover's reach; and the four findings, which are counterexamples.

## 5. Abstractions

- Of the five value domains `Service` keeps booleans and integers: the others
  are handled alike by `matches_domain`, or refused by the Scarlett adapter.
- The adapter writes booleans only; its further refusals are among the outcomes
  of `WriteFails`. Mock adapters of the tests write integers.
- Queued events are one flag, `pending`: each of them causes the same whole
  resnapshot.
- The fingerprint of a review is the profile itself: collisions of the 64-bit
  hash are left out.
- A profile entry that is not there is a planned entry of status `absent`, which
  the loop passes over without a trace.
- A unit's identity is fixed, and so is which of its controls are available and
  writable. The adapter reads both anew with every snapshot: it may fall back to
  another identity when a call of its own fails (listed as a hazard and planned),
  and a control whose element cannot be read is unavailable in that snapshot.
  The model has only the snapshot that fails as a whole.
- The dashboard is fixed for the life of a process, as in the code.
- In `DaemonRestart` the profile table survives as it is; `ProfileStore` says why
  that is right, and that a power loss may bring back an older one.
- In `ProfileStore` a profile is the set of kinds of value it holds, and a file
  is missing, torn or a whole table. Flushing of directory entries is a step of
  the kernel, since the code syncs the file and not its directory. A start needs
  only a store that loads; what else it needs is in `DaemonStart`.
- In `LocalServer` a message is its revision, its size and the request it
  answers; requests are not parsed, whether a whole one waits in the input is all
  that is kept of it, and every message fits into an empty queue.
  An overlong line without an end is refused like one with an end.
- In `Touchscreen` requests of profiles are of one kind, whose answers may carry
  a state or not; what a command says is left out, only which touch it is from.
  The retry delay is not timed, and a connection refused a second time in a row
  is not told again, since it changes nothing. A response of another version than
  1, which does what a malformed line does (`focusrite-ui/src/main.rs:384`), is left out, as this
  daemon sends none. The client writes well-formed
  lines only, so the server refuses none of them.
- In `DaemonStart` the two units stand for dashboards that are valid for one unit
  and not for the other; an import of an invalid one changes nothing.

## 6. Plan

Done: LevelMap, LevelGroup, LevelDrag; VersionedView and Service; DaemonRestart;
DeviceWorker; ProfileStore; StateFeed and LocalServer; Touchscreen and
ScreenLock; DaemonStart; the proofs above.

Left, in this order:

1. An identity that varies per snapshot in Service: the adapter reads it by a
   call of its own and falls back to the card's name.
2. What a command carries in Touchscreen: a mute tapped twice before its first
   state has come back.

**Not modelled**, and why:

- *Calibration and layout*, drawing, toasts and previews: presentation that
  shares no state with the daemon.
- The demo and the read-only mode of the client: no connection, or no commands.
- *Labels and limits in `validate_for`* beyond the unit a dashboard is for: pure
  checks of one value, which unit tests reach.
- Reading ALSA elements and hashing the schema: pure I/O.
- Argument parsing, `inspect`, `export` and logging: text only; nothing of them
  is read by the daemon.
- A state too large for one message: it needs an interface with far more
  controls than the supported ones.
