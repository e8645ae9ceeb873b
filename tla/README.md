# Balaur, specified

TLA+ models of the Balaur engine's own protocols, the TLC configurations that
check them and proofs checked by TLAPS. The code is Rust, under `src/crates/`;
`PROJECT.json` maps each definition that models code to the lines it stands for.

Five groups of modules cover what runs concurrently, over a network or across
ticks: rollback multiplayer from one session's ring of snapshots up to a match a
player leaves; the lobby before it; the realtime socket of the Gamend client; the
switching and parking of scenes; and HTTP requests over the worker pool, the
sleeping loop and the recording of a session. The rest is listed in the
inventory, and under "Not modelled" with the reason.

## Inventory

Balaur is a deterministic game engine: nodes in a tree, components, scripts, and
a fixed-step tick that must give the same world on every machine from the same
inputs. What reaches the tick from outside (sockets, requests, pads, worker
threads) comes through channels that a recording can stand in for.

| Part | State it keeps | Operations | What is hard | What makes it right |
|---|---|---|---|---|
| Rollback session (`balaur_core/rollback.rs`, `snapshot.rs`) | next tick, ring of snapshots, arrived and used inputs, dirty mark, digests, absences, newest inputs, clock | submit, set_absent, advance (resimulate, run_tick) | late, corrected and repeated inputs between any two ticks; pruning; a full ring during a re-run | the history is one chain; nothing settled is undone; what arrived is played |
| Networked session (`balaur_net/netsession.rs`) | a session, own inputs to repeat, leads, claims, published tick | advance, poll, close_link, set_absent | loss, delay, reordering; pacing on old information; digests that overtake inputs | all machines settle the same worlds; the desync check is complete and never wrong; nobody waits for ever |
| Transport (`balaur_net/transport.rs`) | payloads held back | send_reliable, send_datagram, receive | loss, jitter | reliable payloads arrive once and in order |
| Match play (`balaur_multiplayer/play.rs`, `wire.rs`) | phase, session in hand, slots absent, time owed | drive, begin, settle, depart, end | a departure racing relayed datagrams and the notice of it | everyone plays a leaver's last inputs alike; the rest go on |
| Lobby (`balaur_multiplayer/lobby.rs`, `links.rs`) | phase, listener, arriving and joined links, roster | host, join, start, add_bot, leave, poll_host, poll_join | hellos, goodbyes and a full lobby in one frame; a start that races a hello, a leave or a broken link | one player per slot; everyone has the host's roster and hears of changes; nobody is left in a lobby that is over |
| Recording and replay (`balaur_core/replay.rs`, `replay_api.rs`) | mode, recorded arrivals per frame, player's cursor, the frame fed | start, drain, capture, restore, feed_next, after_frame, play, pause | frames drawn while the player is paused; requests that never go out and whose replies come from the file | a replay tells the scripts what the recording told them |
| Frame loop (`app.rs`, `schedule.rs`, `commands.rs`, `events.rs`, `messages.rs`, `changes.rs`, `hooks.rs`) | systems per phase, queues, readers' positions | tick, queue, flush, send, read | commands queued while flushing; readers at different positions | every event is seen once by every reader, in order |
| Worker pool, tasks, wake-ups (`task.rs`, `wake.rs`, `timers.rs`, `process.rs`) | waiting jobs, workers, idle count, woken flag, deadlines | submit, work, drop, wake, take, at | lost wake-ups, idle counts that lag, closing while running | a job runs once; no job waits while a worker may be started; no wake is lost |
| Scene switching and parking (`scene_switch.rs`, `parked.rs`) | request, crossing, parked scenes and their budget | request, apply_system, park, unpark, free | a request during a fade; a parked scene freed or changed on disk | the last request wins; alpha comes back; the budget holds |
| Gamend client (`balaur_gamend`: `realtime.rs`, `channels.rs`, `client/phoenix.rs`) | phase, link and its refs, topics, lost topics, rejoins, pending calls, tries, commands queued | connect, join, push, leave, close, interrupt; step: live, wait, dial, renew, drop | a drop at any point of any exchange; refs that start again; channels crashed while the game leaves them; sends that fail | every call is answered once with its own reply; the game hears of every drop, return and loss; what it left is not joined again |
| HTTP (`balaur_http`) | requests in flight, cancelled and just cancelled; the pool | request, cancel, pump; run on a worker | a cancel that meets the reply on its way; a report to a loop that sleeps | every request ends once, and does end |
| WebSocket, WebTransport | one worker and its commands per connection | open, send, close, deliver | close racing data; worker ending | one final event per connection, nothing after it |
| Script host, debugger (`balaur_script_bs`, `balaur_debug`) | waiting tasks, pause state | wait, resume, step | a node freed while its task waits | a task resumes once or never |
| Animation, audio, input, platform | playing clips, voices, pads | per-tick updates, device threads | state machines, device loss | local |
| Snapshot contents, digest, scenes, saves, physics, geometry, rendering, text, UI, compiler, tools | data | | data, numerics | out of a model checker's reach |

How they meet: `drive` (play.rs) replaces the app's tick while a match plays. It
calls `NetSession::advance` or `poll`; `advance` reads the transports through an
`ExternalIo`, submits what arrived to the `Session`, and the session snapshots,
restores and ticks the app. Subsystems whose effects leave the simulation read
back the session's `Clock` and `Resimulating` resources. `settle` turns control
messages and silent links into `set_absent` calls and notices.

## Modules

| Module | Models | State and actions |
|---|---|---|
| `Session` | one `rollback::Session` as a record, its methods as operators on it | none; `SubmitTo`, `SetAbsentOn`, `RunTickOn`, `AdvanceOf` |
| `Rollback` | one session driven by every order of calls | `sess`, the cursor inside `advance`, the `Resimulating` flag; `Submit`, `SetAbsent`, `BeginNext`, `BeginRewind`, `RunAgain`, `RunNext` |
| `SettledHistory` | what rollback promises: a past that only grows | abstract |
| `SessionLemmas`, `RollbackProofs` | the proofs about `Session` and `Rollback` | |
| `NetSession` | several machines, their links and the network | `peer`, `datagrams`, `published`, `read`, `lost`; `Advance`, `Poll`, `Lose` |
| `Lockstep` | what a match of sessions comes to: a lockstep game | abstract |
| `NetProofs` | the proofs about `NetSession` and `Match` | |
| `Match` | `NetSession` with departures | `notices`, `told`; `HostFrame`, `GuestFrame`, `Lose` |
| `Lobby` | a host, its joiners and the links between them, from the first dial into the match | `host`, `joiner`, `link`; the host's `PollHost`, `Start`, `AddBot`, `HostBegins`, `HostPlays`, `HostLeaves`; a joiner's `Join`, `PollJoin`, `JoinerBegins`, `JoinerPlays`, `JoinerLeaves`; the network's `Connect`, `Break` |
| `LobbyProofs` | the proofs about `Lobby` | |
| `Realtime` | the realtime socket, the game that calls it and the server behind it | `sock`, `commands`, `wire`, `server`; `Step`, `Call`, `Close`, `Interrupt`; the server's `Accept`, `Refuse401`, `Vanish`, `Serve`, `Ignore`, `EndChannel` |
| `RealtimeProofs` | the proofs about `Realtime` | |
| `Scenes` | scene switching and parking | `pending`, `crossing`, `tree`, `parked`, `stamp`; `Apply`, `Request`, `Unload`, `FreeAll`, and the game's `Clear`, `Grow`, `Edit` |
| `ScenesProofs` | the proofs about `Scenes` | |
| `Pool` | the worker pool | `waiting`, `workers`, `idle`, `closed`, where each thread and caller is; `Submit`, `Spawn`, `SpawnFails`, `NotifyOne`, `Close`, `NotifyAll`, `Take`, `Sleep`, `Stir`, `Finish`, `End` |
| `Http` | HTTP requests over `Pool`, the loop that sleeps, and a recording played | `inFlight`, `cancelled`, `channel`, `woken`, `loop`, `file`, `feed`; workers' `Start`, `Progress`, `Outcome`, `Panics`, `Wake`, `Hook`, `JobEnds`; the loop's `Owed`, `Waits`, `Roused`, `Input`, `Pump`, `Request`, `Cancel`, `EndFrame`, `Quit`; the player's `Replay`, `Feed`, `Hold`, `Resume` |
| `HttpProofs` | the proofs about `Pool` and about `Http` over it | |
| `Stepwise` | the induction the others use for what a fold comes to | |
| `MCRollback`, `MCNetSession`, `MCMatch`, `MCLobby`, `MCRealtime`, `MCScenes`, `MCHttp` | small instances | |

`NetSession` extends `Session` and gives one to each machine; `Match` extends
`NetSession` and adds to each frame what `settle` does at the end of it. `Http`
extends `Pool`: the same actions, with what a request makes of a job around them.
`Lobby` ends where `Match` begins and models the controls of a running match only
as far as the links carry them: what is done with inputs is `Match`'s.

### How the models correspond to the code

- **World.** The app's state is a value, a tick is the operator `Step(world,
  row)`, the digest is `Digest(world)`. Instances take the world to be the
  history of rows that led to it, so two worlds are equal only when every tick
  was played alike: the strictest game there is. That `Step` is a function is the
  engine's determinism, assumed here.
- **Maps.** `BTreeMap<(tick, player), Input>` is a function per player from ticks
  to inputs. The snapshot ring is a function from ticks to worlds; ticks are
  pushed in rising order, so the front of the deque is the least tick.
- **`advance`.** In `Rollback` each `run_tick` is a step, so every state inside a
  re-simulation is checked; `advance` borrows the session exclusively, so calls
  happen only between advances. In `NetSession` `AdvanceOf` is the whole call.
- **A frame.** `drive` asks `should_wait` before it reads, so `Advance` tests
  `ShouldWait` on the state before what it hears. A frame that owes several
  ticks is several actions, each with an end of its own, as in the code's loop.
- **Datagrams** in flight are a set; a frame hears any of them in any order,
  links too, which contains every order the code reads them in. A full link
  (`MaxFlight`) drops the oldest it carries for a player, and `Lose` drops any.
- **Digests** and control messages are reliable and in order: `published` holds
  what a peer sent on all its links, `read` how far each reader has come.
  `notices` and `told` are the same for departures.
- **`mine`** in the code is trimmed to the window a datagram repeats. The model
  keeps all of it, as the record of what was really played, and sends the same
  window.
- **A departure** (closed link, goodbye, silence) is the host's choice at the end
  of any frame; the timeout that leads to it is abstracted. A guest that left
  takes no further part, and datagrams of its the host already took go on.
- **The host leaving** ends the match on every machine, so nothing is left to
  check there of inputs; what the links do then is in `Lobby`. Bots a host plays
  (`add_local`), pings, loss statistics and payloads that do not parse are left
  out.

In `Lobby`:

- **A link** is two queues. It is ordered and reliable until one end closes it,
  which puts an end behind what was sent, or the network breaks it, which takes
  what was on the way. A poll finds all of a link's mail or none of it: to find a
  part is to have polled before the rest was sent.
- **Timeouts** are choices of the poll: `late` are links that have had their time
  to say hello, `quiet` those that fell silent in a match.
- **What is told.** Scripts hear `joined` and `left` by comparing rosters slot by
  slot; `silent` notes a roster that replaces a member in its slot, or a start
  with another roster than the last.
- **Departures in a match** use the roster the match started with; the host's
  `leave` in the middle of a tick (`leave_asked`) is the same goodbye one frame
  later.

In `Realtime`:

- **A tick** is one action, composed of operators named for the functions of
  `realtime.rs`. Where the code returns early the record says so (`next`), and
  what follows leaves it alone.
- **Deadlines** are choices of the step: a back-off over, a rejoin or a heartbeat
  due, a renewal answered, the token stale. A heartbeat is sent again and again,
  so its refs are not counted.
- **A dying connection** first stops taking frames (`takes`), then says closed.
  The server takes frames in the order it got them. It answers one or passes it
  over (`Ignore`) and goes on, may stop at any, and ends a channel when it likes.
- **`gone`, `left`, `shut`, `amiss`** are history: topics a crashed channel's last
  refusal forgot, topics the game left, topics the server closed after the game
  asked to join them, and what went wrong.
- **What the game has heard** (`answers`, `life`, `mine`) is kept in the record of
  the socket and changes where the code sends the event, so that the order of the
  events is the order of the telling.
- **`topics`** is a set. A reconnect joins them in some order: refs are fresh, and
  no reply is told from another but by its ref.

In `Scenes`:

- **A tree** is its file and stamps, the number it was built under, its nodes and
  the tint of its roots; ticks are the unit of a fade.
- **A file that does not build** leaves a tree of no file, with whatever was built
  before the error.

In `Pool` and `Http`:

- **The lock.** What is done under it is one step. The start of a thread and the
  notification come after it is let go, and are steps.
- **A wait** may return without a notification (`Stir`), as the condition variable
  allows.
- **The flag and the hook** are two steps of a report, after the send: `wake` calls
  the hook only when it was first to set the flag.
- **A job that panics** ends with nothing reported (`Panics`, `task.rs:305`); its
  worker goes on. `panicked` keeps whose jobs did.
- **A frame** is the pump, then what scripts do, then the recorder. A request made
  in it is numbered by the engine's token.
- **A replay** happens in a process of its own, as `balaur replay` and a restarted
  player do it. It feeds the frames of the file, holds while it is paused, and
  does again what the recorded scripts did, since the same waits woke them.
- **Recorded or not** is chosen at the start; a recorded run is cut off after
  `MaxFrames` frames and `MaxRecorded` requests, so liveness is stated of the other.

## Runs

| Run | Config | Bounds | States | Shows |
|---|---|---|---|---|
| `rollback` | `Rollback.cfg` | 1 player, depth 3, 5 ticks, window 1 ahead | 122 000 | everything in `Rollback`, and that it implements `SettledHistory` |
| `net` | `NetSession.cfg` | 2 players, depth 3, window 2, lag 1, 4 ticks, 2 datagrams in flight, 1 lost | 105 000 | repaired gaps, answerable inputs, and that `NetSession` implements `Lockstep` |
| `net_check` | `NetCheck.cfg` | 2 players, depth 4, window 4, lag 1, 5 ticks, 1 datagram in flight, 1 lost | 158 000 | the desync check: what is settled is published, once and for good; no claim passed over; no false alarm |
| `match` | `Match.cfg` | 3 players, depth 3, window 2, notices of 4 inputs, 5 ticks, 1 datagram per player and link in flight, 1 lost, 1 departure | 359 000 | all machines left settle the same, true worlds, but for what a notice mistold |
| `match_live` | `MatchLive.cfg` | 3 players, 3 ticks, 1 departure | 36 000 | the machines left finish |
| `realtime` | `Realtime.cfg` | 1 topic and the own-user topic, 2 tries, 2 calls, 1 channel ended per connection, interrupts, a close | 358 000 | one answer to every call, its own, in the end; events in order; topics kept, lost and left; a closed socket ends |
| `lobby` | `Lobby.cfg` | 2 machines, 3 joins, 3 of 4 slots, 1 bot, 1 broken link, 1 refused joiner | 124 000 | slots, rosters, what scripts hear, and nobody waits behind |
| `scenes` | `Scenes.cfg` | 3 files of 1, 1 and 2 nodes, budget 2, cuts and fades of 2 ticks a half, 4 requests, 1 edit, 1 node grown | 526 000 | parking, return, budget, what is seen, and the last request shown |
| `http` | `Http.cfg` | 2 requests, 1 a download, 2 threads, limit 2, 1 failed start, any job panics; recorded: 4 frames, 1 request | 239 000 | no job stranded, one answer, replay, and every request answered |
| `net_stall`, `notices`, `lobby_absent` | | as `net`; as `match`, 2 players; as `lobby` | | the findings below |

### Bounds, and why they are enough

- **One player in `rollback`.** A session treats each player's journal apart: the
  only thing they share is the dirty mark, a minimum, and with five ticks one
  player asks for every pair of marks. The proofs hold for any number.
- **Depth 3 and five ticks** give a ring that is partly full, full, and has
  dropped ticks twice; re-runs of one and two ticks; inputs below the ring.
  `MaxStale` = 1 keeps one such input and stops there.
- **Window, lag and slack** are scaled with the depth. In `net`, `net_check` and
  `match` the window is `2 * (Depth - Slack - 1)`, at which pacing alone keeps a
  machine from going unheard for longer than a datagram repeats. The code's
  constants (depth 16, window 12, slack 2) do not say so: 26 inputs may go unheard,
  and a gap opens when about a dozen datagrams in a row are lost, which
  `netsession.rs:52-57` accepts as too rare. That is why the theorems state what the
  network must grant (`HeardInTime`) instead of a window. Pacing needs `Slack >= 1`
  and `Depth >= 3`; digests need `Depth > Lag`, see `SettledIsPublished`.
- **Inputs.** The host holds its button, the guests tap theirs: a prediction of a
  guest is wrong on every tick, one of the host only at first, so both kinds of
  late input occur without choosing inputs freely. In `rollback` they are free.
- **Two runs for two machines.** `net` has two datagrams in flight, so they
  overtake each other. `net_check` has a deeper ring: there a peer may run three ticks
  on predictions, more than `Lag + 1`, so that ticks reach the lag unconfirmed, as
  they do with the code's constants (14 against 5). With a shallower ring pacing
  alone would confirm every tick in time, and the check would be trivially safe.
- **`Lag` = 5 in `match`** takes the digests out of it; `net_check` has them. What
  becomes of a departed player's digests is under known limits.
- **`match`** has notices of 4 inputs over a ring of 3, so that, as with the code's 12
  over 16, a notice reaches below what the host holds and names `Nil` for what was
  played: `WorldsAreTrue` is checked of runs in which that happens, and says what
  may come of it. At depth 3 every guest has the input by then; what a false notice
  does to one that has not is under known limits.
- **`realtime`.** Two calls are a join and a leave, a leave and a join, two joins of
  one topic in turn, or any with a push, on either side of a drop; two tries let a
  socket come back, drop again and give up. Two rooms, of which a reconnect may get
  one back, are covered by the theorems. `Patient` is how a game has to behave for
  `MineIsRejoined`: it joins while the socket is open, what it has no call about
  under way. It binds the game and not the server. Without it see known limits; the
  theorems on the other properties do not assume it.
- **`lobby`.** Three joins of two machines give a slot that is left and taken
  again by another, or by the same. The host has `players = 3`, so a third member,
  player or bot, starts the match; the refused joiner is one whose token is of
  another game.
- **`scenes`.** Under a budget of two, a scene of one node fits beside another and
  one of two fits alone, and one that grew past it is freed. Four requests are
  away, back, away and back, in any order with the edit.
- **`http`.** Two requests and two threads are the least at which one submit finds
  an idle worker another submit has already counted on. `HttpProofs` has no bound.
- `CHECK_DEADLOCK FALSE`: every behaviour ends when all machines have run
  `MaxTick` ticks; a machine that stops before is what `TheRestFinish` and
  `NeverStalled` look for. Sockets, lobbies, scenes and recordings end too, when
  their bound of calls is spent; what must not stop before is stated as liveness.

### Fairness

`match_live` assumes that a machine still in the match goes on running frames and
that what is on its way to it is handed over by some frame (`MatchFairSpec`, weak
fairness of the two frames). The app's loop calls `drive` every frame whatever
the session does, and a transport that delivers nothing for ever is a closed
link, that is a departure. Nobody is required to leave. Nothing is
lost at random in that run (`MaxLost` = 0: with one datagram per link, one more lost
is the stall of finding 1), but a full link still drops what a later datagram
repeats.

The other liveness properties assume what the loop and the machine give, and
nothing of a game or a network that may fail.

- `realtime`: the loop steps the socket for ever with its deadlines passing and
  its connection, while there is one, taking frames; the worker of a dial ends it
  one way or the other; and the server answers the own-user join or the connection
  ends, since nothing in the code gives up on that join (`realtime.rs:401`). What
  comes behind it the server may answer, pass over or fall silent on. Silence about
  everything the heartbeat finds out, and the drop answers the calls. A server that
  passes a call over and goes on answering heartbeats leaves it open as long as the
  connection lasts, for no call has a timeout of its own: `EveryCallIsAnswered`
  excepts such a call (`Ignored`). The fairness of the step
  is written out, `[]<>Quiet \/ []<><<Tick>>_vars`: either a tick has nothing to do
  again and again, or it happens again and again. (TLC's `ENABLED` of an action
  this large is slow; `Quiet` is what its negation comes to.)
- `lobby`: polls go on on every machine that has something to poll, again written out,
  and a machine that is to begin a match begins it. Neither a timeout nor a
  goodbye is relied on.
- `scenes`: the loop ends every tick with `Apply`.
- `http`: threads run, the loop does, and a request on a thread ends, which its
  timeout sees to, or panics; one that panicked is never answered, and
  `EveryRequestIsAnswered` says so. No input is relied on: with any, the loop would wake by itself
  and a lost wake-up would not show. Waking without a notification is not relied
  on either.

## Findings

1. `net_stall`: nothing is sent while a peer waits. When all the datagrams each
   side may send before pacing stops it are lost, both wait until the timeout,
   against `faults.rs:155`. How many those are depends on the leads last heard:
   the second clause of `should_wait` (`netsession.rs:440-446`) stops a pair of low
   latency after two or three unheard inputs each way at any depth of five or more,
   and only a pair whose latency has let both leads grow after more, up to 13 at the
   default depth. At the smallest allowed depth, 4, one unheard each way is enough;
   so it is in the run, whose trace loses one datagram in either direction.
2. `lobby_absent`: a joiner reads a batch up to the host's `Start` and drops the rest
   of it (`lobby.rs:329`). A player who left in the first frames of the match is
   announced once, in such a batch if the joiner's frame was slow, and that joiner
   waits for its inputs until the match ends, against
   `docs/PLAN-multiplayer.md:168-170`.
3. `notices`: the host fills the notice of a leaver from a journal that ends at its
   ring, and puts `Nil` for what it no longer holds (`play.rs:242`), where
   `wire.rs:52-53` promises the leaver's last inputs. The host runs on until pacing
   stops it, `Depth - LEAD_SLACK - 1` ticks past the leaver's last input; whatever the
   depth, its journal then holds the last four, and `LAST_INPUTS` is 12.

### Known limits

What the models showed on the way, each at its line. None has a run of its own.

- *Rollback.* `submit` compares with a journal pruned below the ring
  (`rollback.rs:267`), so repeats of inputs that were played correctly count as
  stale, though `rollback.rs:284-290` says "A count that stays at zero is the
  healthy case": with a repeat window of 12 and a ring of 16 that begins at a
  one-way latency of about six ticks. `set_absent` gives up on every wrong tick
  when the first of them is below the ring (`rollback.rs:218`); no match reaches
  it, since pacing keeps a leaver's first missing tick inside every ring.
- *Network session.* With `depth = 4`, which the settings allow (`options.rs:20`), no
  digest is ever published, and the desync check is silent: a tick has left the
  ring by the time the lag lets it go out (`netsession.rs:682-697`, against 10-12).
  `SettledIsPublished` and `NoTickIsSkipped` say so of any ring no deeper than the
  lag. A claim read, or reached, after the own digest of its tick left the ring is
  never compared and stays claimed to the end (`netsession.rs:729-734`), though 675
  says "check anything a peer has claimed about one this peer has settled too";
  `ClaimsAreCompared` excepts it, and says that it hides no other.
- *Match.* On a larger instance (depth 4, window and notice 4, six ticks) a guest two
  ticks behind the host takes a `Nil` of a false notice (finding 3) over an input it
  had, rolls back to it and settles a world no one else played. `WorldsAreTrue`
  allows that, and nothing beyond: the guest's world differs by inputs that a
  notice it has read mistold. It also needs the notice and the window to reach back
  as far as a guest may lag, `LastInputs` and `Window` at least
  `2 * (Depth - Slack - 1)`, which 12 is not at the default depth: with enough
  datagrams lost in a row a guest settles a prediction of what the leaver played. The
  digests of a departed link are still compared
  (`netsession.rs:731`), for ticks the host has since played without the leaver,
  so a game is told of a desync among machines that agree, against
  `rollback.rs:317-319`.
- *Lobby.* Joiners are admitted before departures are taken out
  (`lobby.rs:220-225`), so a full lobby refuses a joiner in the very poll that
  frees a slot. A `players` above the 64 slots there are never starts by itself. A
  joiner whose hello and goodbye come in one batch is let in, told about, and
  departs with the next poll. A joiner that leaves as the host counts it in may
  be in the roster of a match that starts without it, and is absent from tick 1.
- *Realtime.* A server that never answers the own-user join is never given up on:
  heartbeats begin after it (`realtime.rs:401`). A call passed over by a server that
  answers heartbeats is never answered either. A channel the server closes as it is
  being joined is forgotten, and the game then told that it joined it, against
  `realtime.rs:5-6`: a join fails on a drop, the socket rejoins the room by itself,
  the game joins it again, and Phoenix closes the channel of the first join before it
  answers the second, so that `topics` lacks what the game has. A reply to that join and the end
  of the connection in one batch report `reopened` with no topic yet, and the
  tries start anew. A second join of a topic, or one under way as the connection
  drops, can leave the game joined to what a reconnect does not join again. A join
  of a crashed topic does not call off its rejoin. Giving up on a crashed channel
  tells nobody (`channels.rs:108-110`). A socket closed before it ever opened never
  settles a script that awaits `connect` (`lib.rs:495-498`).
- *Scenes.* A cut during a fade parks the old scene as dim as it is
  (`scene_switch.rs:76`; a fade takes care of it at 109-110), and it comes back so;
  `SeenWhole` excepts those scenes by number (`cut`). Switching to the oldest parked
  scene can free it by the parking that comes first (`parked.rs:280`), and build it
  again. A switch that fails leaves the root bare.
- *Pool.* "A worker takes it at once while fewer than `limit` are busy"
  (`task.rs:249-250`) does not hold of two jobs submitted while one worker is idle:
  the second starts no thread and waits behind the first (`task.rs:255`). A thread
  that fails to start leaves its job to the next submit; that is the exception in
  `NobodyIsStranded`. A stepped job that panics stays in the count of `running`
  (`task.rs:83`).
- *HTTP and replay.* Upload progress is sent without a wake-up (`request.rs:215`). A
  recording loaded into a process that has live requests restores the token
  counter, and a worker still at work reports under a token the recording uses
  (`replay.rs:145`); `Http` plays a file in a process of its own. A wait
  woken in a frame held resumes with the next frame fed, so `ReplayTellsTheSame`
  compares what a fed frame and the held ones before it told, as sets.

## Proofs

Everything here is proved for every set of players and inputs, every depth and
look-ahead, and every deterministic game. The assumptions on a session are
`DepthAssumption` (a ring holds at least one tick; `CheckpointRing::new` makes it
so), `AheadAssumption` (a number) and `NilAssumption` (an absent player's input is
an input). `Rollback` adds `MaxTickAssumption`, a bound on the model.

### One session

- `SessionLemmas`: what `Push`, `Prune`, `MarkDirty`, `SubmitTo`, `SetAbsentOn` and
  `RunTickOn` return and leave alone, and what a whole `AdvanceOf` comes to. The
  central fact is `PushMovesTheWindow`: a ring that holds the last `Depth` ticks
  still does after a push, whether the tick is new or run again. For an advance it
  is `Resting`: a session between two calls is a session in `Shape`, `Chain` and
  `Heard` below with nothing due to run again.
- `RollbackProofs`, in three layers, each inductive on top of the one before:
  - `Shape`: the type invariant, `RingIsRecent`, `DirtyIsRestorable`, the clock
    being the oldest tick, and used inputs naming only ticks that ran. None is
    inductive alone: that a push drops the right tick needs the cursor to be a
    ring tick or the next one, which needs the mark to be restorable, which needs
    the ring to be a window.
  - `Chain`: `HistoryIsChained` and `DigestsAreOfTheLastRun`. The step that matters
    is `RunAgain`, where the chain has one gap, ahead of the cursor.
  - `Heard`: `ArrivedIsPlayed`, which must also be known of the journal before the
    ring is full.

  On these rest `SettledIsFinal` and `RollbackImplementsSettledHistory`: the oldest
  restorable world is unchanged by a re-run and steps by one recorded row when a
  new tick pushes it out.
- `RollbackProofs`, further on: `PredictionsStand` and `JournalIsTrimmed`. An input is read as
  the newest arrival up to its tick (`InputForIsLatest`), and three lemmas say which
  edits of a journal leave that alone: pruning, from the tick just below the ring
  on; an input, below its tick, and above it when it is what was played there; a
  departure, before it. `PredictionsStand` is not inductive, since an input for the
  tick below the ring shifts the predictions in it: `Decided` says the same of every
  recorded tick, and `Bounded` that no recorded tick is more than one below.

### Sessions over a network

For any finite set of players, any inputs each may make, any window, lag and slack,
any loss, and a match of any length. `PacingAssumption` asks that the ring be no
deeper than a session takes inputs ahead (`Depth <= Ahead`): the settings end at a
depth of 120 (`options.rs:20`), which is how far ahead an input may be
(`rollback.rs:45`). `NetProofs` begins with what a machine does with the inputs of a
datagram and the datagrams of a frame.

- `MachinesAreSound`: `NetInv`, the inductive invariant. Every machine rests between
  frames and holds only inputs that were made (`Sound`), has run no further past
  what it heard than pacing lets it (`Paced`), and every datagram tells the truth
  of its player (`Truthful`). `LateInputsCanBeAnswered` and, with `Settling`,
  `NetTypeCorrect` follow.
- `GapsAreAlwaysRepaired`: `NoGaps`, relative to `NetInv` and to `InTime`, what
  `HeardInTime` says of a run in one state: a machine has run at most the window past
  what a reader has of it, so that a datagram of the window reaches back to it.
- `WideWindowsAreHeard`: an input goes unheard for at most the leeway past what the
  sender has of the reader, which is at most the leeway further in its turn. Pacing
  alone keeps that below a window of twice the leeway (`WindowCovers`), and the
  network then has nothing to grant.
- `PublishedStaysFinal`: `Settling`. What a machine has settled it holds all inputs
  of (`Firm`), so that no input to come can be a correction of it.
- `NoTickIsSkipped` is of any depth and any lag. When the ring is deeper, `Timing`, on top
  of both: a tick is published before the ring drops it. When it is not, `Silent`:
  it has dropped the tick by then, and nothing is published at all.
- `ClaimsAreAllCompared` is of one frame: a claim it leaves behind has lost its digest
  or waits for a tick still open, and one it takes away was equal, or the frame
  tells the game (`ClaimIsCompared`).
- `NetImplementsLockstep`: in the ring's oldest tick all inputs are known, so what a
  step pushes out is stepped with what the players really made.
- `NoAlarmIsFalse`: `Agreeing`. Each machine's settled worlds are those of the one
  game the inputs made determine (`IsGame`); two digests of it cannot differ. Under a
  ring no deeper than the lag it has nothing to compare (`Silent`).

`GapsAreAlwaysRepaired`, `NoTickIsSkipped`, `NetImplementsLockstep` and `NoAlarmIsFalse`
are of the runs that are `HeardInTime`: no machine steps while a peer lacks more of its
inputs than a datagram repeats. It is a condition on what the network loses in a row,
not on the constants, and the code relies on it: `netsession.rs:52-57` sizes the
window by how many losses in a row it is prepared for. At the default depth of 16
it is a real condition; for depths up to 9 under the code's window of 12 and slack
of 2 every run meets it, by `WideWindowsAreHeard`. Without it the four do not hold:
TLC breaks them on the instance `net` with a window of one. `MachinesAreSound`,
`LateInputsCanBeAnswered`, `PublishedStaysFinal`, `ClaimsAreAllCompared` and
`NetTypeCorrect` are of every run.

### Leaving a match

For any guests that leave, in any frames, and any number of inputs in a notice
(`LastAssumption`). `NetProofs`, further on:

- `MatchTypeCorrect` and `NoticesInventNothing` rest on `MatchInv`. `Crews`: every machine
  is a session between two calls, whoever it counts as absent (`Crewed`), and every
  datagram tells the truth. `Honest`: everything in the host's journal was made by
  the player it is filed under, which is what makes a notice true, or `Nil`.
  `Recorded`: no slot has two notices. `Aware`: a machine's absentees are the slots of
  the notices it has read, and the host's open links are to none of them; so no
  one the host gave up on is given up on again.
- `AllDepartedIs` and `AllNoticedIs` say what a frame's departures and a frame's
  notices come to, `HostSettles` and `GuestSettles` that they leave a machine crewed.
- `HostPlaysTheMatch` is `WorldsAreTrue` of the host, which no notice mistells anything.
  It is of the runs that are `HostHearsInTime`: the host is not without news of a
  guest still in the match for longer than the window, whatever else the network
  loses. Its invariant is `HostInv`, on top of `MatchInv`, and `Dated`, that the
  absences of the host's session are those of the notices. `HostInv` says that the
  host has every input of a player up to the newest it has of that player, and has
  played at most `Leeway` ticks past it (`Steady`); that its oldest world is that of
  the inputs made, `Nil` for the absent (`TrueWorld`); and that a guest hears the host
  in the same way (`Tracking`, `Addressed`), without which what it repeats would
  not reach back far enough. The host gives a leaver up from the tick after
  the newest input it has of it, which pacing keeps inside its ring: no world that
  has left the ring was made with an input of the leaver missing, and a tick that
  leaves it is stepped with the inputs really made, or `Nil` where the notice says so.

### The lobby

For any finite set of players, and any slots, joins, bots, refusals and broken links
(`LobbyConstants`; `NamesApart`, since a member is known in the model by its player's
name). `LobbyIsSound`: the inductive invariant `Sound`, from which `OnePlayerEachSlot`,
`RostersAreCurrent` and `ChangesAreTold` follow.

- On the host's side (`Settled`), members have slots of their own (`SlotsApart`), links
  have places of their own (`PlacesApart`), a member that is a player is the one at
  the end of the link with its slot (`Peopled`), and a link waits or has a place, not
  both. One poll reads goodbyes and breaks before it takes their slots out of the
  roster, so inside it the last two hold but for the links `leaving`.
- On the way to a joiner (`Attended`), the roster is not what the joiner has but what
  it will have: `Follows` says that what its link still carries, read to the end,
  gives the host's roster and the joiner's slot. That is kept by a message sent and
  by one read, and is `RosterIsCurrent` when nothing is left to read.
- A poll's loops over links, members and mail are folds; what each comes to is proved
  with `WalkPasses` of `Stepwise`.

### The pool and the requests over it

For the pool: any jobs, any finite sets of threads and callers, any limit of at
least one, and any number of failed starts (`PoolConstants`). For the requests: any
number of them and frames recorded without end.

- `HttpProofs` begins with the pool: `PoolTypeCorrect`, `PoolLimitIsKept` and
  `PoolStrandsNobody`, from one
  inductive invariant. The last two are not inductive: that no job is stranded
  needs `idle` to count exactly the threads asleep or notified, and `workers` those
  started or about to be (`CountsAreTrue`); that an open pool which took work and
  was never refused a thread has one (`WorkHasAWorker`); that nothing waits in a
  closed pool, nor in one that took nothing (`WaitingIsTaken`); and that threads end
  only in a closed pool (`OnlyTheClosedEnd`). The cardinality facts are lemmas over
  `FiniteSetTheorems`.
- The rest is of the specification the run `http` checks, its fairness included and
  unused. `HttpStrandsNobody`: every step of `Http` is a step of `Pool`, leaves it
  alone, or begins a process with a new one.
- `HttpAnswersOnce`: `AnsweredOnce` is far from inductive, since what makes a second
  answer impossible is spread over the queue, the workers, the channel and the
  loop. `Pipeline` says a request is in one of the first three, once; `Books` what
  the loop's sets say of each other; and `Accounts` joins them: a request whose
  outcome is still to come is in flight or noted as cancelled, so that draining the
  outcome either answers it, for the first time, or drops the note.
- `HttpReplayTellsTheSame`: the books of a recorded run are a function of its file
  (`Past`), and a player is where the recorded run was at its cursor, or one pump
  further with nothing drained (`Played`): such a pump tells the cancelled what the
  next fed frame would have told them first, and changes nothing else.
- `Stepwise`: what holds before the first step of a fold and after each holds at the
  end (`StepByStep`), and the fold is a function (`StepsExist`). The library's
  induction takes a predicate as its parameter, which no prover here instantiates;
  these take a set. That is what `AdvanceOf`, `HearDatagrams`, `AllDeparted`,
  `AllNoticed`, `Drained` and `Redone`, written as recursive functions over their
  steps, are reasoned about with; and `WalkPasses` those of `Lobby`.

### Scenes

For any files of any size, any budget, any lengths of fade and any number of
requests, edits, warnings and nodes grown. `ScenesProofs` has one inductive
invariant, `ScenesInv`, and a lemma for each function of the code that says what it
leaves (`ParkCurrentIs`, `BuildIs`, `ReturnIs`, `SwitchToIs`, `CutIs`, `HalfwayIs`,
`FadeIs`).

- `ParkedStaysSound`: that a file has one scene needs the scene under the root to be
  counted in (`Sound`), and the budget needs the sums of a list of scenes: from one
  on, with one more, with one less (`NodesFrom`, `NodesWithOneMore`,
  `NodesOfOneLess`).
- `EachIsSeenWhole`: that a scene parked halfway is whole needs an emptied tree to
  carry no tint, and a fade under way to have ticks left.
- `KeptScenesComeBack` and `OldestAlwaysGoFirst` are of steps. Both rest on what the
  budget frees being a prefix, the shortest that will do (`FittingIs`); the second
  also on every switch being to what was asked for last, though a fade carries its
  scene over several ticks and another request may replace it in any.

### The realtime socket

For any topics, calls and orders, any number of tries, any server and, but for the
last theorem, any game, `Patient` or not (`RtConstants`). A server answers, passes
over or drops what it is sent and ends any channel at any time. `RealtimeProofs` has one inductive invariant, `Inv`. A
tick is one action that reads any number of arrivals and commands, so most of
the invariant is of the socket's record (`Sound`), which every function of the code
keeps, wherever in the tick it runs; there is a lemma for each of them
(`MessageIsSound`, `CallReplyIsSound`, `RejoinIsSound`, `RunJoinSettles`,
`DroppedIsSound`), and one for each of the two loops.

- `CallsAreAnsweredOnce` rests on `Accounted`: a call is queued beyond what the tick has
  read, waits for one reply, or has one answer. While a command runs, its call is
  in none of the three (`Holding`). `DismissIs` is the last case: what a socket that
  ended never read is answered as it is dropped.
- `RepliesSettleTheirOwn` rests on `Owned`: every ref in a call, a frame or a reply is
  below the next one, and frames and replies carry the call that waits under
  their ref. It needs `Young`: a connection's refs begin again only when nothing waits.
- `GameHearsInOrder` rests on `Placed`, which ties what the game has heard to the phase,
  the tries and whether all topics are back; `LeftTopicsStayLeft` on `Parted`: a topic
  left is neither one to join again nor awaited by a retry.
- `KeptTopicsAreRejoined` has `Patient`, a condition on the game alone, as its
  hypothesis, and a second invariant on top of `Inv`, `Tended`, carried through the
  same functions (`Mindful`). A topic the game minds is kept, was given up on, is to
  be told lost, or is in `shut`: the server closed it after the game asked to join it
  (`Minded`). Its hard part is a reply that makes a topic the game's: the reply
  must find the topic kept or in `shut` (`Coming`), under one call (`Listed`), which is
  the only one of it (`OneTurn`, all that `Patient` gives), and not be taken for the
  reply to a crashed channel's join (`Apart`).

### What is only model-checked

Liveness, which is out of the prover's reach, and one invariant, `WorldsAreTrue`, of the
guests of a match; of the host it is proved. Every other safety property that holds
is a theorem.

Of a guest `WorldsAreTrue` needs a `LastInputs` that reaches back as far as the guest
may lag behind what the host had of the leaver. At the default depth that is
`2 * (Depth - Slack - 1)` = 26 inputs, and `LAST_INPUTS` is 12, so that a theorem would
rest again on what the network grants, on two links at once. What does not depend on
it is proved: what a notice names was made, or is `Nil` (`NoticesInventNothing`), and
the host's worlds are true (`HostPlaysTheMatch`). That a `Nil` of a notice may stand
for an input that was made is finding 3.

## Not modelled

- **Frame loop, commands, events, messages.** One thread runs the phases of a tick in
  a fixed order. Each module takes the order it needs from it (`settle` after
  `advance`, the feed before the pump, the recorder last).
- **Worker pool.** Work parked on the tick (`park`, `advance_parked_system`), `compute`,
  timed wake-ups and the command queues of single workers.
- **Recording.** Seek, digests and their divergence, the event log, the setup sources.
- **Scenes.** What a snapshot puts back (`hold_restored`, `settle_restored`), and the
  hooks scripts and plugins hear as a scene is parked.
- **WebSocket and WebTransport.** Taken as the connection `Realtime` and `Lobby` see.
- **Scripts, debugger, animation.** One thread's state machines over data.
- **Physics, geometry, rendering, text, UI, compiler, file formats, tools.** Their
  difficulty is in data and numerics, out of a model checker's reach. They are most
  of the source, so the share of it that is modelled stays small however
  thoroughly the protocols are.

## Plan

1. The worlds of the guests of `Match`, of the runs in which neither the window nor a
   notice falls short: the induction has to follow the leavers' datagrams and the
   notice together, and what of a notice is mistold.
2. Recordings that seek, and one loaded into a running process.
3. Script tasks that wait across ticks, with nodes freed while they do.
4. The WebSocket worker, shown to be the connection `Realtime` assumes.
