# Formal models of policy_deployment

TLA+ models of the policy server in `src/server`, of its life under systemd, of
the clients in `src/scripts`, and of the simulation in `src/sim/check_in_sim.py`
that consumes its answers, with TLC runs on small instances and TLAPS proofs
for all values of the constants. `PROJECT.json`
maps every definition to the source lines it stands for.

## 1. The system

| Component | State | Operations | Correct when |
|---|---|---|---|
| Access control, `server/auth.py` | `AuthConfig` (keys, blocks), fixed at start | `from_env_and_args`, `_extract_api_key`, `check_request` | exactly the requests the operator meant get in |
| Policy server, `server/websocket_server.py` | `_active`, one coroutine per connection with `prev_total_time`, the policy object they all share | `_process_request`, `_handler`, `run`, `serve_forever` | slots are counted, capped and come back; each client sees metadata, replies in order, at most one traceback; shutdown ends |
| Rollout loops, `run_replay`, `run_policy`, `_VideoSink` | frame `k`, current chunk, wall and simulated clock, capture gate `next_t` | one loop pass, one inference, `sync`, `close` | the action of each frame is executed once, never early; the video keeps pace |
| Dual video comparison, `run_compare_slim_dual_video`, `_DualVideoSink` | two simulations, two chunks, gate, last pictures | sample start, inference, tick | both sides are shown in step, the shorter freezes, the longer is shown to its end |
| Live comparison, `run_compare_slim`, `_run_chunk` | one simulation, the chunk being run and its clock origin | snap, pause, inference, one action | both rollouts start from the same state, evenly paced; closing the window ends it |
| Client, `scripts/_client.py`, used by `ping.py`, `smoke_test.py` and the simulation | connection, metadata | `_connect` with retry, `infer`, `close` | waits for a server that is not up, repeats nothing a server has seen, `infer` returns its own answer, every script ends |
| Launcher, `scripts/launch.py` | none | import, `K=V` coercion, construction of the policy, wiring | settings reach the policy and the server |
| Robot layout and units, `check_in_sim.py:79-166`, `251-273`, `377-389` | `qpos`, `ctrl` | `action14_to_ctrl`, `read_state14`, `init_to_first_frame`, snap | an action reaches the joint it is for; no jolt on the first command |
| Codec, `server/msgpack_numpy.py` | none | pack, unpack | round trip |
| Policies, `examples/*.py`, `server/policy.py` | settings, the model | `reset`, `infer`, `metadata`, `close` | a chunk of the right shape, or an error a smoke test shows |
| Deployment, `deploy/*` | process life | systemd start, stop, restart; TLS proxy | clean stop, restart after a failure |

Interaction. A client sends an upgrade request; `_process_request` answers it
itself (200, 403, 401, 503) or lets the library answer 101 and start
`_handler`. The handlers share one asyncio loop, so they interleave only where
they await, except that `policy.infer` is synchronous and keeps the loop for as
long as it takes. They share the counter and the policy object: `reset()` is
called for every new client, and `infer`'s reply dict belongs to the policy.
The simulation loops block in `client.infer`, then execute part of the chunk.
systemd starts the process again 3 s after it has failed; clients that find
nobody listening try again every 5 s.

Hard behaviours. A cap that is tested in one coroutine and raised in another;
slots that must come back on every way out; shared mutable objects; an error
path that itself can fail; shutdown while clients are connected or an inference
runs; sampling gates that compare two clocks which stop at different times;
chunks that do not divide the recording. The list with source lines is
`hazards` in `PROJECT.json`.

## 2. Modules

| Module | What it is |
|---|---|
| `AccessControl` | constant-level operators for `auth.py` |
| `PolicyServer` | state machine of the server process; extends `AccessControl` |
| `SlotPool` | abstract specification of `--max-connections` |
| `RestartablePool` | the same for a server that may vanish and is started again; extends `SlotPool` |
| `RemotePolicy` | abstract specification of the client: `infer` can be called like a function |
| `Rollout` | replay and policy mode with `_VideoSink` |
| `CompareVideo` | dual video comparison |
| `CompareViewer` | comparison in the live viewer |
| `ClientServer` | composition: the server as a systemd unit, the repository's client scripts, foreign clients; extends `PolicyServer` |
| `RobotIO` | operators: layout of the 14 values, gripper units |
| `EchoPolicy` | operators: `--policy-kwargs`, the echo policy |
| `SimTools` | state machine of the quick start (`launch.py`, `smoke_test.py`, `check_in_sim.py`); extends `RobotIO` and `EchoPolicy` |
| `MCServer`, `MCClientServer`, `MCRollout`, `MCVideo`, `MCViewer`, `MCTools` | model values and small sets for TLC |
| `PolicyServerProofs`, `ServerProtocolProofs`, `SlotPoolProofs`, `ClientServerProofs`, `RolloutProofs`, `CompareVideoProofs`, `CompareViewerProofs`, `SimToolsProofs` | theorems |

Every module also holds the operators marked "Mutant": plausible bugs in the
code, each of which makes TLC violate one of the properties (`mutants` in
`PROJECT.json`).

### PolicyServer

| Variable | Code |
|---|---|
| `srv`, `closed` | life of the process, `policy.close()` has run |
| `loop` | whose `policy.infer` (or upgrade) keeps the event loop |
| `active` | `self._active` |
| `pc[c]` | where the coroutine of connection `c` awaits |
| `request[c]`, `status[c]` | upgrade request and HTTP answer |
| `ws[c]`, `code[c]` | transport as the library knows it, close code sent |
| `sent[c]`, `rd[c]`, `out[c]` | frames from the client, how many were received, frames to the client |
| `prev[c]` | `prev_total_time`, named by the frame it measures |
| `resetBy` | for whom `policy.reset()` ran last |
| `shared` | what the server left in the dict of a policy that reuses it |

An action is all a coroutine does between two awaits, so `HandlerStart` takes
the slot, resets the policy and hands the metadata to `send`. `_active_lock` is
never held across an await and is uncontended, hence not a variable. A lost
connection is first `"lost"`, when sending silently succeeds, and `"closed"`
once the library has noticed (`Notice`), when `send` and `recv` raise.

Assumed of the websockets library: after `process_request` returned `None` the
101 response and the start of the handler follow in the same turn of the loop.
`AtomicUpgrade = TRUE` states that; the cap, isolation and the refinement rest
on it and are stated under it, and `ServerProtocol` runs without it. `code[c]`
for a handler that raises is 1011, as the library does it.

### ClientServer

| Variable | Code |
|---|---|
| `unit`, `failures` | state of `policy-server.service`; how often the process has failed (bounded by `MaxFailures`) |
| `cpc[c]` | where the script is: before `connect`, in `time.sleep`, in the handshake, in `_connect`'s `recv`, between calls, in `infer`'s `recv`, ended |
| `todo[c]` | observations it has still to send: 0 for `ping.py`, 1 for `smoke_test.py`, any number for a rollout |
| `got[c]` | frames it has received, out of `out[c]` of `PolicyServer` |

The connections in `Scripts` are driven by these actions alone, the others do
what `PolicyServer`'s environment does. `Crash` is any end of the process that
systemd counts as a failure, `LoadFails` the same while the policy is being
constructed, `Serves` a new process: its own variables are fresh, its clients'
connections are gone. A refused attempt leaves no trace in the server, so one
connection stands for one script and all its attempts. Only
`ConnectionRefusedError` is caught (`_client.py:47`); a 503, a connection that
breaks and a timeout end the script (`TurnedAway`, `RecvFails`). `TimesOut` is
the library's `open_timeout`, which passes only while another client's
inference keeps the loop.

Two abstract specifications are implemented by it. `RemotePolicy` knows of a
program only its stage (connecting, idle, calling, raised, finished) and the
numbers of the observations it asked about and got answers to: `infer` returns
once, the answer to what it was called with, or raises, and nothing is called
after it raised. The mapping reads the stage off `cpc` and the answers off the
frames the script has read. `RestartablePool` lets a slot pool vanish with all
its clients and open again; the mapping gives a process that is gone no slots.

### SimTools, EchoPolicy and RobotIO

What the arms are told, as opposed to when (`Rollout`). Positions are integers;
a gripper has `OpenCtrl` positions between closed and open and the normalized
scale `NormPerCtrl` values for each, so both conversions and both clippings are
the code's, up to the rounding of floats. A control tick takes the joints
anywhere in `Places`. A value of Python is its type and a number, a text of the
command line the set of types it can be read as, so that `10`, `10.0`, `-1` and
a word differ where the code tells them apart. `bool` as a length is left out
of the entries: numpy versions disagree about it. `Launch` constructs the
policy or fails, `Smoke` runs `smoke_test.py`, the other actions
`check_in_sim.py` in replay or policy mode, in any order.

### Rollout, CompareVideo and CompareViewer

Poses, pixels and physics are abstracted to which action was executed when and
which tick a picture shows. Simulated time is integer units, a control tick is
`step` units (`inner_steps * timestep`), a video frame `period` units (1/fps),
both chosen in `Init`, so every ratio in the bounds is covered. The code's
`1e-9` in the gate absorbs float rounding and becomes an exact comparison.
Wall time is counted in control periods; an inference takes a number of them
from `Delays`, everything else takes none, sleeping brings the clock to the due
time.

`CompareViewer` keeps one gripper with its two fingers, since the snap sets the
driver and not the follower that the scene couples to it; MuJoCo may move both
anywhere, together. Pauses and inferences take wall time; the two calls of
`_run_chunk` are the phases `"recorded"` and `"policy"`.

## 3. Runs

| Run | Bounds | Shows |
|---|---|---|
| `ServerSlots` | 3 clients, 1 slot, 1 frame each, 9 kinds of request, SIGINT | slot accounting, cap, right answers, justified 503, running episodes not reset, refinement of `SlotPool` |
| `ServerProtocol` | 1 client, 4 frames of all kinds, 2 slots, both signals, upgrade may be suspended | order of frames, ids and timing over a session; observations are answered |
| `ClientServer` | 1 script with 0 or 1 observation, 1 foreign client, each from an allowed or a refused address, 1 slot, 1 failure, server up or loading, both signals | retries are harmless, nobody waits for nobody, refinement of `RemotePolicy`, upgrade requests are answered, scripts end, slots are freed, shutdown ends |
| `Rollout` | 5 frames, horizon 3, chunks of 1, 2, 4, inference of 0 or 3 periods, ticks and periods 1..3 | alignment, pacing, video gate, rollouts end |
| `Video` | 2 samples, chunks 0..5, horizon 4, ticks and periods 1..4 | gate, freezing, end of the recorded side |
| `Viewer` | 2 samples, chunks of 0, 1, 3, horizon 2, inference of 0 or 2 periods, pause of 1, 2 finger positions | same start of the driven joints, order, pacing, end after the window is closed |
| `Tools` | 1 joint and gripper per arm, 3 frames, horizon 2, 3 actions (some beyond a gripper's range), 3 poses, up to two of 19 settings, both modes and streams | no jolt, the echo holds still, the smoke test foretells the run |

Why the bounds are enough. In `ServerSlots` a third client is what it takes to
see a slot given back and taken again while somebody is turned away; the
handlers do not distinguish clients otherwise, which is also why symmetry over
connections is sound there (no client is named in a definition). One slot is
what isolation is about; slot accounting and the cap are proved for every cap.
The kinds of request are one for each way through `check_request`, a header sent
twice included.
Timing looks one reply back, so four frames give three replies and a text frame
between them. One client is enough for the session: handlers share the counter,
`loop`, `resetBy` and `shared`, of which only `shared` reaches a reply, and two
clients are in `ServerReusedReply`. In `ClientServer` the foreign client is what
makes the script wait for the loop, and find the slot taken or the policy reset,
and the other way round: requests of either meet a full server, one that is
inside the other's inference, and one that refuses them on their merits;
one failure is enough for a script to meet a server that goes down at each of
its places, or a load that fails; sessions of more than one observation are
covered by the theorems `InferAnswersItsQuestion` and `ScriptsCallAFunction`,
longer outages by `RetriesAreHarmless` and the theorems about the whole system. Chunks below, at and above the horizon, a recording that
is no multiple of any of them, and ticks that are shorter than, equal to and
longer than a frame period are all covered. A second sample is needed to see
what the first leaves behind. One joint and one gripper per side are all the
kinds of places the layout has; `SimToolsProofs` is about any number.

`Tools` alone is run without the check for deadlock: its programs end.

Five further runs are expected to be violated; each is a disagreement between
the code and what the repository says of it:

- `ServerSigterm`: SIGTERM (what `systemctl stop` sends) ends the process
  without `policy.close()`, which `policy.py:46` calls the hook "called on
  server shutdown".
- `ServerMetadataError`: if `policy.metadata` raises, the connection ends with
  1011 and no traceback frame; `schema.py:11` promises one "on error".
- `ServerReusedReply`: a policy that returns one and the same dict again makes
  the server send a stale `request_id`, against `README.md:200`.
- `ViewerFollower`: `_snap_to_state14` leaves the coupled finger of each gripper
  where the rollout before left it, against "the same starting state" of
  `sim/README.md:109` and `check_in_sim.py:455`.
- `VideoPolicySide`: the gate at `check_in_sim.py:702` reads the recorded
  side's clock only. When that side ends first the clock stands still and the
  policy's remaining actions are simulated but not written, while lines 501-502
  promise a frozen side "until the longer side finishes".

Three more disagreements are visible without a run. `check_request` skips the
address list when the transport knows no peer address (`auth.py:89`), while
`auth.py:9-10` has "only matching client addresses" accepted. The server listens
on a TCP port, where asyncio takes the address from `accept`, so no request of a
run is like that; `AdmissionSound` says what the text says and is proved for
requests whose address is known (`KnownAddresses`), and `UnknownAddressesPass`
proves that for the others the key alone decides. `main` calls
`init_to_first_frame` with `source="actions"` (line 793) also when
`--source gello_actions` is replayed, so that replay does begin with the jolt
that lines 253-254 say is avoided; `NoJolt` is stated for the other stream.
`--action-horizon` defaults to 50 while its help says 10 (lines 740-742).

What properties leave out. `TimingOfPreviousStep` says which step
`prev_total_ms` is about, not how long it is: `start` is taken before `recv`, so
the number contains the wait for the client's observation. `SessionIsolated` is
stated for one slot; with more, the default, a `reset()` for a new client
(`policy.py:42`) does reach a policy that is in another client's episode.
`CapRespected`, `SessionIsolated` and the refinement of the pool are statements
about a library that does not suspend the upgrade. `VideoKeepsPace` and `VideoTracksSim` are
stated for control ticks no longer than a frame: a gate that writes at most one
frame per tick falls behind otherwise, and the comment at `check_in_sim.py:701` and `--fps`
then do not hold.

## 4. Fairness

asyncio runs ready callbacks in FIFO order. A coroutine that is ready may find
the loop taken by another one's inference again and again, so it is enabled
repeatedly rather than continuously, but its turn comes: strong fairness for
`HandlerStep(c)` and `TransportStep(c)`. The latter also stands for the
library's timers: keepalive pings notice a dead peer. `CloseDone` rests on
`close_timeout`, `InferReturns`/`InferFails` on `policy.infer` ending.
`SendReturns` and `SendRaises` rest on every awaited send ending one way or the
other: with write backpressure a client that does not read its socket keeps the
handler waiting, and what ends that is keepalive (`ping_timeout`), as the loss of
the connection: `Lose`, `Notice`, `SendRaises`. `ObservationsAnswered`,
`SlotEventuallyFreed` and `ShutdownCompletes` depend on it. The last one also
depends on the versions of asyncio and websockets, in which cancelling `run()`
leaves the server context and closes every connection. In the runs a client
takes the loop finitely often, so weak fairness would do there as well; strong
fairness is what the scheduling justifies, and servers whose clients do not run
out of frames need it.
`Stop` is weakly fair. Clients, network and operator are not fair: nobody has
to send, leave or interrupt. A client that never answers an upgrade is not
waited for, `HandshakeAborts` is not fair.

`Rollout` is one thread, so weak fairness of its program; in `Answer` this
includes that the server answers or the connection breaks, which
`ObservationsAnswered` and `ScriptsEnd` show from the other side. `RolloutEnds` is stated for
`ActionHorizon >= 1` and non-empty chunks: otherwise `run_policy` asks for the
same frame for ever (line 352), since unlike the compare modes it does not take
a horizon of 0 for the whole chunk. `CompareEnds` has the same fairness and
needs no such condition, its loops being finite.

`ClientServer` adds weak fairness for each script (a program that runs), for
`RestartDue` (`RestartSec=3`; five starts in ten seconds, systemd's default
limit, are not reached) and for loading the policy, which ends one way or the
other. Failures, the operator and the network are not fair, and there are at
most `MaxFailures` failures: with one after every start nobody would ever be
served. That a script notices a connection that broke without a word
(`RecvFails` under `Gone`) rests on the keepalive of the synchronous client in
websockets 15 and later, while `requirements.txt` asks for less; with an older
one `infer` may wait for ever for a host that vanished.

## 5. Proofs

All for arbitrary constants that satisfy the named assumption of the module.

- `TypeCorrect`, `SlotsCounted`: inductive invariant `Counted == TypeOK /\
  SlotAccounting`. The two need each other: `active - 1 \in Nat` holds because
  the leaving handler is one of the counted ones. The counting lemmas
  (`CountEnter`, `CountLeave`, `CountStays`) reduce each action to what it does
  to the set `Handlers`.
- `CapHolds`: `CapInv` adds that an upgrade in progress keeps the loop and
  found room, so nobody else can take its slot before the handler starts. Uses
  `AtomicUpgrade`.
- `EpisodesIsolated`: with one slot, the handlers other than `resetBy` are
  none; from `CapInv`.
- `DenialsJustified`: an action property, from `Counted`: a 503 of an open
  server is given under `active >= MaxConnections`, and `active` counts
  handlers.
- `ServerImplementsPool`: initial states map to initial states and each server
  step to a pool step or a stutter (`StepPool`); needs `Unjudged`, that nobody
  was told anything before being judged, and `AtomicUpgrade`.
- `VideoKeepsTime`, `ReplayIsShown`, `SamplesShown`: invariant `GateInv`
  relating gate, clock, frame count and last picture; the arithmetic is linear
  in products named once.
- `ActionsAreAligned`, `ActionsAreNeverEarly`: `LoopInv`, in a chunk
  `obs + h = k`. `VideoIsPaced`, `RolloutEndIsShown`: `GateInv` as above.

- `RetriesAreHarmless`: inductive with `Counted`, since only `Connect` makes a
  connection an old one (`NewStays`) and only `Dial` connects a script
  (`DialAskOrNot`).
- `InferAnswersItsQuestion`: `ScriptInv` has two halves. `Framed(c)`: as long as
  all of a client's frames are observations, frame 1 from the server is the
  metadata and frame n + 1 the answer to observation n, or the traceback.
  `Heeded(c)`: a script that waits has read exactly as many frames as it has
  sent. Both survive whatever the server, systemd and the others do
  (`ServerFramed`), and the script's own steps (`ClientFramed`).
- `RolloutsStartAlike`, `AskedOnceMoreAtMost`, `ChunksEvenlyPaced`,
  `BothChunksShown` about `CompareViewer`: the last two from `Shown`, which says
  what the log holds while the window is open, and where the clock is.
- `NobodyIsJolted`, `EchoHoldsStill`: `LayoutIsOnto`, every joint has one place
  in the vector, `GripRoundTrip`, reading and commanding a gripper clips it, and
  `ToolsInv`, the chunk is the echo of the pose it was asked in. `SmokeIsRight`
  adds `Judged`, what a verdict and what a failure say of the policy.

- `AdmissionIsSound`: `VerdictSound` computes the verdict on a request that is no
  health check from the settings; only `Accept` and `Reject` write a status
  (`OnlyVerdicts`). `KeyLayer` and `AddressLayer` are the two halves of
  `check_request`; from the same two, `UnknownAddressesPass`. Rests on
  `RequestAssumption`: a header is a scheme and a value, or there is none, or
  more than one.
- `GrammarHolds`, `RepliesComeInOrder`, `RequestIdsEchoed`, `TimingIsPrevious`:
  all four read off `DialogueInv`. `Fits` says of frame k of a connection's log
  that it is the metadata, the answer to observation k - 1, or the traceback at
  the end; `UpToDate` says that an open connection has been answered everything
  received but the observation being worked on, and that `prev_total_time` is
  the step of the last reply. Without `UpToDate` the next reply could be any
  number and could follow a traceback. Unlike `Framed` it allows every kind of
  frame, so replies are counted by observations, not frames (`ObsCount`). Both
  sequences only grow (`LogGrows`, `AskedGrows`). The last two theorems assume
  that the policy does not hand out one dict again and again.
- `SomebodyMoves`: from `Framed` and `Heeded`. A script that waits has read as
  many frames as it sent; if the server has nothing left to do for it, it has
  sent one more. `ScriptTypes` adds `ReadInv` and `UnitInv`.
- `ShorterSideIsFrozen`: `FreezeInv` adds to the property that no picture is of a
  tick to come and that `shown` is the last pair, so that a side without
  actions repeats what it showed.

Shutdown and errors, in the server:

- `ShutdownIsClean`: `ClosedLast`, the policy is closed exactly when the process
  has exited and no coroutine is left to call it; with `Transports`, an ended
  handler has an ended transport, and `Counted` this gives `CleanExit`, no
  client, no slot. `OnlySigtermSkipsClose` makes the finding of `ServerSigterm`
  exact: without SIGTERM the claim holds.
- `InternalErrorsExplained` does the same for `ServerMetadataError`: a client is
  closed with 1011 after a traceback, for failed metadata, or when it has
  already gone. `ErrorsAreFinal`: nothing follows a traceback. Both from
  `ErrorInv`, a handler that told an error is closing or has ended.
- `PolicyCalledByOne`: the policy object has no lock. `LoopHeld` says that
  whoever keeps the loop is in `infer` or in an upgrade, hence one inference at
  a time; `Undisturbed` that meanwhile the policy is not reset or closed and
  its reply dict not written. It also says why waiting for the loop ends: its
  holder's own next step gives it back.

The whole system. `ServerInv` collects the server's inductive invariants, and
`CrashKeeps` and `ServesKeeps` show that failures and restarts keep it. Every
other step of the system is one of `PolicyServer` (`ServerOrRestart`), so nothing
of the server's own proofs is repeated.
From it `SystemKeepsCap`, `SystemKeepsProtocol`, `SystemClosesCleanly` and
`SystemDeniesJustly`: what is proved of one process holds of all the processes
of a unit, with the logs of their clients outliving them.

- `ScriptsCallAFunction`: each step of the system is a step of `RemotePolicy` or
  stutters. `OnlyOneMoves` and `AnswersStay` confine a step to one script;
  what a script has read is the answers to its first observations
  (`AnswersSoFar`, from `Framed` and `Heeded`). `ScriptsHaveNoGap` is then proved from the
  abstract actions alone: observations are answered in order without a gap, and
  a script that ends well has all its answers.
- `SystemImplementsPool`, under `AtomicUpgrade`: `StepPool` while the process
  lives, `Vanish` when it ends in any way, `Reopen` when a new one serves, which
  needs `UnitInv`, that nothing is started beside a living process.
  `SystemKeepsPool` reads the cap off the abstract pool.

Termination. A `<>` is out of reach, but the measure behind it is not:

- `RolloutIsFinite`: `StepsLeft` starts at `4 * Frames + 6` and every step lessens
  it, under the condition of `RolloutEnds`. `RoundInv`: a chunk has an action
  and starts at a frame of the recording.
- `CompareIsFinite`: window open, samples left, stage of the sample, actions left
  in the chunk, in this order of weight. A chunk's length is known only when it
  arrives, so no single number will do.

With these, only that some step is enabled until the program has ended is left
of `RolloutEnds` and `CompareEnds` to TLC.

- `PolicyIsShownOrCut` makes the finding of `VideoPolicySide` exact: a policy's
  chunk that is no longer than the recorded one is shown to its end; of a longer
  one at most one tick is shown past the recorded side's end, when a tick is no
  longer than a frame. `Stalled`: that side's clock stands, and the next frame is
  due after it.

Only model-checked: `ObservationsAnswered`, `AdmissionAnswered`, `ScriptsEnd`,
`SlotEventuallyFreed` and `ShutdownCompletes`, which are liveness under fairness,
and of `RolloutEnds` and `CompareEnds` that a step is enabled. Both are out of
the prover's reach.

## 6. Not modelled

Components without a model are listed with their reason in `PROJECT.json`. In
the modelled ones: failure to bind the port, a second Ctrl-C during shutdown,
`KeyboardInterrupt` raised inside `infer` (Python before 3.11), a `reset()`
that blocks, keepalive as a clock (a loss may happen at any time instead), the
printed numerical differences, states of more than
one dimension, joints or actuators that the scene lacks, `ping.py`'s look
at the types of four metadata fields, the speed factor `--speed` (a constant
factor of the control period), `close()` of the client, which nobody calls, and
the TLS proxy.

The codec of `msgpack_numpy.py` is bytes, dtypes and buffers: its round trip is
a statement about numpy, and the models only need that a frame decodes or does
not. `schema.py` has no behaviour. The mesh script and the assets are no part
of the running system.

## 7. Plan

Done: server, sessions, client and restarts, simulation loops, both comparison
modes, the tools of the quick start; every invariant and action property the
runs check is proved, and all three refinements. Left: measures for the
server's way through a shutdown and for a script's way to its end, as for the
rollouts, and the end of the dual video comparison.
