# remoses in TLA+

remoses is a daemon that puts amateur radio transceivers on the network: it
speaks each radio's control protocol over a serial port or a socket, keeps a
cache of each radio's state, and serves it through an HTTP API, a WebSocket
stream and a Morse keyer. It keys transmitters for people who are not in the
room, so what has to be right is what happens when requests, timers, a vanished
client, a pulled cable and the radio itself come in an order nobody tried.

This directory holds TLA+ modules of that machinery, TLC configurations that
check them on small instances, and TLAPS proofs for instances of any size.

    tlc -workers 2 -config Access.cfg MCAccess.tla
    tlapm AccessProofs.tla

## The system

| Part | Source | State it keeps | Operations |
|---|---|---|---|
| Lock manager | `internal/lock` | per radio a lease (user, token, expiry, generation), its timer | acquire, force, renew, check, release, inspect, expiry callback |
| Session: transmit interlock | `internal/rig/session.go` | cached PTT, dead-man timer | SetPTT, StartTune, ForceRX, arming in `apply` |
| Session: commands | `internal/rig/session.go` | configuration limits, capabilities | the setters, `ApplyPatch`, read-back, CW gate |
| Connection | `internal/rig/conn.go` | command mutex, waiters, `closing`, error | Do, Send, reader loop, deliver, fail, close |
| Supervisor, poller | `internal/rig/supervisor.go`, `poller.go` | `conn`, `connected`, `standby`, `poweredOff`, `wakeWanted`, failure counters | dial, init, park in standby, poll, back off, close |
| Radio state | `internal/radio/types.go` | a record of settings | Apply, Diff, rendering, merge |
| Event fan-out | `internal/rig/event.go`, `manager.go` | state cache with `Seq`, bounded queues with drop counts | apply, refreshCW, publish, join per subscriber |
| WebSocket client | `internal/ws/client.go` | two lanes, resync and snapshot flags, rate limits, last `seq` written | enqueue, drain, write loop, subscribe, stop |
| WebSocket hub, tickets | `internal/ws/hub.go`, `ticket.go` | set of clients, store of single-use tickets | dispatch, register, close, issue, redeem |
| CW over CAT | `internal/cw/cat.go` | queue of chunks, chunks in flight, context | enqueue, replace, abort, pacing loop, close |
| CW over a control line | `internal/cw/serialkey.go` | queue, generation, abort channel, key and PTT lines | enqueue, abort, keying goroutine, close |
| Backends | `internal/rig/backend/{civ,kenwood,yaesu,yaesubin,rigctld}` | what was last decoded | split, decode, setters, poll |
| HTTP API, daemon | `internal/api`, `cmd/remoses` | none of its own | lock gate, radios, PATCH, CW, locks; expiry callback, shutdown |
| Authentication | `internal/auth` | cache of verified credentials | verify |
| Client library, monitor | `internal/client`, `cmd/remoses-cli` | a merged snapshot | stream, keepalive, refetch, reconnect |
| Self test | `internal/selftest`, `cmd/remoses/testrun.go` | what was found and what is known | move every control, restore |

How they interact. An HTTP request passes authentication and `requireLock`,
which renews the lease, then calls a session method. The method writes through
the backend, which calls the connection's `Do` or `Send`, and then polls the
radio to read back what it did. One reader goroutine per connection decodes
every frame, folds it into the cache and hands it to the waiter for its key. A
change in the cache arms or disarms the dead-man timer and is published to
bounded queues that lose events rather than wait; the manager joins them, the
hub's queue feeds every client's lanes, and at the far end a client merges what
it is sent. The supervisor owns the connection, starts the poller, and redials.
Lease expiry, lock release and the dead-man all end in `ForceRX`, which aborts
the keyer and unkeys. The two Morse senders have a goroutine each.

What is hard. Timers whose callback has started cannot be stopped; `ForceRX`
runs concurrently with the request that keys; a handler runs on after the lease
it was let in with has ended; side effects of a cache change happen after the
mutex is released; replies carry a key and no request number; queues overflow,
at two joins; a radio may be silent, asleep, refuse, or answer late, and means
different things by the same bytes in different modes; two aborts may interleave
with a hand-over; shutdown waits for goroutines that wait for the radio.
`PROJECT.json` lists these hazards at their lines, each with the properties that
would catch it.

## The modules

Each module models one part as the code has it: one action per atomic step,
where a step ends when the goroutine lets go of a mutex, sends on a channel,
starts a transaction or returns. Mutexes that are held only within one action
disappear; those held over a transaction (`cmdMu`) stay. Histories and counters
that only the properties need are marked as such in the declarations.

### Who may transmit

**ExclusiveLease** is what a lock manager promises its users: at most one holder
per radio, a fresh token per tenure, a command accepted only for the tenure in
force. **LockManager** (`lock.go`) has the map, the generations that tell a
timer's goroutine whether it is stale, and the clock. `Acquire`, `Renew`,
`Check`, `Release`, `Inspect`, `Close` are the methods; `TimerFires` is the
runtime starting the timer's goroutine, `Expire` that goroutine with the mutex.

**Interlock** extends LockManager with the routes of `internal/api` and the
callback of `main`: `Gate` is `requireLock`, after which everything may happen
before the handler's own step; a release forces receive after the lease is gone,
an expiry in its callback. `carrier` remembers the token a radio was keyed with.

**Admission** has `auth.go`'s verification with its cache, and the store of
WebSocket tickets, whose calls read the clock before they have the mutex.

**TransmitGuard** (`session.go`) has a radio (`rigTX`), the reports it owes the
reader, the cache, the timer, and any number of `ForceRX` calls and requests in
flight. `exposed` is a history: it marks the two situations in which the code
gives up cover. Who calls `ForceRX` is left open, so lease expiry, release and
the dead-man are all instances of `ForceCalled` and `DeadmanFires`.

### Between a radio and those who listen to it

**Conn** (`conn.go`) has the transaction in its stages, the waiter table, the
channel of each waiter, the two directions of the line, the reader between
applying a frame and delivering it, and the teardown. `of` on a frame is the
model's: the code cannot see which request a reply answers.

**Supervisor** (`supervisor.go`, `poller.go`, `PowerOn`, `PowerOff`) is the life
of a session as a program counter `at`, with the port, the radio's power, the
flags the write path reads, what clients are shown, and the poll failure
counters per tier. Retrying times are left out; that it retries is fairness.

**Delivery** (`event.go`, `manager.go`, `hub.go`) takes numbered events through
each session's queue, the forwarders, the aggregate and the hub's loop, with
clients that arrive and hang up and a manager and a hub that close at any time.

**StateStream** (`apply`, `refreshCW`, `ws/client.go`) follows a change from the
cache to one client's merged copy. A field's value is the number of the change
that set it, so staleness is an inequality. The queues Delivery models are one
queue here (`feed`).

**Monitor** (`cmd/remoses-cli`, `internal/client`) is the program at the other
end: first fetch, merge, refetch after a resync, keepalive, redial.

### What is done to a radio

**RadioState** (`types.go`, `changedFields`, `ApplyDelta`) has every field of
`State` and the way of a patch: applied, compared, rendered, merged.

**SessionPatch** is `ApplyPatch`: all validation, the writes in their order,
`settlePTT` and the read-back in tiers, one action per transaction, with the
poller, the front panel and the link in between. `todo` is the set of writes left,
`Before` says what the code writes first, and a write is due when nothing before
it is left. A setting's value tells where it came from, so "undone by a later
write" is a comparison.

**CIV**, **Kenwood** and **Yaesu** are the three large backends. An operation is a list of
exchanges, some of which are decisions on what has been decoded by then, as the
code computes the next frame from its atomics. The radio refuses and ignores
what the drivers' comments say it does, the panel moves between any two
exchanges, and an answer may be lost or, on CI-V, late. `Profile` holds the
properties of a model that the control depends on. In Yaesu a refusal is a bare
`?` that names no command, so one of a set is taken for the answer to whatever is
asked next; a command the model lacks is not answered at all; and a filter width
is an index into the column of a table that the mode, DATA and the narrow setting
choose, so the model keeps the index together with the column it is of.

**SelfTest** is `remoses test-run`: `agenda` is the list of steps the sequence
unfolds into, group after group, most of them one PATCH; refusals, lost links and
Ctrl-C come anywhere; the restore comes after.

**CatKeyer** (`cw/cat.go`), **SerialKeyer** (`cw/serialkey.go`) are the two
Morse senders. Text is a sequence of numbered chunks (or symbols of up to
`MaxElements` marks); numbers only grow, so "text of before the abort" is a
comparison.

**Kept** is the loop that filters a slice in place, which the ticket store, the
lanes of a client and the lists of a test run have in common: a recursive function
over the slice's length.

### Composition

Interlock composes the lease with the routes and the carrier: its parts move
together. The modules **Access**, **Link**, **Streaming**, **Session** and
**Keyer** join parts so that one run covers several questions: Keyer because the
configuration builds exactly one of two senders, the others by choosing in the
initial state which part moves. Parts that are chosen between do not interact
within a run; where they do in the code, the one models what it sees of the
other, and says so at its head: Admission hands Interlock a user, ForceRX is one
step in Interlock and taken apart in TransmitGuard, Delivery is the `feed` of
StateStream, StateStream is the server of Monitor, CIV, Kenwood and Yaesu are the
`hint` and the refusals of SessionPatch, SessionPatch is the PATCH of SelfTest.

Modules that only give names to an instance are called `MC...`; `PROJECT.json`
maps every definition to the lines it models.

## The runs

| Run | Bounds | What it shows |
|---|---|---|
| Access | 1 radio, 2 users, TTL 2 on a clock of 4, 3 generations; 2 requests, 1 ticket in the store | *CarrierHasLease*: a radio transmits under the lease that keyed it, or ForceRX is owed, or one of four named exceptions holds. *AdmissionIsEarned*. LockManager implements ExclusiveLease; the callback starts only for a lapsed lease; an abandoned lease ends |
| TransmitGuard | 2 ForceRX, 1 request at a time, 2 keyings, 1 fault | a transmitting radio always has something that will end it; the timer belongs to a transmission; the carrier comes down |
| Link | Conn: 2 callers, 2 keys, 2 calls, 1 push. Supervisor: 2 failures end a link, 2 requests, 2 faults. Delivery: 2 radios, queues of 1, 3 events | one transaction at a time; replies are in the cache first; no awaited answer is lost; nothing is applied after close; every call returns; usable means initialised; one wake per request; refusals keep the link, silence is noticed, a radio comes back; losses are announced; a shutdown reaches everybody |
| Streaming | 1 radio, 3 fields, feed and lane of 1, 3 changes; 2 radios on one lane; a monitor of 2 fields, 3 changes, 2 faults | a stale field has one of three reasons; an overflow owes a resync; written `seq` increases; what is owed is written; a sleeping writer wakes; what a monitor shows is the radio's or about to be mended; a lost stream comes back |
| Session | RadioState: 5 fields, 2 values, 4 changes. SessionPatch: 26 requests. Kenwood: TS-590S, TS-890S. CIV: IC-7610, IC-9700, IC-7700. Yaesu: FT-891, FTX-1, FTdx5000, FTdx9000. 1 panel move or command, 1 lost or late answer. SelfTest: 2 radios, 1 mishap | who merges every delta holds the state; a refused PATCH has written nothing and no write undoes another; the answer is the radio; tuning stays in band; the polls find out all there is and a command does what it says and nothing else; "restored" is true |
| Keyer | room for 2 chunks, 2 aborters, 3 texts, 2 aborts, 1 fault, both senders | no overrun; handed over once; an abort silences; a line is up only for its transmission and comes down; text is served; Close ends |
| LockLapse | 1 radio | *violated:* a lease that lapses runs its callback |
| TransmitExposed | 1 ForceRX, 1 request, no fault | *violated:* the transmit timeout ends every transmission |
| StreamCoalesced | 1 radio, 4 fields, room for everything | *violated:* a quiet stream with no resync is up to date |
| DiffOmits | 1 field | *violated:* every change of the state is published |
| RefusalStarves | IC-9700, 1 panel move | *violated:* a refused read costs that read only |
| InterruptUnrestored | 2 radios, no mishap | *violated:* an interrupted test run restores the radio |

Why the bounds suffice. Every hazard needs two actors and one overtaking: two
users or two goroutines, a second generation or number to be stale against, a
queue of one to overflow, one fault. The bounds give one more than that where
the state space allows. The clock of four ticks allows a lease, a renewal, a
lapse and a second lease. Three changes allow a change that is overtaken by a
second while a third is on its way. Two consecutive failures tell "consecutive"
from "any" (the code has five). Radio models are chosen for what the control
depends on: two receivers named by band, or by selection; bands to exchange; a
selector for antennas; IF polled in bulk or not; Data mode as a mode or as a
flag. The TS-480, TS-990S and IC-706 profiles are in the modules and can be
given to the run in place of these. Requests of SessionPatch are each field
alone, each group whole, and the pairs of which one acts on the other.

Why deadlock is not checked: each instance comes to rest when its counters are
used up, when the system is shut down, or when nobody asks for anything.

### Fairness

Weak fairness on what goroutines do that wait for nothing but time or an event
that has come; on timers of the runtime; on the radio keying what is in its
buffer. Strong fairness only where a step waits for `sync.Mutex` (`cmdMu`)
among competitors: a starving waiter of a Go mutex is handed the lock after a
millisecond, so one that is free again and again is had at last. In
TransmitGuard it is one condition over each kind of waiter, in Conn one per
caller. There is none on users, operators, requests, cables or faults. Where a
run is of several parts each has the fairness of its own module; only one part
moves, so Link may join conditions of different parts into one.

A radio that accepts a command may always ignore it; that is a fault in
TransmitGuard (`ForceFails`), and timeouts in Conn make the caller return.

### The runs that violate

Each shows a point where the code and a text about it disagree; `PROJECT.json`
quotes both sides.

* **LockLapse.** A request that discovers a lapsed lease before the timer's
  goroutine removes it and stops the timer: no callback, nothing forces receive.
* **TransmitExposed.** A key-down between a ForceRX's unkey and its read-back
  leaves the cache at "transmitting" throughout, so nothing arms the dead-man
  that ForceRX disarmed.
* **StreamCoalesced.** Two changes of different fields within one rate-limit
  interval: the first is never sent, and nothing says so.
* **DiffOmits.** `Diff` leaves out three fields that `Apply` copies: the state
  changes under its old `seq` and no client is told.
* **RefusalStarves.** `readAll` carries on after an `ErrRejected`, but the NG of
  a refused read is an error of `conn.Do` already, before `read` could make an
  `ErrRejected` of it: one refused read ends its tier, and what stands after it in
  the list is never read while the refusal lasts.
* **InterruptUnrestored.** Ctrl-C cancels the context the session was started
  with: the connection the restore needs is torn down, and a carrier that was up
  stays up.

The passing properties state the exceptions these force: `exposed` in
KeyedIsCovered, `unforced` in CarrierHasLease, `superseded` in StaleIsExplained,
"no tier failing" in CatchesUp, "no overtaking Abort" in AbortSilences.

### Seen on the way

Points the models show that no run is kept for.

* An answer that comes after its request timed out is taken for the answer of
  the next request with the same key (`conn.go:152-155`); on CI-V every
  acknowledgement has the same key. RadioIsTold holds in spite of it because it
  trusts a command's success only where the polls have caught up before it, and
  they have drained the line by then.
* `awaitWake` (`supervisor.go:220`) clears standby after Init while the radio
  counts as connected, so one that woke is usable before its first poll.
* IC-7610 with a band in FM refuses the width in `ReadVFOs` (`dualvfo.go:218`),
  Init fails, and the radio is taken to be in standby for as long as that lasts.
  The passbands of its VFOs are read at Init only.
* TS-480: one IF that fails sets `ifBlocked` for good, and PTT is not polled
  again (`kenwood.go:125`). The VFO a TS-590 is not on is not read again while
  IF is polled in bulk.
* `ApplyPatch` reads back the slow tier before the fast one, so on CI-V a width
  may be decoded with the mode of before (AnswerIsTheRadio leaves it out).
* The comment of the Yaesu fast poll (`yaesu.go:498`) has TX asked before the
  meters are chosen. It is asked before the meters are, but the list is made
  before it (`txMeterReads` at line 501), so the meters lag PTT by one tick.
* `SetNotchFreq` of the Yaesu backend remembers the position before the radio
  has taken it (`noise.go:277`), so on an FTdx9000 that refused one, switching
  the notch in sends that one; the comment at `noise.go:216` has the position be
  one the radio reported.
* A tuning cycle in one request with `exchange_bands` or `vfo_mode` is checked
  against the frequency of before (TunesInsideBands names it).
* The dead-man is not armed if the acknowledgement of StartTune is lost.
* A failed refetch leaves the hole of a stream displayed as live
  (`monitor.go:261`; `unhealed` in ShownIsExplained), and the back-off starts
  anew with each handshake.
* A WebSocket that disconnects does not release its user's lock.
* The restore of a test run does not put back the antenna, VFO B, the transmit
  audio gain, or what was not readable in the mode the radio was found in
  (`Known`); it passes without comparing.

## The proofs

A theorem is `Spec => ...`, for all values of the constants that satisfy the named
assumptions. `LeaseAssumption`, `ConnAssumption`, `SupervisorAssumption`,
`GuardAssumption`, `StreamAssumption`, `StateAssumption`: bounds are naturals,
sentinels are not members of the sets they extend. `AccessAssumption`: a store has
room for one ticket (`maxTickets`), lifetimes are naturals. `StreamingAssumption`,
`KeyerAssumption`: sizes of buffers are naturals. `SessionAssumption`: a request
names fields there are, as `PatchRequest` cannot do otherwise. TLC evaluates each
of them in the run of its module.

For each module the inductive invariant is stated at the module's end, TLC checked
it before it was proved, and a lemma per action (or group of actions that leave the
same things alone) shows that the action keeps it.

**AccessProofs**

* `LeaseInv`, of the manager: besides the two timer properties it needs that no
  entry carries a generation that was not handed out, or a stale goroutine could
  meet its number again. From it ProactiveExpiry, OnlyLapsedLeasesExpire, and
  LeaseRefinement, where each action is shown to be a step of ExclusiveLease or a
  stutter under the mapping that counts an entry only while it is unexpired.
* `InterlockInv`, of the API with the transmitters behind it. CarrierHasLease needs
  `ExpiredIsGone`: a callback that has started belongs to an entry that has left the
  map, or a lease in force could be taken for the one whose end is being forced.
  `LeasesMove` has every handler take a step of the manager or leave it alone; with
  it TransmitterHasLease needs only to follow each carrier's token through the step
  that ends its lease, and LeaseBehindTheAPI has the refinement and the action
  property for the manager as the handlers drive it.
* `AdmissionInv`, of the tickets: the store is a subsequence of what was issued, in
  order, and no cached key is wrong. The sweep and the cap are filters, so the lemmas
  are those of KeptProofs. From it OnlyTheEarnedGetIn.

**TransmitGuardProofs.** KeyedIsCovered is not inductive: a radio in receive and
uncovered could be keyed by a report in flight. `UncoveredIsUnkeyed` adds that such
a radio still has a ForceRX at its read-back; `ReaderMatchesCache` and
`DownShowsReceive` tie the reader's pending timer step to the cache.
TimerHasTransmission is proved beside it.

**LinkProofs**

* `ConnInv`: `OneTransaction` alone says nothing of answers. `FramesFit` (a frame
  that answers a call under way has its key, numbers are unique), `WaiterListens` (a
  waiting call is in the table, has its reply, or the reader is gone) and
  `AppliedFirst` make AwaitedIsDelivered, ReplyIsApplied and ClosedIsQuiet steps of
  one line of argument.
* `SupervisorInv`: `PlaceDecides` says for each place of the supervisor what the
  flags, the published state and Init's outcome are; the rest follows.
  WakesAreAskedFor counts requests made, armed, being sent and sent.
* `DeliveryInv`: `Coming` lists what a forwarder will be handed, with the number the
  radio publishes next as its last entry; `NothingHidden` says that an event, in
  whichever queue, announces a drop or hides none, being next to one of its radio
  that comes before it or preceded by an announcement (`Clear`). The drop counters
  of both joins stand in the one statement, so LossIsTold has one case per queue.
* `PartsOfLink`: a behaviour of Link is one of the connection and one of the
  supervisor, so LinkIsSafe restates all of it for the specification the run checks.

**StreamingProofs**

* `LaneInv`: the flags of the shared lane stay within the subscription, and a hole
  is flagged while the client is open.
* `CopyInv`: that a stale field is explained is not inductive, since an event could
  carry less than its change set. `EventsAreTrue` says what an event at any place
  names, and `CopyIsBehind` that nothing the client has is newer than the cache or
  than the last number written; from the two also WrittenOnce, an action property
  of the lane.
* `MonitorInv`: for each message under way and for the display, a field that is
  wrong is put right by something that comes after it.

**KeyerProofs**

* `SerialInv`: `ChannelTellsGen` has the keying goroutine's copies of the generation
  and of the abort channel go out of date together, so a select on the channel is as
  good as a comparison; `PTTIsHeld` and `SymbolIsFresh` carry the lines through the
  places of the goroutine.
* `CatInv`: what the radio has, the chunk on its way and the queue are one rising
  sequence (`ChunksInOrder`, `OnTheWay`), room that was found stays since nobody else
  writes (`RoomIsKept`), and the estimate ends in what the radio really has
  (`EstimateCovers`). KeyerAborts, KeyerHandsOver. `KeyerInv` has, beside the
  invariant of the sender that exists, that the other one never moves.

**RadioStateProofs.** ClientHoldsTheState: for any values, any fields a radio
reports on and any number of changes. The transmit meters that receive clears are
the hard case: what `Apply` drops on its own must be what the delta of the same
change drops at the client (`MergedAgrees`).

**SessionProofs**

* `PatchInv`: `Stages` ties the place of a PATCH to what is left to write and to
  read; `LastWrites` has the writes left be the last of the order, so that a write
  which would undo another comes before it (`OrderOfWrites`); `AskedStays` that a
  field is set or its write is to come; `ReadSoFar` that a setting differs from the
  answer only while its tier is still to be read. PatchIsWholeOrNothing,
  PatchAnswersTheRadio, TuningStaysInBand, for every request of the fields there are.
* `TestInv`: nothing on the agenda needs a leave the run has not got
  (`SequenceType`, over the thirteen groups); short of an error, what is not where it
  was found is still on the agenda (`RestoresAll`), which a request that is cut short
  keeps because it leaves an error. TestRunPutsItBack.
* DeltasInSession: ClientHoldsTheState for the specification the run checks.

**KeptProofs.** What the filtering loop returns, for every sequence: elements of it,
in their order, all that are in the set and no others. The loop is a recursive
function, so it exists by induction over the length; the induction is one over a set
of naturals (`Induction`), which the provers take where they do not take the
library's theorem about a predicate.

Only model-checked:

* Liveness (the twelve properties of `~>` and `[]<>` form): the prover knows no
  fairness and no ENABLED.
* RadioIsTold, of the three backends. That the polls find out what there is holds
  after six rounds of two tiers, so an invariant would have to say of each of some
  forty settings in which exchange of which round, with which answers still to come,
  it is right by then, for each model of three backends.
* WrittenSeqIncreases is proved of StateStream, and checked of Streaming.

## Not modelled

Within the modelled parts: a lock manager with a failing random source,
IsHolder; the wire trace and the reply framer of the five-byte Yaesu protocol in
Conn; lengths of back-off and jitter; SetSpeed and the remaining-time figure of
the senders; element lengths and drift correction in the serial keyer; the
wording of messages, pings and request parsing in the WebSocket client; frames,
digits, BCD, units and scales, the text buffers and the power switch of the three
backends; the sub receiver of a Yaesu, whose frames the driver passes over;
`EnsureCW`. In CatKeyer the estimate of what is still sounding is
assumed never to run out before the radio has keyed the chunk (`Elapses`),
except for chunks it was told to forget; a radio that keys slower than its set
speed is outside it. In TransmitGuard the radio keeps its own PTT across a
reconnect (`rigTX` outlives the link, the cache shows receive, the first poll
reads the radio again) and any caller may call ForceRX at any time, also without
a connection. What the radios do is external: it is taken from how the drivers
use them and what their comments say of them, and marked so in the map.

Parts that are left out: the five-byte Yaesu backend and rigctld (the first needs
frames cut by the waiter, the second speaks to another daemon); chunking and Morse timing, configuration (pure functions of one text or
one record); generated code (`internal/wire`), terminal presentation, logging,
raw I/O.

## What could come next

1. Moving parts together that are now joined by assumption: ForceRX of
   TransmitGuard under the leases of Interlock; Delivery as the implementation
   of StateStream's `feed`, by refinement.
2. The five-byte Yaesu backend, with frames cut by the waiter in Conn; rigctld's
   supervised child.
3. Chunking and Morse timing as operators against a reference definition.
4. Proofs about the backends: what each answer leaves in the Rig, and from it that
   a command moves nothing it was not asked to (OnlyAsked).
