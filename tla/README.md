# Verification of the field server

The field server (`src/api/app`) gives out the tokens with which people, and AI
interpreters, send audio to the rooms of a LiveKit server; it decides who may send on
which channel and throws out everybody else. It is one asyncio process with a SQLite
file. Whatever can go wrong in it goes wrong between two awaits: this project models the
coroutines step by step from one await to the next, checks them with TLC on small
instances, and proves the properties of the core for every instance with TLAPS.

## The system

| component | state | operations | hard because |
|---|---|---|---|
| channel and lease ledger (`db.py`, `main.py`) | `channels` (open, epoch), `leases` (identity, joined_at, expires_at), `generation` | create, close, subscribe, publish, takeover | every request awaits LiveKit between reading the lease and writing it |
| webhook processor (`webhook.py`, `rate_limit.Blocklist`, `monitor.py`) | processed event ids, strikes, on-air set | participant_joined / left / aborted, track_published / unpublished | events come late, twice, reordered or never; handlers take no lock and await LiveKit |
| rotation (`state.py`) | send password, generation, rooms, leases | change the send password | several LiveKit calls, any of which may fail, before one transaction |
| bootstrap (`state.py`) | all of the above, from the file and the rooms that are left | restart | a crash leaves any prefix of another operation; bootstrap is made of transactions and LiveKit calls itself |
| AI channels (`main.py`, `translate_worker.AiChannelManager`) | table of running workers, AI rows | create, delete, cascade, idle sweep, restart of a worker | stopping awaits; slots are used again |
| translation session (`translate_worker.TranslateWorker`) | tasks, upstream sockets | run, renew, drain, close | four tasks and a renewal that overlap |
| silence gate (`translate_worker.SilenceGate`) | open or closed, silence, prebuffer | feed a frame | thresholds |
| usage (`db.py`, `usage_reporter.py`) | open and ended sessions, reported flags | open, close, report | at-least-once delivery to a hub |
| intercom (`main.py`, `rate_limit.FailureLock`) | channels with passwords, failure counts, key locks, two threads | create, enter, talk, listen | the password is checked outside the lock under which the room is made |
| recordings (`recording.py`, `main.py`) | active recordings, index by channel, encoder processes, files | start, stop, list, delete, shut down | a stop overtakes a start; encoder, writer and room fail one by one |
| live send verifier, listeners, limits, configuration, tokens, http helpers, web client | | | see "Not modelled" |

They interact through the SQLite ledger, the two kinds of lock (`rotation_lock`, then one
`channel_lock`), LiveKit's rooms and its webhooks. LiveKit and its clients are external:
they are modelled by what the server can rely on.

What makes each part correct, in short: a channel has one sender and the lease names it;
whoever lost a channel never gets it back with the same token; a rotated password and its
rooms are gone for good; nobody stays in a room unjudged; no request is left hanging.

## Modules

* `RelayControl` models the ledger, the requests, the webhook processor and the rotation.
  Its variables are the rows and sets of the table above, one owner per lock, and the
  program counter and local variables of each request (`pc, op, chan, cred, held, todo`)
  and suspended handler (`hpc, hev`). An action is what a coroutine does between two
  awaits; an HTTP request goes `rotation -> channel -> ensure -> ...`, the places where
  the code waits. `Fault_...` operators are plausible mistakes, defined before the
  operator they would replace; no specification uses them.
* `LeaseLedger` is the abstract ledger: a channel has at most one holder, and only an
  identity that was never issued becomes holder. `RelayControl` implements it with
  `issued <- Issued` (`ImplementsLedger`).
* `MCRelay` gives TLC the symmetry sets.
* `RelayControlProofs` holds its inductive invariant and theorems.
* `RelayRestart` extends `RelayControl`: the process can be killed anywhere and boots again.
  `RelayRestartProofs` has its theorems and takes the lemmas of `RelayControlProofs`.
* `Intercom` models the intercom's channels, the lock on guessing their passwords, and every
  request that makes sure a room exists, a recording's start among them, beside the rotation.
* `Recording` models the `RecordingManager` and its sessions. `IntercomProofs` and
  `RecordingProofs` hold the theorems of the two.
* `AiChannels` models which channels are open and which of them an AI worker interprets,
  the `AiChannelManager` with one supervisor per AI channel, and the coroutines that start
  and stop workers. It shares rows, leases and locks with `RelayControl`, each module
  keeping of them what its properties need; `MCAi` gives TLC its symmetry set, `AiProofs` has
  the theorems.
* `UsageSessions` models the table of usage sessions and the reporter that bills them at
  the hub; `UsageMeter` is the abstract meter it implements. `MCUsage` names the instance's
  channel; `UsageMeterProofs` and `UsageProofs` hold the theorems.
* `TranslateWorker` models one run of an AI interpreter, what `AiChannels` treats as one
  supervised task; `SilenceGate` gives the gate its send loop feeds, as operators.
  `TranslateProofs` has the theorems of both.

### How RelayControl stands for the code

* Identities are records of channel, epoch, generation and nonce instead of the string
  made of them. Nonces are counted; the code draws them at random and treats them as unique.
* Time is the `age` of a lease: within 120 s of grace, within the hour of its life, over.
* The send password is named by the generation it belongs to: a request carries the
  generation of the password it was authorised with, or 0 for the admin password. The
  admin password changes neither generation nor lease, so its change is left out. The
  password is checked without an await (the remote verifier is another component).
* A LiveKit call that fails may have taken effect before its answer was lost.
* `hooks` is a set: any event may be delivered next, again while it is still being
  handled, or not for a long time. `LoseHook` drops one for good.
* The rotation lists the rooms right after it created the new one; a room that vanishes in
  between is deleted again without effect.
* AI channels have a module of their own, `AiChannels`; their rows, their part of `close_channel` and of
  the rotation are not in this one. The intercom's rooms are in `Intercom`.
* `NoOldGenerationRoom` speaks of the requests that take the rotation lock. The start of a
  recording calls `ensure_room` without it: that is in `Intercom` (`NoOldRoom`).
* `heard`, `offenders` and `lost` are history: no guard of the code reads them.

### How AiChannels stands for the code

* A worker is named by its slot and the opening of the row it was started for; `row`
  counts the openings (`born`), as the database does not: no guard reads the count. A lease
  is the worker it names, or none.
* `registry`, `leaked` and `run` are `_channels`, `_leaked` and the asyncio tasks that have
  not ended. A cancelled task ends at any time later, or never: the five seconds that
  `stop` waits are a step that may come before or after. Whether a task failed in `run` or
  backs off is `run[w]`; the upstream session itself is another component.
* One coroutine works through `pc`: `lock` (wait for the channel lock), `ensure`, `ready`,
  `rollback` of a creation; `stop` and `remove`, the two awaits everybody goes through who
  closes an AI channel; `cascade` between two candidates; `rooms`, `stopAll`, `stopping`,
  `reap` of a rotation. `Close` is the row's end together with the return into the cascade.
* `wave, cand, next, seen` are the local variables of `_close_dependent_ai_channels`.
* The idle time of a source is not modelled: any registered channel may be idle.
* `Restart` is the end of the process anywhere, by a kill or a shutdown, which both leave the
  rows as they are, and the boot after it with `restore_ai_channels`, in one step: nothing is
  served in between. `K` are the channels it restores; a restored worker has the name of the
  one before, which is gone with its process. The generation may have changed (`K = {}`).

### How RelayRestart stands for the code

* `Kill` forgets what is in memory, together with what a coroutine had committed of a step
  that has two transactions: the epoch of a takeover, the release before an acquisition, a
  webhook's effect without its event id. `MemoryLost` is what only the process knows: the
  on-air set, the strikes, the locks and every coroutine.
* LiveKit goes on meanwhile: people connect, leave and publish, rooms close, and the
  webhooks about it wait (`hooks`), as they do while the server answers 503.
* `boot` is where `bootstrap` waits for LiveKit; requests and webhooks are served when it is
  `up`. `NextGeneration` is a start with other passwords in the environment;
  `KilledAtGeneration` is the end of the process between its two transactions.
* The answer of `list_participants` and the transactions that follow it are one step: there
  is no await in between. A participant without the lease is removed afterwards, one by one.
* A LiveKit call of `bootstrap` that fails ends the process (`BootFails`); docker starts it
  again (`restart: unless-stopped`).

### How Intercom stands for the code

* A word is the number of the salted hash it fits, so that two channels with the same
  password have different hashes, as in the code. `cred` is the generation of the send
  password, or 0 for the admin's and for a live code, which no rotation changes; the hub may
  refuse a live code at the second check (`ByLiveCode`).
* `keyLock` is the lock of an address and a channel, `Checking` the holders of the semaphore
  that bounds scrypt. `seen` is the row the password was checked against.
* `Wanted` follows the three `ensure_...` functions: a channel's room is named before
  `list_rooms`, the relay's and the lobby's after it. `list_rooms` without an answer counts
  as no rooms, as the code has it.
* `listen` is the monitor token, `record` the part of `start_recording` that makes sure of
  the room; what follows is `Recording`. How many are in a room decides only between an
  answer and 409, and changes nothing: `Answer` stands for both.
* A room may be closed by LiveKit when it is empty; the model lets it happen at any time to
  the intercom's rooms of the present generation.
* `Restart` is a kill and a whole boot in one: intercom rooms and rows are all dropped
  before the server serves, and `RelayRestart` has the boot's steps.
* `guesses` counts wrong words since the address was last let in, let off or locked out; the
  code keeps no such count.

### How Recording stands for the code

* The manager's lock is never held over an await, so that each use of it is a part of a step.
* A recording has two coroutines, `start` (spawn the encoder, connect to the room) and `stop`
  (leave the room, drain the writer, wait for the encoder), each with its place; `writer` and
  `encoder` run besides. `finalize` is the argument of `session.stop`.
* `owed` are the tasks that the disconnected callback made and that have not run yet.
* `Drain` ends by the writer's end or by the five seconds it is given; then the writer is
  cancelled with what the mixer still has, and stdin is closed, maybe with bytes in its
  buffer (`rest`). A writer that raised (`broken`) makes `stop` raise.
* `StdinClosed` is `wait_closed`, which has no time limit: it returns when the buffer is
  empty or the pipe is broken. `Finalize` stands for the wait, the kill after ten seconds,
  the move of the part file and the writing of the metadata, between which `Crash` may fall.
* The encoder is another process: it reads its input and ends well at the end of it
  (`EncoderReads`, `EncoderEnds`), or dies, or stalls and reads no more (`EncoderFails`).
* `Exit` may come when the active recordings are stopped. Stops that a request or a
  disconnection began are not waited for, as in the code; the end of the loop cancels them,
  and one that waits for its writer takes the cancellation for the five seconds and goes on.
* `made` and `givenUp` are history: of how much of the mixed audio the encoder made an mp3
  (nothing, what a cancelled writer had written, all), and whether the stop gave its writer up.

### How UsageSessions stands for the code

* `table` is `usage_sessions` with the columns the properties tell apart: `pushed` stands
  for `pushed_at`, `end = None` for a session that is open. `logged` holds the events that
  are in `signal_events`, which make a second delivery harmless.
* The events delivered are those of connections that were made, in any order, any of them
  never. An event is recorded in one transaction and its usage tracked in another, whose
  failure is swallowed: `Deliver` may leave the sessions as they are.
* `Sweep` is one round of the push loop up to the await on the hub, `PushOk` or `PushFails`
  what follows it. `HubReceives` is the hub's side: it may or may not have happened when
  the answer is lost or the server restarts. The events carry no id of their own; that the
  hub takes an event it knows already for the same one (subject, live, start and end) is
  assumed: `docs/LIVE_API_CONTRACT.md` calls the hash a means to deduplicate.
* Which live a participant is billed to is `active` when the session opens; the setting
  `stored` is what a restart finds. Kind, language and how a listener's channel is found
  are left out. Time is counted in units of which `MaxSeconds` make up the cap.
* The loop's minute is not tied to the clock: a sweep may be any time late.

### How TranslateWorker stands for the code

* `pc` is where `run` waits: `livekit` and `connect`, `wait` for its tasks, then in its
  `finally` `gather`, `close` (the sessions) and `leave` (the room). `cancels` counts the
  `CancelledError`s thrown at it by `stop` and by the collection of leaked tasks.
* `sock[s]` goes from `opening` to `open` (the socket is there, `session.update` is not
  sent) to `up` to `gone`. The room is joined (`JoinRoom`) before the track is published
  (`TrackPublished`), and a run that fails or is cancelled in between has to leave it. A `room.connect` that itself fails or is cancelled is taken to
  leave no participant: that is the library's affair. `making` is the local variable `new` of `_renew_session`,
  `drain[s]` the task of `_drain_and_close`, in its sleep or in `aclose`.
* `queue` is `_event_q`; a reader never waits, so that it is part of the upstream's step.
  `Reports` stands for an `error` as well as for `session.closed`.
* `target` is the session whose `append_audio` the send loop awaits; `self._session` is
  read for every chunk. The queue of frames is left out: the loop takes any next frame.
  A send fails only when the socket is gone.
* When `run` leaves its wait, its loops are cancelled; their state, and the history of
  what they did, are set back, since nothing reads them any more. `torn` remembers sockets
  that a cancelled `connect` or `_drain_and_close` left to nobody.
* The gate measures bytes; frames have one length in the model, so that the hangover and
  the prebuffer are numbers of frames. `todo` holds the frames `feed` has returned.

## Runs

| run | bounds | shows |
|---|---|---|
| `relay_requests` | 1 channel, 2 requests, 1 handler, 2 tokens, 2 generations, 1 outstanding webhook when a client acts | the properties of requests against each other and against a rotation; the refinement |
| `relay_webhooks` | 1 channel, 1 request, 2 handlers, 1 token, 2 outstanding webhooks, 2 tracks, 1 lost webhook | the properties of the webhook processor |
| `relay_liveness` | 1 channel, 2 requests, 1 handler, 1 token, 2 generations | every request is answered |
| `relay_restart` | 1 channel, 1 request, 1 handler, 1 token, 2 generations, 1 lost webhook, the process ends twice | what holds whenever the server serves again, and that everybody is judged in the end |
| `intercom` | 1 slot, 2 requests, 1 address, 2 generations, 1 password, locked after 2 failures, 1 check at a time; live codes only | that what was checked outside the lock holds inside, guesses are bounded, requests answered |
| `intercom_old_room` | the same, send passwords too, the relay recorded too | what a comment says and the start of a recording does not do |
| `recording` | 2 channels, 2 recordings, 1 fault, 1 shutdown or crash | that stops end, the list is right and survives, the index blocks no channel |
| `recording_twice` | 1 channel, 3 recordings | what the contract says and a failing start undoes |
| `ai_channels` | 3 slots, 3 openings, 2 coroutines, 1 crash or released lease, 1 stuck task at a time, any number of restarts | that workers, rows and leases agree however slots are used again |
| `ai_own_row` | 2 slots, 3 openings, 2 coroutines | what a comment says and the code does not do |
| `usage` | 1 participant, 2 connections, 1 live, 2 attempts, batches of 1, cap 1 of 3 units of time, 1 restart | that sessions and reports implement the meter, nothing is lost, everything is settled |
| `translate` | 2 sessions, 4 frames, hangover 2, prebuffer 1, 1 output of a session, 2 cancellations | that speech and output survive silence and renewal, no socket is forgotten, a loss or a cancellation ends the run |

Two requests are enough because the code excludes all but one from every critical section:
one works, one waits. Channels do not interact but through the rotation, which treats them
alike. Two tokens make a holder and its successor, two generations one rotation. The
proofs do not depend on any of these bounds.

`relay_webhooks` has one token, so a holder's successor is met in `relay_requests` only,
which in turn has no tracks; both kinds of run include `left`, `joined` and the removals.

In `ai_channels`, three openings let a slot be an AI channel's, free, and somebody else's
again while one coroutine still works for its first owner, or three slots form a chain of
interpreters. Two coroutines are a closer and one that overtakes it; the supervisors run
besides. One fault gives a supervisor its retry during a stop; after a fault, a stuck
task is followed only if it is the one that crashed (`OneTrouble`); the proofs have no such
bound. Deadlock is checked: a
circle of the two coroutines over rotation and channel locks would be one, while nothing
else can run.

In `usage`, a session belongs to one participant and participants share only the channel's
end and the batch: two sessions of one participant with batches of one already make a row
wait behind another. Joins are delivered only while a session can still outlive the cap
within the clock's bound, so that the sweep is what ends it. Two attempts let the first
fail with and without the hub having received it.

In `translate`, two sessions are one renewal: a session drains for eight seconds and is
renewed after 55 minutes, so that never more than two are in use. Four frames let the gate
close after two, push one frame out of the prebuffer, and open with the next. The second
cancellation meets the clean-up of the first.

In `relay_restart`, the process ends twice so that a boot is itself interrupted and the next
one finds a generation stored and no lease cleared; the lost webhook is one that nobody will
bring again. One request is enough, since whatever it holds is lost with the process.

In `intercom`, two requests are one that has checked and one that changes what it checked:
a rotation, a creation in the same slot, a second guess. One password makes a channel
without one its rival. `FailLimit` is 5 in the code and plays no part but as a bound; 2 lets a
failure be followed by a success or by the lock. With one address there is one key, so that
the semaphore is not contended; the `_scrypt` slots are given back with the key in any case.

In `recording`, two recordings of one channel, or of two, meet the failing start, the stop
that overtakes it and the shutdown that stops both; the one fault is an encoder
that dies or stalls or a recorder put out of the room; a writer may hang at any time. Deadlock is not checked in runs of which the bounds end the
activity (`recording`, `usage`, `translate`).

### Properties

* `LeaseIsCurrent` (and `LeaseOnOpenChannel`, which is proved and follows from the
  refinement): a lease belongs to an open channel, its present epoch and generation,
  whatever was waiting for the locks when that changed.
* `PasswordStillValid`, `LeaseHeldDuringAwait`: what a request checked before an await is
  still so after it, except that a webhook may have released the lease.
* `NoOldGenerationRoom`: after a rotation no old room exists or comes back.
* `PublishSparesHolder`: a publish request takes a channel only from a holder whose grace
  or life is over, or whom LiveKit did not list. An extension by `KeepHolder` and a late
  `participant_joined` are what make it delicate.
* `NoReturn`, `ImplementsLedger`: a lost channel stays lost to the token.
* `AdmittedOrPending`, `EveryoneIsJudged`: an event's id is committed only after it was
  handled; whoever connects is let in or removed.
* `HolderNotStruckUnjustly`: repeated and reordered events never strike the holder.
* `RequestsFinish`: no lock is kept, nobody waits in a circle.

* `OldRoomsGoneWhenUp`: wherever the process was killed, in the middle of a rotation or of a
  boot, no older room and nobody with an older token is left when it serves again.
* `RecoveredLeases`: nor does a lease of an older generation pass for one that is in use.
* `OrphansRemoved`: whoever bootstrap found in the room without a lease is out of it, though
  the webhook about him was lost; `EveryoneIsJudged` adds that everybody else is let in or
  removed, restarts or not.

* `ChecksStayTrue`: the password was checked in a thread, outside the rotation lock; under it
  the channel is still the one whose password it was, the chosen slot still free, the room
  of the present generation, until the last await.
* `GuessesLimited`: requests sent at once do not get past the lock before it counts.
* `RowsAreCurrent`: a channel's row never outlives its room's generation.
* `RequestsFinish` (of `Intercom`): key locks, semaphore and rotation lock are given back.

* `IndexedIsActive`: a channel answered 409 is being recorded; no failed or overtaken start
  blocks it for ever.
* `ListedIsComplete`: what the list offers is not worked on, and its encoder came to the end of
  all the mixed audio. One case is excepted, because the code lists it: the stop gave the
  writer up after five seconds, and the encoder came to the end of what that had written.
* `ListedStays`: and stays until it is deleted: no other step takes it off, and a crash at
  most the one whose deletion it interrupts.
* `StopsEnd`: a hanging writer or a dead encoder does not keep a stop from ending, nor does one
  that stalls, unless stdin still holds bytes it has not read: `wait_closed` waits for it
  without a limit, so that the kill after ten seconds is never reached (`Unread`).
* `ShutdownStopsAll`: a stop that raises does not keep the shutdown from stopping the others.

* `WorkersAccounted` (`NoRunaway`, `EveryTaskTracked`), `RowsMatchRegistry`: no supervisor runs on, and is paid
  for, that the manager has lost, and no open AI channel is without one.
* `LeaseOfOwnRow`: the token provider's writes, which take no lock, never give a slot to
  the worker of an earlier row.
* `NoFeedback`: sources never form a circle, however slots are reused; `DeleteReachesAll`:
  a DELETE leaves nobody interpreting a slot it closed. Sweeps and rollbacks, which do not
  hold the rotation lock during their cascade, promise less.
* `RefusedIsStopped`: a creation answered 503 leaves no worker, whoever has the slot by then.

* `OnePeriodPerConnection`: duplicated, swapped and lost webhooks never make more sessions
  than there were connections, open or ended.
* `NothingForgotten`: an ended period is billed, waits to be, or was sent as often as the
  reporter may; a crash, a purge or a lost answer does not lose it.
* `EverySessionSettled`: no session stays open, or is sent again, for ever.
* `ImplementsMeter`: what the hub is told are periods that are over and do not overlap.

* `GateIsExact` (`SpeechIsSent`, `SilenceCounted`): no loud frame is lost or reordered by the gate or the
  switch of sessions, only silence longer than the hangover is withheld, and the figures
  shown for what was saved are right although frames are counted first as withheld.
* `OutputKept`: events of both sessions share a queue and may be read long after the switch;
  none is dropped.
* `LossIsActedUpon` (`ReceivesUntilLost`, `LostIsNoticed`): only the loss of the session in use
  ends the loop, and the run never goes on without noticing it.
* `EverySocketKnown`: between connect, switch, drain and clean-up each socket is somebody's
  to close, but for a connect or close that was itself cancelled.
* `CancelledEnds`: nor does it go on after it was cancelled.

### Disagreements with the documents

Runs of the project show three:

* `OnlyOwnRowClosed` (`main.py:1163-1166`; `ai_own_row`): a rollback, or the idle sweep, that
  waits for the removal of a participant closes whatever row has the slot then; a rotation
  may have freed it, without the channel lock, for a person's channel.
* `NoOldRoom` (`main.py:705-706`; `intercom_old_room`): the start of a recording makes sure of
  its room without the rotation lock. If a rotation runs between its `list_rooms` and its
  `create_room`, the room of the old generation is there again, and with it every old token.
* `OneRecordingPerChannel` (`openapi.yaml:1210`; `recording_twice`): a start that fails takes its
  channel out of the index whoever is in it; when it was stopped before and the channel is
  recorded again, the channel can be recorded a third time beside the second.

Six more are stated by a property that no run is kept for. TLC finds each violated as the
only property of a configuration with one channel (and one request and handler, `MaxLost = 0`, where there are
such) and

| property | module, specification | bounds |
|---|---|---|
| `OnAirHasLease` (`monitor.py:14`) | `MCRelay`, `Spec` | `MaxNonce 1, MaxGen 1, MaxPending 2, MaxJoins 1, MaxTracks 1` |
| `StaleLeftIsIgnored` (`openapi.yaml:125-128`) | `MCRelay`, `FairSpec` | `MaxNonce 1, MaxGen 1, MaxPending 2, MaxJoins 2, MaxTracks 0` |
| `OnlyHoldersStay` (`openapi.yaml:115-117`) | `MCRelay`, `Spec` | `MaxNonce 2, MaxGen 1, MaxPending 2, MaxJoins 1, MaxTracks 0` |
| `SourceIsOpen` (`main.py:1092`, `main.py:1775-1777`) | `MCAi`, `Spec` | those of `AiOwnRow.cfg` |
| `NothingLeftOpen` (`translate_worker.py:436`) | `TranslateWorker`, `Spec` | `Hangover 2, Prebuffer 1, MaxSession 2, MaxFrame 0, MaxOutput 0, MaxCancel 1` |
| `NothingCutIsListed` (`recording.py:288`) | `Recording`, `Spec` | `MaxRec 1, MaxFault 0, MaxStop 0` |

* `OnAirHasLease`: the lease is checked before an await, the channel put on air after it.
* `StaleLeftIsIgnored`: a late `participant_left` releases the lease of a reconnected holder;
  the contract asks for a comparison of timestamps.
* `OnlyHoldersStay`: a holder that connects during a takeover, after its removal and before
  the new row, is admitted and stays in the room.
* `SourceIsOpen`: the source of a new AI channel is checked before the await on `ensure_room`;
  a rollback or sweep may close the source, and its dependants, before the new row exists.
* `NothingLeftOpen`: the `finally` of a run awaits, and a cancellation that meets it there,
  after the run had already lost its session, skips the rest; sockets and the room stay
  open. `run` in its wait is safe: there the cancellation is what starts the clean-up.
* `NothingCutIsListed`: the comment keeps what ended abnormally off the list because it need not
  be complete; a writer that is cancelled after five seconds leaves a file that is cut
  short, lame ends well at the end of it, and it is listed.

### Fairness

asyncio runs every coroutine that can run (`WF` of a request's and a handler's steps),
wakes the waiters of a lock in turn (`SF` of the steps that take the rotation lock; the
channel lock is never contended under it), LiveKit calls end (they have a timeout), a
webhook answered with 503 is sent again, and LiveKit does not fail the removal of the same
participant for ever (`SF` of `Eject`). Clients, requests' arrival and time are not fair.

`RelayRestart` assumes the same while the process serves, and that it is started again and its
boot goes on; a boot may fail as often as the bound on crashes allows. In `Intercom` the locks
and the semaphore are first come first served (`SF`), LiveKit and the thread answer. In
`Recording` the coroutines of start and stop run: the writer is given five seconds, the end of
the encoder ten, and LiveKit's calls have time limits. `wait_closed` has none; an encoder that
is not stuck reads what is in its pipe (`WF` of `EncoderReads`). A writer or an encoder need
not end by itself, and one that is stuck stays so.

In `UsageSessions` time goes on, the loop sweeps (it catches every exception) and a post ends
after ten seconds with or without an answer. The hub need never answer; webhooks need not
come; restarts are bounded.

In `TranslateWorker` the receive loop and `run` go on when they can, drains end after
eight seconds and closing is bounded by the libraries' time limits. Upstream need not
speak, connects need not end, and no frame need come.

## Proofs

Every safety property that a passing run checks, invariant or action property, is a
theorem, for any number of channels, requests, handlers, tokens, workers, slots, sessions,
recordings, participants, crashes and faults. The assumptions on the constants are those
the modules state: a model value such as `None` is nothing else, bounds are naturals, the
few sizes the code needs positive are positive.

`RelayControlProofs`: the inductive invariant `Inv` adds to the types

1. what a request is doing at each place (`ProgramInv`, `HandlerInv`),
2. who owns the locks there (`RotationLockInv`, `ChannelLockInv`): two requests are never
   both past the password check, so what one has read no other has changed,
3. which tokens are out (`IssuedInv`): a new one differs from all of them,
4. that the rooms a rotation still has to delete are on its list (`RoomsInv`),
5. that events and strikes come from issued tokens (`ConductInv`).

Each part is shown preserved by every action from the parts before it
(`TypeInvStep` ... `ConductInvStep`). From it follow the type invariant, every safety
invariant of the runs, the refinement (`LedgerStep`: each action maps to one action of the
ledger or a stutter), and `NoReturn` from the refinement. `HoldersAreSpared` needs more of
the past (`PresenceInv`): whoever is admitted and holds the channel has a joined lease, whose
token has opened a session; so a token used once, found absent, cannot be back when the
answer is acted on.

`RelayRestartProofs`: while the process serves, its steps are `RelayControl`'s, and the lemmas
about types, locks and rooms hold as they stand; `LeaseIsCurrent` does not, since a crash
leaves leases of older epochs and generations. `LeaseInv` and `JoinedInv` are what is true
instead. `SeatInv` (everybody connected is in a room that exists) holds through crash and
boot, because a room is never gone without its participants. `PurgeInv` and `RosterInv` say
what each stage of bootstrap has left to do; people who connect, leave or reconnect meanwhile
only make it less (`Reseated`, `TokensGrow`: who is there was there, or is in a new session).
The lists of a boot that is cut short are forgotten and made anew.

`AiProofs`: what a coroutine is, owns and has stopped is said of each alone (`Sound`), and
shown once not to be disturbed by steps of the others (`OthersStaySound`), which own other
slots or wait for a lock. A slot that nobody is closing (`Settled`) has rows, registry, leases
and supervisors that match; every await of a start or stop is a place where they need not.
That sources form no circle (`NoFeedback`) is kept as "no set of AI channels has all its sources
in itself" (`AcyclicInv`): a creation checked `SourceCycle` under the rotation lock that it still
owns when it writes the row, nobody else adds AI channels meanwhile, and closing a row only
removes links.

`UsageProofs`: `UsageInv` says of the table that a participant has one open row, that open
rows are not marked and started before now, and that the batch the reporter waits for is
still pending; that is what keeps a restart or a late answer from marking the wrong rows.
`Good` adds `NothingForgotten`, which is inductive with it. One lemma per kind of step
shows that it keeps `Good` and is a step of the meter: closing rows is `Stop` of their
periods (`ClosedStops`), opening one is `Begin`, everything the reporter does is `Bill` or
a stutter (`SameRows`). `UsageMeterProofs` proves of the meter alone that billed periods never
overlap, and `NobodyBilledTwice` carries it over. `OnePeriodPerConnection` counts: sessions
over and sessions open together are no more than the `participant_joined` that were logged,
which are no more than the connections made.

`TranslateProofs`: `GateInv` is a statement about the frames fed so far and those let through;
it holds of a new gate and every frame keeps it, for any hangover and prebuffer. Of the
worker, each socket is tied to the place of the coroutine that has it to close (`PlaceInv`,
`SocketInv`), the ends of sessions that wait in the queue belong to sessions that are lost or
drained (`EndsInv`), and what a session put out equals what was published of it and the
entries of the queue that are its.

`IntercomProofs`: what concerns a request is said of each alone (`Sound`: where it is, which
locks it owns there, what it has checked), and `OthersStaySound` shows once that a step of
one disturbs no other, for whoever waits for a thread owns its key and whoever waits for
LiveKit owns the rotation lock. `GuessInv` says that the failures counted are the guesses
made, or that the key is locked. The assumptions give that `None` is nothing else, and that
the limit is positive. The semaphore needs no bound for this.

`RecordingProofs`: an active recording has no file, and if it is being stopped then by its
failing start, which keeps none; files are there only after a stop that is over and an
encoder that came to the end of what it was given (`Complete`); the shutdown still has to stop whatever is active. Most steps
(`Ordinary`) leave the files of a recording alone; the few that do not are taken one by one.

Model-checked only: the liveness properties (`RequestsFinish`, `EveryoneIsJudged`,
`EverySessionSettled`, `StopsEnd`, `CancelledEnds`, and `LostIsNoticed` of `LossIsActedUpon`), which are
out of the prover's reach because they need fairness and `ENABLED`; and the violations.

## Plan

Done: `RelayControl` with its ledger, `RelayRestart`, `AiChannels`, `TranslateWorker` with
`SilenceGate`, `UsageSessions` with its meter, `Intercom`, `Recording`.

Left: the cache of the live send verifier and the utterance tracker, which no module has; the
lemmas behind a liveness argument (which step of a request ends its wait) stated as action
properties, since the argument itself cannot be checked here.

Twelve runs are as many as the project means to have: a new question replaces an old one.

## Not modelled

* Parsing, formatting, JWTs, HTTP plumbing, the audit log, the web client and the scripts have
  no state of interest.
* `RateLimiter` refuses before anything changes, in one synchronous call.
* The listener heartbeat ledger is single SQL statements.
* The live send verifier asks the hub and caches its answer for five minutes; the modules take
  the answer as given, each time it is asked.
* The utterance tracker and the captions of a worker: they change what is shown, not what is
  sent. A full queue of frames, of which the oldest is dropped.
* What a recording does with tracks and audio, file names, downloads, and a part file that
  another process holds open.

`PROJECT.json` lists every component with its state of work.
