# MobileSpeak in TLA+

MobileSpeak is a TeamSpeak client for Android and iOS. A Rust core
(`native/src`) holds all of the session logic: one thread runs one connection at
a time, with helper threads around it for sound, files and history. Kotlin and
Swift wrappers call the core through a small C interface, poll it for JSON, feed
it microphone blocks and take rendered sound from it. This directory models that
core: what its threads share, in which order things can happen, and what must
stay true in every order.

The modules are translated from the source; `PROJECT.json` names for every
definition the lines it stands for. Paths below are relative to `src/`.

## The system

| part | state | operations | talks to |
|---|---|---|---|
| Session loop (`native/src/lib.rs`, `session`, `Bridge::new`) | the connection, mute, joins in flight, subscribed, the operations that wait for an answer | one `tokio::select!` branch per event: commands, connection events, sound, completions, a clock | every other part; it is the only owner of most of their state |
| Voice gate (`lib.rs`, `speech.rs`, `voice.rs`) | mode, token, pressed, available; capture epoch; speaking | press, release, mute, move, flush, send | recorder, DSP worker, connection, UI |
| DSP handoff (`audio_processing.rs`) | running chain, prepared chain, recent input, generation, epoch | load, catch up, hand over, process, gap | session by two bounded channels and a lock |
| Chat history (`chat.rs`) | histories in memory, files, dirty and publish flags, epoch | select, add, finish, fail pending, refresh, stop | session by a channel, UI by the output slot |
| Bridge and output (`lib.rs`, `android_jni.rs`) | command channel (32), event queue (64), latest snapshots, notifier | send, poll, notify | the platform |
| Avatar synchronisation (`avatar.rs`) | desired picture on disk, one stage of 14, the upload, the query, the barrier | persist, observe, check, answers, timeouts | server commands, file transfers, blocking threads |
| Channel files (`channel_files.rs`) | context, one listing, at most 4 transfers, cache state | open, list, download, upload, retry, clear the cache | server, blocking threads |
| Media downloads (`media.rs`, `badges.rs`) | 4 slots, generation, jobs, failed keys | want, start, complete, expire, cancel | server, web, chat (refresh) |
| Playback (`playback.rs`, `sounds.rs`, `android/app/src/main/cpp/output.cpp`) | lock-free ring, floor, target, revision, one-word cue slot | fill, render, clear, activate, play | the system's render callback |
| Profile (`profile.rs`) | nickname on disk, request, one rename in flight | save, plan, finish | server |
| Unread (`lib.rs`) | counts, visible conversation and its token | sync, record, show, hide | UI, notifications |
| Receive audio (`receive_audio.rs`, `tsclientlib_audio.rs`) | volumes, queues per talker | packet, fill, set volume | persistence thread, playback |
| Connection (`native/patched/tsclientlib`) | connection state, the server's book | connect, events, send, transfers | packet layer |
| Packet layer (`native/patched/tsproto`) | send window, generations of packet ids, timers | send, acknowledge, resend, ping | UDP |
| Platform wrappers (Kotlin, Swift) | the touch, the recorder, audio routes, connection gate, bookmarks, updates | poll, press, capture, service and route callbacks | the bridge |

What makes it hard:

- *Interleaving.* Five threads share the sound: UI, recorder, session, DSP worker
  and loader, plus the render callback. Only an epoch number tells old sound from
  new. The avatar store and the output slot are shared with threads of the platform.
- *Order.* Answers come back for things that were given up; several of the server's
  notices name no request; the connection library may report the end of a
  connection before the events that led to it.
- *Failure.* Files that cannot be read or written, full channels, lost connections,
  a process that is killed between a message and its save.
- *Time.* Deadlines race late answers, debounce and batching delay saves.

What makes each part correct, in a sentence:

- Voice gate: no sound leaves the phone that was not recorded while every gate
  stood open, and a press never outlives its touch or its setting.
- Chat history: nothing accepted is lost, misfiled or shown for another server,
  save by the end of the process before it was written.
- DSP handoff: a switch of models neither repeats nor reorders a frame, and ends.
- Avatar: never two changes at the server at once, no hash for a file that is not
  there, success reported only for what the server has, every wish is settled.
- Channel files: one listing at a time and never the answer of another one; a
  cleared cache has no transfer in it; a finished file is the one that was asked for.
- Media: never more than four, a slot for every job and none lost, nothing published
  for a connection that is gone.
- Playback: no sample from before a clear or a pause is heard after it, and the ring
  is never overrun.
- Profile: the name on the server ends up as the last one saved.
- Unread: a count is that of the messages of this server that nobody has seen.
- Packet layer: every command is delivered once and in order across the wrap of ids.

## Modules

| module | models | proofs |
|---|---|---|
| `VoiceGate` | touch, recorder, command channel, session, DSP worker, sender | `VoiceGateProofs` |
| `ChatLedger`, `ChatHistory` | what a chat history promises; worker, files, session side, process | `ChatHistoryProofs` |
| `AvatarStore`, `AvatarSync` | the durable wish for a picture, saved step by step; its way to the server | `AvatarProofs`, `AvatarWishProofs` |
| `ChannelFiles` | listings, transfers, cache and its clearing | `SessionPartsProofs` |
| `MediaDownloads` | the pictures of the others: slots, jobs, tasks, staged files | `SessionPartsProofs` |
| `PacketIds`, `Transport` | 16-bit ids and their generations; commands over a lossy network | `TransportProofs` |
| `Handshake` | connecting, from the first init packet to initserver, address by address | |
| `Lifecycle` | a connection from the wish to its end; the nickname; the end that is told | `ChosenProofs` |
| `ChainSwitch` | a change of the noise suppression while sound flows | `SoundProofs` |
| `Playback` | the lock-free ring, the refill and the cue slot | `SoundProofs` |
| `JitterQueue` | the queue of packets of one talker (with `PacketIds`) | `TransportProofs` |
| `Volumes` | the volume of each member, on the screen, in the sound and in the file | `ChosenProofs` |
| `Unread` | counts, the visible chat, the screens of the app | `SessionPartsProofs` |
| `NetworkQuality` | the icon and the bars of the connection | `SessionPartsProofs` |

`MCVoiceGate`, `MCChatHistory`, `MCAvatarSync`, `MCChannelFiles`, `MCChainSwitch` and
`MCTransport` hold definitions for small instances. Four modules put parts side by side
that share no variable: `MCAudio` (gate, switch, playback), `MCStored` (chats, volumes),
`MCAnswers` (chats, files, lifecycle, handshake, talker) and `MCSessionParts` (avatar,
files, media, unread, bars). A behaviour of theirs moves one part, from that part's own
initial states, while the others stand still; the state space is the sum of the parts,
not their product. In the code these parts share the session's loop, which runs one
branch at a time, and nothing else that their properties speak of: each has its own
handles, directories and answers. `AvatarStore` with `AvatarSync`, the modules of the chat
history, and `PacketIds` with `Transport` are real compositions: their parts share state.

### VoiceGate

The path of a microphone block is `AudioRecord` -> `ts_capture` (stamped with the
capture epoch) -> channel `pcm` -> session -> DSP work queue -> chain -> event queue ->
session -> `VoiceSender` -> wire. A block is a record of what it was stamped with:
the epoch, the segment of the touch its read began in, and (for the property only)
the era of the last flush.

| variable | code |
|---|---|
| `ui`, `refused` | `PushToTalkHold`, the state the UI last polled; a release the channel had no room for |
| `reader`, `pressSegment` | the recorder loop of `AudioEngine.kt` and the segment of `ClientSession.kt` |
| `cmds`, `pcm`, `work`, `events` | the four bounded channels |
| `at` | where the session is: `top` of the loop, in its `select`, or `offline` |
| `speech`, `published` | `speech::State` and what was published of it |
| `gate`, `conn` | mute, subscription, joins, codec, switching; the connection as the library shows it |
| `captureEpoch`, `dspEpoch`, `worker`, `hole` | the atomics, and the DSP thread between its locks |
| `voice`, `wire` | `VoiceSender` and the packets of the last step |

A branch of the `select` is one action with the whole handler in it. `LoopTop` is
the code before the `select` (availability and its publication). The DSP worker has
four actions because it takes and gives back its lock in between. The channel sizes
are constants; the runs use one slot each, so that "full" is met at once.

The model leaves out voice detection and coding. It also omits a test of
`generation != active_generation` in `TakeAudio`: events come in order from one
thread, so the test is always false where it matters, and leaving it out only allows
more. `wire` holds what one step sends, so the properties judge each packet as it
goes out.

### ChatHistory and ChatLedger

`ChatLedger` is the promise: per server one ledger that grows at its end, where a
message changes only while it waits for its answer; what is saved is always some
ledger of before or now; only the end of the process takes the ledger back to what
was saved. `ChatHistory` is the code: the session's producers put changes in a
channel, the worker collects a batch, applies each change, flushes to the file and
publishes for the epoch that is shown. The refinement maps a server's ledger to the
history in memory, the retained one, or the file, followed by nothing else.

| variable | code |
|---|---|
| `session` | connection state, `chat::Session` (server, epoch) and the `operations` that wait |
| `chan` | the channel of `Change` |
| `worker`, `hist` | the thread's loop and `History` with its retained histories |
| `disk`, `faults` | the files, and how many reads or writes have failed |
| `out` | epoch and snapshot of `Output` that `poll_output` takes |
| `run`, `born`, `missed` | history variables: process number, origin of each message, servers whose last write failed |

A message is its id and its status; the reason of a failure is a status of its own.
The code's tests of a stale epoch in the worker never fire, since all changes come in
order from one thread; they are in the model because they are in the code.

### AvatarStore and AvatarSync

`AvatarStore` is `persist`: each choice takes a number, a worker tests the number, commits
the reference by a rename, and announces it, in steps between which the user may choose
again. `AvatarSync` is the session's side: the fourteen stages, the barrier (`draining`)
behind which a new wish waits until nothing of the old one can act at the server, the
stages' deadlines, retries with the next smaller picture, and the question for the own
hash. The server works commands in order and does transfers at its own pace; tasks end
after they were given up; an administrator changes the avatar.

`sync`, `link`, `ready`, `tasks` are the session's; `toServer`, `toClient`, `server` the
wire and the server; `store`, `wishes`, `savers` the files and the threads that save.
A picture is its choice and its size. Each branch of the `select` that concerns the avatar
is one action, with the `observe` and the `check` the branch ends in.

### ChannelFiles

`files` is the struct `Files`; `fileDisk` the two directories with the thread that clears
them; `fileReady` and `updates` what connections and tasks report. The notices of a listing
name a directory and no request, which is why the code keeps a barrier. A file has a name
and a version, and versions differ in size. `FilesTick` is the session's clock with every
deadline in it. Left out: the order of entries and passwords, progress, directories
inside directories; a partial file counts once it is whole. A refused command only
changes an error text and is no step, except that it removes the source of an upload.
`generation` is modelled by what it tells apart: whether a listing is the current one.

### MediaDownloads

`media` is `Downloads` with its semaphore (`slots`), `tasks` the tokio tasks, each of
which takes the slot of its job along and gives it back in its blocking thread,
`completions` their channel to the session, `disk` the staged and the final files,
`mediaLink` what the connection watches and which pictures the bookkeeping calls for. A
session that ends drops the receiver of completions, and with them their files. A picture is
requested by the identity alone and stored under the hash known at the request (lib.rs:983); a
change in between is not modelled. A reservation that finds no slot is tried again every second.

### PacketIds, Transport, Handshake

A packet of `Transport` is its position in the stream; its id is that modulo `Ids`, its
generation the quotient, and a receiver learns the generation only by decrypting.
`PacketIds` has the arithmetic of partial ids and generations. The sending half of one
end and the receiving half of the other run over a network that loses, delays,
reorders and duplicates; what leaves the socket late is a slow network. The congestion
window is any of `Windows` at any time. A datagram lives less than half a round of the
ids. The record of packet 65535 carries the next generation, as in the code.
`is_full` compares an array's length with the window (resend.rs:573); nothing calls it.

Two copies of a packet that came early may both be kept (packet_codec.rs:346). One of them
stays, and if a sender had sent a full round of 65536 commands meanwhile it would be
delivered as a new one. `InOrder` holds within one round, which is what the run has
(`MaxPackets` below `Ids`), and without bound where the network makes no copies: see the
proofs.

`Handshake` is the client's part of connecting, with the four packets it sends again and
the timers: five seconds for what is not acknowledged and one for initserver. Which of its
packets an Init127 acknowledges is decided in a library that is not in the repository, so
the model allows both. `MaxRestarts` bounds Init127; the session's own 30 s deadline ends
what is left. A wait for initserver that fails in a reconnect is not tried again, though
tsclientlib's lib.rs:281-284 says so.

### Lifecycle

`con` and `items` are the connection and its stream of items, `sess` the loop, `cue` the
`sound_events::Session`, `prof` and `app` the nickname and its application, `ops` the
pending results. `named` and `seen` are history: what the user was told. A server may give
another name at entry. The model assumes that a server tells of a new name before it
answers the command for it; in the other order a wish equal to the former confirmed name
would be lost (profile.rs:168-180). The check of the level (lib.rs:1660-1663) cannot fire,
since the library refuses above 20; a result of an unknown handle cannot come.

### ChainSwitch

`shared` is the state under the lock, `loader` and `dsp` the two threads with where they
are between two locks, `blocks` and `results` the channels, `state` the session's
`AudioProcessingState`, `heard` what came out. A chain holds back `Delay` blocks; a frame
is the block it is of. Where the code filters what is not before a position, the model
takes the end of the sequence (`Since`): blocks are numbered upwards, and so is what comes of
them. Seen while modelling, and not a property: a chain installed in a
new epoch leaves the worker's cursor in the old one, so the next block can look like a
gap and end a press that was made; a loader with no recent block starts at cursor 0 and
may report that it could not keep up; the first frames of an epoch that come late are
dropped when nothing was sent of it.

### Playback

Each step reads or writes one atomic word, or several that can be moved together past
the steps of the others; the samples of a push are stored in one step, since they become
visible by the write position. Two callbacks may be in `render` at once; the one that does
not own the ring gives silence. Positions count in parts of a frame. Left out: the
transition and the last sample, that only shape the sound, and sends on the wake socket
that fail.

### JitterQueue

`talker` is the `AudioQueue` of a talker or none, `sent` and `arriving` the talker's packets
and those that may still arrive, up to `Reach` late, any number of times. A packet has its
position in the stream; all that the code compares is the number that the position has
modulo `Ids`. `FillBuffer` is one call of the playback: `Round` is one turn of the loop of
`get_next_data`, and `Frame` turns are enough, since each decodes a sample at least. A sample
here is 1/`Usual` of a frame; the sliding window is kept as such. Seen while modelling: several sizes are compared that
count different things (packets, samples of one channel, samples of both), so the wait
at the start and the truncation come earlier or later than their constants say; `last_id
<= id` in the count of what was awaited does not wrap; packets behind an end marker go
with the queue; the `debug_assert` at tsclientlib_audio.rs:466 is one tighter than the test in
`add_packet`, and a debug build panics when a queue has run empty and 50 packets are lost
while the playback asks for nothing. None of it breaks counts, order or end.

### Volumes

`prefs` is `Preferences`, `receive` the `Session` with its users and tokens, `queues` the
volumes that sound, `book` the members (a visit is a member that came), `screen` what the
user sees and the command on its way, `saving` the persistence thread and the file,
`meant` what the user chose. `saving.jobs` is the channel of the persistence thread:
`FlushPrefs` sends to it, and `WritePrefs` takes what is there and writes the last
(`Coalesced`: every job here is for one path). Taking and writing are one step, because nothing reads
the file in between and a job sent meanwhile is taken in the next round. The app ends in
two ways. `AppDies` is a kill at any moment: what was not written is lost, and the user
cannot ask for more than the file holds. `AppCloses` is `Bridge::drop`, which waits for the
worker's last flush and for the thread to empty its channel: what was chosen must then be
there after the start, unless the last write failed or the file could not be read. Changes of the book are followed by their handling at once,
because the library gives both in one poll; one number changes at a time. The own client,
gain and DSP are left out. A failed write is told, not retried. Kills and orderly ends are
not bounded; the channel holds two jobs in the run (`MaxJobs`), an older and a newer one.

### Unread

`unread` is `UnreadState`, `online` the connection, `screens` the app with the snapshot it
has looked at, `sent` the commands between them, `unseen` what came of a peer while
nobody looked. A session keeps its server; the command channel is not full here
(`VoiceGate` has that). A channel that the user is moved out of and back to between two
looks stays open in the app and is not visible for the core; its messages are then counted
though they are seen, and the property leaves channels out.

### NetworkQuality

`net` is `History`, `stats` the library's statistics, `slept` how far the wall clock has
run ahead of the monotonic one, `watch` what an observer has seen. Levels stand for the
grades and for the steps of the axis. A measurement from before a sleep that is read
after it counts as fresh, and `expire` does nothing when both times were cleared, until
the next statistics; both are in the model.

## Runs

| run | instance | what it shows |
|---|---|---|
| `voice_session` | connected or not yet connected; every disturbance but sound; four tokens | `TypeOK`, `OpenForAReason`; `ReleaseIsHeard` under fairness |
| `audio_paths` | gate: sound flowing, mute, join, move, two reads, every buffer one slot. Switch: two suppressions, four blocks, two troubles. Playback: two callbacks, a ring of four frames, five events | `NoStaleSound`, `OnlyThisTouch`; `HeardInOrder`, `RestIsSwitched`; `HeardIsWhole`, `ResumedIsFresh`, `RestIsFilled` |
| `stored` | chats: two servers, two messages, one fault, three processes, any file left by an earlier one. Volumes: two servers, numbers and identities, two visits, one choice, two jobs in the channel | `TypeOK`, `IdleMeansSaved`, `RightServer`, `LedgerKept`; `VolumesAreChosen` |
| `answers` | chats: one server, one message. Files: one channel, three commands, two troubles. Lifecycle: two names, three requests, four troubles. Handshake: three addresses, two restarts. Talker: six packets, ids modulo 9 | `AcceptedIsShown`; `LoadingEnds`; `NameSettles`, `UserKnows`; `ConnectingEnds`; `QueueInOrder`, `TalkerEnds` |
| `session_parts` | avatar: two wishes in two sizes, two troubles. Files: two channels, three commands, two troubles. Media: an avatar and a badge, two slots, three jobs. Unread: two channels, a peer, three screens, two messages. Bars: three levels | `TypesOK`, `UnwrapsFind`, `OneMutation`, `SuccessIsTrue`, `SuccessIsWanted`, `WaitIsBoundedElsewhere`, `NewerWishWins`; `ListIsFresh`, `RecordsHaveFiles`, `RunningIsWatched`; `TransfersAreOwned`; `SeenIsNotUnread`; `QualityIsObserved` |
| `transport` | ids modulo 10 from just before the wrap, four packets, one loss, windows 1 and 2 | `TypeOK`, `InOrder`, `AcknowledgedWasReceived`, `NothingForgotten`; `CommandsArrive` under fairness |
| `voice_release_lost`, `chat_reason`, `switch_missing`, `avatar_barrier`, `channel_files_cleared`, `unread_missed` | small instances | expected violations, see findings |

Bounds. What a bound counts is only compared, so an older one and a newer one must exist
together. In `VoiceGate`, `MaxToken` bounds how often the speech state is invalidated,
`MaxSegment` touches, `MaxReads` blocks, `MaxJoins` joins: two blocks are enough for an old
one to be overtaken by a flush and a new one to follow. In the chats two servers and three
selections go away and come back. Two wishes for an avatar are a running one and a newer
one, and two sizes a retry; two troubles meet one another (a lost connection in the
middle of a drain). Three jobs are one running, one that failed and one after it. Four
packets from `Start` 8 cross the wrap at 10 with two on each side. A ring of four frames is
full and empty within five events. Six packets of a talker lie on both sides of 9. One
slot per channel gives both full and empty. Each property has a mutant in `PROJECT.json`,
a change of one definition as a bug in the code would make it, that the same instance
finds, so the cases that matter do happen within the bounds.

The voice runs start in a connected session or in one that is not yet connected, and the
chat run of `stored` in a process that finds a file; `answers` has the first process too.

Fairness. `tokio::select!` picks at random among ready branches, so a branch that is
ready again and again is taken in the end: strong fairness of `TakeTouch`. The loops of the
session and of the chat worker run on threads of their own: weak fairness of their
steps. `LoadingEnds` needs nothing but the session's clock, `ConnectingEnds` nothing but
the two timers, `TalkerEnds` nothing but a playback that goes on asking for frames (while
it is active). `CommandsArrive` assumes that `poll_resend` goes on and that a datagram that
is sent again and again gets through in the end. Nothing is assumed of the user or the
server. In `MCAnswers` a part that stands still has no step that its fairness could ask for.

Deadlock is checked in `voice_session`. In the others it is not: a process may end, a
bounded network or user may have nothing more to do, and a part may come to rest, which
the invariants named `Rest...` and the liveness properties judge instead.

## Findings

`voice_release_lost`: the release of a touch goes through `try_send` on the 32-slot
command channel. When it is full, the release is dropped, an error is shown, and
nothing tries again: the gate stays open though the finger is gone. The comment in
`PushToTalk.kt` promises the contrary. `OpenForAReason` and `ReleaseIsHeard` name
this one exception explicitly and hold otherwise.

`chat_reason`: when the server stops, the session sees no server any more and selects
none before the pending messages of the old one are failed. They stay pending in
the file, and when the same server is back they fail with the reason for a closed
app, which was never closed.

`switch_missing`: a chain prepared in an earlier epoch is reset when it is installed, and
what the old chain still holds back in the present epoch is dropped with it: one or two
frames are missing at the switch, without a gap being reported.

`avatar_barrier`: a refused hash leaves the stage at `Update` with no command outstanding;
a new wish then raises the barrier, but that stage is exempt from draining, so nothing
takes it down before the connection ends. `WaitIsBoundedElsewhere` says that in every
other state the barrier has something that ends it.

`channel_files_cleared`: a listing that is being collected looked its files up on the disk
before the clearing thread reached them; after the clear it is shown with local copies
that are gone.

`unread_missed`: while the connection is interrupted the app closes an open chat, but has
no server in its snapshot and sends nothing; the core keeps the chat as visible, and after
the reconnect the messages of that peer are neither counted nor announced.

## Proofs

TLAPS proves these for every value of the constants that meets the named assumption of the
module; the bounds of the runs (so many choices, packets, events) are any number there.

**Voice gate** (`VoiceGateAssumption`: the queues hold at least one item).

- `TypesHold`: the types. The only one that needs more than its own step is that a
  counted join is waited for, which makes the counter a natural number.
- `NoStaleSoundHolds`, `OnlyThisTouchHolds`: `NoStaleSound` says nothing of the
  buffers, so it is not inductive. `SoundInv` says of every buffer of the path that
  each block in it is *fresh*: if its stamp is the current epoch then no flush came after
  it, and if moreover the session is in push to talk then its read began within the
  touch. Each buffer is filled from the one before under the same epoch test, so a
  step moves freshness along; a flush makes all of them stale at once, which is
  fresh vacuously, and the worker's own epoch lags behind honestly: its events
  carry the epoch of their blocks.
- `OpenForAReasonHolds`: a press reaches the session through the token the UI polled
  some time ago and the channel of commands, so what `OpenForAReason` says of the gate
  has to be said of every press under way: while its token is current, its touch is still
  down, a release with the same token is behind it, or that release found no room.
  `TouchInv` has this with the order of the tokens (the UI's lags behind the published
  one, and that behind the session's): whatever ends a press takes a new token, for
  which no touch can have been made. That a stream is open only while every gate is
  needs only that each change of a gate closes it in the same step.

**Chat history** (`ChatHistoryAssumption`: `NoServer` is no server).

- `ChatTypesHold`: the types, and the bound of a batch.
- `IdleMeansSavedHolds`: the invariant adds that a message is kept once (in memory,
  or retained, never both), that a history which is not dirty equals its file unless
  the last write failed, that a retained one is there only because a write failed or
  the file was unreadable, and that a worker at rest has tried to write.
- `LedgerKeptHolds`: `ChatHistory` implements `ChatLedger`. Every change of the
  worker maps to `Carry`, a new process to `Lapse`, all else to a stutter; loading a
  file whose pending messages are failed is a `Carry` because it settles them.
- `RightServerHolds`: a message travels with an epoch only. `ServerInv` says that the
  history, the session and the selections in the queue, as far as they know a server
  for an epoch, know the same one, and that a queued message is of the server that
  anyone knows for its epoch. The step that needs it is a new selection: its epoch is
  above all others, so it takes over no message under way.

**Avatar** (at least one candidate picture; the bounds are numbers).

- `AvatarTypeIsOK`, `ChangesAreAlone`, `BarrierKnowsItsTransfer`: `AvatarInv` says of the
  session, of what is on the wire both ways, of the transfers at the server, the streams and
  the completions how they belong together: each command is one that the stage waits for or
  that the barrier outlives, each handle is older than the next one to be given, an answer is
  for a command that is no longer on the wire, and a transfer is live only under the stages
  of an upload or behind the barrier. The parts are operators of the state of the
  session in the middle of a handler and of the rest of the world, so that the lemma about
  each operation (`Check`, `Enter`, `Settled`, `Drained` and the others) is stated once
  and the handlers follow by chaining them.
- `SavedWishesAreNewer`: `Orderly` says that saving workers take turns and that one that
  passed its test is not older than the file it will replace.
- `ReportsAreWanted`, `WaitsAreBounded`: `WishInv` adds what the session knows of the store
  (a revision that it has not seen is announced) and that what it works for, and what its
  tasks will bring, is the saved wish as soon as it knows the last one.
- `ReportsAreTrue`: success is reported several answers after the server changed, and
  others change the avatar too. `TruthInv` follows the book: the notices on the wire lead to
  what the server has, one about an own hash precedes the answer to it, and half an answer
  to clientinfo is followed by the other half. With no notice on the wire, whatever was
  found since (a hash that answers, a downloaded file that compares equal, a comparison on
  its way as a completion) is still so. While any transfer may act at the server
  nothing is claimed at all, which is what the barrier and the order of the stages are for.

**Transport** (`IdsAssumption`: at least four ids, the code has 65536).

- `TypeIsOK`, `UnacknowledgedIsRemembered` (`NothingForgotten`): what was sent and is not
  acknowledged has a record to send it again, a reset queue included.
- `AheadIsFound`, `BehindIsFound`, `FoundIsAhead`: a receiver that expects packet `next`
  takes the 16 bits of a packet less than half a round away for the number it was
  sent with, ahead as part of its window and behind as a duplicate, and takes nothing else
  for part of the window.
- `AcknowledgedIsReceived` (`AcknowledgedWasReceived`), `CommandsAreInOrder` (`InOrder`): as
  long as no datagram is half a round ahead of the receiver (`InSight`), nothing is
  acknowledged that the other end does not have, and the commands delivered are a
  prefix of those sent, across any number of wraps. The invariant says that every
  acknowledgement that lives, and every early packet kept, is of the generation the receiver
  computes from its 16 bits.
- `WindowsAreSafe`, `ShortStreamIsSafe`: `InSight` holds, and both properties with it, if
  every window stays below half the ids by more than the queue (`WindowsFit`), or
  for a stream of at most half a round.

Both conditions are sharp. `WindowsFit` asks `QueueLen + w < Half`, where
`get_window` (resend.rs:633-646) lets the window grow to `Half` itself: with a window of
three, eight ids and a queue of one TLC finds `AcknowledgedWasReceived` violated in 15
steps. In the code that is a window of 32567 packets and more, of 32767 that are allowed, so
the proof covers all windows but the last two hundred, the length of the queue. `InOrder`
is proved where the network makes no copies, or for a stream of at most one round
(`OneOfEach`): an early packet is kept without looking whether it is there
(packet_codec.rs:346), and taking it out removes one (packet_codec.rs:328-331). With six
ids, eight packets and one copy of each TLC finds the copy that stayed delivered as a
packet of the next round, 33 steps from the start; the code would need 65536 commands
without a reconnect in between.

**Talker's queue** (`JitterAssumption`: 50 packets are less than half the ids, a packet is not
a round of ids late, a packet has samples, `SPEED_CHANGE_STEPS` is more than one).

- `CountsHold` (`JitterTypeOK`, a part of `QueueInOrder`): whatever arrives, no `usize` goes below zero. `Counted` says
  that the packets ascend by their distance from `next_id`, as 16 bits tell it, each at most
  `MAX_BUFFER_PACKETS` away, and that the samples counted are those of the packets. Then the
  samples that leave are among those counted, and the last packet is at least as far away as
  there are packets, which is what the count of the missing ones subtracts. It is inductive
  because `next_id` steps over no packet: it moves by one, past the first packet or
  below it, or onto the first one that is kept after a truncation (`DecodedNextIs`, `CaughtUpIs`);
  and because `add_packet` finds the place that keeps the distances in order, and rejects the
  same distance twice (`AtOrAfterIs`, `InsertAscends`).
- `PacketsAreInOrder`, `ShortTalkIsInOrder` (`QueueInOrder`): `Placed` ties distances to
  positions: a packet is as far from the next position as its number says. That is so for
  a packet that arrives if the queue is not a whole round of ids behind what was sent
  (`Recent`), for then a packet ahead of `next_id` is less than a round ahead, and one behind
  it is too far away to pass as near. `Recent` fails only if a queue is kept for the 65536
  packets of 22 minutes without decoding anything: six ids and a buffer of two
  are enough for TLC to find `QueueInOrder` violated without it. A talk of at most
  a round needs no hypothesis; the instance of `answers` is one.

**Playback** (`PlaybackAssumption`: a frame is positive, three of them fit into the ring, a
push and the cue are not empty).

- `HeardIsTheStream` (`HeardIsWhole`), `NothingOldIsResumed` (`ResumedIsFresh`), `NobodyWaits`
  (`RestIsFilled`): `PlaybackInv` says who owns the ring's end, that the floor and the target
  were read from words that only grow, what the slots between the two positions hold
  (`Stored`), that a callback in the middle of its copy still takes what was stored, though
  the producer goes on and a clear overtakes it, and that somebody who will wake the
  refill is under way whenever the ring runs low. All of it holds with two callbacks at a
  time, which the system does not rule out.

**Chain switch** (`SwitchAssumption`: queues hold something; the delays, depths and bounds are
numbers. `LimitsAssumption`: the program remembers 16 blocks, more than the 4 at most
that the worker feeds a prepared chain, and warms one with 2, whose frames fit into the 5 that
are kept).

- `SwitchesEnd` (`RestIsSwitched`), from `SwitchIsInvariant`: at rest nothing is left to
  look at, so the invariant follows a request on its way. It is with the loader, at the lock or
  in the hands of the worker, in one place only, and ready means that a nudge or a block is in
  the channel (`OneAtWork`); nothing is of a later request than the latest
  (`NoneIsLater`); while it is under way the user waits for it, and no answer counts
  (`WhatIsAsked`). `WhatIsSaid` is about the answers in the channel and in the worker's
  hands: one that counts comes after every chain that was applied; the last one names
  the chain that runs; and while the user waits the request is under way or its answer is
  said. `Coherent` has this of any sequence, and one lemma each says what more events,
  an answer and taking up the first one do to it. A request that comes while the chain before
  it is being installed is the hard case: the answer to the old one does not count any more,
  but the loader was told, or is started, in the step of the request.
- `ChainsAreInOrder` and `SoundIsInOrder` (`HeardInOrder`), from `HeardIsInvariant`. What is
  heard says little of what comes next, so `HeardInv` is about the line of all that is said,
  heard or not: a gap of the present epoch ends what counts in it, and each sound that counts
  follows the one that counts before it (`InLine`). To go on with it, the last sound must end
  where the worker's `last` says (`EndHolds`); the blocks that are remembered must be a row
  that ends at the worker's cursor (`RecentHolds`); every chain, the one that runs, the
  loader's, the prepared and the taken one, must have been fed this row up to a cursor of its
  own, without a hole and with nothing of another epoch (`Fed`); the session must
  know the chain of each sound by the answer before it (`ForceHolds`). That the
  new chain's frames reach back to where the old chain's end is `Early`: either the
  chain was warmed, or nothing was forgotten yet. An invalidation between two locks is the hard case:
  the worker then holds blocks, frames and a position of an epoch that is over, and the
  invariant says of these only that they are of an earlier one.
  That nothing comes twice, under a wrong name or from an earlier epoch, and that nothing is
  missing of one chain, needs no hypothesis. That nothing is missing at a switch has one,
  `Prompt`: no chain holds back more blocks than the two that a new one is warmed with. It is
  needed: with a delay of three, TLC finds `HeardInOrder` violated, since the frames of the new
  chain begin behind the end of the old one's. The code does not say so anywhere: the loader
  warms with 40 ms (audio_processing.rs:334), and the test of the models admits
  a latency of one to four blocks (audio_models.rs:568-571).

**Media downloads** (`MediaAssumption`: finitely many pictures; the numbers of slots and jobs
are numbers).

- `SlotsAndFilesAreOwned` (`TransfersAreOwned`), `HandlesLeadToJobs` (`WaitingLeads` and the
  types): `MediaInv` counts slots by the numbers of jobs: a number holds one while it waits
  for its stream or while its task reads or its thread writes, never both, because numbers
  are given out once and a number that waits has no task. Giving a job up frees what still
  waits at once, and leaves the slot of a task or a thread to it; so the sum holds
  over any number of lost connections with writers that outlive them. `Sound` says this of
  a state of the session in the middle of a handler, so that asking, giving up and
  losing the connection are lemmas that the handlers chain. A staged file is owned
  by the thread or the task with its number, then by the completion it sent; a session
  that ends, and a task without a receiver, remove it themselves.

**Channel files** (`FilesAssumption`: channels are numbers above 0, the bounds are numbers).

- `ListingsAreFresh` (`ListIsFresh`): the entries of a listing and its end name no request, so
  the invariant says that there is one listing at a time (`OneListing`): at most one request
  is on its way, and while it is, nothing of a listing is on its way back; what is on its
  way back belongs to the listing that stands, whose answer is the last of it. That is what
  the barrier is for, which stays when its time is up or the directory is left, and it is
  why a lost connection, which empties the wire, may drop it. `ReadLater` then only compares
  times: a listing that is still meant, and each of its messages on the way, is not older than
  what the user asked for.
- `FileHandlesLead`, `FilesTypesHold`: record, handle, job and partial file have one number
  (`IdsAreOne`), given out once; a partial file is never that of an upload.
- `TransfersAreWatched` (`RunningIsWatched`): a record that runs has its timer and no job, or a
  job and no timer, and a job whose task is over has its report in the queue.
- `FilesBehindRecords` (`RecordsHaveFiles`): one thread at a time works on the copies and
  nothing runs while they are cleared (`OneThread`: while the thread works or its report
  waits, `cache` says so, and there is no second report), and no two records share the
  source of an upload (`SourcesAreOwn`), so that completing one, refusing the next and
  retrying a third take nothing from the others.

`RecordsHold` and `ListingHolds` say this of any state of the files in the middle of a
handler; the lemmas about ending, failing, completing, starting and connecting a transfer,
and about the pump that every handler ends in, are stated once and chained.

**Unread** (`UnreadAssumption`: no peer is a room, and neither is the mark for none).

- `WhatIsSeenIsRead` (`SeenIsNotUnread`): while commands of the screens are on their way a
  message may be counted that the user is looking at. `UnreadInv` therefore says what the
  commands on their way will do. `Awake` and `InView` read the queue: the app is active, a
  screen is visible, for the core from some command on (or already), and no later one
  undoes it. `ActiveIsTold` and `ScreenIsTold` say this of an active app and of the newest
  of its screens, `Owed` that a count which is too high is one that a command on its way
  will clear (`WillClear`). The token of a screen is what makes this inductive: the old
  screen of a chat is disposed of after the new one was shown, and its command to hide
  must not be taken for the new one's.

**Network quality** (`QualityAssumption`: times and the window are numbers, statistics get stale
within the window and a measurement before its end, there is at least one grade; the code has
2 s, 5 s, 5 s, 30 s).

- `BarsAreHonest` (`QualityIsObserved`): the history counts time from what it heard, an
  observer from what happened, and the device may sleep in between, so the invariant ties the
  two. `Heard`: while bars are shown, a gap in what was heard is a gap in what was
  observed, and without a sleep never more than twice as long; so what is `Present` for the
  history goes on for the observer. `Backed`: a recovery that has begun towards a level is
  behind the time in which the observer saw nothing worse than that level. `OfNow` is
  `PublishedIsFresh` of a state, of which a tick may only take the claim to be of now. The
  step with the two recoveries is `PublishedIs`, for any history that was heard (`Publishes`).

**Parts of the session side by side**.

- `TypesOfTransfers` (`TypesOK`), `NothingIsUnwrapped` (`UnwrapsFind`): `PartsBehave` proves
  that every behaviour of `MCSessionParts` is, for each part, a behaviour of that part's own
  module, so what is proved of the modules above holds of the composition.

**Volumes** (`VolumesAssumption`: the mark for nobody is no server and no person, 0 is no
member's number, volumes are numbers).

- `VolumesStayChosen` (`VolumesAreChosen`): `VolumeInv` has four parts beside the types and the
  property. The session and the bookkeeping name the same server, and without one there is
  nobody (`OneServer`). Two members never share a visit (`VisitsAreOne`). A user is
  temporary exactly while something was chosen for the visit of a member without an identity,
  and only with preferences that may be written; sound that comes before its member
  makes a user nobody chose anything for (`UsersAreMembers`). A token on the screen or in
  a command is an old one, and if the user under its number still has it and no identity,
  the visit is the one that the user of the app saw (`TokensName`): this is why
  `set_volume` compares the token as well as the identity. `BookKeeps` proves the step of
  `sync` once, for whatever one poll may bring (`Moved`): a choice for a visit goes to the
  person it turns out to be, in the preferences and in the history alike (`BindingIs`,
  `BoundIs`), and a user is made anew or keeps what it had (`UserIs`). `OnTheWay` says that
  of the jobs in the channel, however many, the last is what is kept if nothing has changed
  since, so that a write that succeeds leaves the file at rest with what is kept
  (`LastJob`), and a start after an orderly end finds what was chosen (`CloseKeeps`).

**Lifecycle** (`LifecycleAssumption`: the mark for no name is no nickname).

- `NameComesToRest` (`NameSettles`): at rest the name is settled, so the invariant has to say
  what is under way while it is not. `OneRename`: there is one rename at a time, on its
  way there or its answer on the way back, and the pending operation is its. `NoWait`: a change
  that is queued waits for that answer or for the own client, for nothing else.
  `LatestIsAsked`: what is under way is the last name saved, unless another change is queued,
  and an answer that grants it comes when the server has it. `NameIsTold`: unless somebody else
  renamed the client, every name that it is told is the server's, and the one right
  before an answer is the new one; without this a confirmed name could be an old
  one, and the queued change be dropped as done. `SavedIsOffered` and `NothingOld` carry
  this over a lost connection: options and handshake have the saved name, and nothing is
  awaited of the old connection. `ApplySettles` proves `apply_nickname` once for the four
  places that call it with a client.
- `EndsAreTold` (`UserKnows`): `AlertIsTold` ties the flag of the cue to the alert the user got,
  `OneStage` the status that is shown to the connection's state and its stream of items.

Liveness (`ReleaseIsHeard`, `AcceptedIsShown`, `LoadingEnds`, `ConnectingEnds`,
`TalkerEnds`, `CommandsArrive`) is out of this prover's reach and stays with TLC. Every
invariant and every action property of a passing run is stated by a theorem. Induction over
data is possible only in the form of a set of numbers that contains zero and every
successor; the proofs of `Transport` and `JitterQueue` use it for their recursive functions.

## Plan

What is left is to model the queue of 64 events with the requests that the app waits for by
their id, and the screens that wait.

## Not modelled

Cryptography, licences, address resolution and numeric sound code have no state a
model checker could reach; views, resources and build scripts have none a property
is about. The iOS wrapper drives the same core as the Android one. Audio routes,
services and updates of the Android app are decided by the system. The debugging trace of
the network, the whisper list, the cue for each kind of event and the JNI glue are left
out. The session's loop as one composition of all its components would be the product
of their states; each module has the branches of that loop from its own point of view,
and a step of one component that depends on another (a lost connection, a new
server, a mute) is a choice there.
