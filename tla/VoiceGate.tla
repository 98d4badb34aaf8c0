----------------------------- MODULE VoiceGate -----------------------------
(***************************************************************************)
(* The path of microphone sound from the platform's audio callback to the  *)
(* voice connection, and the gates that may close it at any moment.        *)
(*                                                                         *)
(* Four threads take part:                                                 *)
(*   - the UI, which turns a touch into press and release commands;        *)
(*   - the recorder, which reads a block from the microphone and hands it  *)
(*     to the core (ClientSession.capture, ts_capture);                    *)
(*   - the core's worker, whose session loop handles one command, one      *)
(*     connection event or one block of sound at a time (lib.rs, session); *)
(*   - the DSP worker, which cleans the sound (audio_processing.rs).       *)
(* They share three bounded queues (pcm, work, events) and two epochs.     *)
(* A block of sound is a record of what was true when it was recorded:     *)
(* the epoch it was stamped with and the touch segment it was read in.     *)
(***************************************************************************)
EXTENDS Naturals, Sequences

CONSTANTS
    CmdCap,      \* slots of the command channel that touches may use (32)
    PcmCap,      \* blocks in the pcm channel (5)
    WorkCap,     \* blocks in the DSP worker's input channel (5)
    EventCap,    \* events in the DSP worker's output channel (5)
    PreRoll,     \* blocks a silent VoiceSender keeps (5)
    ChainCap,    \* blocks a DSP chain holds back while it waits for scores
    MaxJoins,    \* bound: channel moves in flight at once
    MaxSegment,  \* bound: touch segments (two per touch)
    MaxReads,    \* bound: blocks the recorder ever reads
    MaxToken,    \* bound: no new disturbance once this token is reached
    Disturbances \* the environment inputs a run explores

AllDisturbances ==
    {"mode", "mute", "ready", "stopped", "active", "noise", "join",
     "talkpower", "move", "recover", "reconnect", "sound"}

ASSUME VoiceGateAssumption ==
    /\ CmdCap \in Nat \ {0} /\ PcmCap \in Nat \ {0}
    /\ WorkCap \in Nat \ {0} /\ EventCap \in Nat \ {0}
    /\ PreRoll \in Nat \ {0} /\ ChainCap \in Nat
    /\ MaxJoins \in Nat /\ MaxSegment \in Nat /\ MaxReads \in Nat /\ MaxToken \in Nat
    /\ Disturbances \subseteq AllDisturbances

VARIABLES
    ui,           \* what the UI last polled, and the touch it holds
    reader,       \* the recorder's current block
    cmds,         \* press and release commands on their way to the worker
    pcm,          \* stamped blocks on their way to the worker
    at,           \* where the worker is: offline, top, select or closing
    speech,       \* speech.rs State
    published,    \* Output.speech, the copy of it the UI polls
    gate,         \* the session's own view: mute, subscription, join, ...
    conn,         \* the connection: what the server allows, events queued
    captureEpoch, \* Bridge.capture_epoch, read by the recorder
    dspEpoch,     \* Shared.epoch of the DSP worker
    hole,         \* a block was refused by the DSP worker's full queue
    work,         \* Processor.tx: inputs and wake-ups
    worker,       \* the DSP thread's locals
    events,       \* Processor.events
    voice,        \* voice.rs VoiceSender
    (***********************************************************************)
    (* Observation only: never read by a guard.                            *)
    (***********************************************************************)
    pressSegment, \* the segment of the touch that opened the gate
    refused,      \* the token of the last release the full channel refused
    wire          \* what the session's last step sent

vars == <<ui, reader, cmds, pcm, at, speech, published, gate, conn,
          captureEpoch, dspEpoch, hole, work, worker, events, voice,
          pressSegment, refused, wire>>

\* What the steps of each thread leave alone.
sessionVars == <<at, speech, published, gate, captureEpoch, dspEpoch, hole,
                 voice, pressSegment, wire>>
dspVars == <<worker, events>>
othersVars == <<ui, reader, worker, refused>>

NoToken == 0
Modes == {"automatic", "push_to_talk"}

\* A block of sound, by the epoch it was stamped with and the touch segment
\* its read began in.
Block == [stamp : Nat, segment : Nat]
Wake == [kind |-> "wake"]
Input == [kind : {"audio"}, epoch : Nat, hole : BOOLEAN, block : Block]
Event == [kind : {"audio"}, epoch : Nat, block : Block]
         \cup [kind : {"gap"}, epoch : Nat]
         \cup [kind : {"applied", "failed"}]
EndMarker == [kind |-> "end"]
Packet == [kind : {"voice"}, block : Block, era : Nat, ptt : BOOLEAN,
           since : Nat]

Room(queue, cap) == Len(queue) < cap
Offer(queue, cap, x) == IF Room(queue, cap) THEN Append(queue, x) ELSE queue

\* The bound of the runs: past MaxToken the environment leaves the core alone.
Calm == speech.token < MaxToken
Disturbed(kind) == kind \in Disturbances /\ Calm

-----------------------------------------------------------------------------
(* speech.rs: the methods of State.                                         *)

Invalidated(s) == [s EXCEPT !.pressed = FALSE, !.token = @ + 1]

WithAvailable(s, available) ==
    [(IF s.available # available THEN Invalidated(s) ELSE s)
        EXCEPT !.available = available]

\* Mutants of PressAccepted: the conditions of a press asked of a release too;
\* the token not compared.
PressAcceptedOnlyIfSilent(s, press) ==
    /\ press.token = s.token
    /\ s.mode = "push_to_talk"
    /\ s.available /\ ~s.pressed
PressAcceptedFromAnyTouch(s, press) ==
    /\ s.mode = "push_to_talk"
    /\ press.down => s.available /\ ~s.pressed

PressAccepted(s, press) ==
    /\ press.token = s.token
    /\ s.mode = "push_to_talk"
    /\ press.down => s.available /\ ~s.pressed

SendingAllowed == speech.mode = "automatic" \/ (speech.available /\ speech.pressed)

\* lib.rs audio_send_allowed with Connection::can_send_audio.
CanSend == conn.up /\ conn.allows
AudioSendAllowed == /\ ~gate.muted
                    /\ gate.subscribed
                    /\ CanSend
                    /\ gate.joins = 0

-----------------------------------------------------------------------------
(* Steps every handler of the session is made of.                           *)

\* Mutant of Flush: the DSP worker is not told.
FlushRecorderOnly ==
    /\ captureEpoch' = captureEpoch + 1
    /\ UNCHANGED <<dspEpoch, work>>

\* flush_capture: both epochs move, the DSP worker is woken if it has room.
Flush ==
    /\ captureEpoch' = captureEpoch + 1
    /\ dspEpoch' = dspEpoch + 1
    /\ work' = Offer(work, WorkCap, Wake)

\* invalidate_capture.
Invalidate == Flush /\ speech' = Invalidated(speech)

\* VoiceSender::finish; the end marker leaves only if the connection is up.
Finish ==
    /\ voice' = [speaking |-> FALSE, pending |-> << >>]
    /\ wire' = IF voice.speaking /\ conn.up THEN <<EndMarker>> ELSE << >>

KeepCapture == UNCHANGED <<captureEpoch, dspEpoch, work>>
KeepVoice == UNCHANGED voice /\ wire' = << >>

\* A handler runs in the select! and hands over to the top of the loop.
InSession == at = "select" /\ at' = "top"
Offline == at = "offline" /\ at' = "offline"

-----------------------------------------------------------------------------
(* The UI.                                                                  *)

Poll ==
    /\ ui' = [ui EXCEPT !.token = published.token,
                        !.available = published.available]
    /\ UNCHANGED <<reader, cmds, pcm, conn, work, refused, sessionVars, dspVars>>

\* ClientSession.pushToTalk(true): a new segment, then the command, under the
\* lock the recorder also takes. The channel may refuse the command.
TouchDown ==
    /\ reader.pc # "handing"
    /\ ui.held = NoToken /\ ui.available
    /\ ui.segment < MaxSegment
    /\ LET segment == ui.segment + 1 IN
       /\ ui' = [ui EXCEPT !.segment = segment, !.held = ui.token]
       /\ cmds' = Offer(cmds, CmdCap,
                        [down |-> TRUE, token |-> ui.token, segment |-> segment])
    /\ UNCHANGED <<reader, pcm, conn, work, refused, sessionVars, dspVars>>

\* ClientSession.pushToTalk(false) and cancelPushToTalk: the touch is forgotten
\* whether or not the channel takes the command.
TouchUp ==
    /\ reader.pc # "handing"
    /\ ui.held # NoToken
    /\ LET segment == ui.segment + 1 IN
       /\ ui' = [ui EXCEPT !.segment = segment, !.held = NoToken]
       /\ cmds' = Offer(cmds, CmdCap,
                        [down |-> FALSE, token |-> ui.held, segment |-> segment])
       /\ refused' = IF Room(cmds, CmdCap) THEN refused ELSE ui.held
    /\ UNCHANGED <<reader, pcm, conn, work, sessionVars, dspVars>>

-----------------------------------------------------------------------------
(* The recorder.                                                            *)

NoRead(reads) == [pc |-> "idle", segment |-> 0, stamp |-> 0, reads |-> reads]

\* A read begins in the current touch segment.
StartRead ==
    /\ "sound" \in Disturbances
    /\ reader.pc = "idle" /\ reader.reads < MaxReads
    /\ reader' = [reader EXCEPT !.pc = "reading", !.segment = ui.segment,
                                !.reads = @ + 1]
    /\ UNCHANGED <<ui, cmds, pcm, conn, work, refused, sessionVars, dspVars>>

\* Mutant of Stamp: the touch segment of the read is not compared.
StampAnyRead ==
    /\ reader.pc = "reading"
    /\ reader' = [reader EXCEPT !.pc = "handing", !.stamp = captureEpoch]
    /\ UNCHANGED <<ui, cmds, pcm, conn, work, refused, sessionVars, dspVars>>

\* ClientSession.capture: a read of an older segment is dropped; otherwise
\* ts_capture stamps the block with the epoch it loads.
Stamp ==
    /\ reader.pc = "reading"
    /\ reader' = IF reader.segment # ui.segment
                 THEN NoRead(reader.reads)
                 ELSE [reader EXCEPT !.pc = "handing", !.stamp = captureEpoch]
    /\ UNCHANGED <<ui, cmds, pcm, conn, work, refused, sessionVars, dspVars>>

\* ts_capture: try_send; a full channel drops the block.
HandOver ==
    /\ reader.pc = "handing"
    /\ pcm' = Offer(pcm, PcmCap, [stamp |-> reader.stamp, segment |-> reader.segment])
    /\ reader' = NoRead(reader.reads)
    /\ UNCHANGED <<ui, cmds, conn, work, refused, sessionVars, dspVars>>

-----------------------------------------------------------------------------
(* The session loop, top: whether speech may be sent is worked out anew     *)
(* before every select!, and push to talk is cut when it no longer may.     *)

LoopTop ==
    LET available == /\ gate.active /\ speech.ready /\ ~gate.switching
                     /\ AudioSendAllowed /\ gate.opus
        next == WithAvailable(speech, available)
        cut == /\ speech.available /\ ~available
               /\ speech.mode = "push_to_talk"
    IN
    /\ at = "top" /\ at' = "select"
    /\ speech' = next
    /\ published' = [token |-> next.token, available |-> next.available]
    /\ IF cut THEN Flush /\ Finish ELSE KeepCapture /\ KeepVoice
    /\ UNCHANGED <<cmds, pcm, gate, conn, hole, events, pressSegment, othersVars>>

-----------------------------------------------------------------------------
(* The session's commands.                                                  *)

\* Command::PushToTalk, as the bounded channel delivers it.
TakeTouch ==
    /\ InSession
    /\ cmds # << >> /\ cmds' = Tail(cmds)
    /\ LET press == Head(cmds) IN
       IF PressAccepted(speech, press)
       THEN /\ Flush /\ Finish
            /\ speech' = IF press.down THEN [speech EXCEPT !.pressed = TRUE]
                         ELSE Invalidated(speech)
            /\ pressSegment' = IF press.down THEN press.segment ELSE pressSegment
       ELSE KeepCapture /\ KeepVoice /\ UNCHANGED <<speech, pressSegment>>
    /\ UNCHANGED <<pcm, published, gate, conn, hole, events, othersVars>>

\* Command::SetSpeechMode.
SetMode ==
    /\ InSession /\ Disturbed("mode")
    /\ \E mode \in Modes \ {speech.mode} :
          speech' = Invalidated([speech EXCEPT !.mode = mode])
    /\ Flush /\ Finish
    /\ UNCHANGED <<cmds, pcm, published, gate, conn, hole, events, pressSegment,
                   othersVars>>

\* Command::Mute: muting or deafening cuts the voice, both ways drop queued blocks.
Mute ==
    /\ InSession /\ Disturbed("mute")
    /\ \E muted \in BOOLEAN :
          /\ gate' = [gate EXCEPT !.muted = muted]
          /\ IF muted THEN Invalidate /\ Finish
             ELSE KeepCapture /\ KeepVoice /\ UNCHANGED speech
    /\ pcm' = << >>
    /\ UNCHANGED <<cmds, published, conn, hole, events, pressSegment, othersVars>>

\* Command::SetCaptureReady.
SetCaptureReady ==
    /\ InSession /\ Disturbed("ready")
    /\ \/ /\ speech' = [speech EXCEPT !.ready = TRUE]
          /\ KeepCapture /\ KeepVoice
       \/ /\ speech' = Invalidated([speech EXCEPT !.ready = FALSE])
          /\ Flush /\ Finish
    /\ UNCHANGED <<cmds, pcm, published, gate, conn, hole, events, pressSegment,
                   othersVars>>

\* Command::CaptureStopped.
CaptureStopped ==
    /\ InSession /\ Disturbed("stopped")
    /\ speech' = Invalidated([speech EXCEPT !.ready = FALSE])
    /\ Flush /\ Finish
    /\ pcm' = << >>
    /\ UNCHANGED <<cmds, published, gate, conn, hole, events, pressSegment, othersVars>>

\* Command::SetAppActive: push to talk does not outlive the foreground.
SetAppActive ==
    /\ InSession /\ Disturbed("active")
    /\ \E active \in BOOLEAN :
          /\ gate' = [gate EXCEPT !.active = active]
          /\ IF ~active /\ speech.mode = "push_to_talk"
             THEN Invalidate /\ Finish
             ELSE KeepCapture /\ KeepVoice /\ UNCHANGED speech
    /\ UNCHANGED <<cmds, pcm, published, conn, hole, events, pressSegment, othersVars>>

\* Command::SetNoiseSuppression: the DSP worker is asked for another chain.
SetNoiseSuppression ==
    /\ InSession /\ Disturbed("noise")
    /\ IF speech.mode = "push_to_talk" THEN Invalidate /\ Finish
       ELSE KeepCapture /\ KeepVoice /\ UNCHANGED speech
    /\ gate' = [gate EXCEPT !.switching = TRUE]
    /\ UNCHANGED <<cmds, pcm, published, conn, hole, events, pressSegment, othersVars>>

\* Command::Join to another channel; the gate stays shut until its result.
Join ==
    /\ InSession /\ Disturbed("join")
    /\ gate.subscribed /\ conn.up /\ gate.joins < MaxJoins
    /\ gate' = [gate EXCEPT !.joins = @ + 1]
    /\ Invalidate /\ Finish
    /\ pcm' = << >>
    /\ UNCHANGED <<cmds, published, conn, hole, events, pressSegment, othersVars>>

\* Mutant of JoinResult: any answer counts, even one this client did not ask for.
JoinResultOfAnyone ==
    /\ InSession
    /\ gate' = [gate EXCEPT !.joins = @ - 1]
    /\ KeepCapture /\ KeepVoice
    /\ UNCHANGED <<cmds, pcm, speech, published, conn, hole, events, pressSegment,
                   othersVars>>

JoinResult ==
    /\ InSession
    /\ gate.joins > 0
    /\ gate' = [gate EXCEPT !.joins = @ - 1]
    /\ KeepCapture /\ KeepVoice
    /\ UNCHANGED <<cmds, pcm, speech, published, conn, hole, events, pressSegment,
                   othersVars>>

\* Command::Disconnect and Command::Shutdown; EndSession follows.
Disconnect ==
    /\ at = "select" /\ at' = "closing"
    /\ Disturbed("reconnect")
    /\ Invalidate /\ Finish
    /\ published' = [published EXCEPT !.available = FALSE]
    /\ UNCHANGED <<cmds, pcm, gate, conn, hole, events, pressSegment, othersVars>>

-----------------------------------------------------------------------------
(* The session's connection events.                                         *)

\* BookEvents that put this client in another channel, or the first ones after
\* the connection came up: the session subscribes and notes the channel's codec.
TakeBookEvents ==
    /\ InSession
    /\ conn.up /\ conn.moved
    /\ conn' = [conn EXCEPT !.moved = FALSE]
    /\ gate' = [gate EXCEPT !.subscribed = TRUE, !.opus = conn.opus]
    /\ Invalidate /\ Finish
    /\ pcm' = << >>
    /\ UNCHANGED <<cmds, published, hole, events, pressSegment, othersVars>>

\* AudioChange(CanSendAudio(false)).
TakeAudioChange ==
    /\ InSession
    /\ conn.notice
    /\ conn' = [conn EXCEPT !.notice = FALSE]
    /\ Invalidate /\ Finish
    /\ pcm' = << >>
    /\ UNCHANGED <<cmds, published, gate, hole, events, pressSegment, othersVars>>

\* DisconnectedTemporarily: no end marker, the stream died with the connection.
TakeDisconnected ==
    /\ InSession
    /\ conn.lost /\ ~conn.notice
    /\ conn' = [conn EXCEPT !.lost = FALSE]
    /\ gate' = [gate EXCEPT !.subscribed = FALSE, !.joins = 0, !.opus = FALSE]
    /\ Invalidate
    /\ voice' = [speaking |-> FALSE, pending |-> << >>] /\ wire' = << >>
    /\ pcm' = << >>
    /\ published' = [published EXCEPT !.available = FALSE]
    /\ UNCHANGED <<cmds, hole, events, pressSegment, othersVars>>

-----------------------------------------------------------------------------
(* The session's sound.                                                     *)

\* pcm.recv(): a block stamped before the last flush is dropped; an accepted
\* one goes to the DSP worker, whose full queue drops it and leaves a hole.
TakeBlock ==
    /\ InSession
    /\ pcm # << >> /\ pcm' = Tail(pcm)
    /\ IF Head(pcm).stamp = captureEpoch /\ SendingAllowed /\ AudioSendAllowed
       THEN /\ work' = Offer(work, WorkCap,
                             [kind |-> "audio", epoch |-> dspEpoch,
                              hole |-> hole, block |-> Head(pcm)])
            /\ hole' = ~Room(work, WorkCap)
       ELSE UNCHANGED <<work, hole>>
    /\ KeepVoice
    /\ UNCHANGED <<cmds, speech, published, gate, conn, captureEpoch, dspEpoch,
                   events, pressSegment, othersVars>>

Sent(blocks) ==
    [i \in DOMAIN blocks |->
        [kind |-> "voice", block |-> blocks[i], era |-> captureEpoch,
         ptt |-> speech.mode = "push_to_talk", since |-> pressSegment]]

\* VoiceSender::process_pressed: no detection and no pre-roll.
ProcessPressed(block) ==
    /\ voice' = [speaking |-> TRUE, pending |-> << >>]
    /\ wire' = Sent(<<block>>)

\* VoiceSender::process. The hold time may have passed (the running stream ends),
\* a lull empties the pre-roll, and the block may be the one that starts a stream.
Process(block) ==
    \E expired, lull, detected \in BOOLEAN :
        LET speaking == voice.speaking /\ ~expired
            kept == IF expired \/ (lull /\ ~speaking) THEN << >> ELSE voice.pending
            room == IF Len(kept) = PreRoll THEN Tail(kept) ELSE kept
            blocks == Append(room, block)
            ending == IF voice.speaking /\ expired THEN <<EndMarker>> ELSE << >>
        IN /\ expired => voice.speaking
           /\ IF speaking \/ detected
              THEN /\ voice' = [speaking |-> TRUE, pending |-> << >>]
                   /\ wire' = ending \o Sent(blocks)
              ELSE /\ voice' = [speaking |-> FALSE, pending |-> blocks]
                   /\ wire' = ending

\* processor.events.recv(), Event::Audio: every condition is read again here.
TakeAudio ==
    /\ InSession
    /\ events # << >> /\ Head(events).kind = "audio" /\ events' = Tail(events)
    /\ IF /\ Head(events).epoch = dspEpoch
          /\ SendingAllowed /\ AudioSendAllowed
       THEN IF conn.opus
            THEN /\ IF speech.mode = "push_to_talk"
                    THEN ProcessPressed(Head(events).block)
                    ELSE Process(Head(events).block)
                 /\ KeepCapture /\ UNCHANGED <<speech, gate>>
            ELSE /\ Invalidate /\ Finish
                 /\ gate' = [gate EXCEPT !.muted = TRUE]
       ELSE KeepCapture /\ KeepVoice /\ UNCHANGED <<speech, gate>>
    /\ UNCHANGED <<cmds, pcm, published, conn, hole, pressSegment, othersVars>>

\* Event::Gap.
TakeGap ==
    /\ InSession
    /\ events # << >> /\ Head(events).kind = "gap" /\ events' = Tail(events)
    /\ IF Head(events).epoch = dspEpoch THEN Invalidate /\ Finish
       ELSE KeepCapture /\ KeepVoice /\ UNCHANGED speech
    /\ UNCHANGED <<cmds, pcm, published, gate, conn, hole, pressSegment, othersVars>>

\* Event::Applied and Event::Failed; only the latest request ends the switching.
TakeCompleted ==
    /\ InSession
    /\ events # << >> /\ Head(events).kind \in {"applied", "failed"}
    /\ events' = Tail(events)
    /\ \E latest \in BOOLEAN : gate' = [gate EXCEPT !.switching = @ /\ ~latest]
    /\ voice' = IF Head(events).kind = "applied" THEN [voice EXCEPT !.pending = << >>]
                ELSE voice
    /\ wire' = << >>
    /\ KeepCapture
    /\ UNCHANGED <<cmds, pcm, speech, published, conn, hole, pressSegment, othersVars>>

\* The voice timer: only a stream that voice detection opened has a deadline.
VoiceExpires ==
    /\ InSession
    /\ voice.speaking /\ speech.mode = "automatic"
    /\ Finish
    /\ KeepCapture
    /\ UNCHANGED <<cmds, pcm, speech, published, gate, conn, hole, events,
                   pressSegment, othersVars>>

-----------------------------------------------------------------------------
(* The session's life.                                                      *)

NoConnection == [up |-> FALSE, allows |-> FALSE, opus |-> FALSE,
                 notice |-> FALSE, moved |-> FALSE, lost |-> FALSE]

\* Every return of session(), errors and panics included, and the clean-up in
\* Bridge::new that follows it.
EndSession ==
    /\ at = "closing" \/ (at = "select" /\ Disturbed("reconnect"))
    /\ at' = "offline"
    /\ LET next == WithAvailable(Invalidated([speech EXCEPT !.ready = FALSE]), FALSE)
       IN /\ speech' = next
          /\ published' = [token |-> next.token, available |-> FALSE]
    /\ Flush
    /\ voice' = [speaking |-> FALSE, pending |-> << >>] /\ wire' = << >>
    /\ gate' = [gate EXCEPT !.subscribed = FALSE, !.joins = 0, !.opus = FALSE]
    /\ conn' = NoConnection
    /\ UNCHANGED <<cmds, pcm, hole, events, pressSegment, othersVars>>

\* Command::Connect: stale blocks are dropped, the microphone starts muted.
Connect ==
    /\ at = "offline" /\ at' = "top"
    /\ Calm
    /\ gate' = [gate EXCEPT !.muted = TRUE]
    /\ Invalidate
    /\ pcm' = << >>
    /\ published' = [published EXCEPT !.available = FALSE]
    /\ KeepVoice
    /\ UNCHANGED <<cmds, conn, hole, events, pressSegment, othersVars>>

Publish(s) == published' = [token |-> s.token, available |-> s.available]

\* Command::PushToTalk or CaptureStopped outside a session.
OfflineTouch ==
    /\ Offline
    /\ cmds # << >> /\ cmds' = Tail(cmds)
    /\ speech' = Invalidated([speech EXCEPT !.ready = FALSE])
    /\ Publish(speech')
    /\ KeepCapture /\ KeepVoice
    /\ UNCHANGED <<pcm, gate, conn, hole, events, pressSegment, othersVars>>

OfflineSpeech ==
    /\ Offline
    /\ \/ /\ Disturbed("stopped")
          /\ speech' = Invalidated([speech EXCEPT !.ready = FALSE])
          /\ Publish(speech')
       \/ /\ Disturbed("ready")
          /\ \E ready \in BOOLEAN : speech' = [speech EXCEPT !.ready = ready]
          /\ UNCHANGED published
       \/ /\ Disturbed("mode")
          /\ \E mode \in Modes \ {speech.mode} :
                speech' = Invalidated([speech EXCEPT !.mode = mode])
          /\ Publish(speech')
    /\ KeepCapture /\ KeepVoice
    /\ UNCHANGED <<cmds, pcm, gate, conn, hole, events, pressSegment, othersVars>>

OfflineGate ==
    /\ Offline
    /\ \/ /\ Disturbed("active")
          /\ \E active \in BOOLEAN : gate' = [gate EXCEPT !.active = active]
          /\ UNCHANGED events
       \/ /\ Disturbed("noise")
          /\ gate' = [gate EXCEPT !.switching = TRUE]
          /\ UNCHANGED events
       \/ /\ events # << >> /\ events' = Tail(events)
          /\ \E latest \in BOOLEAN :
                /\ latest => Head(events).kind \in {"applied", "failed"}
                /\ gate' = [gate EXCEPT !.switching = @ /\ ~latest]
    /\ KeepCapture /\ KeepVoice
    /\ UNCHANGED <<cmds, pcm, speech, published, conn, hole, pressSegment, othersVars>>

-----------------------------------------------------------------------------
(* The connection (tsclientlib) and the server behind it.                   *)

ServerStep(next) ==
    /\ conn' = next
    /\ UNCHANGED <<ui, reader, cmds, pcm, work, refused, sessionVars, dspVars>>

\* The connection comes up, first or again; the book events are queued.
ConnectionUp ==
    /\ at \in {"top", "select"}
    /\ ~conn.up /\ ~conn.lost
    /\ \E allows, opus \in BOOLEAN :
          ServerStep([conn EXCEPT !.up = TRUE, !.moved = TRUE,
                                  !.allows = allows, !.opus = opus])

\* The server gives or takes the right to talk; taking it queues an event.
TalkPower ==
    /\ conn.up /\ Disturbed("talkpower")
    /\ ServerStep([conn EXCEPT !.allows = ~@, !.notice = @ \/ conn.allows])

\* The server moves this client, or the codec of its channel changes.
Moved ==
    /\ conn.up /\ Disturbed("move")
    /\ \E opus \in BOOLEAN :
          ServerStep([conn EXCEPT !.moved = TRUE, !.opus = opus])

ConnectionLost ==
    /\ conn.up /\ Disturbed("recover")
    /\ ServerStep([conn EXCEPT !.up = FALSE, !.lost = TRUE, !.moved = FALSE,
                               !.notice = @ \/ conn.allows])

-----------------------------------------------------------------------------
(* The DSP worker.                                                          *)

DspStep == UNCHANGED <<ui, reader, cmds, pcm, conn, refused, sessionVars>>

Idle(w) == [w EXCEPT !.pc = "idle", !.item = Wake]

\* rx.recv(). A chain prepared for a pending selection is taken over first: it
\* brings sound of the current epoch only, or it is reset.
DspTake ==
    /\ worker.pc = "idle" /\ worker.out = << >>
    /\ work # << >> /\ work' = Tail(work)
    /\ LET taken == [worker EXCEPT !.pc = "check", !.item = Head(work)]
           warm == worker.epoch = dspEpoch
       IN \/ worker' = taken
          \/ /\ gate.switching
             /\ \E chain \in {<< >>} \cup (IF warm THEN {worker.chain} ELSE {}) :
                   worker' = [taken EXCEPT !.epoch = dspEpoch, !.chain = chain,
                                           !.out = <<[kind |-> "applied"]>>]
          \/ /\ gate.switching
             /\ worker' = [taken EXCEPT !.out = <<[kind |-> "failed"]>>]
    /\ UNCHANGED events
    /\ DspStep

\* The worker looks at the epoch, forgets the sound of an older one, and
\* reports a hole in the sound of this one.
DspCheck ==
    /\ worker.pc = "check" /\ worker.out = << >>
    /\ LET w == IF worker.epoch = dspEpoch THEN worker
                ELSE [worker EXCEPT !.epoch = dspEpoch, !.chain = << >>,
                                    !.cursor = FALSE]
           input == worker.item
           next == [w EXCEPT !.pc = "process", !.cursor = TRUE]
       IN worker' =
            IF input.kind = "wake" THEN Idle(w)
            ELSE IF input.epoch # dspEpoch THEN Idle(w)
            ELSE IF w.cursor /\ input.hole
                 THEN [next EXCEPT !.chain = << >>,
                                   !.out = <<[kind |-> "gap", epoch |-> dspEpoch]>>]
                 ELSE next
    /\ UNCHANGED <<work, events>>
    /\ DspStep

\* The epoch is read once more, then the chain takes the block in and gives out
\* what it no longer needs to hold back; or it fails and starts afresh.
DspProcess ==
    /\ worker.pc = "process" /\ worker.out = << >>
    /\ LET all == Append(worker.chain, worker.item.block)
           audio(n) == [i \in 1..n |-> [kind |-> "audio", epoch |-> worker.epoch,
                                        block |-> all[i]]]
           idle == Idle(worker)
       IN IF worker.item.epoch # dspEpoch THEN worker' = idle
          ELSE \/ \E n \in 0..Len(all) :
                     /\ Len(all) - n <= ChainCap
                     /\ worker' = [idle EXCEPT !.chain = SubSeq(all, n + 1, Len(all)),
                                               !.out = audio(n)]
               \/ worker' = [idle EXCEPT !.chain = << >>,
                                !.out = <<[kind |-> "gap", epoch |-> worker.epoch],
                                          [kind |-> "failed"]>>]
    /\ UNCHANGED <<work, events>>
    /\ DspStep

\* blocking_send: the worker waits while the session is behind.
DspEmit ==
    /\ worker.out # << >> /\ Room(events, EventCap)
    /\ events' = Append(events, Head(worker.out))
    /\ worker' = [worker EXCEPT !.out = Tail(@)]
    /\ UNCHANGED work
    /\ DspStep

-----------------------------------------------------------------------------

Init ==
    /\ ui = [token |-> NoToken, available |-> FALSE, held |-> NoToken, segment |-> 0]
    /\ reader = NoRead(0)
    /\ cmds = << >> /\ pcm = << >> /\ work = << >> /\ events = << >>
    /\ at = "offline"
    /\ speech \in [mode : Modes, ready : {FALSE}, available : {FALSE},
                   pressed : {FALSE}, token : {1}]
    /\ published = [token |-> 1, available |-> FALSE]
    /\ gate = [active |-> FALSE, muted |-> TRUE, subscribed |-> FALSE, joins |-> 0,
               opus |-> FALSE, switching |-> FALSE]
    /\ conn = NoConnection
    /\ captureEpoch = 0 /\ dspEpoch = 0 /\ hole = FALSE
    /\ worker = [pc |-> "idle", item |-> Wake, epoch |-> 0, cursor |-> FALSE,
                 chain |-> << >>, out |-> << >>]
    /\ voice = [speaking |-> FALSE, pending |-> << >>]
    /\ pressSegment = 0 /\ refused = NoToken /\ wire = << >>

UiNext == Poll \/ TouchDown \/ TouchUp
RecorderNext == StartRead \/ Stamp \/ HandOver
CommandNext ==
    \/ TakeTouch \/ SetMode \/ Mute \/ SetCaptureReady \/ CaptureStopped
    \/ SetAppActive \/ SetNoiseSuppression \/ Join \/ Disconnect
EventNext ==
    \/ JoinResult \/ TakeBookEvents \/ TakeAudioChange \/ TakeDisconnected
    \/ TakeBlock \/ TakeAudio \/ TakeGap \/ TakeCompleted \/ VoiceExpires
OfflineNext == EndSession \/ Connect \/ OfflineTouch \/ OfflineSpeech \/ OfflineGate
ServerNext == ConnectionUp \/ TalkPower \/ Moved \/ ConnectionLost
DspNext == DspTake \/ DspCheck \/ DspProcess \/ DspEmit

Next ==
    \/ UiNext \/ RecorderNext
    \/ LoopTop \/ CommandNext \/ EventNext \/ OfflineNext
    \/ ServerNext \/ DspNext

Spec == Init /\ [][Next]_vars

\* tokio::select! picks at random among the branches that are ready, so a command
\* that waits is taken in the end though events keep arriving: strong fairness.
\* The loop itself never blocks.
Fairness == WF_vars(LoopTop) /\ SF_vars(TakeTouch) /\ WF_vars(EndSession)

-----------------------------------------------------------------------------
(* Properties.                                                              *)

UiState == [token : Nat, available : BOOLEAN, held : Nat, segment : Nat]
ReaderState == [pc : {"idle", "reading", "handing"}, segment : Nat, stamp : Nat,
                reads : Nat]
Touch == [down : BOOLEAN, token : Nat, segment : Nat]
SpeechState == [mode : Modes, ready : BOOLEAN, available : BOOLEAN,
                pressed : BOOLEAN, token : Nat]
PublishedState == [token : Nat, available : BOOLEAN]
GateState == [active : BOOLEAN, muted : BOOLEAN, subscribed : BOOLEAN, joins : Nat,
              opus : BOOLEAN, switching : BOOLEAN]
ConnState == [up : BOOLEAN, allows : BOOLEAN, opus : BOOLEAN, notice : BOOLEAN,
              moved : BOOLEAN, lost : BOOLEAN]
Work == Input \cup {Wake}
WorkerState == [pc : {"idle", "check", "process"}, item : Work, epoch : Nat,
                cursor : BOOLEAN, chain : Seq(Block), out : Seq(Event)]
VoiceState == [speaking : BOOLEAN, pending : Seq(Block)]
Wire == Packet \cup {EndMarker}

\* Types: in particular no result is counted for a join that was not asked for,
\* and what a thread takes from a queue is of the kind its handler expects.
TypeOK ==
    /\ ui \in UiState
    /\ reader \in ReaderState
    /\ cmds \in Seq(Touch)
    /\ pcm \in Seq(Block)
    /\ at \in {"offline", "top", "select", "closing"}
    /\ speech \in SpeechState
    /\ published \in PublishedState
    /\ gate \in GateState
    /\ conn \in ConnState
    /\ captureEpoch \in Nat /\ dspEpoch \in Nat /\ hole \in BOOLEAN
    /\ work \in Seq(Work)
    /\ worker \in WorkerState
    /\ events \in Seq(Event)
    /\ voice \in VoiceState
    /\ pressSegment \in Nat /\ refused \in Nat
    /\ wire \in Seq(Wire)

\* No sound handed to the core before the last flush (a mute, a move, a lost
\* connection, the start or the end of a touch...) is ever sent after it, though
\* it may have been in any of five buffers of three threads at that moment.
NoStaleSound ==
    \A i \in DOMAIN wire : wire[i].kind = "voice" => wire[i].block.stamp = wire[i].era

\* Push to talk sends nothing that was being read before the finger went down:
\* "A read started before this press must never enter the core under its new
\* capture epoch" (ClientSession.kt).
OnlyThisTouch ==
    \A i \in DOMAIN wire :
        wire[i].kind = "voice" /\ wire[i].ptt => wire[i].block.segment >= wire[i].since

\* A voice stream is open only while every gate the session knows of is open:
\* whatever closes one of them also ends the stream.
StreamNeedsOpenGate ==
    voice.speaking =>
        /\ at \in {"top", "select"}
        /\ ~gate.muted /\ gate.subscribed /\ gate.joins = 0
        /\ speech.mode = "push_to_talk" => speech.pressed

\* A press never survives what it was made in: it ends with the session, with the
\* mode and with the availability the UI was shown.
PressIsScoped ==
    speech.pressed =>
        /\ at \in {"top", "select"}
        /\ speech.mode = "push_to_talk" /\ speech.available

\* The gate of push to talk is held open by a touch that is still down, or whose
\* release is on its way; or the channel was full and refused the release.
PressNeedsTouch ==
    speech.pressed =>
        \/ ui.held = speech.token
        \/ refused = speech.token
        \/ \E i \in DOMAIN cmds : ~cmds[i].down /\ cmds[i].token = speech.token

\* What lets sound out does so for a reason that still holds: the stream for the
\* gates, the press for what it was made in and for the touch that made it.
OpenForAReason == StreamNeedsOpenGate /\ PressIsScoped /\ PressNeedsTouch

\* What PushToTalk.kt says of a touch: "One physical press owns one core token;
\* leaving the hit rectangle ends it permanently". It does not count with the
\* release that the full command channel refuses.
ReleaseEndsPress ==
    speech.pressed =>
        \/ ui.held = speech.token
        \/ \E i \in DOMAIN cmds : ~cmds[i].down /\ cmds[i].token = speech.token

\* The gate a touch opened does not stay open after the touch, whatever else the
\* session is busy with, if the command channel took the release.
ReleaseIsHeard ==
    (speech.pressed /\ ui.held # speech.token /\ refused # speech.token)
        ~> ~speech.pressed

=============================================================================
