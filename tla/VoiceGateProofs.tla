-------------------------- MODULE VoiceGateProofs --------------------------
(***************************************************************************)
(* Machine-checked proofs about VoiceGate, for every value of its          *)
(* constants: types, that no sound outlives its gate, and that no gate     *)
(* stands open without a reason.                                           *)
(***************************************************************************)
EXTENDS VoiceGate, SequenceTheorems, TLAPS

-----------------------------------------------------------------------------
(* What the steps of the handlers do to the types.                          *)

\* A bounded queue that is offered one more element stays a queue.
LEMMA OfferType ==
    ASSUME NEW T, NEW q \in Seq(T), NEW cap, NEW x \in T
    PROVE  Offer(q, cap, x) \in Seq(T)
BY DEF Offer

LEMMA InvalidatedType ==
    ASSUME NEW s \in SpeechState
    PROVE  Invalidated(s) \in SpeechState
<1>1. s.token + 1 \in Nat
  BY DEF SpeechState
<1> QED
  BY <1>1 DEF SpeechState, Invalidated

LEMMA WithAvailableType ==
    ASSUME NEW s \in SpeechState, NEW available \in BOOLEAN
    PROVE  WithAvailable(s, available) \in SpeechState
  BY InvalidatedType DEF SpeechState, WithAvailable

\* A speech state stays one when a field gets a value of its type.
LEMMA SpeechFields ==
    ASSUME NEW s \in SpeechState
    PROVE  /\ \A mode \in Modes : [s EXCEPT !.mode = mode] \in SpeechState
           /\ \A ready \in BOOLEAN : [s EXCEPT !.ready = ready] \in SpeechState
           /\ [s EXCEPT !.pressed = TRUE] \in SpeechState
           /\ [token |-> s.token, available |-> s.available] \in PublishedState
BY DEF SpeechState, PublishedState

\* A flush changes nothing but the two epochs and the DSP worker's wake-ups.
LEMMA FlushType ==
    ASSUME TypeOK, Flush
    PROVE  /\ captureEpoch' \in Nat /\ dspEpoch' \in Nat
           /\ work' \in Seq(Work)
  BY OfferType DEF TypeOK, Flush, Work

LEMMA FinishType ==
    ASSUME Finish
    PROVE  voice' \in VoiceState /\ wire' \in Seq(Wire)
<1>1. EndMarker \in Wire /\ << >> \in Seq(Wire)
  BY DEF Wire
<1>2. <<EndMarker>> \in Seq(Wire)
  BY <1>1
<1>3. [speaking |-> FALSE, pending |-> << >>] \in VoiceState
  BY DEF VoiceState
<1> QED
  BY <1>1, <1>2, <1>3 DEF Finish

LEMMA SilentType == << >> \in Seq(Wire)
OBVIOUS

-----------------------------------------------------------------------------
(* TypeOK is inductive.                                                     *)

\* The initial state is typed.
LEMMA InitType == Init => TypeOK
<1> SUFFICES ASSUME Init PROVE TypeOK
  OBVIOUS
<1>0. ui \in UiState
  BY DEF Init, UiState, NoToken
<1>1. reader \in ReaderState
  BY DEF Init, ReaderState, NoRead
<1>2. speech \in SpeechState
  <2>1. speech \in [mode : Modes, ready : {FALSE}, available : {FALSE},
                    pressed : {FALSE}, token : {1}]
    BY DEF Init
  <2>2. FALSE \in BOOLEAN /\ 1 \in Nat
    OBVIOUS
  <2> QED
    BY <2>1, <2>2, Zenon DEF SpeechState
<1>7. published \in PublishedState
  BY DEF Init, PublishedState
<1>3. gate \in GateState /\ conn \in ConnState
  BY DEF Init, GateState, ConnState, NoConnection
<1>4. voice \in VoiceState
  BY DEF Init, VoiceState
<1>5. worker \in WorkerState
  BY DEF Work, Init, WorkerState
<1>6. /\ cmds = << >> /\ pcm = << >> /\ work = << >> /\ events = << >> /\ wire = << >>
      /\ at = "offline" /\ captureEpoch = 0 /\ dspEpoch = 0 /\ hole = FALSE
      /\ pressSegment = 0 /\ refused = 0
  BY DEF Init, NoToken
<1>8. \A T : << >> \in Seq(T)
  OBVIOUS
<1>9. /\ cmds \in Seq(Touch) /\ pcm \in Seq(Block) /\ work \in Seq(Work)
      /\ events \in Seq(Event) /\ wire \in Seq(Wire)
  BY <1>6, <1>8
<1> QED
  BY <1>0, <1>1, <1>2, <1>7, <1>3, <1>4, <1>5, <1>6, <1>9 DEF TypeOK

LEMMA UiType == TypeOK /\ UiNext => TypeOK'
<1> SUFFICES ASSUME TypeOK, UiNext PROVE TypeOK'
  OBVIOUS
<1>1. CASE Poll
  BY <1>1 DEF TypeOK, Poll, UiState, PublishedState, sessionVars, dspVars
<1>2. CASE TouchDown
  <2>0. ui \in UiState /\ ui.segment + 1 \in Nat /\ ui.token \in Nat
    BY DEF TypeOK, UiState
  <2>1. ui' \in UiState
    BY <1>2, <2>0 DEF TouchDown, UiState
  <2>2. [down |-> TRUE, token |-> ui.token, segment |-> ui.segment + 1] \in Touch
    BY DEF TypeOK, UiState, Touch
  <2>3. cmds' \in Seq(Touch)
    BY <1>2, <2>2, OfferType DEF TypeOK, TouchDown
  <2> QED
    BY <1>2, <2>1, <2>3 DEF TypeOK, TouchDown, sessionVars, dspVars
<1>3. CASE TouchUp
  <2>0. ui \in UiState /\ ui.segment + 1 \in Nat /\ ui.held \in Nat /\ refused \in Nat
    BY DEF TypeOK, UiState
  <2>1. ui' \in UiState /\ refused' \in Nat
    BY <1>3, <2>0 DEF TouchUp, UiState, NoToken
  <2>2. [down |-> FALSE, token |-> ui.held, segment |-> ui.segment + 1] \in Touch
    BY DEF TypeOK, UiState, Touch
  <2>3. cmds' \in Seq(Touch)
    BY <1>3, <2>2, OfferType DEF TypeOK, TouchUp
  <2> QED
    BY <1>3, <2>1, <2>3 DEF TypeOK, TouchUp, sessionVars, dspVars
<1> QED
  BY <1>1, <1>2, <1>3 DEF UiNext

LEMMA RecorderType == TypeOK /\ RecorderNext => TypeOK'
<1> SUFFICES ASSUME TypeOK, RecorderNext PROVE TypeOK'
  OBVIOUS
<1>1. CASE StartRead
  <2>0. reader \in ReaderState /\ reader.reads + 1 \in Nat /\ ui.segment \in Nat
    BY DEF TypeOK, UiState, ReaderState
  <2>1. reader' \in ReaderState
    BY <1>1, <2>0 DEF StartRead, ReaderState
  <2> QED
    BY <1>1, <2>1 DEF TypeOK, StartRead, sessionVars, dspVars
<1>2. CASE Stamp
  BY <1>2 DEF TypeOK, Stamp, NoRead, ReaderState, sessionVars, dspVars
<1>3. CASE HandOver
  BY <1>3, OfferType DEF TypeOK, ReaderState, Block, HandOver, NoRead, sessionVars, dspVars
<1> QED
  BY <1>1, <1>2, <1>3 DEF RecorderNext

LEMMA LoopTopType == TypeOK /\ LoopTop => TypeOK'
<1> SUFFICES ASSUME TypeOK, LoopTop PROVE TypeOK'
  OBVIOUS
<1> DEFINE available == /\ gate.active /\ speech.ready /\ ~gate.switching
                        /\ AudioSendAllowed /\ gate.opus
           next == WithAvailable(speech, available)
<1>1. available \in BOOLEAN
  BY DEF TypeOK, GateState, SpeechState, AudioSendAllowed, CanSend, ConnState
<1>2. next \in SpeechState
  BY <1>1, WithAvailableType DEF TypeOK
<1>3. /\ speech' = next /\ at' = "select"
      /\ published' = [token |-> next.token, available |-> next.available]
      /\ (Flush /\ Finish) \/ (KeepCapture /\ KeepVoice)
      /\ UNCHANGED <<cmds, pcm, gate, conn, hole, events, pressSegment, othersVars>>
  BY DEF LoopTop
<1>4. speech' \in SpeechState /\ published' \in PublishedState
  BY <1>2, <1>3, SpeechFields
<1>5. /\ captureEpoch' \in Nat /\ dspEpoch' \in Nat /\ work' \in Seq(Work)
      /\ voice' \in VoiceState /\ wire' \in Seq(Wire)
  BY <1>3, FlushType, FinishType, SilentType DEF TypeOK, KeepCapture, KeepVoice
<1> QED
  BY <1>3, <1>4, <1>5 DEF TypeOK, othersVars

\* Every handler of the session does one of two things to the epochs and the wire,
\* and one of two things to speech; the rest it does to its own few variables.
CutOrKeep == (Flush /\ Finish) \/ (KeepCapture /\ KeepVoice)

LEMMA CutOrKeepType ==
    ASSUME TypeOK, CutOrKeep
    PROVE  /\ captureEpoch' \in Nat /\ dspEpoch' \in Nat /\ work' \in Seq(Work)
           /\ voice' \in VoiceState /\ wire' \in Seq(Wire)
BY FlushType, FinishType, SilentType DEF TypeOK, CutOrKeep, KeepCapture, KeepVoice

LEMMA TailType ==
    ASSUME NEW T, NEW q \in Seq(T), q # << >>
    PROVE  Tail(q) \in Seq(T) /\ Head(q) \in T
OBVIOUS

LEMMA SentType ==
    ASSUME TypeOK, NEW blocks \in Seq(Block)
    PROVE  Sent(blocks) \in Seq(Wire)
<1>1. \A i \in DOMAIN blocks :
         [kind |-> "voice", block |-> blocks[i], era |-> captureEpoch,
          ptt |-> speech.mode = "push_to_talk", since |-> pressSegment] \in Wire
  BY DEF TypeOK, Wire, Packet
<1>2. DOMAIN blocks = 1..Len(blocks) /\ Len(blocks) \in Nat
  OBVIOUS
<1> QED
  BY <1>1, <1>2 DEF Sent

\* What VoiceSender::process does to one block.
LEMMA ProcessType ==
    ASSUME TypeOK, NEW block \in Block, Process(block)
    PROVE  voice' \in VoiceState /\ wire' \in Seq(Wire)
<1>1. PICK expired, lull, detected \in BOOLEAN :
        LET speaking == voice.speaking /\ ~expired
            kept == IF expired \/ (lull /\ ~speaking) THEN << >> ELSE voice.pending
            room == IF Len(kept) = PreRoll THEN Tail(kept) ELSE kept
            blocks == Append(room, block)
            ending == IF voice.speaking /\ expired THEN <<EndMarker>> ELSE << >>
        IN /\ expired => voice.speaking
           /\ IF speaking \/ detected
              THEN /\ voice' = [speaking |-> TRUE, pending |-> << >>]
                   /\ wire' = ending \o Sent(blocks)
              ELSE /\ voice' = [speaking |-> FALSE, pending |-> blocks]
                   /\ wire' = ending
  BY DEF Process
<1> DEFINE speaking == voice.speaking /\ ~expired
           kept == IF expired \/ (lull /\ ~speaking) THEN << >> ELSE voice.pending
           room == IF Len(kept) = PreRoll THEN Tail(kept) ELSE kept
           blocks == Append(room, block)
           ending == IF voice.speaking /\ expired THEN <<EndMarker>> ELSE << >>
<1>2. kept \in Seq(Block)
  BY DEF TypeOK, VoiceState
<1>3. blocks \in Seq(Block)
  <2>1. Len(kept) = PreRoll => kept # << >>
    BY VoiceGateAssumption, Len(<< >>) = 0
  <2>2. room \in Seq(Block)
    BY <1>2, <2>1, TailType
  <2> QED
    BY <2>2
<1>4. ending \in Seq(Wire) /\ Sent(blocks) \in Seq(Wire)
  <2>1. EndMarker \in Wire
    BY DEF Wire
  <2>2. ending \in Seq(Wire)
    BY <2>1
  <2>3. \A bs \in Seq(Block) : Sent(bs) \in Seq(Wire)
    BY SentType
  <2>4. Sent(blocks) \in Seq(Wire)
    BY <1>3, <2>3
  <2> QED
    BY <2>2, <2>4
<1>5. ending \o Sent(blocks) \in Seq(Wire)
  BY <1>4
<1>6. /\ [speaking |-> TRUE, pending |-> << >>] \in VoiceState
      /\ [speaking |-> FALSE, pending |-> blocks] \in VoiceState
  BY <1>3 DEF VoiceState
<1> QED
  BY <1>1, <1>4, <1>5, <1>6

LEMMA CommandType == TypeOK /\ CommandNext => TypeOK'
<1> SUFFICES ASSUME TypeOK, CommandNext PROVE TypeOK'
  OBVIOUS
<1> USE DEF InSession
<1>0. << >> \in Seq(Block) /\ speech \in SpeechState
  BY DEF TypeOK
<1>1. CASE TakeTouch
  <2>1. cmds' \in Seq(Touch) /\ Head(cmds) \in Touch /\ at' = "top"
    BY <1>1, TailType DEF TypeOK, TakeTouch
  <2>2. CutOrKeep
    BY <1>1 DEF TakeTouch, CutOrKeep
  <2>3. speech' \in SpeechState
    BY <1>0, <1>1, SpeechFields, InvalidatedType DEF TakeTouch
  <2>4. pressSegment' \in Nat
    BY <1>1, <2>1 DEF TakeTouch, TypeOK, Touch
  <2> QED
    BY <1>1, <2>1, <2>2, <2>3, <2>4, CutOrKeepType DEF TypeOK, TakeTouch, othersVars
<1>2. CASE SetMode
  BY <1>0, <1>2, SpeechFields, InvalidatedType, CutOrKeepType DEF SetMode, TypeOK, CutOrKeep,
     othersVars
<1>3. CASE Mute
  BY <1>0, <1>3, InvalidatedType, CutOrKeepType DEF Mute, Invalidate, CutOrKeep, TypeOK,
     GateState, othersVars
<1>4. CASE SetCaptureReady
  BY <1>0, <1>4, SpeechFields, InvalidatedType, CutOrKeepType DEF SetCaptureReady, CutOrKeep,
     TypeOK, othersVars
<1>5. CASE CaptureStopped
  BY <1>0, <1>5, SpeechFields, InvalidatedType, CutOrKeepType DEF CaptureStopped, CutOrKeep,
     TypeOK, othersVars
<1>6. CASE SetAppActive
  BY <1>0, <1>6, InvalidatedType, CutOrKeepType DEF SetAppActive, Invalidate, CutOrKeep,
     TypeOK, GateState, othersVars
<1>7. CASE SetNoiseSuppression
  BY <1>0, <1>7, InvalidatedType, CutOrKeepType DEF SetNoiseSuppression, Invalidate,
     CutOrKeep, TypeOK, GateState, othersVars
<1>8. CASE Join
  <2>1. speech' \in SpeechState /\ CutOrKeep
    BY <1>0, <1>8, InvalidatedType DEF Join, Invalidate, CutOrKeep
  <2>2. gate \in GateState /\ gate.joins + 1 \in Nat
    BY DEF TypeOK, GateState
  <2>3. gate' \in GateState
    BY <1>8, <2>2 DEF Join, GateState
  <2> QED
    BY <1>0, <1>8, <2>1, <2>3, CutOrKeepType DEF TypeOK, Join, othersVars
<1>9. CASE Disconnect
  BY <1>0, <1>9, InvalidatedType, CutOrKeepType DEF Disconnect, Invalidate, CutOrKeep, TypeOK,
     PublishedState, othersVars
<1> QED
  BY <1>1, <1>2, <1>3, <1>4, <1>5, <1>6, <1>7, <1>8, <1>9 DEF CommandNext

LEMMA EventType == TypeOK /\ EventNext => TypeOK'
<1> SUFFICES ASSUME TypeOK, EventNext PROVE TypeOK'
  OBVIOUS
<1> USE DEF InSession
<1>0. << >> \in Seq(Block) /\ << >> \in Seq(Wire) /\ speech \in SpeechState
  BY DEF TypeOK
<1>1. CASE JoinResult
  <2>1. gate \in GateState /\ gate.joins - 1 \in Nat
    BY <1>1 DEF TypeOK, GateState, JoinResult
  <2>2. gate' \in GateState
    BY <1>1, <2>1 DEF JoinResult, GateState
  <2> QED
    BY <1>1, <2>2, CutOrKeepType DEF TypeOK, JoinResult, CutOrKeep, othersVars
<1>2. CASE TakeBookEvents
  BY <1>0, <1>2, InvalidatedType, CutOrKeepType DEF TakeBookEvents, Invalidate, CutOrKeep,
     TypeOK, GateState, ConnState, othersVars
<1>3. CASE TakeAudioChange
  BY <1>0, <1>3, InvalidatedType, CutOrKeepType DEF TakeAudioChange, Invalidate, CutOrKeep,
     TypeOK, ConnState, othersVars
<1>4. CASE TakeDisconnected
  BY <1>0, <1>4, InvalidatedType, FlushType DEF TakeDisconnected, Invalidate, TypeOK,
     GateState, ConnState, PublishedState, VoiceState, othersVars
<1>5. CASE TakeBlock
  <2>1. pcm' \in Seq(Block) /\ Head(pcm) \in Block
    BY <1>5, TailType DEF TypeOK, TakeBlock
  <2>2. [kind |-> "audio", epoch |-> dspEpoch, hole |-> hole, block |-> Head(pcm)] \in Work
    BY <2>1 DEF TypeOK, Work, Input
  <2>3. work' \in Seq(Work) /\ hole' \in BOOLEAN
    BY <1>5, <2>2, OfferType DEF TypeOK, TakeBlock, Room
  <2>4. voice' = voice /\ wire' = << >>
    BY <1>5 DEF TakeBlock, KeepVoice
  <2> QED
    BY <1>0, <1>5, <2>1, <2>3, <2>4 DEF TypeOK, TakeBlock, othersVars
<1>6. CASE TakeAudio
  <2>1. Head(events) \in Event /\ events' \in Seq(Event) /\ Head(events).kind = "audio"
    BY <1>6, TailType DEF TypeOK, TakeAudio
  <2>2. Head(events).block \in Block
    BY <2>1 DEF Event
  <2>3. gate' \in GateState /\ speech' \in SpeechState
    BY <1>0, <1>6, InvalidatedType DEF TakeAudio, Invalidate, TypeOK, GateState
  <2>4. CASE CutOrKeep
    BY <1>6, <2>1, <2>3, <2>4, CutOrKeepType DEF TypeOK, TakeAudio, othersVars
  <2>5. CASE KeepCapture /\ ProcessPressed(Head(events).block)
    <3>1. voice' \in VoiceState
      BY <2>5 DEF ProcessPressed, VoiceState
    <3>2. wire' \in Seq(Wire)
      <4>1. <<Head(events).block>> \in Seq(Block)
        BY <2>2
      <4> QED
        BY <2>5, <4>1, SentType DEF ProcessPressed
    <3> QED
      BY <1>6, <2>1, <2>3, <2>5, <3>1, <3>2 DEF TypeOK, TakeAudio, KeepCapture, othersVars
  <2>6. CASE KeepCapture /\ Process(Head(events).block)
    BY <2>2, <2>6, ProcessType, <1>6, <2>1, <2>3 DEF TypeOK, TakeAudio, KeepCapture,
       othersVars
  <2> QED
    BY <1>6, <2>4, <2>5, <2>6 DEF TakeAudio, CutOrKeep, Invalidate
<1>7. CASE TakeGap
  BY <1>7, TailType, <1>0, InvalidatedType, CutOrKeepType DEF TypeOK, TakeGap, Invalidate,
     CutOrKeep, othersVars
<1>8. CASE TakeCompleted
  BY <1>8, TailType, <1>0 DEF TypeOK, TakeCompleted, GateState, VoiceState, KeepCapture,
     othersVars
<1>9. CASE VoiceExpires
  BY <1>9, FinishType DEF TypeOK, VoiceExpires, KeepCapture, othersVars
<1> QED
  BY <1>1, <1>2, <1>3, <1>4, <1>5, <1>6, <1>7, <1>8, <1>9 DEF EventNext

LEMMA OfflineType == TypeOK /\ OfflineNext => TypeOK'
<1> SUFFICES ASSUME TypeOK, OfflineNext PROVE TypeOK'
  OBVIOUS
<1> USE DEF Offline, Publish
<1>0. << >> \in Seq(Block) /\ << >> \in Seq(Wire) /\ speech \in SpeechState
  BY DEF TypeOK
<1>1. CASE EndSession
  BY <1>0, SpeechFields, InvalidatedType, WithAvailableType, <1>1, FlushType DEF EndSession,
     SpeechState, PublishedState, TypeOK, GateState, NoConnection, ConnState, VoiceState,
     othersVars
<1>2. CASE Connect
  BY <1>0, <1>2, InvalidatedType, FlushType DEF Connect, Invalidate, TypeOK, GateState,
     PublishedState, KeepVoice, othersVars
<1>3. CASE OfflineTouch
  BY <1>3, TailType, <1>0, SpeechFields, InvalidatedType DEF TypeOK, OfflineTouch,
     KeepCapture, KeepVoice, othersVars
<1>4. CASE OfflineSpeech
  BY <1>0, <1>4, SpeechFields, InvalidatedType DEF OfflineSpeech, TypeOK, KeepCapture,
     KeepVoice, othersVars
<1>5. CASE OfflineGate
  <2>1. gate' \in GateState
    BY <1>5 DEF OfflineGate, TypeOK, GateState
  <2>2. events' \in Seq(Event)
    <3>1. events' = events \/ (events # << >> /\ events' = Tail(events))
      BY <1>5 DEF OfflineGate
    <3> QED
      BY <3>1, TailType DEF TypeOK
  <2> QED
    BY <1>0, <1>5, <2>1, <2>2 DEF TypeOK, OfflineGate, KeepCapture, KeepVoice, othersVars
<1> QED
  BY <1>1, <1>2, <1>3, <1>4, <1>5 DEF OfflineNext

LEMMA ServerType == TypeOK /\ ServerNext => TypeOK'
<1> SUFFICES ASSUME TypeOK, ServerNext PROVE TypeOK'
  OBVIOUS
<1>1. conn' \in ConnState
  BY DEF TypeOK, ServerNext, ConnectionUp, TalkPower, Moved, ConnectionLost, ServerStep,
         ConnState
<1>2. UNCHANGED <<ui, reader, cmds, pcm, work, refused, sessionVars, dspVars>>
  BY DEF ServerNext, ConnectionUp, TalkPower, Moved, ConnectionLost, ServerStep
<1> QED
  BY <1>1, <1>2 DEF TypeOK, sessionVars, dspVars

\* A wake-up never reaches the chain.
InputInHand == worker.pc = "process" => worker.item \in Input

\* What the DSP worker hands to the session.
LEMMA DspType == TypeOK /\ InputInHand /\ DspNext => TypeOK'
<1> SUFFICES ASSUME TypeOK, InputInHand, DspNext PROVE TypeOK'
  OBVIOUS
<1>0. /\ worker \in WorkerState /\ worker.chain \in Seq(Block) /\ worker.out \in Seq(Event)
      /\ worker.item \in Work /\ worker.epoch \in Nat /\ dspEpoch \in Nat
      /\ Wake \in Work /\ << >> \in Seq(Block) /\ << >> \in Seq(Event)
  BY DEF TypeOK, WorkerState, Work
<1>a. \A e \in {[kind |-> "applied"], [kind |-> "failed"]} : <<e>> \in Seq(Event)
  BY DEF Event
<1>b. \A epoch \in Nat : [kind |-> "gap", epoch |-> epoch] \in Event
  BY DEF Event
<1>1. CASE DspTake
  <2>1. work' \in Seq(Work) /\ Head(work) \in Work
    BY <1>1, TailType DEF DspTake, TypeOK
  <2>2. worker' \in WorkerState
    BY <1>0, <2>1, <1>a, <1>1 DEF WorkerState, DspTake
  <2> QED
    BY <1>1, <2>1, <2>2 DEF TypeOK, DspTake, DspStep, sessionVars
<1>2. CASE DspCheck
  <2> DEFINE w == IF worker.epoch = dspEpoch THEN worker
                  ELSE [worker EXCEPT !.epoch = dspEpoch, !.chain = << >>,
                                      !.cursor = FALSE]
             next == [w EXCEPT !.pc = "process", !.cursor = TRUE]
  <2>1. w \in WorkerState
    BY <1>0 DEF WorkerState
  <2>2. Idle(w) \in WorkerState /\ next \in WorkerState
    BY <1>0, <2>1 DEF WorkerState, Idle
  <2>3. [next EXCEPT !.chain = << >>,
                     !.out = <<[kind |-> "gap", epoch |-> dspEpoch]>>] \in WorkerState
    <3>1. <<[kind |-> "gap", epoch |-> dspEpoch]>> \in Seq(Event)
      BY <1>0, <1>b
    <3> HIDE DEF next
    <3> QED
      BY <1>0, <2>2, <3>1 DEF WorkerState
  <2>4. worker' \in {Idle(w), next,
                     [next EXCEPT !.chain = << >>,
                                  !.out = <<[kind |-> "gap", epoch |-> dspEpoch]>>]}
    BY <1>2 DEF DspCheck
  <2>5. worker' \in WorkerState
    BY <2>2, <2>3, <2>4
  <2> QED
    BY <1>2, <2>5 DEF TypeOK, DspCheck, DspStep, sessionVars
<1>3. CASE DspProcess
  <2>1. worker.item \in Input /\ worker.item.block \in Block
    BY <1>3 DEF DspProcess, InputInHand, Input
  <2> DEFINE all == Append(worker.chain, worker.item.block)
             audio(n) == [i \in 1..n |-> [kind |-> "audio", epoch |-> worker.epoch,
                                          block |-> all[i]]]
  <2>2. all \in Seq(Block)
    BY <1>0, <2>1
  <2>3. Idle(worker) \in WorkerState
    BY <1>0 DEF WorkerState, Idle
  <2>4. ASSUME NEW n \in 0..Len(all)
        PROVE  [Idle(worker) EXCEPT !.chain = SubSeq(all, n + 1, Len(all)),
                                    !.out = audio(n)] \in WorkerState
    <3>1. SubSeq(all, n + 1, Len(all)) \in Seq(Block)
      BY <2>2
    <3>2. \A i \in 1..n : [kind |-> "audio", epoch |-> worker.epoch,
                           block |-> all[i]] \in Event
      BY <1>0, <2>2 DEF Event
    <3>3. audio(n) \in Seq(Event)
      BY <2>2, <3>2, SeqDef
    <3> HIDE DEF all, audio
    <3> QED
      BY <2>3, <3>1, <3>3 DEF WorkerState
  <2>5. [Idle(worker) EXCEPT !.chain = << >>,
                             !.out = <<[kind |-> "gap", epoch |-> worker.epoch],
                                       [kind |-> "failed"]>>] \in WorkerState
    <3>1. <<[kind |-> "gap", epoch |-> worker.epoch], [kind |-> "failed"]>> \in Seq(Event)
      BY <1>0, <1>b DEF Event
    <3> QED
      BY <1>0, <2>3, <3>1 DEF WorkerState
  <2>6. worker' \in WorkerState
    BY <1>3, <2>3, <2>4, <2>5 DEF DspProcess, all, audio
  <2> QED
    BY <1>3, <2>6 DEF TypeOK, DspProcess, DspStep, sessionVars
<1>4. CASE DspEmit
  <2>1. Tail(worker.out) \in Seq(Event) /\ Head(worker.out) \in Event
    BY <1>0, <1>4, TailType DEF DspEmit
  <2>2. worker' \in WorkerState
    BY <1>0, <1>4, <2>1 DEF DspEmit, WorkerState
  <2>3. events' \in Seq(Event)
    BY <1>4, <2>1 DEF DspEmit, TypeOK
  <2> QED
    BY <1>4, <2>2, <2>3 DEF TypeOK, DspEmit, DspStep, sessionVars
<1> QED
  BY <1>1, <1>2, <1>3, <1>4 DEF DspNext

\* No step but the DSP worker's touches its locals.
LEMMA WorkerKept ==
    ASSUME UiNext \/ RecorderNext \/ LoopTop \/ CommandNext \/ EventNext
           \/ OfflineNext \/ ServerNext \/ UNCHANGED vars
    PROVE  worker' = worker
BY DEF UiNext, Poll, TouchDown, TouchUp, RecorderNext, StartRead, Stamp, HandOver,
       LoopTop, CommandNext, TakeTouch, SetMode, Mute, SetCaptureReady, CaptureStopped,
       SetAppActive, SetNoiseSuppression, Join, Disconnect, EventNext, JoinResult,
       TakeBookEvents, TakeAudioChange, TakeDisconnected, TakeBlock, TakeAudio, TakeGap,
       TakeCompleted, VoiceExpires, OfflineNext, EndSession, Connect, OfflineTouch,
       OfflineSpeech, OfflineGate, ServerNext, ConnectionUp, TalkPower, Moved,
       ConnectionLost, ServerStep, dspVars, othersVars, vars

LEMMA InputInHandStep == TypeOK /\ InputInHand /\ [Next]_vars => InputInHand'
<1> SUFFICES ASSUME TypeOK, InputInHand, [Next]_vars PROVE InputInHand'
  OBVIOUS
<1>0. worker \in WorkerState /\ worker.item \in Work
  BY DEF TypeOK, WorkerState
<1>1. CASE DspTake
  <2>1. worker'.pc = "check"
    BY <1>0, <1>1 DEF WorkerState, DspTake
  <2> QED
    BY <2>1 DEF InputInHand
<1>2. CASE DspCheck
  BY <1>0, <1>2 DEF DspCheck, Idle, WorkerState, InputInHand, Work, Wake
<1>3. CASE DspProcess
  BY <1>0, <1>3 DEF DspProcess, InputInHand, Idle, WorkerState
<1>4. CASE DspEmit
  BY <1>0, <1>4 DEF DspEmit, InputInHand, WorkerState
<1> QED
  BY <1>1, <1>2, <1>3, <1>4, WorkerKept DEF Next, DspNext, InputInHand

\* Types hold in every reachable state: no count of joins goes below zero, and
\* every queue holds what its reader expects.
THEOREM TypesHold == Spec => []TypeOK
<1> DEFINE Typed == TypeOK /\ InputInHand
<1>1. Init => Typed
  BY InitType DEF Init, InputInHand
<1>2. Typed /\ [Next]_vars => Typed'
  BY InputInHandStep, UiType, RecorderType, LoopTopType, CommandType, EventType, OfflineType,
     ServerType, DspType DEF vars, TypeOK, Next
<1> QED
  BY <1>1, <1>2, PTL DEF Spec

-----------------------------------------------------------------------------
(* Why no sound outlives the gate it was recorded under, for every value   *)
(* of the constants: NoStaleSound and OnlyThisTouch of VoiceGate.          *)
(*                                                                         *)
(* Neither is inductive. The argument follows one block of sound through   *)
(* all its buffers: it is Fresh in each of them, and wherever it travels   *)
(* with an epoch, that epoch is the one it was stamped with.               *)

\* A block was stamped at or before the current epoch; if it carries the current
\* one and a touch is on, it was read no earlier than that touch.
Fresh(b) ==
    /\ b.stamp <= captureEpoch
    /\ speech.pressed /\ b.stamp = captureEpoch => b.segment >= pressSegment

Items(q) == {q[i] : i \in DOMAIN q}

\* What an input or an event says of the block it carries.
Honest(x) == x.kind = "audio" => x.block.stamp = x.epoch /\ Fresh(x.block)

ReaderBlock == [stamp |-> reader.stamp, segment |-> reader.segment]

SoundInv ==
    /\ dspEpoch = captureEpoch
    /\ reader.pc = "handing" => Fresh(ReaderBlock)
    /\ \A b \in Items(pcm) : Fresh(b)
    /\ \A x \in Items(work) : Honest(x)
    /\ Honest(worker.item)
    /\ worker.pc = "process" => worker.item \in Input /\ worker.item.epoch = worker.epoch
    /\ \A b \in Items(worker.chain) : b.stamp = worker.epoch /\ Fresh(b)
    /\ \A x \in Items(worker.out) : Honest(x)
    /\ \A x \in Items(events) : Honest(x)
    /\ \A b \in Items(voice.pending) : b.stamp = captureEpoch /\ Fresh(b)
    /\ at = "offline" => voice.pending = << >>
    /\ pressSegment <= ui.segment
    /\ \A touch \in Items(cmds) : touch.segment <= ui.segment
    /\ NoStaleSound
    /\ OnlyThisTouch

-----------------------------------------------------------------------------
(* Items of a queue.                                                        *)

LEMMA ItemsType ==
    ASSUME NEW T, NEW q \in Seq(T)
    PROVE  Items(q) \subseteq T
BY DEF Items

LEMMA ItemsOfTail ==
    ASSUME NEW T, NEW q \in Seq(T), q # << >>
    PROVE  Items(Tail(q)) \subseteq Items(q) /\ Head(q) \in Items(q)
  BY DEF Items

LEMMA ItemsOfAppend ==
    ASSUME NEW T, NEW q \in Seq(T), NEW x \in T
    PROVE  Items(Append(q, x)) = Items(q) \cup {x}
<1>1. Len(q) \in Nat /\ DOMAIN q = 1..Len(q) /\ DOMAIN Append(q, x) = 1..(Len(q) + 1)
  OBVIOUS
<1>2. \A i \in DOMAIN q : i \in DOMAIN Append(q, x) /\ Append(q, x)[i] = q[i]
  BY <1>1
<1>3. Len(q) + 1 \in DOMAIN Append(q, x) /\ Append(q, x)[Len(q) + 1] = x
  BY <1>1
<1>4. \A i \in DOMAIN Append(q, x) : i \in DOMAIN q \/ i = Len(q) + 1
  BY <1>1
<1> QED
  BY <1>2, <1>3, <1>4 DEF Items

LEMMA ItemsOfOffer ==
    ASSUME NEW T, NEW q \in Seq(T), NEW cap, NEW x \in T
    PROVE  Items(Offer(q, cap, x)) \subseteq Items(q) \cup {x}
BY ItemsOfAppend DEF Offer

LEMMA ItemsOfFew ==
    /\ Items(<< >>) = {}
    /\ \A x : Items(<<x>>) = {x}
    /\ \A x, y : Items(<<x, y>>) = {x, y}
BY DEF Items

LEMMA ItemsOfRest ==
    ASSUME NEW T, NEW q \in Seq(T), NEW n \in 0..Len(q)
    PROVE  Items(SubSeq(q, n + 1, Len(q))) \subseteq Items(q)
  BY DEF Items

LEMMA ItemsOfConcat ==
    ASSUME NEW T, NEW p \in Seq(T), NEW q \in Seq(T)
    PROVE  Items(p \o q) \subseteq Items(p) \cup Items(q)
  BY DEF Items

-----------------------------------------------------------------------------
(* What a step of the session does.                                         *)

Silent == {<< >>, <<EndMarker>>}

\* It moves the epochs and empties the pre-roll,
Cut == Flush /\ voice'.pending = << >> /\ wire' \in Silent
\* or leaves both alone and opens no touch,
Kept ==
    /\ KeepCapture
    /\ speech'.pressed => speech.pressed
    /\ pressSegment' = pressSegment
    /\ voice'.pending \in {voice.pending, << >>}
    /\ wire' \in Silent
\* or sends the sound of an event.
Spoken ==
    /\ events # << >> /\ Head(events).kind = "audio" /\ Head(events).epoch = dspEpoch
    /\ SendingAllowed /\ KeepCapture /\ UNCHANGED <<speech, pressSegment>>
    /\ \/ speech.mode = "push_to_talk" /\ ProcessPressed(Head(events).block)
       \/ speech.mode # "push_to_talk" /\ Process(Head(events).block)

LEMMA FinishCuts == Finish => voice'.pending = << >> /\ wire' \in Silent
BY DEF Finish, Silent

LEMMA KeepVoiceKeeps == KeepVoice => voice'.pending = voice.pending /\ wire' \in Silent
BY DEF KeepVoice, Silent

LEMMA NeverPressed ==
    ASSUME NEW s \in SpeechState
    PROVE  /\ Invalidated(s).pressed = FALSE
           /\ \A mode : Invalidated([s EXCEPT !.mode = mode]).pressed = FALSE
           /\ \A ready : Invalidated([s EXCEPT !.ready = ready]).pressed = FALSE
           /\ \A ready : [s EXCEPT !.ready = ready].pressed = s.pressed
           /\ \A available : WithAvailable(s, available).pressed => s.pressed
BY DEF SpeechState, Invalidated, WithAvailable

LEMMA CommandKinds == TypeOK /\ CommandNext => Cut \/ Kept
<1> SUFFICES ASSUME TypeOK, CommandNext PROVE Cut \/ Kept
  OBVIOUS
<1>0. speech \in SpeechState
  BY DEF TypeOK
<1> USE <1>0, FinishCuts, KeepVoiceKeeps, NeverPressed DEF Invalidate
<1>1. CASE TakeTouch
  BY <1>1 DEF TakeTouch, Cut, Kept
<1>2. CASE SetMode \/ CaptureStopped
  BY <1>2 DEF SetMode, CaptureStopped, Cut
<1>5. CASE SetCaptureReady
  BY <1>5 DEF SetCaptureReady, SpeechState, Cut, Kept
<1>3. CASE Mute \/ SetAppActive \/ SetNoiseSuppression
  BY <1>3 DEF Mute, SetAppActive, SetNoiseSuppression, Cut, Kept
<1>4. CASE Join \/ Disconnect
  BY <1>4 DEF Join, Disconnect, Cut, Kept
<1> QED
  BY <1>1, <1>2, <1>3, <1>4, <1>5 DEF CommandNext

LEMMA EventKinds == TypeOK /\ EventNext => Cut \/ Kept \/ TakeBlock \/ Spoken
<1> SUFFICES ASSUME TypeOK, EventNext PROVE Cut \/ Kept \/ TakeBlock \/ Spoken
  OBVIOUS
<1>0. speech \in SpeechState
  BY DEF TypeOK
<1> USE <1>0, FinishCuts, KeepVoiceKeeps, NeverPressed DEF Invalidate
<1>1. CASE JoinResult \/ TakeBookEvents \/ TakeAudioChange
  BY <1>1 DEF JoinResult, TakeBookEvents, TakeAudioChange, Cut, Kept
<1>2. CASE TakeDisconnected
  BY <1>2 DEF TakeDisconnected, Cut, Silent
<1>3. CASE TakeBlock
  BY <1>3
<1>4. CASE TakeAudio
  BY <1>4 DEF TakeAudio, Cut, Kept, Spoken
<1>5. CASE TakeGap
  BY <1>5 DEF TakeGap, Cut, Kept
<1>6. CASE TakeCompleted
  BY <1>6 DEF TakeCompleted, TypeOK, VoiceState, Kept, Silent
<1>7. CASE VoiceExpires
  BY <1>7 DEF VoiceExpires, Kept
<1> QED
  BY <1>1, <1>2, <1>3, <1>4, <1>5, <1>6, <1>7 DEF EventNext

LEMMA OtherKinds ==
    TypeOK /\ (LoopTop \/ OfflineNext) => Cut \/ Kept \/ Connect
<1> SUFFICES ASSUME TypeOK, LoopTop \/ OfflineNext PROVE Cut \/ Kept \/ Connect
  OBVIOUS
<1>0. speech \in SpeechState
  BY DEF TypeOK
<1> USE <1>0, FinishCuts, KeepVoiceKeeps, NeverPressed
<1>1. CASE LoopTop
  BY <1>1 DEF LoopTop, Cut, Kept
<1>2. CASE EndSession
  BY <1>2 DEF EndSession, Cut, Silent
<1>3. CASE OfflineTouch \/ OfflineSpeech \/ OfflineGate
  <2>1. /\ KeepCapture /\ KeepVoice /\ UNCHANGED pressSegment
        /\ \/ \E ready : speech' = Invalidated([speech EXCEPT !.ready = ready])
           \/ \E ready : speech' = [speech EXCEPT !.ready = ready]
           \/ \E mode : speech' = Invalidated([speech EXCEPT !.mode = mode])
           \/ speech' = speech
    BY <1>3, Zenon DEF OfflineTouch, OfflineSpeech, OfflineGate
  <2>2. speech'.pressed => speech.pressed
    <3>1. CASE \E ready : speech' = Invalidated([speech EXCEPT !.ready = ready])
      BY <3>1
    <3>2. CASE \E ready : speech' = [speech EXCEPT !.ready = ready]
      BY <3>2 DEF SpeechState
    <3>3. CASE \E mode : speech' = Invalidated([speech EXCEPT !.mode = mode])
      BY <3>3
    <3> QED
      BY <2>1, <3>1, <3>2, <3>3
  <2>3. voice'.pending = voice.pending /\ wire' \in Silent
    BY <2>1
  <2> QED
    BY <2>1, <2>2, <2>3 DEF Kept
<1> QED
  BY <1>1, <1>2, <1>3 DEF OfflineNext

\* Steps outside the session touch neither the epochs nor the gate.
LEMMA OutsideKeeps ==
    ASSUME UiNext \/ RecorderNext \/ ServerNext \/ DspNext \/ UNCHANGED vars
    PROVE  UNCHANGED sessionVars
BY DEF UiNext, Poll, TouchDown, TouchUp, RecorderNext, StartRead, Stamp, HandOver,
       ServerNext, ConnectionUp, TalkPower, Moved, ConnectionLost, ServerStep,
       DspNext, DspTake, DspCheck, DspProcess, DspEmit, DspStep, vars, sessionVars

\* The step as the epochs and the gate see it.
LEMMA Kinds ==
    ASSUME TypeOK, [Next]_vars
    PROVE  \/ Cut \/ Kept \/ Connect \/ TakeBlock \/ Spoken
           \/ UNCHANGED sessionVars
BY CommandKinds, EventKinds, OtherKinds, OutsideKeeps DEF Next

\* Whatever the step, a block that is fresh stays fresh: either the epoch moves
\* past the block, or no new touch begins.
LEMMA FreshKept ==
    ASSUME TypeOK, [Next]_vars, NEW b \in Block, Fresh(b)
    PROVE  Fresh(b)'
<1>0. b.stamp \in Nat /\ captureEpoch \in Nat /\ b.stamp <= captureEpoch
  BY DEF TypeOK, Block, Fresh
<1>1. CASE Flush
  BY <1>1, <1>0 DEF Flush, Fresh
<1>2. CASE UNCHANGED <<captureEpoch, pressSegment>> /\ (speech'.pressed => speech.pressed)
  BY <1>2 DEF Fresh
<1> QED
  BY <1>1, <1>2, Kinds DEF Cut, Kept, Connect, Invalidate, TakeBlock, Spoken, KeepCapture,
     sessionVars

\* The two epochs move together.
LEMMA EpochsTogether ==
    ASSUME TypeOK, [Next]_vars, dspEpoch = captureEpoch
    PROVE  dspEpoch' = captureEpoch'
BY Kinds DEF Cut, Kept, Connect, Invalidate, TakeBlock, Spoken, KeepCapture, sessionVars,
   Flush

LEMMA HonestKept ==
    ASSUME TypeOK, [Next]_vars, NEW x \in Input \cup {Wake} \cup Event, Honest(x)
    PROVE  Honest(x)'
  BY FreshKept DEF Input, Wake, Event, Honest

-----------------------------------------------------------------------------
(* Which steps touch which buffer.                                          *)

LEMMA Frames ==
    ASSUME [Next]_vars
    PROVE  /\ pcm' = pcm \/ pcm' = << >> \/ (pcm # << >> /\ pcm' = Tail(pcm)) \/ HandOver
           /\ reader' = reader \/ StartRead \/ Stamp \/ HandOver
           /\ events' = events \/ (events # << >> /\ events' = Tail(events)) \/ DspEmit
           /\ \/ TouchDown \/ TouchUp
              \/ /\ ui'.segment = ui.segment \/ Poll
                 /\ cmds' = cmds \/ (cmds # << >> /\ cmds' = Tail(cmds))
           /\ \/ work' = work \/ work' = Offer(work, WorkCap, Wake)
              \/ TakeBlock
              \/ work # << >> /\ work' = Tail(work)
           /\ pressSegment' = pressSegment \/ TakeTouch
           /\ worker' = worker \/ DspNext
           /\ at' = "offline" => at = "offline" \/ EndSession
<1>1. Flush => work' = Offer(work, WorkCap, Wake)
  BY DEF Flush
<1>2. KeepCapture => work' = work
  BY DEF KeepCapture
<1> USE DEF Next, UiNext, Poll, TouchDown, TouchUp, RecorderNext, StartRead, Stamp,
      HandOver, LoopTop, CommandNext, SetMode, Mute, SetCaptureReady,
      CaptureStopped, SetAppActive, SetNoiseSuppression, Join, Disconnect, EventNext,
      JoinResult, TakeBookEvents, TakeAudioChange, TakeDisconnected, TakeBlock, TakeAudio,
      TakeGap, TakeCompleted, VoiceExpires, OfflineNext, EndSession, Connect,
      OfflineTouch, OfflineSpeech, OfflineGate, ServerNext, ConnectionUp, TalkPower,
      Moved, ConnectionLost, ServerStep, DspStep, sessionVars,
      dspVars, othersVars, vars
<1>3. pressSegment' = pressSegment \/ TakeTouch
  BY DEF DspNext, DspTake, DspCheck, DspProcess, DspEmit
<1>4. worker' = worker \/ DspNext
  BY DEF TakeTouch
<1> USE DEF TakeTouch
<1>5. at' = "offline" => at = "offline" \/ EndSession
  BY DEF DspNext, DspTake, DspCheck, DspProcess, DspEmit, InSession, Offline
<1> USE DEF DspNext, DspTake, DspCheck, DspProcess, DspEmit
<1>6. pcm' = pcm \/ pcm' = << >> \/ (pcm # << >> /\ pcm' = Tail(pcm)) \/ HandOver
  OBVIOUS
<1>7. reader' = reader \/ StartRead \/ Stamp \/ HandOver
  OBVIOUS
<1>8. events' = events \/ (events # << >> /\ events' = Tail(events)) \/ DspEmit
  OBVIOUS
<1>9. \/ TouchDown \/ TouchUp
      \/ /\ ui'.segment = ui.segment \/ Poll
         /\ cmds' = cmds \/ (cmds # << >> /\ cmds' = Tail(cmds))
  OBVIOUS
<1>10. \/ work' = work \/ work' = Offer(work, WorkCap, Wake)
       \/ TakeBlock
       \/ work # << >> /\ work' = Tail(work)
  BY <1>1, <1>2 DEF Invalidate
<1> QED
  BY <1>3, <1>4, <1>5, <1>6, <1>7, <1>8, <1>9, <1>10

-----------------------------------------------------------------------------
(* SoundInv is inductive: one lemma per buffer.                             *)

LEMMA BuffersTyped ==
    ASSUME TypeOK
    PROVE  /\ Items(pcm) \subseteq Block /\ Items(work) \subseteq Work
           /\ Items(events) \subseteq Event /\ Items(cmds) \subseteq Touch
           /\ worker.item \in Work /\ Items(worker.chain) \subseteq Block
           /\ Items(worker.out) \subseteq Event /\ Items(voice.pending) \subseteq Block
           /\ ReaderBlock \in Block
  BY ItemsType DEF TypeOK, WorkerState, VoiceState, ReaderState, ReaderBlock, Block

LEMMA PcmStep ==
    ASSUME TypeOK, SoundInv, [Next]_vars
    PROVE  \A b \in Items(pcm') : Fresh(b)'
<1>1. Items(pcm') \subseteq Items(pcm) \cup (IF reader.pc = "handing" THEN {ReaderBlock} ELSE {})
  <2>1. CASE HandOver
    BY <2>1, ItemsOfOffer, BuffersTyped DEF HandOver, ReaderBlock, TypeOK
  <2>2. CASE pcm # << >> /\ pcm' = Tail(pcm)
    BY <2>2, ItemsOfTail DEF TypeOK
  <2> QED
    BY <2>1, <2>2, Frames, ItemsOfFew
<1>2. \A b \in Items(pcm') : b \in Block /\ Fresh(b)
  BY <1>1, BuffersTyped DEF SoundInv
<1> QED
  BY <1>2, FreshKept

LEMMA ReaderStep ==
    ASSUME TypeOK, SoundInv, [Next]_vars
    PROVE  reader'.pc = "handing" => Fresh(ReaderBlock)'
<1> SUFFICES ASSUME reader'.pc = "handing" PROVE Fresh(ReaderBlock)'
  OBVIOUS
<1>1. CASE reader' = reader
  BY <1>1, BuffersTyped, FreshKept DEF SoundInv, ReaderBlock, Fresh
<1>2. CASE StartRead
  BY <1>2 DEF StartRead, TypeOK, ReaderState
<1>3. CASE HandOver
  BY <1>3 DEF HandOver, NoRead
<1>4. CASE Stamp
  BY <1>4 DEF Stamp, NoRead, TypeOK, ReaderState, sessionVars, SoundInv, Fresh, ReaderBlock,
     UiState
<1> QED
  BY <1>1, <1>2, <1>3, <1>4, Frames

LEMMA WorkStep ==
    ASSUME TypeOK, SoundInv, [Next]_vars
    PROVE  \A x \in Items(work') : Honest(x)'
<1>1. \A x \in Items(work') : x \in Work /\ Honest(x)
  <2>0. work \in Seq(Work) /\ Wake \in Work /\ Honest(Wake)
    BY DEF TypeOK, Work, Wake, Honest
  <2>1. CASE TakeBlock
    <3> DEFINE input == [kind |-> "audio", epoch |-> dspEpoch, hole |-> hole,
                         block |-> Head(pcm)]
    <3>1. Head(pcm) \in Items(pcm) /\ Head(pcm) \in Block
      BY <2>1, ItemsOfTail, TailType DEF TakeBlock, TypeOK
    <3>2. input \in Work
      BY <3>1 DEF TypeOK, Work, Input
    <3>3. \/ work' = work
          \/ work' = Offer(work, WorkCap, input) /\ Head(pcm).stamp = captureEpoch
      BY <2>1 DEF TakeBlock
    <3>4. Head(pcm).stamp = captureEpoch => Honest(input)
      BY <3>1 DEF SoundInv, Honest
    <3>5. \/ Items(work') \subseteq Items(work)
          \/ Items(work') \subseteq Items(work) \cup {input} /\ Honest(input)
      BY <2>0, ItemsOfOffer, <3>2, <3>3, <3>4
    <3> HIDE DEF input
    <3> QED
      BY <3>2, <3>5, BuffersTyped DEF SoundInv
  <2>2. CASE work' = Offer(work, WorkCap, Wake)
    BY <2>0, <2>2, ItemsOfOffer, BuffersTyped DEF SoundInv
  <2>3. CASE work # << >> /\ work' = Tail(work)
    BY <2>0, <2>3, ItemsOfTail, BuffersTyped DEF SoundInv
  <2> QED
    BY <2>1, <2>2, <2>3, Frames, BuffersTyped DEF SoundInv
<1> QED
  BY <1>1, HonestKept DEF Work

LEMMA EventsStep ==
    ASSUME TypeOK, SoundInv, [Next]_vars
    PROVE  \A x \in Items(events') : Honest(x)'
<1>1. \A x \in Items(events') : x \in Event /\ Honest(x)
  <2>0. events \in Seq(Event) /\ worker.out \in Seq(Event)
    BY DEF TypeOK, WorkerState
  <2>1. CASE DspEmit
    BY <2>0, <2>1, ItemsOfTail, TailType, ItemsOfAppend, BuffersTyped DEF DspEmit, SoundInv
  <2>2. CASE events # << >> /\ events' = Tail(events)
    BY <2>0, <2>2, ItemsOfTail, BuffersTyped DEF SoundInv
  <2> QED
    BY <2>1, <2>2, Frames, BuffersTyped DEF SoundInv
<1> QED
  BY <1>1, HonestKept

\* What the DSP worker holds between two of its steps.
WorkerSound ==
    /\ Honest(worker.item)
    /\ worker.pc = "process" => worker.item \in Input /\ worker.item.epoch = worker.epoch
    /\ \A b \in Items(worker.chain) : b.stamp = worker.epoch /\ Fresh(b)
    /\ \A x \in Items(worker.out) : Honest(x)

LEMMA WorkerStep ==
    ASSUME TypeOK, SoundInv, [Next]_vars
    PROVE  WorkerSound'
<1>0. /\ worker \in WorkerState /\ Honest(Wake) /\ WorkerSound
      /\ \A epoch : Honest([kind |-> "gap", epoch |-> epoch])
      /\ Honest([kind |-> "applied"]) /\ Honest([kind |-> "failed"])
  BY DEF TypeOK, Wake, Honest, SoundInv, WorkerSound
<1>1. CASE worker' = worker
  BY BuffersTyped, HonestKept, <1>0, <1>1, FreshKept DEF Work, WorkerSound, Honest, Fresh
<1>2. ASSUME DspNext
      PROVE  /\ Honest(worker'.item)
             /\ worker'.pc = "process" =>
                   worker'.item \in Input /\ worker'.item.epoch = worker'.epoch
             /\ \A b \in Items(worker'.chain) : b.stamp = worker'.epoch /\ Fresh(b)
             /\ \A x \in Items(worker'.out) : Honest(x)
  <2> USE <1>0
  <2>1. CASE DspTake
    <3>1. Head(work) \in Items(work) /\ Honest(Head(work))
      BY <2>1, ItemsOfTail DEF DspTake, TypeOK, SoundInv
    <3>2. worker'.item = Head(work) /\ worker'.pc = "check"
      BY <2>1 DEF WorkerState, DspTake
    <3>3. \/ worker'.epoch = worker.epoch /\ worker'.chain = worker.chain
          \/ worker'.chain = << >>
      BY <2>1 DEF DspTake, WorkerState
    <3>4. worker'.out \in {worker.out, <<[kind |-> "applied"]>>, <<[kind |-> "failed"]>>}
      BY <2>1 DEF DspTake, WorkerState
    <3> QED
      BY <3>1, <3>2, <3>3, <3>4, ItemsOfFew DEF WorkerSound
  <2>2. CASE DspCheck
    <3>1. /\ worker'.item \in {worker.item, Wake}
          /\ worker'.pc = "process" =>
                /\ worker'.item = worker.item /\ worker.item.kind # "wake"
                /\ worker.item.epoch = dspEpoch /\ worker'.epoch = dspEpoch
      BY <2>2 DEF DspCheck, Idle, WorkerState
    <3>2. \/ worker'.epoch = worker.epoch /\ worker'.chain = worker.chain
          \/ worker'.chain = << >>
      BY <2>2 DEF DspCheck, Idle, WorkerState
    <3>3. worker'.out = worker.out \/ worker'.out = <<[kind |-> "gap", epoch |-> dspEpoch]>>
      BY <2>2 DEF DspCheck, Idle, WorkerState
    <3>4. worker.item \in Work
      BY BuffersTyped
    <3>5. Honest(worker'.item)
      BY <3>1 DEF WorkerSound
    <3>6. worker'.pc = "process" => worker'.item \in Input /\ worker'.item.epoch = worker'.epoch
      BY <3>1, <3>4 DEF Work, Wake
    <3>7. \A b \in Items(worker'.chain) : b.stamp = worker'.epoch /\ Fresh(b)
      BY <3>2, ItemsOfFew DEF WorkerSound
    <3>8. \A x \in Items(worker'.out) : Honest(x)
      <4>1. CASE worker'.out = worker.out
        BY <4>1 DEF WorkerSound
      <4>2. CASE worker'.out = <<[kind |-> "gap", epoch |-> dspEpoch]>>
        BY <4>2, ItemsOfFew
      <4> QED
        BY <3>3, <4>1, <4>2
    <3> QED
      BY <3>5, <3>6, <3>7, <3>8
  <2>3. CASE DspProcess
    <3> DEFINE block == worker.item.block
               all == Append(worker.chain, block)
               audio(n) == [i \in 1..n |-> [kind |-> "audio", epoch |-> worker.epoch,
                                            block |-> all[i]]]
    <3>1. block \in Block /\ worker.chain \in Seq(Block) /\ worker.out = << >>
      BY <2>3 DEF DspProcess, WorkerSound, Input, WorkerState
    <3>2. block.stamp = worker.epoch /\ Fresh(block)
      BY <2>3 DEF DspProcess, WorkerSound, Honest, Input
    <3>3. \A b \in Items(all) : b.stamp = worker.epoch /\ Fresh(b)
      BY <3>1, ItemsOfAppend, <3>2 DEF WorkerSound
    <3>4. worker'.pc = "idle" /\ worker'.item = Wake /\ worker'.epoch = worker.epoch
      BY <2>3 DEF DspProcess, Idle, WorkerState
    <3>5. ASSUME NEW n \in 0..Len(all)
          PROVE  /\ Items(SubSeq(all, n + 1, Len(all))) \subseteq Items(all)
                 /\ \A x \in Items(audio(n)) : Honest(x)
      <4>1. all \in Seq(Block)
        BY <3>1
      <4>2. Items(SubSeq(all, n + 1, Len(all))) \subseteq Items(all)
        BY <4>1, ItemsOfRest
      <4>3. \A i \in 1..n : all[i] \in Items(all)
        BY <4>1 DEF Items
      <4>4. \A x \in Items(audio(n)) :
               \E b \in Items(all) : x = [kind |-> "audio", epoch |-> worker.epoch, block |-> b]
        BY <4>3 DEF Items
      <4> HIDE DEF all, audio
      <4> QED
        BY <3>3, <4>2, <4>4 DEF Honest
    <3>6. \/ worker'.chain = worker.chain /\ worker'.out = worker.out
          \/ \E n \in 0..Len(all) :
                worker'.chain = SubSeq(all, n + 1, Len(all)) /\ worker'.out = audio(n)
          \/ /\ worker'.chain = << >>
             /\ worker'.out = <<[kind |-> "gap", epoch |-> worker.epoch],
                                [kind |-> "failed"]>>
      BY <2>3 DEF DspProcess, Idle, WorkerState
    <3>7. \A b \in Items(worker'.chain) : b.stamp = worker.epoch /\ Fresh(b)
      BY <3>3, <3>5, <3>6, ItemsOfFew DEF WorkerSound
    <3>8. \A x \in Items(worker'.out) : Honest(x)
      <4>1. CASE worker'.out = worker.out
        BY <4>1 DEF WorkerSound
      <4>2. CASE \E n \in 0..Len(all) : worker'.out = audio(n)
        BY <3>5, <4>2
      <4>3. CASE worker'.out = <<[kind |-> "gap", epoch |-> worker.epoch],
                                 [kind |-> "failed"]>>
        BY <4>3, ItemsOfFew
      <4> HIDE DEF all, audio
      <4> QED
        BY <3>6, <4>1, <4>2, <4>3
    <3> QED
      BY <3>4, <3>7, <3>8
  <2>4. CASE DspEmit
    BY <2>4, ItemsOfTail DEF DspEmit, WorkerState, WorkerSound
  <2> QED
    BY <1>2, <2>1, <2>2, <2>3, <2>4 DEF DspNext
<1>3. CASE DspNext
  BY <1>3, OutsideKeeps, <1>2 DEF sessionVars, WorkerSound, Honest, Fresh
<1> QED
  BY <1>1, <1>3, Frames

\* Outside a session the sender is left alone.
LEMMA OfflineSilence ==
    ASSUME [Next]_vars, at = "offline", at' = "offline"
    PROVE  voice' = voice
<1>1. CASE UiNext \/ RecorderNext \/ ServerNext \/ DspNext \/ UNCHANGED vars
  BY <1>1, OutsideKeeps DEF sessionVars
<1>2. CASE LoopTop
  BY <1>2 DEF LoopTop
<1>3. CASE CommandNext
  BY <1>3 DEF CommandNext, TakeTouch, SetMode, Mute, SetCaptureReady, CaptureStopped,
     SetAppActive, SetNoiseSuppression, Join, Disconnect, InSession
<1>4. CASE EventNext
  BY <1>4 DEF EventNext, JoinResult, TakeBookEvents, TakeAudioChange, TakeDisconnected,
     TakeBlock, TakeAudio, TakeGap, TakeCompleted, VoiceExpires, InSession
<1>5. CASE OfflineNext
  BY <1>5 DEF OfflineNext, EndSession, Connect, OfflineTouch, OfflineSpeech, OfflineGate,
     KeepVoice
<1> QED
  BY <1>1, <1>2, <1>3, <1>4, <1>5 DEF Next

\* VoiceSender::process keeps no block but its own and those it had kept.
LEMMA PendingOfProcess ==
    ASSUME TypeOK, NEW block \in Block, Process(block)
    PROVE  /\ Items(voice'.pending) \subseteq Items(voice.pending) \cup {block}
           /\ \A x \in Items(wire') :
                 \/ x = EndMarker
                 \/ \E b \in Items(voice.pending) \cup {block} :
                       x = [kind |-> "voice", block |-> b, era |-> captureEpoch,
                            ptt |-> speech.mode = "push_to_talk", since |-> pressSegment]
<1>1. PICK expired, lull, detected \in BOOLEAN :
        LET speaking == voice.speaking /\ ~expired
            kept == IF expired \/ (lull /\ ~speaking) THEN << >> ELSE voice.pending
            room == IF Len(kept) = PreRoll THEN Tail(kept) ELSE kept
            blocks == Append(room, block)
            ending == IF voice.speaking /\ expired THEN <<EndMarker>> ELSE << >>
        IN /\ expired => voice.speaking
           /\ IF speaking \/ detected
              THEN /\ voice' = [speaking |-> TRUE, pending |-> << >>]
                   /\ wire' = ending \o Sent(blocks)
              ELSE /\ voice' = [speaking |-> FALSE, pending |-> blocks]
                   /\ wire' = ending
  BY DEF Process
<1> DEFINE speaking == voice.speaking /\ ~expired
           kept == IF expired \/ (lull /\ ~speaking) THEN << >> ELSE voice.pending
           room == IF Len(kept) = PreRoll THEN Tail(kept) ELSE kept
           blocks == Append(room, block)
           ending == IF voice.speaking /\ expired THEN <<EndMarker>> ELSE << >>
           packet(b) == [kind |-> "voice", block |-> b, era |-> captureEpoch,
                         ptt |-> speech.mode = "push_to_talk", since |-> pressSegment]
<1>2. kept \in Seq(Block) /\ Items(kept) \subseteq Items(voice.pending)
  BY ItemsOfFew DEF TypeOK, VoiceState
<1>3. room \in Seq(Block) /\ Items(room) \subseteq Items(voice.pending)
  <2>1. Len(kept) = PreRoll => kept # << >>
    BY VoiceGateAssumption, Len(<< >>) = 0
  <2> HIDE DEF kept
  <2> QED
    BY <1>2, <2>1, TailType, ItemsOfTail
<1>4. blocks \in Seq(Block) /\ Items(blocks) \subseteq Items(voice.pending) \cup {block}
  <2> HIDE DEF room
  <2> QED
    BY <1>3, ItemsOfAppend
<1>5. \A x \in Items(Sent(blocks)) : \E b \in Items(blocks) : x = packet(b)
  BY DEF Sent, Items
<1>6. Items(ending) \subseteq {EndMarker}
  BY ItemsOfFew
<1>7. Items(ending \o Sent(blocks)) \subseteq Items(ending) \cup Items(Sent(blocks))
  <2>1. ending \in Seq(Wire)
    <3>1. EndMarker \in Wire
      BY DEF Wire
    <3> QED
      BY <3>1
  <2>2. \A bs \in Seq(Block) : Sent(bs) \in Seq(Wire)
    BY SentType
  <2>3. Sent(blocks) \in Seq(Wire)
    BY <1>4, <2>2
  <2> HIDE DEF blocks, ending
  <2> QED
    BY <2>1, <2>3, ItemsOfConcat
<1>8. Items(wire') \subseteq {EndMarker} \cup Items(Sent(blocks))
  BY <1>1, <1>6, <1>7 DEF blocks
<1>9. Items(voice'.pending) \subseteq Items(voice.pending) \cup {block}
  <2>1. voice'.pending = << >> \/ voice'.pending = blocks
    BY <1>1 DEF blocks
  <2> HIDE DEF blocks
  <2> QED
    BY <1>4, <2>1, ItemsOfFew
<1> HIDE DEF blocks
<1> QED
  BY <1>4, <1>5, <1>8, <1>9

\* The pre-roll holds sound of this epoch only.
LEMMA PendingStep ==
    ASSUME TypeOK, SoundInv, [Next]_vars
    PROVE  /\ \A b \in Items(voice'.pending) : b.stamp = captureEpoch' /\ Fresh(b)'
           /\ at' = "offline" => voice'.pending = << >>
<1>0. /\ voice.pending \in Seq(Block)
      /\ at = "offline" => voice.pending = << >>
  BY DEF TypeOK, VoiceState, SoundInv
<1>1. /\ Items(voice'.pending) \subseteq
            Items(voice.pending) \cup (IF Spoken THEN {Head(events).block} ELSE {})
      /\ Flush => voice'.pending = << >>
  <2>1. CASE Cut
    BY <2>1, ItemsOfFew DEF Cut
  <2>2. CASE Kept
    BY <2>2, ItemsOfFew DEF Kept, KeepCapture, Flush, TypeOK
  <2>3. CASE Connect
    BY <1>0, <2>3 DEF Connect, KeepVoice, SoundInv
  <2>4. CASE TakeBlock \/ UNCHANGED sessionVars
    BY <2>4 DEF TakeBlock, KeepVoice, Flush, TypeOK, sessionVars
  <2>5. CASE Spoken
    <3>1. Head(events).block \in Block /\ ~Flush
      BY <2>5, TailType DEF Spoken, TypeOK, Event, KeepCapture, Flush
    <3>2. Items(voice'.pending) \subseteq Items(voice.pending) \cup {Head(events).block}
      BY ItemsOfFew, <3>1, PendingOfProcess, <2>5 DEF ProcessPressed, Spoken
    <3> QED
      BY <2>5, <3>1, <3>2
  <2> QED
    BY <2>1, <2>2, <2>3, <2>4, <2>5, Kinds
<1>2. Spoken => LET b == Head(events).block IN
                b \in Block /\ b.stamp = captureEpoch /\ Fresh(b)
  <2> SUFFICES ASSUME Spoken
               PROVE  LET b == Head(events).block IN
                      b \in Block /\ b.stamp = captureEpoch /\ Fresh(b)
    OBVIOUS
  <2>1. Head(events) \in Items(events) /\ Head(events) \in Event
    BY ItemsOfTail, TailType DEF Spoken, TypeOK
  <2> QED
    BY <2>1 DEF Spoken, SoundInv, Honest, Event
<1>3. \A b \in Items(voice'.pending) : b \in Block /\ b.stamp = captureEpoch /\ Fresh(b)
  BY <1>1, <1>2, BuffersTyped DEF SoundInv
<1>4. Flush \/ captureEpoch' = captureEpoch
  BY Kinds DEF Cut, Kept, Connect, Invalidate, TakeBlock, Spoken, KeepCapture, sessionVars
<1>5. \A b \in Items(voice'.pending) : b.stamp = captureEpoch' /\ Fresh(b)'
  BY <1>1, ItemsOfFew, <1>3, FreshKept, <1>4
<1>6. at' = "offline" => voice'.pending = << >>
  <2>1. CASE EndSession
    BY <2>1 DEF EndSession
  <2>2. CASE at = "offline" /\ at' = "offline"
    BY <2>2, OfflineSilence, <1>0
  <2> QED
    BY <2>1, <2>2, Frames
<1> QED
  BY <1>5, <1>6

\* Nothing is released or pressed in a segment the UI has not reached.
LEMMA SegmentStep ==
    ASSUME TypeOK, SoundInv, [Next]_vars
    PROVE  /\ pressSegment' <= ui'.segment
           /\ \A touch \in Items(cmds') : touch.segment <= ui'.segment
<1>0. /\ cmds \in Seq(Touch) /\ ui.segment \in Nat /\ pressSegment \in Nat
      /\ pressSegment <= ui.segment
      /\ \A touch \in Items(cmds) : touch \in Touch /\ touch.segment <= ui.segment
  BY BuffersTyped DEF TypeOK, UiState, SoundInv
<1>1. CASE TouchDown \/ TouchUp
  <2>1. ui'.segment = ui.segment + 1 /\ pressSegment' = pressSegment
    BY <1>1 DEF TouchDown, TouchUp, TypeOK, UiState, sessionVars
  <2>2. PICK touch \in Touch : touch.segment = ui.segment + 1 /\ cmds' = Offer(cmds, CmdCap, touch)
    <3>0. ui \in UiState /\ ui.segment + 1 \in Nat
      BY DEF TypeOK, UiState
    <3>1. CASE TouchDown
      BY <3>0, <3>1 DEF UiState, Touch, TouchDown
    <3>2. CASE TouchUp
      BY <3>0, <3>2 DEF UiState, Touch, TouchUp
    <3> QED
      BY <1>1, <3>1, <3>2
  <2>3. Items(cmds') \subseteq Items(cmds) \cup {touch}
    BY <1>0, <2>2, ItemsOfOffer
  <2> QED
    BY <1>0, <2>1, <2>2, <2>3 DEF Touch
<1>2. CASE /\ ui'.segment = ui.segment \/ Poll
           /\ cmds' = cmds \/ (cmds # << >> /\ cmds' = Tail(cmds))
  <2>1. ui'.segment = ui.segment
    BY <1>2 DEF Poll, TypeOK, UiState
  <2>2. Items(cmds') \subseteq Items(cmds)
    BY <1>0, <1>2, ItemsOfTail
  <2>3. pressSegment' = pressSegment \/ pressSegment' \in {touch.segment : touch \in Items(cmds)}
    BY <1>0, ItemsOfTail, Frames DEF TakeTouch
  <2> QED
    BY <1>0, <2>1, <2>2, <2>3
<1> QED
  BY <1>1, <1>2, Frames

\* What a step sends.
LEMMA WireStep ==
    ASSUME TypeOK, SoundInv, [Next]_vars
    PROVE  NoStaleSound' /\ OnlyThisTouch'
<1> DEFINE Lawful(x) ==
        x.kind = "voice" =>
            /\ x.block.stamp = x.era
            /\ x.ptt => x.block.segment >= x.since
<1>1. \A x \in Items(wire') : Lawful(x)
  <2>0. \A x \in Items(wire) : Lawful(x)
    BY DEF SoundInv, NoStaleSound, OnlyThisTouch, Items
  <2>1. CASE wire' \in Silent
    BY <2>1, ItemsOfFew DEF Silent, EndMarker
  <2>2. CASE Connect \/ TakeBlock
    BY <2>2, ItemsOfFew DEF Connect, TakeBlock, KeepVoice
  <2>3. CASE UNCHANGED sessionVars
    BY <2>0, <2>3 DEF sessionVars
  <2>4. CASE Spoken
    <3> DEFINE block == Head(events).block
               packet(b) == [kind |-> "voice", block |-> b, era |-> captureEpoch,
                             ptt |-> speech.mode = "push_to_talk", since |-> pressSegment]
    <3>1. block \in Block /\ block.stamp = captureEpoch /\ Fresh(block)
      <4>1. Head(events) \in Items(events) /\ Head(events) \in Event
        BY <2>4, ItemsOfTail, TailType DEF Spoken, TypeOK
      <4> QED
        BY <2>4, <4>1 DEF Spoken, SoundInv, Honest, Event
    <3>2. CASE speech.mode = "push_to_talk" /\ ProcessPressed(block)
      BY <2>4, <3>1, <3>2, ItemsOfFew DEF Spoken, SendingAllowed, Fresh, Sent,
         ProcessPressed
    <3>3. CASE speech.mode # "push_to_talk" /\ Process(block)
      <4>1. \A x \in Items(wire') :
               x = EndMarker \/ \E b \in Items(voice.pending) \cup {block} : x = packet(b)
        BY PendingOfProcess, <3>1, <3>3
      <4>2. \A b \in Items(voice.pending) \cup {block} : b.stamp = captureEpoch
        BY <3>1 DEF SoundInv
      <4>3. \A b : packet(b).ptt = FALSE /\ packet(b).block = b /\ packet(b).era = captureEpoch
        BY <3>3
      <4>4. EndMarker.kind # "voice"
        BY DEF EndMarker
      <4> HIDE DEF block, packet
      <4> QED
        BY <4>1, <4>2, <4>3, <4>4
    <3> QED
      BY <2>4, <3>2, <3>3 DEF Spoken
  <2> QED
    BY <2>1, <2>2, <2>3, <2>4, Kinds DEF Cut, Kept
<1>2. \A i \in DOMAIN wire' : wire'[i] \in Items(wire')
  BY DEF Items
<1> QED
  BY <1>1, <1>2 DEF NoStaleSound, OnlyThisTouch

LEMMA SoundInit == Init => SoundInv
  BY ItemsOfFew DEF Init, NoRead, SoundInv, Honest, Wake, NoStaleSound, OnlyThisTouch

LEMMA SoundStep == TypeOK /\ SoundInv /\ [Next]_vars => SoundInv'
  BY EpochsTogether, PcmStep, ReaderStep, WorkStep, EventsStep, WorkerStep, PendingStep,
     SegmentStep, WireStep DEF SoundInv, WorkerSound

\* No sound recorded before the last flush is ever sent after it, whatever the sizes
\* of the queues between the threads and however the threads interleave.
THEOREM NoStaleSoundHolds == Spec => []NoStaleSound
<1>1. Init => SoundInv
  BY SoundInit
<1>2. TypeOK /\ SoundInv /\ [Next]_vars => SoundInv'
  BY SoundStep
<1>3. SoundInv => NoStaleSound
  BY DEF SoundInv
<1> QED
  BY <1>1, <1>2, <1>3, TypesHold, PTL DEF Spec

\* Push to talk sends nothing whose read began before the touch that opened it.
THEOREM OnlyThisTouchHolds == Spec => []OnlyThisTouch
<1>1. Init => SoundInv
  BY SoundInit
<1>2. TypeOK /\ SoundInv /\ [Next]_vars => SoundInv'
  BY SoundStep
<1>3. SoundInv => OnlyThisTouch
  BY DEF SoundInv
<1> QED
  BY <1>1, <1>2, <1>3, TypesHold, PTL DEF Spec

-----------------------------------------------------------------------------
(* Why the gate is never open without a reason, for every value of the     *)
(* constants: OpenForAReason of VoiceGate.                                 *)
(*                                                                         *)
(* The reason for a press is the touch with its token. Between a touch and *)
(* its press lie the copy of the token the UI polled and the channel of    *)
(* commands, so the invariant speaks of every press under way: the touch   *)
(* is still down, or a release with the same token waits behind the press, *)
(* or was refused. Tokens only grow, and whatever ends a press takes a new *)
(* one, for which no touch can have been made yet.                         *)

\* A touch with the current token is down, or its release found no room.
HeldOrRefused == ui.held = speech.token \/ refused = speech.token

ReleaseFrom(i) ==
    \E j \in DOMAIN cmds : j >= i /\ ~cmds[j].down /\ cmds[j].token = speech.token

TokensGrow ==
    /\ speech.token > NoToken
    /\ published.token <= speech.token
    /\ ui.token <= published.token
    /\ ui.held <= ui.token /\ refused <= ui.token
    /\ ui.held # NoToken => refused <= ui.held
    /\ \A i \in DOMAIN cmds : cmds[i].token <= ui.token

PressesAreOwned ==
    /\ speech.pressed => HeldOrRefused \/ ReleaseFrom(1)
    /\ \A i \in DOMAIN cmds :
         cmds[i].down /\ cmds[i].token = speech.token => HeldOrRefused \/ ReleaseFrom(i)

TouchInv == TokensGrow /\ PressesAreOwned /\ PressIsScoped

-----------------------------------------------------------------------------
(* What a step of the session does to the press.                            *)

Renewed == speech'.token > speech.token /\ ~speech'.pressed
SameToken ==
    /\ speech'.token = speech.token /\ speech'.pressed = speech.pressed
    /\ speech.pressed => /\ speech'.mode = speech.mode
                         /\ speech'.available = speech.available
                         /\ at' \in {"top", "select"}

PublishedFollows == published'.token \in {published.token, speech'.token}

LEMMA InvalidatedIs ==
    ASSUME NEW s \in SpeechState
    PROVE  /\ Invalidated(s).token = s.token + 1 /\ ~Invalidated(s).pressed
           /\ Invalidated(s).available = s.available
           /\ s.token \in Nat
BY DEF Invalidated, SpeechState

\* A new setting takes a new token, a microphone that is ready keeps the old one.
LEMMA ModeRenews ==
    ASSUME NEW s \in SpeechState, NEW mode \in Modes
    PROVE  LET next == Invalidated([s EXCEPT !.mode = mode])
           IN  next.token = s.token + 1 /\ ~next.pressed
  BY InvalidatedIs DEF SpeechState

LEMMA ReadyKeeps ==
    ASSUME NEW s \in SpeechState, NEW ready \in BOOLEAN
    PROVE  LET next == [s EXCEPT !.ready = ready]
           IN  /\ next \in SpeechState
               /\ next.token = s.token /\ next.pressed = s.pressed
               /\ next.mode = s.mode /\ next.available = s.available
BY DEF SpeechState

LEMMA UnreadyRenews ==
    ASSUME NEW s \in SpeechState
    PROVE  LET next == Invalidated([s EXCEPT !.ready = FALSE])
           IN  next \in SpeechState /\ next.token = s.token + 1 /\ ~next.pressed
<1>1. /\ [s EXCEPT !.ready = FALSE] \in SpeechState
      /\ [s EXCEPT !.ready = FALSE].token = s.token
  BY ReadyKeeps
<1> QED
  BY <1>1, InvalidatedIs, InvalidatedType

LEMMA WithAvailableIs ==
    ASSUME NEW s \in SpeechState, NEW available \in BOOLEAN
    PROVE  LET next == WithAvailable(s, available)
           IN  /\ next.available = available /\ next.mode = s.mode
               /\ s.available = available => next.token = s.token /\ next.pressed = s.pressed
               /\ s.available # available => next.token = s.token + 1 /\ ~next.pressed
BY DEF WithAvailable, Invalidated, SpeechState

\* LoopTop either keeps the press with the availability, or ends it.
LEMMA LoopTopShape ==
    ASSUME TypeOK, LoopTop
    PROVE  PublishedFollows /\ (Renewed \/ SameToken) /\ cmds' = cmds /\ UNCHANGED <<ui, refused>>
<1> DEFINE available == /\ gate.active /\ speech.ready /\ ~gate.switching
                        /\ AudioSendAllowed /\ gate.opus
           next == WithAvailable(speech, available)
<1>1. available \in BOOLEAN
  BY DEF TypeOK, GateState, SpeechState, AudioSendAllowed, CanSend, ConnState
<1>2. speech \in SpeechState /\ speech.token \in Nat
  BY DEF TypeOK, SpeechState
<1>3. /\ next.available = available /\ next.mode = speech.mode
      /\ speech.available = available =>
            next.token = speech.token /\ next.pressed = speech.pressed
      /\ speech.available # available => next.token = speech.token + 1 /\ ~next.pressed
  BY <1>1, <1>2, WithAvailableIs
<1>4. /\ speech' = next /\ at' = "select"
      /\ published' = [token |-> next.token, available |-> next.available]
      /\ cmds' = cmds /\ UNCHANGED <<ui, refused>>
  BY DEF LoopTop, othersVars
<1> HIDE DEF next, available
<1> QED
  BY <1>2, <1>3, <1>4 DEF PublishedFollows, Renewed, SameToken

LEMMA CommandShape ==
    ASSUME TypeOK, CommandNext, ~TakeTouch
    PROVE  PublishedFollows /\ (Renewed \/ SameToken) /\ cmds' = cmds /\ UNCHANGED <<ui, refused>>
<1> USE DEF InSession, PublishedFollows
<1>0. /\ speech \in SpeechState /\ speech.token \in Nat
      /\ \A s \in SpeechState : Invalidated(s).token = s.token + 1 /\ ~Invalidated(s).pressed
  BY InvalidatedIs DEF TypeOK, SpeechState
<1>1. CASE SetMode
  BY <1>1, <1>0, ModeRenews DEF SetMode, othersVars, Renewed
<1>2. CASE Mute
  BY <1>2, <1>0 DEF Mute, Invalidate, Renewed, SameToken, othersVars
<1>3. CASE SetCaptureReady
  <2>1. /\ UNCHANGED <<ui, refused, cmds, published>> /\ at' = "top"
        /\ \/ speech' = [speech EXCEPT !.ready = TRUE]
           \/ speech' = Invalidated([speech EXCEPT !.ready = FALSE])
    BY <1>3 DEF SetCaptureReady, othersVars
  <2>2. CASE speech' = [speech EXCEPT !.ready = TRUE]
    BY <1>0, <2>1, <2>2, ReadyKeeps DEF SameToken
  <2>3. CASE speech' = Invalidated([speech EXCEPT !.ready = FALSE])
    BY <1>0, <2>1, <2>3, UnreadyRenews DEF Renewed
  <2> QED
    BY <2>1, <2>2, <2>3
<1>4. CASE CaptureStopped
  BY <1>4, <1>0, UnreadyRenews DEF CaptureStopped, othersVars, Renewed
<1>5. CASE SetAppActive
  BY <1>5, <1>0 DEF SetAppActive, Invalidate, Renewed, SameToken, othersVars
<1>6. CASE SetNoiseSuppression
  BY <1>6, <1>0 DEF SetNoiseSuppression, Invalidate, Renewed, SameToken, othersVars
<1>7. CASE Join
  BY <1>7, <1>0 DEF Join, Invalidate, Renewed, othersVars
<1>8. CASE Disconnect
  BY <1>8, <1>0 DEF Disconnect, TypeOK, PublishedState, Invalidate, Renewed, othersVars
<1> QED
  BY <1>1, <1>2, <1>3, <1>4, <1>5, <1>6, <1>7, <1>8 DEF CommandNext

LEMMA EventShape ==
    ASSUME TypeOK, EventNext
    PROVE  PublishedFollows /\ (Renewed \/ SameToken) /\ cmds' = cmds /\ UNCHANGED <<ui, refused>>
<1> USE DEF InSession, PublishedFollows
<1>0. /\ speech \in SpeechState /\ speech.token \in Nat
      /\ Invalidated(speech).token = speech.token + 1 /\ ~Invalidated(speech).pressed
  BY InvalidatedIs DEF TypeOK, SpeechState
<1>1. CASE JoinResult \/ TakeBlock \/ TakeCompleted \/ VoiceExpires
  BY <1>1 DEF JoinResult, TakeBlock, TakeCompleted, VoiceExpires, SameToken, othersVars
<1>2. CASE TakeBookEvents \/ TakeAudioChange
  BY <1>2, <1>0 DEF TakeBookEvents, TakeAudioChange, Invalidate, Renewed, othersVars
<1>3. CASE TakeDisconnected
  BY <1>3, <1>0 DEF TakeDisconnected, TypeOK, PublishedState, Invalidate, Renewed, othersVars
<1>4. CASE TakeAudio
  BY <1>4, <1>0 DEF TakeAudio, Invalidate, Renewed, SameToken, othersVars
<1>5. CASE TakeGap
  BY <1>5, <1>0 DEF TakeGap, Invalidate, Renewed, SameToken, othersVars
<1> QED
  BY <1>1, <1>2, <1>3, <1>4, <1>5 DEF EventNext

\* Outside a session nothing is pressed, and a command that arrives is only dropped.
LEMMA OfflineShape ==
    ASSUME TypeOK, PressIsScoped, OfflineNext
    PROVE  /\ PublishedFollows /\ (Renewed \/ SameToken) /\ UNCHANGED <<ui, refused>>
           /\ cmds' = cmds \/ (OfflineTouch /\ Renewed)
<1> USE DEF Offline, Publish, PublishedFollows
<1>0. /\ speech \in SpeechState /\ speech.token \in Nat
      /\ \A s \in SpeechState : Invalidated(s).token = s.token + 1 /\ ~Invalidated(s).pressed
  BY InvalidatedIs DEF TypeOK, SpeechState
<1>b. at = "offline" => ~speech.pressed
  BY DEF PressIsScoped
<1>1. CASE EndSession
  <2> DEFINE s == Invalidated([speech EXCEPT !.ready = FALSE])
             next == WithAvailable(s, FALSE)
  <2>1. s \in SpeechState /\ s.token = speech.token + 1 /\ ~s.pressed
    BY <1>0, UnreadyRenews
  <2>2. next.token \in {s.token, s.token + 1} /\ ~next.pressed
    BY <2>1, WithAvailableIs
  <2>3. /\ speech' = next /\ published' = [token |-> next.token, available |-> FALSE]
        /\ cmds' = cmds /\ UNCHANGED <<ui, refused>>
    BY <1>1 DEF EndSession, othersVars
  <2> HIDE DEF s, next
  <2> QED
    BY <1>0, <2>1, <2>2, <2>3 DEF Renewed
<1>2. CASE Connect
  BY <1>2, <1>0 DEF Connect, TypeOK, PublishedState, Invalidate, Renewed, othersVars
<1>3. CASE OfflineTouch
  BY <1>3, <1>0, UnreadyRenews DEF OfflineTouch, othersVars, Renewed
<1>4. CASE OfflineSpeech
  <2>1. UNCHANGED <<ui, refused, cmds>> /\ ~speech.pressed /\ PublishedFollows
    BY <1>4, <1>b DEF OfflineSpeech, othersVars
  <2>2. \/ speech' = Invalidated([speech EXCEPT !.ready = FALSE])
        \/ \E ready \in BOOLEAN : speech' = [speech EXCEPT !.ready = ready]
        \/ \E mode \in Modes : speech' = Invalidated([speech EXCEPT !.mode = mode])
    BY <1>4 DEF OfflineSpeech
  <2>3. CASE speech' = Invalidated([speech EXCEPT !.ready = FALSE])
    BY <1>0, <2>1, <2>3, UnreadyRenews DEF Renewed
  <2>4. CASE \E ready \in BOOLEAN : speech' = [speech EXCEPT !.ready = ready]
    BY <2>4, <1>0, <2>1, ReadyKeeps DEF SameToken
  <2>5. CASE \E mode \in Modes : speech' = Invalidated([speech EXCEPT !.mode = mode])
    BY <2>5, <1>0, <2>1, ModeRenews DEF Renewed
  <2> QED
    BY <2>2, <2>3, <2>4, <2>5
<1>5. CASE OfflineGate
  BY <1>5, <1>b DEF OfflineGate, SameToken, othersVars
<1> QED
  BY <1>1, <1>2, <1>3, <1>4, <1>5 DEF OfflineNext

-----------------------------------------------------------------------------
(* The invariant is inductive.                                              *)

LEMMA TouchInit == Init => TouchInv
<1> SUFFICES ASSUME Init PROVE TouchInv
  OBVIOUS
<1>1. speech.token = 1 /\ ~speech.pressed
  BY DEF Init
<1>2. /\ published.token = 1 /\ cmds = << >> /\ refused = 0
      /\ ui.token = 0 /\ ui.held = 0
  BY DEF Init, NoToken
<1> QED
  BY <1>1, <1>2 DEF TouchInv, TokensGrow, PressesAreOwned, PressIsScoped, NoToken

\* A step that ends the press: no command speaks of the new token.
LEMMA RenewedStep ==
    ASSUME TypeOK, TouchInv, Renewed, PublishedFollows, UNCHANGED <<ui, refused>>,
           \A i \in DOMAIN cmds' : cmds'[i].token <= ui.token,
           speech'.token \in Nat
    PROVE  TouchInv'
<1>1. /\ ui.token \in Nat /\ ui.held \in Nat /\ refused \in Nat /\ published.token \in Nat
      /\ speech.token \in Nat
  BY DEF TypeOK, UiState, PublishedState, SpeechState
<1>2. TokensGrow'
  BY <1>1 DEF TouchInv, TokensGrow, Renewed, PublishedFollows, NoToken
<1>3. \A i \in DOMAIN cmds' : cmds'[i].token # speech'.token
  BY <1>1 DEF TouchInv, TokensGrow, Renewed
<1> QED
  BY <1>2, <1>3 DEF TouchInv, PressesAreOwned, PressIsScoped, Renewed

\* A step that leaves the press alone.
LEMMA KeptStep ==
    ASSUME TypeOK, TouchInv, SameToken, PublishedFollows, UNCHANGED <<ui, refused, cmds>>
    PROVE  TouchInv'
<1>1. /\ ui.token \in Nat /\ published.token \in Nat /\ speech.token \in Nat
  BY DEF TypeOK, UiState, PublishedState, SpeechState
<1>2. TokensGrow'
  BY <1>1 DEF TouchInv, TokensGrow, SameToken, PublishedFollows
<1>3. PressesAreOwned'
  BY DEF TouchInv, PressesAreOwned, SameToken, HeldOrRefused, ReleaseFrom
<1>4. PressIsScoped'
  BY DEF TouchInv, PressIsScoped, SameToken
<1> QED
  BY <1>2, <1>3, <1>4 DEF TouchInv

\* The commands behind the first keep their order.
LEMMA TailShifts ==
    ASSUME NEW T, NEW q \in Seq(T), q # << >>
    PROVE  /\ 1 \in DOMAIN q /\ Head(q) = q[1] /\ DOMAIN q \subseteq Nat \ {0}
           /\ DOMAIN Tail(q) \subseteq Nat \ {0}
           /\ \A i \in DOMAIN Tail(q) : i + 1 \in DOMAIN q /\ Tail(q)[i] = q[i + 1]
           /\ \A i \in DOMAIN q : i # 1 => i - 1 \in DOMAIN Tail(q) /\ Tail(q)[i - 1] = q[i]
  OBVIOUS

\* An offer only adds at the end.
LEMMA OfferAdds ==
    ASSUME NEW T, NEW q \in Seq(T), NEW cap, NEW x \in T
    PROVE  LET r == Offer(q, cap, x)
           IN  /\ DOMAIN q \subseteq DOMAIN r /\ \A i \in DOMAIN q : r[i] = q[i]
               /\ \A i \in DOMAIN r : i \in DOMAIN q \/ r[i] = x
               /\ Room(q, cap) => \E j \in DOMAIN r : r[j] = x /\ \A i \in DOMAIN q : i < j
               /\ DOMAIN r \subseteq Nat \ {0}
<1>1. Len(q) \in Nat /\ DOMAIN q = 1..Len(q)
  OBVIOUS
<1>2. CASE Room(q, cap)
  <2> DEFINE r == Append(q, x)
  <2>1. DOMAIN r = 1..(Len(q) + 1) /\ r[Len(q) + 1] = x /\ \A i \in 1..Len(q) : r[i] = q[i]
    BY <1>1
  <2>2. Offer(q, cap, x) = r
    BY <1>2 DEF Offer
  <2> HIDE DEF r
  <2> QED
    BY <1>1, <2>1, <2>2
<1>3. CASE ~Room(q, cap)
  BY <1>1, <1>3 DEF Offer
<1> QED
  BY <1>2, <1>3

\* The commands behind the one that is taken are still bounded.
LEMMA TailBounded ==
    ASSUME TypeOK, TouchInv, cmds # << >>, cmds' = Tail(cmds)
    PROVE  \A i \in DOMAIN cmds' : cmds'[i].token <= ui.token
  BY TailShifts DEF TypeOK, TouchInv, TokensGrow

\* A release behind a command is one place nearer when a command before it, or one
\* that is no such release, is taken.
LEMMA ReleaseStays ==
    ASSUME TypeOK, cmds # << >>, cmds' = Tail(cmds), speech'.token = speech.token,
           NEW i \in DOMAIN cmds, ReleaseFrom(i),
           i > 1 \/ Head(cmds).down \/ Head(cmds).token # speech.token
    PROVE  \E j \in DOMAIN cmds' :
                j >= i - 1 /\ j >= 1 /\ ~cmds'[j].down /\ cmds'[j].token = speech'.token
<1>1. PICK j \in DOMAIN cmds : j >= i /\ ~cmds[j].down /\ cmds[j].token = speech.token
  BY DEF ReleaseFrom
<1>2. cmds \in Seq(Touch)
  BY DEF TypeOK
<1>3. i \in Nat \ {0} /\ j \in Nat \ {0} /\ Head(cmds) = cmds[1]
  BY <1>2, TailShifts
<1>4. j # 1
  BY <1>1, <1>3
<1>5. j - 1 \in DOMAIN cmds' /\ cmds'[j - 1] = cmds[j]
  BY <1>2, <1>4, TailShifts
<1>6. j - 1 >= i - 1 /\ j - 1 >= 1
  BY <1>1, <1>3, <1>4
<1>7. ~cmds'[j - 1].down /\ cmds'[j - 1].token = speech'.token
  BY <1>1, <1>5
<1> QED
  BY <1>5, <1>6, <1>7

\* A press takes over the reason its command had; a release ends the press.
LEMMA TakeTouchStep ==
    ASSUME TypeOK, TouchInv, TakeTouch
    PROVE  TouchInv'
<1> DEFINE press == Head(cmds)
<1>0. /\ cmds # << >> /\ cmds' = Tail(cmds) /\ at' = "top"
      /\ UNCHANGED <<ui, refused, published>>
  BY DEF TakeTouch, InSession, othersVars
<1>1. /\ speech \in SpeechState /\ speech.token \in Nat /\ cmds \in Seq(Touch)
      /\ ui.token \in Nat /\ published.token \in Nat
  BY DEF TypeOK, SpeechState, UiState, PublishedState
<1>2. \A i \in DOMAIN cmds' : cmds'[i].token <= ui.token
  BY <1>0, TailBounded
<1>3. CASE PressAccepted(speech, press) /\ ~press.down
  BY <1>3, <1>1, InvalidatedIs, <1>0, <1>2, RenewedStep DEF TakeTouch, Renewed,
     PublishedFollows
<1>4. CASE ~(PressAccepted(speech, press) /\ ~press.down)
  <2>1. /\ speech'.token = speech.token /\ speech'.mode = speech.mode
        /\ speech'.available = speech.available
        /\ \/ speech'.pressed = speech.pressed
           \/ PressAccepted(speech, press) /\ press.down
    BY <1>1, <1>4 DEF TakeTouch, SpeechState
  <2>2. TokensGrow'
    BY <1>0, <1>2, <2>1 DEF TouchInv, TokensGrow
  <2>3. 1 \in DOMAIN cmds /\ press = cmds[1]
    BY <1>0, <1>1, TailShifts
  <2>4. speech'.pressed => HeldOrRefused' \/ ReleaseFrom(1)'
    BY <1>0, <2>1, <1>4, <2>3, ReleaseStays DEF HeldOrRefused, PressAccepted, TouchInv,
       PressIsScoped, PressesAreOwned, ReleaseFrom
  <2>5. ASSUME NEW i \in DOMAIN cmds', cmds'[i].down, cmds'[i].token = speech'.token
        PROVE  HeldOrRefused' \/ ReleaseFrom(i)'
    <3>1. i \in Nat \ {0} /\ i + 1 \in DOMAIN cmds /\ cmds'[i] = cmds[i + 1]
      BY <1>0, <1>1, TailShifts
    <3>2. HeldOrRefused \/ ReleaseFrom(i + 1)
      BY <2>1, <2>5, <3>1 DEF TouchInv, PressesAreOwned
    <3>3. CASE HeldOrRefused
      BY <1>0, <2>1, <3>3 DEF HeldOrRefused
    <3>4. CASE ReleaseFrom(i + 1)
      BY <1>0, <2>1, <3>1, <3>4, ReleaseStays DEF ReleaseFrom
    <3> QED
      BY <3>2, <3>3, <3>4
  <2>6. PressIsScoped'
    BY <1>0, <2>1 DEF TouchInv, PressIsScoped, PressAccepted
  <2> QED
    BY <2>2, <2>4, <2>5, <2>6 DEF TouchInv, PressesAreOwned
<1> QED
  BY <1>3, <1>4

\* The finger goes down on the token the UI has polled, which may be an old one.
LEMMA TouchDownStep ==
    ASSUME TypeOK, TouchInv, TouchDown
    PROVE  TouchInv'
<1> DEFINE x == [down |-> TRUE, token |-> ui.token, segment |-> ui.segment + 1]
<1>0. /\ ui.held = NoToken /\ ui' = [ui EXCEPT !.segment = ui.segment + 1, !.held = ui.token]
      /\ cmds' = Offer(cmds, CmdCap, x)
      /\ UNCHANGED <<refused, speech, published, at>>
  BY DEF TouchDown, sessionVars
<1>1. /\ ui \in UiState /\ ui.token \in Nat /\ ui.segment + 1 \in Nat /\ ui.held \in Nat
      /\ refused \in Nat /\ speech.token \in Nat /\ cmds \in Seq(Touch)
  BY DEF TypeOK, UiState, SpeechState
<1>2. x \in Touch /\ x.token = ui.token
  BY <1>1 DEF Touch
<1>3. ui'.token = ui.token /\ ui'.held = ui.token
  BY <1>0, <1>1 DEF UiState
<1>4. /\ \A i \in DOMAIN cmds : i \in DOMAIN cmds' /\ cmds'[i] = cmds[i]
      /\ \A i \in DOMAIN cmds' : i \in DOMAIN cmds \/ cmds'[i] = x
  <2> HIDE DEF x
  <2> QED
    BY <1>0, <1>1, <1>2, OfferAdds
<1>5. TokensGrow'
  <2> HIDE DEF x
  <2> QED
    BY <1>0, <1>1, <1>2, <1>3, <1>4 DEF TouchInv, TokensGrow
<1>6. \A i \in DOMAIN cmds : ReleaseFrom(i) => ReleaseFrom(i)'
  BY <1>0, <1>4 DEF ReleaseFrom
<1>7. HeldOrRefused => HeldOrRefused'
  BY <1>0, <1>1 DEF HeldOrRefused, TouchInv, TokensGrow, NoToken
<1>8. ReleaseFrom(1) => ReleaseFrom(1)'
  BY <1>0, <1>4 DEF ReleaseFrom
<1>9. PressesAreOwned'
  BY <1>0, <1>7, <1>8, <1>4, <1>6, <1>2, <1>3 DEF TouchInv, PressesAreOwned, HeldOrRefused
<1> QED
  BY <1>0, <1>5, <1>9 DEF TouchInv, PressIsScoped

\* The finger goes up: the release is behind every press of its token, or refused.
LEMMA TouchUpStep ==
    ASSUME TypeOK, TouchInv, TouchUp
    PROVE  TouchInv'
<1> DEFINE x == [down |-> FALSE, token |-> ui.held, segment |-> ui.segment + 1]
<1>0. /\ ui.held # NoToken /\ ui' = [ui EXCEPT !.segment = ui.segment + 1, !.held = NoToken]
      /\ cmds' = Offer(cmds, CmdCap, x)
      /\ refused' = IF Room(cmds, CmdCap) THEN refused ELSE ui.held
      /\ UNCHANGED <<speech, published, at>>
  BY DEF TouchUp, sessionVars
<1>1. /\ ui \in UiState /\ ui.token \in Nat /\ ui.segment + 1 \in Nat /\ ui.held \in Nat
      /\ refused \in Nat /\ speech.token \in Nat /\ cmds \in Seq(Touch)
  BY DEF TypeOK, UiState, SpeechState
<1>2. x \in Touch /\ x.token = ui.held /\ ~x.down
  BY <1>1 DEF Touch
<1>3. ui'.token = ui.token /\ ui'.held = NoToken
  BY <1>0, <1>1 DEF UiState, NoToken
<1>4. /\ \A i \in DOMAIN cmds : i \in DOMAIN cmds' /\ cmds'[i] = cmds[i]
      /\ \A i \in DOMAIN cmds' : i \in DOMAIN cmds \/ cmds'[i] = x
      /\ Room(cmds, CmdCap) =>
            \E j \in DOMAIN cmds' : cmds'[j] = x /\ \A i \in DOMAIN cmds : i < j
      /\ DOMAIN cmds' \subseteq Nat \ {0}
  <2> HIDE DEF x
  <2> QED
    BY <1>0, <1>1, <1>2, OfferAdds
<1> HIDE DEF x
<1>5. TokensGrow'
  BY <1>0, <1>1, <1>2, <1>3, <1>4 DEF TouchInv, TokensGrow, NoToken
<1>6. /\ \A i \in DOMAIN cmds : ReleaseFrom(i) => ReleaseFrom(i)'
      /\ ReleaseFrom(1) => ReleaseFrom(1)'
  BY <1>0, <1>4 DEF ReleaseFrom
<1>7. HeldOrRefused =>
         HeldOrRefused' \/ (ReleaseFrom(1)' /\ \A i \in DOMAIN cmds : ReleaseFrom(i)')
  <2>1. CASE ui.held = speech.token /\ Room(cmds, CmdCap)
    BY <1>4, <2>1, <1>1, <1>0, <1>2 DEF ReleaseFrom
  <2>2. CASE ui.held = speech.token /\ ~Room(cmds, CmdCap)
    BY <1>0, <2>2 DEF HeldOrRefused
  <2>3. CASE ui.held # speech.token /\ refused = speech.token
    BY <1>0, <1>1, <2>3 DEF TypeOK, PublishedState, TouchInv, TokensGrow
  <2> QED
    BY <2>1, <2>2, <2>3 DEF HeldOrRefused
<1>8. PressesAreOwned'
  BY <1>0, <1>6, <1>7, <1>2, <1>4 DEF TouchInv, PressesAreOwned
<1> QED
  BY <1>0, <1>5, <1>8 DEF TouchInv, PressIsScoped

LEMMA TouchStep == TypeOK /\ TypeOK' /\ TouchInv /\ [Next]_vars => TouchInv'
<1> SUFFICES ASSUME TypeOK, TypeOK', TouchInv, [Next]_vars PROVE TouchInv'
  OBVIOUS
<1>0. /\ speech'.token \in Nat
      /\ cmds' = cmds => \A i \in DOMAIN cmds' : cmds'[i].token <= ui.token
  BY DEF TypeOK, SpeechState, TouchInv, TokensGrow
<1>1. CASE Poll
  <2>1. /\ ui' = [ui EXCEPT !.token = published.token, !.available = published.available]
        /\ UNCHANGED <<cmds, refused, speech, published, at>>
    BY <1>1 DEF Poll, sessionVars
  <2>2. /\ ui \in UiState /\ published.token \in Nat /\ ui.token \in Nat /\ ui.held \in Nat
        /\ refused \in Nat
    BY DEF TypeOK, UiState, PublishedState
  <2>3. ui'.token = published.token /\ ui'.held = ui.held
    BY <2>1, <2>2 DEF UiState
  <2>4. \A i \in DOMAIN cmds : cmds[i].token \in Nat
    <3>1. \A i \in DOMAIN cmds : cmds[i] \in Touch
      BY DEF TypeOK
    <3> QED
      BY <3>1 DEF Touch
  <2>5. TokensGrow'
    BY <2>1, <2>2, <2>3, <2>4 DEF TouchInv, TokensGrow
  <2> QED
    BY <2>1, <2>3, <2>5
       DEF TouchInv, PressesAreOwned, PressIsScoped, HeldOrRefused, ReleaseFrom
<1>2. CASE RecorderNext \/ ServerNext \/ DspNext \/ UNCHANGED vars
  <2>1. UNCHANGED <<ui, refused, cmds, speech, published, at>>
    BY <1>2 DEF RecorderNext, StartRead, Stamp, HandOver, ServerNext, ConnectionUp, TalkPower,
                Moved, ConnectionLost, ServerStep, DspNext, DspTake, DspCheck, DspProcess,
                DspEmit, DspStep, sessionVars, vars
  <2> QED
    BY <2>1 DEF TouchInv, TokensGrow, PressesAreOwned, PressIsScoped, HeldOrRefused, ReleaseFrom
<1>3. CASE LoopTop \/ (CommandNext /\ ~TakeTouch) \/ EventNext
  BY <1>0, <1>3, LoopTopShape, CommandShape, EventShape, RenewedStep, KeptStep
<1>4. CASE OfflineNext
  BY <1>4, OfflineShape, TailBounded, <1>0, RenewedStep, KeptStep DEF TouchInv, OfflineTouch
<1> QED
  BY <1>1, <1>2, <1>3, <1>4, TakeTouchStep, TouchDownStep, TouchUpStep DEF Next, UiNext

-----------------------------------------------------------------------------
(* The stream.                                                              *)

LEMMA FinishIsSilent == Finish => ~voice'.speaking
BY DEF Finish

\* A step that leaves the stream and what it needs alone.
Undisturbed ==
    /\ voice'.speaking => voice.speaking
    /\ at' \in {"top", "select"}
    /\ gate'.muted = gate.muted /\ gate'.subscribed = gate.subscribed
    /\ gate'.joins = gate.joins
    /\ speech'.mode = speech.mode /\ speech'.pressed = speech.pressed

LEMMA UndisturbedStep == StreamNeedsOpenGate /\ Undisturbed => StreamNeedsOpenGate'
BY DEF StreamNeedsOpenGate, Undisturbed

LEMMA SilentStep == ~voice'.speaking => StreamNeedsOpenGate'
BY DEF StreamNeedsOpenGate

LEMMA StreamLoopTop ==
    ASSUME TypeOK, PressIsScoped, StreamNeedsOpenGate, LoopTop
    PROVE  StreamNeedsOpenGate'
<1> DEFINE available == /\ gate.active /\ speech.ready /\ ~gate.switching
                        /\ AudioSendAllowed /\ gate.opus
           next == WithAvailable(speech, available)
           cut == speech.available /\ ~available /\ speech.mode = "push_to_talk"
<1>1. available \in BOOLEAN
  BY DEF TypeOK, GateState, SpeechState, AudioSendAllowed, CanSend, ConnState
<1>2. /\ next.mode = speech.mode
      /\ speech.available = available => next.pressed = speech.pressed
  BY <1>1, WithAvailableIs DEF TypeOK
<1>3. /\ speech' = next /\ at' = "select" /\ gate' = gate
      /\ IF cut THEN Flush /\ Finish ELSE KeepCapture /\ KeepVoice
  BY DEF LoopTop
<1>4. speech.available \in BOOLEAN
  BY DEF TypeOK, SpeechState
<1> HIDE DEF available, next
<1>5. CASE cut
  BY <1>3, <1>5, FinishIsSilent, SilentStep
<1>6. CASE ~cut
  BY <1>1, <1>2, <1>3, <1>4, <1>6 DEF KeepVoice, StreamNeedsOpenGate, PressIsScoped
<1> QED
  BY <1>5, <1>6

LEMMA StreamCommand ==
    ASSUME TypeOK, StreamNeedsOpenGate, CommandNext
    PROVE  StreamNeedsOpenGate'
<1> USE DEF InSession
<1>0. gate \in GateState /\ speech \in SpeechState
  BY DEF TypeOK
<1>1. CASE TakeTouch
  BY <1>1, FinishIsSilent, SilentStep, UndisturbedStep DEF TakeTouch, KeepVoice, Undisturbed
<1>2. CASE SetMode \/ CaptureStopped \/ Join \/ Disconnect
  BY <1>2, FinishIsSilent, SilentStep DEF SetMode, CaptureStopped, Join, Disconnect
<1>3. CASE Mute
  BY <1>3, FinishIsSilent, SilentStep, <1>0 DEF Mute, GateState, KeepVoice,
     StreamNeedsOpenGate
<1>4. CASE SetCaptureReady
  BY FinishIsSilent, SilentStep, <1>0, <1>4, ReadyKeeps, UndisturbedStep DEF SetCaptureReady,
     KeepVoice, Undisturbed
<1>5. CASE SetAppActive \/ SetNoiseSuppression
  BY FinishIsSilent, SilentStep, <1>0, <1>5, UndisturbedStep DEF SetAppActive,
     SetNoiseSuppression, GateState, KeepVoice, Undisturbed
<1> QED
  BY <1>1, <1>2, <1>3, <1>4, <1>5 DEF CommandNext

LEMMA StreamEvent ==
    ASSUME TypeOK, StreamNeedsOpenGate, EventNext
    PROVE  StreamNeedsOpenGate'
<1> USE DEF InSession
<1>0. gate \in GateState /\ voice \in VoiceState /\ gate.joins \in Nat
  BY DEF TypeOK, GateState
<1>1. CASE JoinResult
  BY <1>0, <1>1, SilentStep DEF JoinResult, KeepVoice, StreamNeedsOpenGate
<1>2. CASE TakeBookEvents \/ TakeAudioChange \/ VoiceExpires
  BY <1>2, FinishIsSilent, SilentStep DEF TakeBookEvents, TakeAudioChange, VoiceExpires
<1>3. CASE TakeDisconnected
  BY <1>3, SilentStep DEF TakeDisconnected
<1>4. CASE TakeBlock
  BY <1>4, UndisturbedStep DEF TakeBlock, KeepVoice, Undisturbed
<1>5. CASE TakeAudio
  BY FinishIsSilent, SilentStep, <1>5, UndisturbedStep DEF TakeAudio, KeepVoice, Undisturbed,
     SendingAllowed, AudioSendAllowed, StreamNeedsOpenGate
<1>6. CASE TakeGap
  BY <1>6, FinishIsSilent, SilentStep, UndisturbedStep DEF TakeGap, KeepVoice, Undisturbed
<1>7. CASE TakeCompleted
  BY <1>0, <1>7, UndisturbedStep DEF TakeCompleted, GateState, VoiceState, Undisturbed
<1> QED
  BY <1>1, <1>2, <1>3, <1>4, <1>5, <1>6, <1>7 DEF EventNext

LEMMA StreamStep ==
    TypeOK /\ PressIsScoped /\ StreamNeedsOpenGate /\ [Next]_vars => StreamNeedsOpenGate'
<1> SUFFICES ASSUME TypeOK, PressIsScoped, StreamNeedsOpenGate, [Next]_vars
             PROVE  StreamNeedsOpenGate'
  OBVIOUS
<1>1. CASE UiNext \/ RecorderNext \/ ServerNext \/ DspNext \/ UNCHANGED vars
  <2>1. UNCHANGED <<voice, at, gate, speech>>
    BY <1>1 DEF UiNext, Poll, TouchDown, TouchUp, RecorderNext, StartRead, Stamp, HandOver,
                ServerNext, ConnectionUp, TalkPower, Moved, ConnectionLost, ServerStep,
                DspNext, DspTake, DspCheck, DspProcess, DspEmit, DspStep, sessionVars, vars
  <2> QED
    BY <2>1 DEF StreamNeedsOpenGate
<1>2. CASE OfflineNext
  <2>1. CASE EndSession
    BY <2>1, SilentStep DEF EndSession
  <2>2. CASE at = "offline" /\ KeepVoice
    BY <2>2, SilentStep DEF KeepVoice, StreamNeedsOpenGate
  <2> QED
    BY <1>2, <2>1, <2>2
       DEF OfflineNext, Connect, OfflineTouch, OfflineSpeech, OfflineGate, Offline
<1> QED
  BY <1>1, <1>2, StreamLoopTop, StreamCommand, StreamEvent DEF Next

-----------------------------------------------------------------------------
\* A stream is open only while every gate is, and a press stands only for a touch
\* that is down, whose release is under way, or whose release the full channel
\* refused: whatever the size of the channel and however old the token the UI polled.
THEOREM OpenForAReasonHolds == Spec => []OpenForAReason
<1> DEFINE Inv == TouchInv /\ StreamNeedsOpenGate
<1>1. Init => Inv
  BY TouchInit DEF Init, StreamNeedsOpenGate
<1>2. TypeOK /\ TypeOK' /\ Inv /\ [Next]_vars => Inv'
  BY TouchStep, StreamStep DEF TouchInv
<1>3. Inv => OpenForAReason
  BY DEF TouchInv, PressesAreOwned, HeldOrRefused, ReleaseFrom, OpenForAReason,
         PressNeedsTouch
<1> QED
  BY <1>1, <1>2, <1>3, TypesHold, PTL DEF Spec

=============================================================================
