----------------------------- MODULE VideoPath -----------------------------
(***************************************************************************)
(* The video half of the host process: the capture source, the latency tap *)
(* and the encoder wrapper of internal/host/deps.go and the supervised     *)
(* ffmpeg subprocess of internal/encoder/ffmpeg. What the router does with *)
(* the packets is in ViewerConn.                                           *)
(*                                                                         *)
(* Raw frames are alike, so a channel of frames is a number; a packet is a *)
(* keyframe or not (its PTS, a count of packets, is left out); of the      *)
(* encoder's options only matters whether they changed. Every goroutine is *)
(* a variable that says where it is; a step is what it does between two    *)
(* points where another goroutine can tell the difference.                 *)
(***************************************************************************)
EXTENDS Integers, Sequences, FiniteSets

CONSTANTS
    FrameCap,   \* capacity of the channels of raw frames
    PacketCap   \* packetBufferSize

ASSUME VideoAssumption == FrameCap \in Nat \ {0} /\ PacketCap \in Nat \ {0}

VARIABLES
    stopping,   \* the errgroup's context is done
    capture,    \* Source.Run
    frames,     \* Source.frames
    tap,        \* latencyTap.run
    enc,        \* Encoder.Run and runSubprocess
    ff,         \* the ffmpeg process
    feed,       \* writeFrames, the loop that reads e.in
    frameQueue, \* its bounded queue
    writer,     \* its goroutine that writes to stdin
    packetReader,   \* readPackets
    packets,    \* Encoder.packets
    asked,      \* SetBitrate or ForceKeyframe has asked for another ffmpeg
    caller,     \* SetBitrate or ForceKeyframe, between unlock and signal
    restart,    \* Encoder.restart holds its one token
    wrap        \* encoderWrapper.Run

sourceVars == <<capture, frames, tap>>
procVars == <<enc, ff>>
feedVars == <<feed, frameQueue, writer>>
rateVars == <<asked, caller, restart>>
videoVars == <<stopping, sourceVars, procVars, feedVars, packetReader, packets,
               rateVars, wrap>>

\* An encoded packet is a keyframe or needs the one before it.
Key == "key"
Inter == "inter"
Packet == {Key, Inter}

VideoInit ==
    /\ stopping = FALSE
    /\ capture = "new" /\ frames = 0
    /\ tap = "recv"
    /\ enc = "launch" /\ ff = "off"
    /\ feed = "off" /\ frameQueue = 0 /\ writer = "off"
    /\ packetReader = "off"
    /\ packets = <<>>
    /\ asked = FALSE /\ caller = "idle" /\ restart = FALSE
    /\ wrap = "select"

Running == capture \notin {"new", "failed"}

\* The host is told to stop, or a module's error cancels the group's context.
StopHost ==
    /\ Running /\ ~stopping /\ stopping' = TRUE
    /\ UNCHANGED <<sourceVars, procVars, feedVars, packetReader, packets,
                   rateVars, wrap>>

-----------------------------------------------------------------------------
(* Capture and the latency tap. *)

\* Mutated form: nothing makes room.
DropOldestNot(n) == n + 1

\* A drop-oldest send: a full channel loses its oldest frame.
DropOldest(n) == IF n < FrameCap THEN n + 1 ELSE n

\* Start: the device is opened and streams, or host.Run returns before any module
\* runs.
StartCapture ==
    /\ capture = "new"
    /\ capture' \in {"run", "failed"}
    /\ UNCHANGED <<stopping, frames, tap, procVars, feedVars, packetReader,
                   packets, rateVars, wrap>>

\* Run receives a dequeued buffer: forward copies it (or skips one whose
\* geometry does not fit), then the buffer is requeued.
CaptureFrame ==
    /\ capture = "run"
    /\ frames' \in {frames, DropOldest(frames)}
    /\ UNCHANGED <<stopping, capture, tap, procVars, feedVars, packetReader,
                   packets, rateVars, wrap>>

\* Run ends: the context is done, or the device fails in DQBUF or QBUF, which is
\* reported on errs and is not fatal. frames is closed.
CaptureEnd ==
    /\ capture = "run"
    /\ capture' = "ended"
    /\ UNCHANGED <<stopping, frames, tap, procVars, feedVars, packetReader,
                   packets, rateVars, wrap>>

TapRecv ==
    /\ tap = "recv" /\ frames > 0 /\ Running
    /\ frames' = frames - 1 /\ tap' = "send"
    /\ UNCHANGED <<stopping, capture, procVars, feedVars, packetReader, packets,
                   rateVars, wrap>>

\* Mutated form: the blocking send does not watch the context.
TapEndWhenReceiving ==
    /\ tap = "recv" /\ (stopping \/ (capture = "ended" /\ frames = 0))
    /\ tap' = "ended"
    /\ UNCHANGED <<stopping, capture, frames, procVars, feedVars, packetReader,
                   packets, rateVars, wrap>>

\* run ends, in either select, and closes outCh.
TapEnd ==
    /\ \/ tap \in {"recv", "send"} /\ stopping
       \/ tap = "recv" /\ capture = "ended" /\ frames = 0
    /\ tap' = "ended"
    /\ UNCHANGED <<stopping, capture, frames, procVars, feedVars, packetReader,
                   packets, rateVars, wrap>>

-----------------------------------------------------------------------------
(* The encoder: requests, and the supervision of one ffmpeg at a time. *)

\* SetBitrate stores another rate under mu; the token is sent after it.
SetBitrate ==
    /\ Running /\ caller = "idle"
    /\ asked' = TRUE /\ caller' = "signal"
    /\ UNCHANGED <<restart, stopping, sourceVars, procVars, feedVars,
                   packetReader, packets, wrap>>

\* ForceKeyframe, past its debounce: a new ffmpeg begins with a keyframe.
ForceKeyframe ==
    /\ Running /\ caller = "idle"
    /\ asked' = TRUE /\ caller' = "signal"
    /\ UNCHANGED <<restart, stopping, sourceVars, procVars, feedVars,
                   packetReader, packets, wrap>>

\* The token: a second one is not stored.
RequestRestart ==
    /\ caller = "signal"
    /\ restart' = TRUE /\ caller' = "idle"
    /\ UNCHANGED <<asked, stopping, sourceVars, procVars, feedVars,
                   packetReader, packets, wrap>>

\* runCtx is done: runSubprocess has cancelled it, or its parent, the context of
\* the module, is done.
Cancelled == stopping \/ enc \in {"restarting", "ending"}

\* runSubprocess reads the options ...
BuildArgs ==
    /\ Running /\ enc = "launch"
    /\ asked' = FALSE /\ enc' = "start"
    /\ UNCHANGED <<ff, stopping, sourceVars, feedVars, packetReader, packets,
                   caller, restart, wrap>>

\* Mutated form: a pending restart request is thrown away at the launch.
StartFFmpegFresh ==
    /\ enc = "start" /\ ~stopping
    /\ enc' = "select" /\ ff' = "up"
    /\ feed' = "on" /\ frameQueue' = 0 /\ writer' = "on"
    /\ packetReader' = "read"
    /\ restart' = FALSE
    /\ UNCHANGED <<stopping, sourceVars, packets, asked, caller, wrap>>

\* ... starts ffmpeg and the goroutines around it,
StartFFmpeg ==
    /\ enc = "start" /\ ~stopping
    /\ enc' = "select" /\ ff' = "up"
    /\ feed' = "on" /\ frameQueue' = 0 /\ writer' = "on"
    /\ packetReader' = "read"
    /\ UNCHANGED <<stopping, sourceVars, packets, rateVars, wrap>>

\* or fails to: Run returns the error, which encoderWrapper.Run discards.
StartFails ==
    /\ enc = "start"
    /\ enc' = "ended"
    /\ UNCHANGED <<ff, stopping, sourceVars, feedVars, packetReader, packets,
                   rateVars, wrap>>

\* runSubprocess's select: a done context, a restart token or the exit of ffmpeg.
Supervise(case) ==
    /\ enc = "select"
    /\ \/ case = "stop" /\ stopping /\ UNCHANGED restart
       \/ case = "restart" /\ restart /\ restart' = FALSE
       \/ case = "exit" /\ ff = "off" /\ UNCHANGED restart
    /\ enc' = IF case = "restart" THEN "restarting" ELSE "ending"
    /\ UNCHANGED <<ff, stopping, sourceVars, feedVars, packetReader, packets,
                   asked, caller, wrap>>

Helpers == {feed, writer, packetReader}

\* Mutated form: the goroutines are not waited for.
TornDownNoWait ==
    /\ enc \in {"restarting", "ending"} /\ ff = "off"
    /\ enc' = IF enc = "restarting" /\ ~stopping THEN "launch" ELSE "ended"
    /\ UNCHANGED <<ff, stopping, sourceVars, feedVars, packetReader, packets,
                   rateVars, wrap>>

\* ffmpeg has exited and the goroutines are done: Run loops after a restart, else
\* it returns and packets is closed.
TornDown ==
    /\ enc \in {"restarting", "ending"} /\ ff = "off" /\ Helpers = {"off"}
    /\ enc' = IF enc = "restarting" /\ ~stopping THEN "launch" ELSE "ended"
    /\ UNCHANGED <<ff, stopping, sourceVars, feedVars, packetReader, packets,
                   rateVars, wrap>>

\* ffmpeg exits: it is killed with runCtx, has read EOF and encoded what it had,
\* or it fails.
FFmpegExits(cause) ==
    /\ ff = "up"
    /\ \/ cause = "killed" /\ Cancelled
       \/ cause = "eof" /\ writer = "off"
       \/ cause = "failed"
    /\ ff' = "off"
    /\ UNCHANGED <<enc, stopping, sourceVars, feedVars, packetReader, packets,
                   rateVars, wrap>>

-----------------------------------------------------------------------------
(* writeFrames. *)

\* A frame is queued, the oldest gives way; one of another size or format than
\* ffmpeg was told is skipped.
FeedFrame ==
    /\ feed = "on" /\ tap = "send"
    /\ tap' = "recv"
    /\ frameQueue' \in {frameQueue, DropOldest(frameQueue)}
    /\ UNCHANGED <<feed, writer, stopping, capture, frames, procVars,
                   packetReader, packets, rateVars, wrap>>

\* The input is closed or runCtx done: the queue is closed, the writer waited for.
FeedEnd ==
    /\ \/ feed = "on" /\ (Cancelled \/ tap = "ended") /\ feed' = "closing"
          /\ UNCHANGED frameQueue
       \/ feed = "closing" /\ writer = "off" /\ feed' = "off" /\ frameQueue' = 0
    /\ UNCHANGED <<writer, stopping, sourceVars, procVars, packetReader,
                   packets, rateVars, wrap>>

WriterTake ==
    /\ writer = "on" /\ frameQueue > 0
    /\ frameQueue' = frameQueue - 1 /\ writer' = "write"
    /\ UNCHANGED <<feed, stopping, sourceVars, procVars, packetReader, packets,
                   rateVars, wrap>>

\* stdin.Write fails once ffmpeg is gone; until then it blocks while ffmpeg does
\* not read.
WriterFails ==
    /\ writer = "write" /\ ff = "off"
    /\ writer' = "off"
    /\ UNCHANGED <<feed, frameQueue, stopping, sourceVars, procVars,
                   packetReader, packets, rateVars, wrap>>

\* The goroutine returns and closes stdin.
WriterEnd ==
    /\ writer = "on"
    /\ Cancelled \/ (feed = "closing" /\ frameQueue = 0)
    /\ writer' = "off"
    /\ UNCHANGED <<feed, frameQueue, stopping, sourceVars, procVars,
                   packetReader, packets, rateVars, wrap>>

-----------------------------------------------------------------------------
(* readPackets and emitPacket. *)

\* Mutated form: the oldest packet is dropped whatever it is.
MakeRoomPlain(pkt) ==
    packets # <<>> /\ packets' = Append(Tail(packets), pkt)

\* The slow path of emitPacket, after the channel was full: the oldest packet makes
\* room unless it is a keyframe, which is put back (behind the others) while the
\* new packet is dropped. The wrapper may have taken packets meanwhile; a done
\* runCtx may drop the new packet too.
MakeRoom(pkt) ==
    \/ /\ packets # <<>> /\ Head(packets) = Key
       /\ packets' = Append(Tail(packets), Key)
    \/ /\ packets # <<>> /\ Head(packets) # Key
       /\ \/ packets' = Append(Tail(packets), pkt)
          \/ Cancelled /\ packets' = Tail(packets)
    \/ packets = <<>> /\ Cancelled /\ UNCHANGED packets

EmitPacket(pkt) ==
    \/ Len(packets) < PacketCap /\ packets' = Append(packets, pkt)
    \/ MakeRoom(pkt)

\* ffmpeg takes a frame from its stdin, and readPackets gets an access unit.
EncodeFrame(pkt) ==
    /\ ff = "up" /\ writer = "write" /\ packetReader = "read"
    /\ writer' = "on"
    /\ EmitPacket(pkt)
    /\ UNCHANGED <<feed, frameQueue, packetReader, stopping, sourceVars,
                   procVars, rateVars, wrap>>

\* stdout ends: the splitter's last access unit is flushed at EOF; a done runCtx
\* or a pipe that cmd.Wait has closed ends the loop without it.
ReaderFlush(pkt) ==
    /\ packetReader = "read" /\ ff = "off"
    /\ packetReader' = "off"
    /\ EmitPacket(pkt)
    /\ UNCHANGED <<stopping, sourceVars, procVars, feedVars, rateVars, wrap>>

ReaderEnd ==
    /\ packetReader = "read" /\ ff = "off"
    /\ packetReader' = "off"
    /\ UNCHANGED <<packets, stopping, sourceVars, procVars, feedVars, rateVars,
                   wrap>>

-----------------------------------------------------------------------------
(* encoderWrapper.Run. *)

\* A packet goes on to outCh, which the router empties without ever blocking
\* (Forward of ViewerConn); a done context gives it up.
WrapForward ==
    /\ wrap = "select" /\ packets # <<>>
    /\ packets' = Tail(packets)
    /\ UNCHANGED <<wrap, stopping, sourceVars, procVars, feedVars, packetReader,
                   rateVars>>

\* The encoder's packets are over, or the context is done and what is left is
\* drained in the background.
WrapStop ==
    /\ wrap = "select"
    /\ \/ enc = "ended" /\ packets = <<>> /\ UNCHANGED packets
       \/ stopping /\ packets' = <<>>
    /\ wrap' = "wait"
    /\ UNCHANGED <<stopping, sourceVars, procVars, feedVars, packetReader,
                   rateVars>>

\* wg.Wait: the tap and the encoder are over; outCh is closed.
WrapEnd ==
    /\ wrap = "wait" /\ tap = "ended" /\ enc = "ended"
    /\ wrap' = "ended"
    /\ UNCHANGED <<stopping, sourceVars, procVars, feedVars, packetReader,
                   packets, rateVars>>

-----------------------------------------------------------------------------
TapStep == TapRecv \/ TapEnd
EncoderStep ==
    \/ BuildArgs \/ StartFFmpeg \/ StartFails \/ TornDown
    \/ \E case \in {"stop", "restart", "exit"} : Supervise(case)
FeedStep == FeedFrame \/ FeedEnd
WriterStep == WriterTake \/ WriterFails \/ WriterEnd
ReaderStep ==
    \/ \E pkt \in Packet : EncodeFrame(pkt) \/ ReaderFlush(pkt)
    \/ ReaderEnd
WrapStep == WrapForward \/ WrapStop \/ WrapEnd

VideoNext ==
    \/ StopHost \/ StartCapture \/ CaptureFrame \/ CaptureEnd
    \/ TapStep
    \/ SetBitrate \/ ForceKeyframe \/ RequestRestart
    \/ EncoderStep
    \/ \E cause \in {"killed", "eof", "failed"} : FFmpegExits(cause)
    \/ FeedStep \/ WriterStep \/ ReaderStep \/ WrapStep

VideoSpec == VideoInit /\ [][VideoNext]_videoVars

\* Every goroutine runs, ffmpeg is killed with its context and exits at the end of
\* its input, and a capture source whose context is done ends. Nothing is assumed
\* of the device, of viewers or of callers.
VideoFairness ==
    /\ WF_videoVars(stopping /\ CaptureEnd)
    /\ WF_videoVars(TapStep)
    /\ WF_videoVars(EncoderStep)
    /\ WF_videoVars(FFmpegExits("killed") \/ FFmpegExits("eof"))
    /\ WF_videoVars(FeedStep)
    /\ WF_videoVars(WriterStep)
    /\ WF_videoVars(ReaderStep)
    /\ WF_videoVars(WrapStep)
    /\ WF_videoVars(RequestRestart)

-----------------------------------------------------------------------------
(* Properties. *)

VideoTypeOK ==
    /\ stopping \in BOOLEAN
    /\ capture \in {"new", "failed", "run", "ended"} /\ tap \in {"recv", "send", "ended"}
    /\ {frames, frameQueue} \subseteq 0..FrameCap
    /\ enc \in {"launch", "start", "select", "restarting", "ending", "ended"}
    /\ ff \in {"up", "off"} /\ asked \in BOOLEAN
    /\ feed \in {"on", "closing", "off"} /\ writer \in {"on", "write", "off"}
    /\ packetReader \in {"read", "off"}
    /\ packets \in Seq(Packet) /\ Len(packets) <= PacketCap
    /\ caller \in {"idle", "signal"} /\ restart \in BOOLEAN
    /\ wrap \in {"select", "wait", "ended"}

\* Encoder.Run closes packets, or launches the next ffmpeg, only when the one
\* before has exited and its three goroutines are over: nobody sends on a closed
\* channel, and two processes never feed one stream.
OneSubprocess ==
    enc \in {"launch", "start", "ended"} => ff # "up" /\ Helpers = {"off"}

\* No change of bitrate and no request for a keyframe is lost: an ffmpeg whose
\* arguments were built before it has a restart token waiting for it, or about to
\* be sent. (Requests are not synchronised with the launch, and they coalesce.)
RequestApplied ==
    enc \in {"start", "select"} /\ asked => restart \/ caller = "signal"

Keyframes(q) == Cardinality({i \in DOMAIN q : q[i] = Key})

\* A keyframe in the encoder's channel leaves it for the wrapper only: making room
\* for newer packets never costs a queued keyframe. (The wrapper throws away what
\* is left when the host stops.)
QueuedKeyframeKept ==
    [][Keyframes(packets') < Keyframes(packets) =>
        stopping \/ WrapForward]_videoVars

MediaOver == {capture, tap, enc, wrap} = {"ended"}

\* A cancelled context ends every goroutine of the pipeline, whatever each of them
\* was blocked on: errgroup's Wait, and with it the process, returns.
ShutdownCompletes == stopping ~> MediaOver

=============================================================================
