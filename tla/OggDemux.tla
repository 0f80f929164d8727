------------------------------ MODULE OggDemux ------------------------------
(***************************************************************************)
(* The audio source of internal/audio/opus: it runs ffmpeg over and over   *)
(* and cuts the Ogg pages of each run into Opus packets.                   *)
(*                                                                         *)
(* A page is a run of segments; a lacing value of 255 (full) says that the *)
(* packet goes on with the next segment, on the next page if need be. A    *)
(* segment is named by the run of ffmpeg and its place in the stream, so   *)
(* bytes that do not belong together can be told apart. The header packets *)
(* are one packet, the first; a packet's duration is left out.             *)
(***************************************************************************)
EXTENDS Integers, Sequences

CONSTANTS
    Segments,   \* segments ffmpeg writes in one run
    PageSize,   \* segments on a page, at most
    AudioRuns,  \* runs of ffmpeg
    AudioCap    \* packetBufferSize

ASSUME OggAssumption ==
    {Segments, PageSize, AudioRuns, AudioCap} \subseteq Nat \ {0}

VARIABLES
    full,       \* which lacing values of the stream are 255
    audio,      \* where Source.Run is
    process,    \* the current run of ffmpeg
    read,       \* segments of it that have been read
    partial,    \* the segments of a packet that goes on
    audioOut    \* Source.packets

oggVars == <<full, audio, process, read, partial, audioOut>>

OggInit ==
    /\ full \in [1..Segments -> BOOLEAN]
    /\ audio = "launch" /\ process = 0 /\ read = 0
    /\ partial = <<>> /\ audioOut = <<>>

-----------------------------------------------------------------------------
\* Mutated form: what is left of a packet outlives the process it came from.
LaunchAudioKeeps ==
    /\ audio = "launch" /\ process < AudioRuns
    /\ process' = process + 1 /\ read' = 0
    /\ audio' \in {"read", "backoff"}
    /\ UNCHANGED <<full, partial, audioOut>>

\* runSubprocess starts ffmpeg, or cannot; readPages begins with nothing carried.
LaunchAudio ==
    /\ audio = "launch" /\ process < AudioRuns
    /\ process' = process + 1 /\ read' = 0 /\ partial' = <<>>
    /\ audio' \in {"read", "backoff"}
    /\ UNCHANGED <<full, audioOut>>

\* The walk over the lacing values of the n segments that follow: the packets they
\* complete, and what is carried over to the next page.
Walk(n) ==
    LET upTo[i \in 0..n] ==
            IF i = 0 THEN [done |-> <<>>, acc |-> partial]
            ELSE LET acc == Append(upTo[i - 1].acc, <<process, read + i>>)
                 IN  IF full[read + i]
                     THEN [done |-> upTo[i - 1].done, acc |-> acc]
                     ELSE [done |-> Append(upTo[i - 1].done, acc), acc |-> <<>>]
    IN  upTo[n]

IsHeader(pkt) == Head(pkt)[2] = 1

\* handlePacket and emit: a header is skipped, a full channel loses its oldest.
EmitAudio(pkts) ==
    LET upTo[i \in 0..Len(pkts)] ==
            IF i = 0 THEN audioOut
            ELSE IF IsHeader(pkts[i]) THEN upTo[i - 1]
            ELSE Append(IF Len(upTo[i - 1]) < AudioCap THEN upTo[i - 1]
                        ELSE Tail(upTo[i - 1]), pkts[i])
    IN  upTo[Len(pkts)]

\* readPages reads a page.
ReadPage(n) ==
    /\ audio = "read" /\ read + n <= Segments
    /\ read' = read + n /\ partial' = Walk(n).acc
    /\ audioOut' = EmitAudio(Walk(n).done)
    /\ UNCHANGED <<full, audio, process>>

\* The stream ends or is cut within a page, or the device fails: ffmpeg is torn
\* down and started again after a pause.
AudioFails ==
    /\ audio = "read" /\ audio' = "backoff"
    /\ UNCHANGED <<full, process, read, partial, audioOut>>

Backoff ==
    /\ audio = "backoff" /\ audio' = "launch"
    /\ UNCHANGED <<full, process, read, partial, audioOut>>

\* The context is done: Run returns from wherever it is.
AudioEnds ==
    /\ audio # "ended" /\ audio' = "ended"
    /\ UNCHANGED <<full, process, read, partial, audioOut>>

\* The audio router takes a packet. (One it takes between two packets of a page is
\* taken before or after the page: whether a packet is whole does not depend on it.)
RouteAudio ==
    /\ audioOut # <<>> /\ audioOut' = Tail(audioOut)
    /\ UNCHANGED <<full, audio, process, read, partial>>

OggNext ==
    \/ LaunchAudio \/ AudioFails \/ Backoff \/ AudioEnds \/ RouteAudio
    \/ \E n \in 1..PageSize : ReadPage(n)

OggSpec == OggInit /\ [][OggNext]_oggVars

-----------------------------------------------------------------------------
(* Properties. *)

OggTypeOK ==
    /\ full \in [1..Segments -> BOOLEAN]
    /\ audio \in {"launch", "read", "backoff", "ended"}
    /\ process \in 0..AudioRuns /\ read \in 0..Segments
    /\ partial \in Seq((1..AudioRuns) \X (1..Segments))
    /\ \A i \in DOMAIN audioOut : audioOut[i] \in Seq((1..AudioRuns) \X (1..Segments))
    /\ Len(audioOut) <= AudioCap

\* The segments from i to j of a run are one packet of it, not the header.
OnePacket(i, j) ==
    /\ i > 1 /\ ~full[i - 1] /\ ~full[j]
    /\ \A k \in i..(j - 1) : full[k]

\* A packet begins before another one does, in an earlier run or in the same one.
Earlier(p, q) ==
    LET a == Head(p)
        b == Head(q)
    IN  a[1] < b[1] \/ (a[1] = b[1] /\ a[2] < b[2])

\* What goes to the track are whole Opus packets, in order and none of them twice,
\* however pages cut packets in two, channels overflow and ffmpeg dies in the middle
\* of one: a decoder chokes on half a packet and on two.
PacketsWhole ==
    /\ \A m \in DOMAIN audioOut :
        \E r \in 1..process : \E i, j \in 1..Segments :
            /\ i <= j /\ OnePacket(i, j)
            /\ audioOut[m] = [k \in 1..(j - i + 1) |-> <<r, i + k - 1>>]
    /\ \A m, n \in DOMAIN audioOut : m < n => Earlier(audioOut[m], audioOut[n])
=============================================================================
