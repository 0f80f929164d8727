------------------------------- MODULE AnnexB -------------------------------
(***************************************************************************)
(* The splitter of internal/encoder/ffmpeg/annexb.go: it cuts the byte     *)
(* stream of ffmpeg, read in chunks of any size, into access units.        *)
(*                                                                         *)
(* A NAL unit is three bytes here: the start code, the header with its     *)
(* type, and the rest, whose first bit says whether a slice begins a       *)
(* picture. A parameter set stands for SPS, PPS and SEI together. The      *)
(* splitter parses its whole buffer at every chunk, so an access unit is   *)
(* named by the first and the last of its NAL units.                       *)
(***************************************************************************)
EXTENDS Integers, Sequences, FiniteSets

CONSTANT MaxPictures    \* pictures in the stream

ASSUME SplitterAssumption == MaxPictures \in Nat \ {0}

VARIABLES
    nals,       \* the stream ffmpeg writes
    got,        \* its bytes that have been read
    bufStart,   \* the NAL unit the buffer begins with
    units,      \* the access units returned so far
    flushed     \* Flush has been called

splitVars == <<nals, got, bufStart, units, flushed>>

Nal(type, first) == [type |-> type, first |-> first]
Aud == Nal("aud", FALSE)
Sps == Nal("sps", FALSE)
Slices(type) == {<<Nal(type, TRUE)>>, <<Nal(type, TRUE), Nal(type, FALSE)>>}

\* An IDR picture comes with its parameter sets; a picture has one slice or more.
Picture == Slices("p") \cup {<<Sps>> \o slices : slices \in Slices("idr")}

\* Some encoders put a delimiter before every picture, libx264 does not.
Delimited == {<<Aud>> \o pic : pic \in Picture}

\* What an encoder writes: pictures, with or without delimiters, an IDR first.
Streams(pictures) ==
    LET upTo[n \in 0..MaxPictures] ==
            IF n = 0 THEN {<<>>}
            ELSE upTo[n - 1] \cup {p[1] \o p[2] : p \in upTo[n - 1] \X pictures}
    IN  {s \in upTo[MaxPictures] : s # <<>> /\ s[IF s[1] = Aud THEN 2 ELSE 1] = Sps}

SplitInit ==
    /\ nals \in Streams(Picture) \cup Streams(Delimited)
    /\ got = 0 /\ bufStart = 1 /\ units = {} /\ flushed = FALSE

-----------------------------------------------------------------------------
\* splitNALUs finds the NAL units whose header has been read.
Visible(k) == {i \in DOMAIN nals : 3 * i - 1 <= k}

IsVCL(i) == nals[i].type \in {"p", "idr"}

\* Mutated form: a slice whose first byte has not come begins a picture.
FirstSliceGuessed(i, k) == k < 3 * i \/ nals[i].first

\* A slice whose first byte has not come counts as a continuation for now.
FirstSlice(i, k) == 3 * i <= k /\ nals[i].first

\* drain's loop: where the access unit of every NAL unit begins, with k bytes read.
UnitStart(from, k) ==
    LET startOf[i \in Visible(k)] ==
            IF i <= from THEN from
            ELSE IF /\ \E j \in startOf[i - 1]..(i - 1) : IsVCL(j)
                    /\ nals[i].type = "aud" \/ (IsVCL(i) /\ FirstSlice(i, k))
                 THEN i ELSE startOf[i - 1]
    IN  {startOf[i] : i \in {j \in Visible(k) : j >= from}}

\* From every start to the NAL unit before the next one.
Between(starts) ==
    {<<p[1], p[2] - 1>> : p \in {q \in starts \X starts :
        q[1] < q[2] /\ \A t \in starts : t <= q[1] \/ t >= q[2]}}

\* Push: a chunk of any size; what it completes is returned and leaves the buffer.
Push(k) ==
    /\ ~flushed /\ got < k /\ k <= 3 * Len(nals)
    /\ got' = k
    /\ LET starts == UnitStart(bufStart, k) IN
        /\ units' = units \cup Between(starts)
        /\ bufStart' = IF starts = {} THEN bufStart
                       ELSE CHOOSE s \in starts : \A t \in starts : t <= s
    /\ UNCHANGED <<nals, flushed>>

\* Flush at the end of ffmpeg's output, which may have been cut short: the rest
\* of the buffer is the last access unit.
Flush ==
    /\ ~flushed /\ flushed' = TRUE
    /\ units' = units \cup
            {<<bufStart, e>> : e \in {i \in Visible(got) : i >= bufStart
                                                      /\ i + 1 \notin Visible(got)}}
    /\ UNCHANGED <<nals, got, bufStart>>

SplitNext == Flush \/ \E k \in 1..(3 * Len(nals)) : Push(k)
SplitSpec == SplitInit /\ [][SplitNext]_splitVars

-----------------------------------------------------------------------------
(* Properties. *)

SplitTypeOK ==
    /\ got \in 0..(3 * Len(nals)) /\ bufStart \in DOMAIN nals
    /\ units \subseteq (DOMAIN nals) \X (DOMAIN nals) /\ flushed \in BOOLEAN

\* What is returned of a stream that comes in one chunk and is then flushed.
Whole == Between(UnitStart(1, 3 * Len(nals)) \cup {Len(nals) + 1})

\* However the output of ffmpeg is cut into chunks, in the middle of a header or of
\* a slice, the access units are those of a stream that comes in one chunk. (Whether
\* these are the right ones is the next property's question.)
ChunkingInvisible ==
    /\ ~flushed => units \subseteq Whole
    /\ flushed /\ got = 3 * Len(nals) => units = Whole

\* The comment on drain: parameter sets that precede a picture are folded into its
\* access unit, "so an IDR AU carries its own SPS+PPS and is independently
\* decodable". Violated without delimiters: parameter sets do not begin a unit, so
\* those of a later IDR picture end the unit of the picture before it.
KeyframeCarriesParameterSets ==
    \A u \in units : \A i \in u[1]..u[2] : nals[i].type = "idr" =>
        \E j \in u[1]..(i - 1) : nals[j].type = "sps"

=============================================================================
