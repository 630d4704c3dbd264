------------------------------ MODULE TurnStream ------------------------------
(***************************************************************************)
(* The reader of TURN over TCP or TLS (TurnStreamReader of turn_stream.rs).*)
(*                                                                         *)
(* The server sends frames, the connection delivers bytes in pieces of any *)
(* size, and read_frame cuts the frames out again.  A stream is the        *)
(* frames not taken yet and the number of their bytes in the buffer; a     *)
(* reader that cuts anywhere but between two frames finds no header.       *)
(***************************************************************************)
EXTENDS Naturals, Sequences, FiniteSets

CONSTANTS StreamFrames,   \* the frames the server may send: kind and declared length
          MaxControlFrame,\* MAX_CONTROL_FRAME_BYTES
          MaxDataFrame,   \* MAX_DATA_FRAME_BYTES
          ReadBuffer,     \* STREAM_READ_BUFFER_BYTES
          MaxFrames, MaxPool   \* bounds: the streams and pools the check tries

Padding(declared) == (4 - (declared % 4)) % 4

\* Bytes of a frame on the wire (RFC 8656: ChannelData is padded on a stream).
WireBytes(f) == IF f.kind = "control" THEN 20 + f.declared ELSE 4 + f.declared + Padding(f.declared)

ASSUME StreamAssumption ==
    /\ {MaxControlFrame, MaxDataFrame, ReadBuffer, MaxFrames, MaxPool} \subseteq Nat
    /\ MaxControlFrame <= ReadBuffer /\ MaxDataFrame <= ReadBuffer
    /\ StreamFrames \subseteq [kind : {"control", "data"}, declared : Nat]
    /\ \A f \in StreamFrames :
          IF f.kind = "control" THEN f.declared % 4 = 0 /\ WireBytes(f) <= MaxControlFrame
                                ELSE WireBytes(f) <= MaxDataFrame

NeedMore == [step |-> "more", bytes |-> 0]
Bail == [step |-> "bail", bytes |-> 0]
Take(n) == [step |-> "take", bytes |-> n]

\* frame_start: the bytes that a header makes the reader wait for.
FrameBytesUnpadded(f) == IF f.kind = "control" THEN 20 + f.declared ELSE 4 + f.declared
FrameBytes(f) ==
    IF f.kind = "control" THEN 20 + f.declared ELSE 4 + f.declared + Padding(f.declared)

\* frame_start and decode_frame on the first have bytes of frame f: the length
\* is in the first four bytes, the cookie of a control frame in the next four.
decode_frame(f, have) ==
    LET control == f.kind = "control"
    IN  IF have < 4 THEN NeedMore
        ELSE IF control /\ f.declared % 4 # 0 THEN Bail
        ELSE IF FrameBytes(f) > (IF control THEN MaxControlFrame ELSE MaxDataFrame) THEN Bail
        ELSE IF (control /\ have < 8) \/ have < FrameBytes(f) THEN NeedMore
        ELSE Take(FrameBytes(f))

\* ChannelData is copied to a pooled packet, or dropped when the pool is empty.
copy_channel_data(f, pool) == IF pool = 0 THEN "dropped" ELSE "data"

\* One call of read_frame, as far as it gets: it returns the next frame or waits
\* for the connection.  What is left: bytes in the buffer, free packets.
read_frame(frames, s) ==
    LET f == frames[Len(s.out) + 1]
        d == decode_frame(f, s.have)
        got == IF f.kind = "control" THEN "control" ELSE copy_channel_data(f, s.pool)
    IN  IF Len(s.out) = Len(frames) THEN s
        ELSE IF d.step = "bail" \/ (d.step = "take" /\ d.bytes # WireBytes(f)) THEN [s EXCEPT !.ok = FALSE]
        ELSE IF d.step = "more" THEN [s EXCEPT !.ok = s.have < ReadBuffer]
        ELSE [s EXCEPT !.have = @ - d.bytes, !.out = Append(@, got),
                       !.pool = IF got = "data" THEN @ - 1 ELSE @]

\* The reader after each of as many calls as there are frames, with the first
\* have bytes of the stream delivered; none before the first call at 0.
Reader(frames, have, pool) ==
    LET s[k \in 0 .. Len(frames)] ==
            IF k = 0 THEN [have |-> have, pool |-> pool, out |-> <<>>, ok |-> TRUE]
            ELSE read_frame(frames, s[k - 1])
    IN  s

-----------------------------------------------------------------------------
\* Where each frame of a stream ends, the first one starting at 0.
Ends(frames) ==
    LET end[i \in 0 .. Len(frames)] == IF i = 0 THEN 0 ELSE end[i - 1] + WireBytes(frames[i])
    IN  end

DataBefore(frames, i) == {j \in 1 .. i - 1 : frames[j].kind = "data"}

\* The reader returns the frames that have arrived completely, each once and in
\* order, and is then between two frames; the buffer limit never cuts a legal
\* frame off, and an empty pool costs the packet and not the position.
ReturnsFrames(frames, have, pool) ==
    LET r == Reader(frames, have, pool)[Len(frames)]
        n == Len(r.out)
        end == Ends(frames)
    IN  /\ r.ok
        /\ n <= Len(frames) /\ end[n] <= have /\ r.have = have - end[n]
        /\ n < Len(frames) => have < end[n + 1]
        /\ \A i \in 1 .. n :
              r.out[i] = IF frames[i].kind = "control" THEN "control"
                         ELSE IF Cardinality(DataBefore(frames, i)) < pool THEN "data" ELSE "dropped"

\* So it does however the connection splits the stream, also inside a header or
\* inside the padding.
FramesSurviveSplits ==
    \A frames \in UNION {[1 .. k -> StreamFrames] : k \in 0 .. MaxFrames} :
        \A have \in 0 .. Ends(frames)[Len(frames)] : \A pool \in 0 .. MaxPool :
            ReturnsFrames(frames, have, pool)
=============================================================================
