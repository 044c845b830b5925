------------------------------ MODULE OutputCapture ------------------------------
(***************************************************************************)
(* limitedWriter: what Runner keeps of one stream of a command and what it *)
(* publishes while the command runs.  It keeps the beginning and the end   *)
(* of a long stream, and publishes everything before the trailer, although *)
(* the trailer may be split between two chunks of the SSH connection and   *)
(* the output may look like the beginning of one.                          *)
(*                                                                         *)
(* Run ends with the session, or breaks it off at its timer or at the end  *)
(* of its request; finishCallback is called in both cases, but only the    *)
(* first has waited for the goroutine that copies the output.  After a     *)
(* command was broken off the two use the writer at once.  A chunk is one  *)
(* step here; no property relies on it once finishCallback has begun.      *)
(***************************************************************************)
EXTENDS Integers, SequencesExt

CONSTANTS
    Bytes,     \* symbols of a stream
    Marker,    \* the marker that begins the trailer, a sequence of them
    CaptureLimit, \* bytes kept, 256 KiB in the code
    MaxBytes,  \* bound: length of the stream
    MaxChunk   \* bound: length of a chunk

ASSUME CaptureConstantsOK ==
    /\ Marker \in Seq(Bytes) /\ Marker # <<>>
    /\ CaptureLimit \in Nat /\ MaxBytes \in Nat /\ MaxChunk \in Nat

VARIABLES
    stream,    \* history: all that has been written
    head, tail,
    pending,   \* bytes that may be the beginning of the marker
    stopped,   \* the marker has been seen
    emitted,   \* what has been published
    ending,    \* what Run's select took: the end of the session, or the command is broken off
    flush      \* finishCallback: not called, its pending bytes published, or over

capVars == <<stream, head, tail, pending, stopped, emitted, ending, flush>>

CapInit ==
    /\ stream = <<>> /\ head = <<>> /\ tail = <<>>
    /\ pending = <<>> /\ emitted = <<>>
    /\ stopped = FALSE
    /\ ending = "none" /\ flush = "no"

Begin(s, n) == SubSeq(s, 1, n)
End(s, n)   == SubSeq(s, Len(s) - n + 1, Len(s))
HeadLimit == (CaptureLimit + 1) \div 2

\* The head takes what it still has room for, the tail keeps the last of the rest.
Keep(p) ==
    LET room == Min({HeadLimit - Len(head), Len(p)})
        rest == tail \o End(p, Len(p) - room)
    IN /\ head' = head \o Begin(p, room)
       /\ tail' = End(rest, Min({Len(rest), CaptureLimit - HeadLimit}))

\* Positions at which the marker begins.
Found(s) ==
    {i \in 1 .. Len(s) - Len(Marker) + 1 : SubSeq(s, i, i + Len(Marker) - 1) = Marker}

Earliest(places) == CHOOSE i \in places : \A j \in places : i <= j

\* Mutated EmitCallback: one byte too few is held back.
EmitEarly(p) ==
    LET all  == pending \o p
        hold == Min({Len(all), Len(Marker) - 2})
    IN IF stopped THEN UNCHANGED <<pending, stopped, emitted>>
       ELSE /\ stopped' = (Found(all) # {})
            /\ emitted' = emitted \o Begin(all, IF stopped' THEN Earliest(Found(all)) - 1
                                                ELSE Len(all) - hold)
            /\ pending' = IF stopped' THEN <<>> ELSE End(all, hold)

\* All but the last bytes that could still become a marker go out.
EmitCallback(p) ==
    LET all  == pending \o p
        hold == Min({Len(all), Len(Marker) - 1})
    IN IF stopped THEN UNCHANGED <<pending, stopped, emitted>>
       ELSE IF Found(all) # {}
       THEN /\ emitted' = emitted \o Begin(all, Earliest(Found(all)) - 1)
            /\ pending' = <<>>
            /\ stopped' = TRUE
       ELSE /\ emitted' = emitted \o Begin(all, Len(all) - hold)
            /\ pending' = End(all, hold)
            /\ UNCHANGED stopped

\* Wait returns when everything has been copied; nothing else keeps the copying goroutine from
\* writing.
WriteChunk(p) ==
    /\ ending # "waited"
    /\ Len(stream) + Len(p) <= MaxBytes
    /\ stream' = stream \o p
    /\ Keep(p)
    /\ EmitCallback(p)
    /\ UNCHANGED <<ending, flush>>

\* Run's select: the session is over, or the timer or the request's context came first.
EndSession ==
    /\ ending = "none"
    /\ ending' \in {"waited", "brokenOff"}
    /\ UNCHANGED <<stream, head, tail, pending, stopped, emitted, flush>>

\* finishCallback: what was held back was output after all ...
PublishPending ==
    /\ ending # "none" /\ flush = "no"
    /\ flush' = "published"
    /\ emitted' = IF stopped THEN emitted ELSE emitted \o pending
    /\ UNCHANGED <<stream, head, tail, pending, stopped, ending>>

\* ... and is forgotten.  The writer itself is not told that it is over.
DropPending ==
    /\ flush = "published"
    /\ flush' = "over"
    /\ pending' = <<>>
    /\ UNCHANGED <<stream, head, tail, stopped, emitted, ending>>

Chunks == UNION {[1 .. n -> Bytes] : n \in 1 .. MaxChunk}

CapNext ==
    \/ \E p \in Chunks : WriteChunk(p)
    \/ EndSession \/ PublishPending \/ DropPending

CapSpec == CapInit /\ [][CapNext]_capVars

-----------------------------------------------------------------------------
\* What is kept is the stream, or of a longer one its two ends, wherever the chunks were cut
\* (Write, captured).
CapturedIsEnds ==
    head \o tail = IF Len(stream) <= CaptureLimit THEN stream
                   ELSE Begin(stream, HeadLimit) \o End(stream, CaptureLimit - HeadLimit)

Output == IF Found(stream) = {} THEN stream ELSE Begin(stream, Earliest(Found(stream)) - 1)

\* While the command runs, and until finishCallback begins however it ends, what is published is
\* the output up to the trailer: never a byte of the trailer, nothing twice or out of order, and
\* all but the last few bytes.  After a command that ended by itself nothing is missing either.
\* What a command that was broken off still publishes after finishCallback is not covered: see
\* TrailerHidden (emitCallback, finishCallback).
LiveIsOutput ==
    /\ ending # "brokenOff" \/ flush = "no" =>
          /\ IsPrefix(emitted, Output)
          /\ Len(Output) - Len(emitted) < Len(Marker)
    /\ ending = "waited" /\ flush # "no" => emitted = Output

\* What limitedOutput keeps is the two ends of the stream, and what its callback publishes is the
\* output before the trailer, as far as LiveIsOutput says.
CaptureExact == CapturedIsEnds /\ LiveIsOutput

\* The claim of the writer's test and of the comment on emitCallback: the live output never
\* contains the trailer, although a marker may be split between two chunks.
TrailerHidden == Found(emitted) = {}

=============================================================================
