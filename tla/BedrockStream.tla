--------------------------- MODULE BedrockStream ---------------------------
(***************************************************************************)
(* The relay of a streamed Bedrock Mantle answer (bedrock_mantle.rs):      *)
(* validate_stream_identity holds the stream back until its message_start  *)
(* event, whose model it replaces by the canonical one, and guard_stream   *)
(* then passes the bytes on chunk by chunk while it frames and judges the  *)
(* events in them.                                                         *)
(*                                                                         *)
(* A byte is one of the two line-end characters or a symbol that stands    *)
(* for the lines of a whole event; what the symbols keep of the text is    *)
(* the event's kind and, for message_start, whose model it names.          *)
(***************************************************************************)
EXTENDS Naturals, Sequences, FiniteSets, Option

CONSTANTS
    Bytes,          \* what the upstream may send, a subset of Byte
    MaxChunk,       \* bound on the bytes of one chunk
    MaxPreamble,    \* MAX_STREAM_PREAMBLE
    MaxFrame,       \* MAX_STREAM_FRAME
    MaxBody,        \* MAX_RESPONSE_BODY
    MaxInput        \* bound on the bytes of a stream

Byte == {"lf", "cr", "named", "foreign", "canonical", "stop", "delta", "ping", "junk"}

ASSUME BoundsAssumption ==
    /\ Bytes \subseteq Byte
    /\ MaxChunk \in Nat /\ MaxInput \in Nat
    /\ MaxPreamble \in Nat /\ MaxFrame \in Nat /\ MaxBody \in Nat
    /\ None \notin [start : Nat, after : Nat]

VARIABLES
    pc,         \* "preamble": scan the buffer, "validate": await a chunk of it;
                \* "scan": scan the pending bytes, "guard": await a chunk; "ended"
    buffer,     \* validate_stream_identity: buffer, scanned, preamble_bytes
    scanned,
    preamble,
    pending,    \* guard_stream: pending, total, started, terminal
    total,
    started,
    terminal,
    consumed,   \* within one poll of guard_stream: consumed, scanned, chunk
    base,
    chunk,
    end,        \* how the stream ended, or None
    stream,     \* history: every byte given to guard_stream
    out         \* the bytes released to the buyer

vars == <<pc, buffer, scanned, preamble, pending, total, started, terminal,
          consumed, base, chunk, end, stream, out>>

-----------------------------------------------------------------------------
(* Framing and parsing                                                     *)

Drop(b, n) == SubSeq(b, n + 1, Len(b))

(* The separators of b: how many bytes precede one, how many follow from.  *)
Separators(b) ==
    {[start |-> i - 1, after |-> i + 1] :
        i \in {j \in 1 .. Len(b) - 1 : b[j] = "lf" /\ b[j + 1] = "lf"}}
    \cup
    {[start |-> i - 1, after |-> i + 3] :
        i \in {j \in 1 .. Len(b) - 3 : /\ b[j] = "cr" /\ b[j + 1] = "lf"
                                       /\ b[j + 2] = "cr" /\ b[j + 3] = "lf"}}

find_sse_frame(b) ==
    IF Separators(b) = {} THEN None
    ELSE CHOOSE s \in Separators(b) : \A r \in Separators(b) : s.start <= r.start

LineStart(f, i) == i = 1 \/ f[i - 1] = "lf"

(***************************************************************************)
(* A line of carriage returns is empty once str::lines and strip_suffix    *)
(* have taken theirs: two of a line that ends in a line feed, one of the   *)
(* frame's last line.                                                      *)
(***************************************************************************)
BlankLinesStripped(f) ==
    \A i \in DOMAIN f : \A j \in i .. Len(f) :
        /\ LineStart(f, i)
        /\ \A k \in i .. j : f[k] = "cr"
        /\ j = Len(f) \/ f[j + 1] = "lf"
        => j - i + 1 <= IF j = Len(f) THEN 1 ELSE 2

EventOf(byte) ==
    CASE byte \in {"named", "foreign", "canonical"} -> "message_start"
      [] byte = "stop"  -> "terminal"
      [] byte = "delta" -> "other"
      [] byte = "ping"  -> "neutral"
      [] OTHER          -> "bad"

(***************************************************************************)
(* A frame holds one event, from the start of a line.  MessageStop and     *)
(* Error are both terminal; Empty, Ping and Unknown are both neutral.      *)
(***************************************************************************)
parse_stream_event(f) ==
    LET events == {i \in DOMAIN f : f[i] \notin {"lf", "cr"}} IN
    IF ~BlankLinesStripped(f) THEN "bad"
    ELSE IF events = {} THEN "neutral"
    ELSE IF Cardinality(events) > 1 THEN "bad"
    ELSE LET i == CHOOSE i \in events : TRUE IN
         IF LineStart(f, i) THEN EventOf(f[i]) ELSE "bad"

Holds(f, byte) == \E i \in DOMAIN f : f[i] = byte

-----------------------------------------------------------------------------
Init ==
    /\ pc = "validate"
    /\ buffer = <<>> /\ scanned = 0 /\ preamble = 0
    /\ pending = <<>> /\ total = 0 /\ started = FALSE /\ terminal = FALSE
    /\ consumed = 0 /\ base = 0 /\ chunk = <<>>
    /\ end = None
    /\ stream = <<>> /\ out = <<>>

Guarding == <<pending, total, started, terminal, consumed, base, chunk, stream, out>>
Validating == <<buffer, scanned, preamble>>

(* A chunk of the upstream's body, of which some are empty.                *)
Chunk(c) ==
    /\ c \in UNION {[1 .. n -> Bytes] : n \in 0 .. MaxChunk}
    /\ Len(buffer) + Len(stream) + Len(c) <= MaxInput

EndsWith(why) == pc' = "ended" /\ end' = why

-----------------------------------------------------------------------------
(* validate_stream_identity                                                *)

PreambleChunk ==
    /\ pc = "validate"
    /\ \E c \in UNION {[1 .. n -> Bytes] : n \in 0 .. MaxChunk} :
          /\ Chunk(c)
          /\ buffer' = buffer \o c
    /\ pc' = "preamble"
    /\ UNCHANGED <<scanned, preamble, end>> /\ UNCHANGED Guarding

PreambleStops ==
    /\ pc = "validate"
    /\ \E why \in {"upstream", "upstream_transport"} : EndsWith(why)
    /\ UNCHANGED Validating /\ UNCHANGED Guarding

PreambleOver(left) == left > MaxPreamble \/ preamble + left > MaxPreamble

(* No separator in what is left: the next chunk, within the bound.         *)
PreamblePartial ==
    /\ pc = "preamble"
    /\ find_sse_frame(Drop(buffer, scanned)) = None
    /\ LET left == Len(buffer) - scanned IN
       IF PreambleOver(left)
       THEN EndsWith("upstream")
       ELSE pc' = "validate" /\ UNCHANGED end
    /\ UNCHANGED Validating /\ UNCHANGED Guarding

CanonicalFrame == <<"canonical", "lf", "lf">>

(* Mutant: the checked frame is passed on as it came.                      *)
RewrittenAsIs(s) == buffer

(* The bytes handed to guard_stream as its first chunk.                    *)
Rewritten(s) ==
    SubSeq(buffer, 1, scanned) \o CanonicalFrame \o Drop(buffer, scanned + s.after)

Counted(c) == total + Len(c)

(* guard_stream takes a chunk: its checks before the scan.                 *)
EarlyEnd(c) ==
    IF Counted(c) > MaxBody THEN "response_body_limit"
    ELSE IF terminal /\ c # <<>> THEN "data_after_terminal"
    ELSE None

(* Mutant: room for three of a separator's four bytes.                     *)
OverlapShort == 2

Overlap == 3

Take(c) ==
    /\ total' = Counted(c)
    /\ stream' = stream \o c
    /\ UNCHANGED <<started, terminal, out>>
    /\ IF EarlyEnd(c) # None
       THEN EndsWith(EarlyEnd(c)) /\ UNCHANGED <<pending, consumed, base, chunk>>
       ELSE /\ pc' = "scan" /\ UNCHANGED end
            /\ pending' = pending \o c
            /\ base' = IF Len(pending) > Overlap THEN Len(pending) - Overlap ELSE 0
            /\ consumed' = 0
            /\ chunk' = c

PreambleFrame ==
    LET s == find_sse_frame(Drop(buffer, scanned))
        frame == SubSeq(buffer, scanned + 1, scanned + s.start)
        kind == parse_stream_event(frame)
    IN
    /\ pc = "preamble"
    /\ s # None
    /\ preamble' = preamble + s.after
    /\ \/ /\ preamble' > MaxPreamble
          /\ EndsWith("upstream")
          /\ UNCHANGED <<buffer, scanned>> /\ UNCHANGED Guarding
       \/ /\ preamble' <= MaxPreamble /\ kind = "neutral"
          /\ scanned' = scanned + s.after
          /\ UNCHANGED <<pc, buffer, end>> /\ UNCHANGED Guarding
       \/ /\ preamble' <= MaxPreamble /\ kind = "message_start" /\ Holds(frame, "named")
          /\ Take(Rewritten(s))
          /\ buffer' = <<>> /\ UNCHANGED scanned
       \/ /\ preamble' <= MaxPreamble /\ kind = "message_start" /\ ~Holds(frame, "named")
          /\ EndsWith("model_identity_mismatch")
          /\ UNCHANGED <<buffer, scanned>> /\ UNCHANGED Guarding
       \/ /\ preamble' <= MaxPreamble /\ kind \in {"terminal", "other", "bad"}
          /\ EndsWith("upstream")
          /\ UNCHANGED <<buffer, scanned>> /\ UNCHANGED Guarding

-----------------------------------------------------------------------------
(* guard_stream                                                            *)

GuardChunk ==
    /\ pc = "guard"
    /\ \E c \in UNION {[1 .. n -> Bytes] : n \in 0 .. MaxChunk} : Chunk(c) /\ Take(c)
    /\ UNCHANGED Validating

(* The next separator, looked for in the new bytes and their overlap.      *)
From == IF consumed > base THEN consumed ELSE base

NextFrame ==
    LET s == find_sse_frame(Drop(pending, From)) IN
    IF s = None THEN None ELSE [start |-> From + s.start, after |-> From + s.after]

(* Whether an event may come now.                                          *)
InOrder(kind) ==
    /\ ~terminal
    /\ \/ kind = "neutral"
       \/ kind = "message_start" /\ ~started
       \/ kind \in {"terminal", "other"} /\ started

Oversized(n) == n > MaxFrame

(* One round of the loop over the frames completed by this chunk.          *)
GuardFrame ==
    LET s == NextFrame
        kind == parse_stream_event(SubSeq(pending, consumed + 1, s.start))
    IN
    /\ pc = "scan"
    /\ s # None
    /\ \/ /\ Oversized(s.start - consumed)
          /\ EndsWith("frame_limit")
          /\ UNCHANGED <<started, terminal, consumed>>
       \/ /\ ~Oversized(s.start - consumed) /\ ~InOrder(kind)
          /\ EndsWith("invalid_event")
          /\ UNCHANGED <<started, terminal, consumed>>
       \/ /\ ~Oversized(s.start - consumed) /\ InOrder(kind)
          /\ started' = (started \/ kind = "message_start")
          /\ terminal' = (kind = "terminal")
          /\ consumed' = s.after
          /\ IF terminal' /\ s.after < Len(pending)
             THEN EndsWith("data_after_terminal")
             ELSE UNCHANGED <<pc, end>>
    /\ UNCHANGED Validating
    /\ UNCHANGED <<pending, total, base, chunk, stream, out>>

(* No further frame: the chunk is released, unless too much is left over.  *)
GuardPass ==
    /\ pc = "scan"
    /\ NextFrame = None
    /\ IF Oversized(Len(pending) - consumed)
       THEN EndsWith("frame_limit") /\ UNCHANGED <<pending, out>>
       ELSE /\ pc' = "guard" /\ UNCHANGED end
            /\ pending' = Drop(pending, consumed)
            /\ out' = out \o chunk
    /\ consumed' = 0 /\ base' = 0 /\ chunk' = <<>>
    /\ UNCHANGED Validating /\ UNCHANGED <<total, started, terminal, stream>>

(* The upstream's body breaks off, or ends.                                *)
GuardInterrupted ==
    /\ pc = "guard"
    /\ EndsWith("upstream_interrupted")
    /\ UNCHANGED Validating /\ UNCHANGED Guarding

GuardEnd ==
    /\ pc = "guard"
    /\ EndsWith(IF terminal /\ pending = <<>> THEN "clean" ELSE "missing_terminal")
    /\ UNCHANGED Validating /\ UNCHANGED Guarding

Next ==
    \/ PreambleChunk \/ PreambleStops \/ PreamblePartial \/ PreambleFrame
    \/ GuardChunk \/ GuardFrame \/ GuardPass \/ GuardInterrupted \/ GuardEnd

Spec == Init /\ [][Next]_vars

-----------------------------------------------------------------------------
(* Reference: the frames of a whole byte string                            *)

Frames(b) ==
    LET from[n \in 0 .. Len(b)] ==
          LET s == find_sse_frame(Drop(b, n)) IN
          IF s = None THEN <<>>
          ELSE <<SubSeq(b, n + 1, n + s.start)>> \o from[n + s.after]
    IN from[0]

(* What follows the last separator.                                        *)
Rest(b) ==
    LET from[n \in 0 .. Len(b)] ==
          LET s == find_sse_frame(Drop(b, n)) IN
          IF s = None THEN Drop(b, n) ELSE from[n + s.after]
    IN from[0]

(* One message_start, before any other event of the message; nothing after *)
(* the terminal event.                                                     *)
Legal(frames) ==
    LET kind(i) == parse_stream_event(frames[i]) IN
    \A i \in DOMAIN frames :
        /\ kind(i) # "bad"
        /\ kind(i) = "message_start" => \A j \in 1 .. i - 1 : kind(j) = "neutral"
        /\ kind(i) \in {"terminal", "other"} =>
              \E j \in 1 .. i - 1 : kind(j) = "message_start"
        /\ kind(i) = "terminal" => i = Len(frames)

Finished(frames) ==
    frames # <<>> /\ parse_stream_event(frames[Len(frames)]) = "terminal"

-----------------------------------------------------------------------------
(* Properties                                                              *)

(* Every variable has its type.                                            *)
TypeOK ==
    /\ pc \in {"validate", "preamble", "guard", "scan", "ended"}
    /\ buffer \in Seq(Byte) /\ pending \in Seq(Byte) /\ chunk \in Seq(Byte)
    /\ stream \in Seq(Byte) /\ out \in Seq(Byte)
    /\ scanned \in 0 .. MaxInput /\ preamble \in Nat /\ total = Len(stream)
    /\ started \in BOOLEAN /\ terminal \in BOOLEAN
    /\ consumed \in 0 .. Len(pending) /\ base \in 0 .. Len(pending)
    /\ (end = None) <=> (pc # "ended")

(***************************************************************************)
(* At no moment, also after a failure, has the buyer received a complete   *)
(* event that is malformed, out of order or past the terminal one, and the *)
(* message_start it received names the canonical model.                    *)
(***************************************************************************)
ReleasedLegal ==
    /\ Legal(Frames(out))
    /\ Finished(Frames(out)) => Rest(out) = <<>>
    /\ \A i \in DOMAIN Frames(out) :
          parse_stream_event(Frames(out)[i]) = "message_start"
            => Holds(Frames(out)[i], "canonical")

(***************************************************************************)
(* A stream that the upstream ended is reported complete exactly when the  *)
(* whole of it is one legal, finished message, and then all of it was      *)
(* released; every other refusal has its reason in the bytes received.     *)
(***************************************************************************)
EndJust ==
    LET frames == Frames(stream) IN
    /\ end \in {"clean", "missing_terminal"} =>
         (end = "clean" <=> Legal(frames) /\ Finished(frames) /\ Rest(stream) = <<>>)
    /\ end = "clean" => out = stream
    /\ end = "invalid_event" => ~Legal(frames)
    /\ end = "data_after_terminal" =>
         \E n \in 0 .. Len(stream) - 1 : Finished(Frames(SubSeq(stream, 1, n)))
    /\ end = "frame_limit" =>
         \/ Len(Rest(stream)) > MaxFrame
         \/ \E i \in DOMAIN frames : Len(frames[i]) > MaxFrame

=============================================================================
