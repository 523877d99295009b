------------------------------ MODULE Arrivals ------------------------------
(***************************************************************************)
(* How check-streaming tells a streaming upstream from a buffered one (cli *)
(* commands/streaming_check.rs, SseParser and classify_streaming): one     *)
(* probe's response arrives in chunks that are cut anywhere, each event    *)
(* with generated text is stamped with the arrival of its end, and the     *)
(* stamps are classified.                                                  *)
(*                                                                         *)
(* A piece of the response is a line end or (a part of) a line; times are  *)
(* in milliseconds since the request.                                      *)
(***************************************************************************)
EXTENDS Integers, Sequences, SequencesExt, FiniteSets

CONSTANTS Bodies, \* responses: sequences of pieces
          Cuts,   \* where a response may be cut
          Gaps,   \* the time between two chunks
          Pending \* no verdict yet

VARIABLES body,   \* the response
          arrived,\* when each of its pieces arrived so far
          parser, \* SseParser
          verdict

arrivalVars == <<body, arrived, parser, verdict>>

MIN_CONTENT_CHUNKS == 4

DISTINCT_BUCKET == 150

MIN_STREAMING_SPAN == 750

BUFFERED_BURST_SPAN == 250

BUFFERED_FIRST_WAIT == 1000

-----------------------------------------------------------------------------
\* SseParser

\* "gen" is a data line with generated text, which may also come as "head" and
\* "tail"; "ping" a data line without any, "done" the [DONE] line and "event" a
\* line that is not data.  A head alone is not JSON.
sse_event_has_content(data) == data \in {<< <<"gen">> >>, << <<"head", "tail">> >>}

\* An event ends: it counts when there is text in it.
finish_event(p) ==
  [p EXCEPT !.data = <<>>,
            !.content_offsets = IF sse_event_has_content(p.data) THEN Append(@, p.last_offset) ELSE @]

push_line(p, line) ==
  IF line = <<>> THEN finish_event(p)
  ELSE IF line[1] = "event" THEN p
  ELSE [p EXCEPT !.data = Append(@, line)]

\* Lines are cut from the pending text; what is left waits for the next chunk.
PushPiece(p, piece) ==
  IF piece = "nl" THEN push_line([p EXCEPT !.pending = <<>>], p.pending)
  ELSE [p EXCEPT !.pending = Append(@, piece)]

\* Each chunk is parsed by itself: a line must not straddle two of them.
PendingDropped(p, chunk, offset) ==
  FoldLeft(PushPiece, [p EXCEPT !.last_offset = offset, !.pending = <<>>], chunk)

\* The events of a chunk get the arrival of the chunk before it.
StampedLate(p, chunk, offset) ==
  [FoldLeft(PushPiece, p, chunk) EXCEPT !.last_offset = offset]

push_chunk(p, chunk, offset) == FoldLeft(PushPiece, [p EXCEPT !.last_offset = offset], chunk)

\* The end of the response: an unfinished line and an unfinished event count.
finish(p) ==
  finish_event(IF p.pending = <<>> THEN p ELSE push_line([p EXCEPT !.pending = <<>>], p.pending))
    .content_offsets

-----------------------------------------------------------------------------
\* classify_streaming

\* Arrivals are counted against the one just before them.
BucketPerGap(offsets) ==
  IF offsets = <<>> THEN 0
  ELSE 1 + Cardinality({i \in 2 .. Len(offsets) : offsets[i] - offsets[i - 1] >= DISTINCT_BUCKET})

\* A bucket opens with the first arrival that is far enough from the opening of
\* the bucket before.
distinct_arrival_buckets(offsets) ==
  LET Visit(acc, t) == IF acc.n = 0 \/ t - acc.last >= DISTINCT_BUCKET
                       THEN [n |-> acc.n + 1, last |-> t] ELSE acc
  IN FoldLeft(Visit, [n |-> 0, last |-> 0], offsets).n

\* The ratios 0.20 and 0.35 of the span to the total, which is at least 1 ms.
classify_streaming(offsets) ==
  IF Len(offsets) < 2 THEN "inconclusive"
  ELSE LET first == offsets[1]
           last == offsets[Len(offsets)]
           span == last - first
           total == IF last > 1 THEN last ELSE 1
       IN IF /\ Len(offsets) >= MIN_CONTENT_CHUNKS
             /\ first >= BUFFERED_FIRST_WAIT /\ span <= BUFFERED_BURST_SPAN
             /\ 5 * span <= total
          THEN "buffered"
          ELSE IF /\ Len(offsets) >= MIN_CONTENT_CHUNKS
                  /\ distinct_arrival_buckets(offsets) >= 3
                  /\ span >= MIN_STREAMING_SPAN \/ 20 * span >= 7 * total
          THEN "streaming" ELSE "inconclusive"

-----------------------------------------------------------------------------
\* One probe

Now == IF arrived = <<>> THEN 0 ELSE arrived[Len(arrived)]

\* The next chunk reaches to a cut.
Chunk(to, gap) ==
  /\ verdict = Pending /\ to > Len(arrived) /\ to <= Len(body)
  /\ arrived' = arrived \o [i \in 1 .. to - Len(arrived) |-> Now + gap]
  /\ parser' = push_chunk(parser, SubSeq(body, Len(arrived) + 1, to), Now + gap)
  /\ UNCHANGED <<body, verdict>>

\* The response ends, whole or cut short.
ResponseEnds ==
  /\ verdict = Pending /\ verdict' = classify_streaming(finish(parser))
  /\ UNCHANGED <<body, arrived, parser>>

\* The connection breaks: the probe has failed, and nothing is said of it.
ReadFails ==
  /\ verdict = Pending /\ verdict' = "failed"
  /\ UNCHANGED <<body, arrived, parser>>

Init ==
  /\ body \in Bodies /\ arrived = <<>> /\ verdict = Pending
  /\ parser = [pending |-> <<>>, data |-> <<>>, content_offsets |-> <<>>, last_offset |-> 0]

Next == ResponseEnds \/ ReadFails \/ \E to \in Cuts, gap \in Gaps : Chunk(to, gap)

Spec == Init /\ [][Next]_arrivalVars

-----------------------------------------------------------------------------
(* Properties                                                              *)

\* The lines with generated text that have arrived, and when the event of such a
\* line was complete: with the blank line after it, or with the response.
Texts == {i \in 1 .. Len(arrived) : body[i] \in {"gen", "tail"}}

CompleteAt(i) == arrived[IF i + 2 <= Len(arrived) THEN i + 2 ELSE Len(arrived)]

Apart(i, j) == CompleteAt(j) - CompleteAt(i) >= DISTINCT_BUCKET

\* The verdict is about the upstream and not about how its bytes were cut into
\* chunks: a miner is warned exactly when at least four events with text all
\* came within a quarter of a second after a second of silence; and is told that
\* it streams exactly when three of at least four events came well apart, over a
\* meaningful time, and no warning is due (SseParser, classify_streaming).
VerdictHonest ==
  verdict \notin {Pending, "failed"} =>
    LET span == IF Texts = {} THEN 0
                ELSE CompleteAt(CHOOSE i \in Texts : \A j \in Texts : j <= i)
                     - CompleteAt(CHOOSE i \in Texts : \A j \in Texts : i <= j)
        burst == /\ Cardinality(Texts) >= 4 /\ span <= 250
                 /\ \A i \in Texts : CompleteAt(i) >= 1000
        spread == /\ Cardinality(Texts) >= 4
                  /\ \E i, j, k \in Texts : Apart(i, j) /\ Apart(j, k)
                  /\ \/ span >= 750
                     \/ \E i \in Texts : \A j \in Texts : j <= i /\ 20 * span >= 7 * CompleteAt(i)
    IN /\ verdict = "buffered" <=> burst
       /\ verdict = "streaming" <=> spread /\ ~burst
=============================================================================
