--------------------------- MODULE ChutesExchange ---------------------------
(***************************************************************************)
(* One chat request to Chutes (attestd chutes_verify/{forward,crypto,      *)
(* stream,error}.rs): the request is checked, encrypted to an admitted     *)
(* instance and offered to another one when that is at capacity, and of    *)
(* the answer only what the instance sealed for this request is released.  *)
(*                                                                         *)
(* Between the proxy and the instance stands Chutes' relay, which speaks   *)
(* in plain text as well and may lose, repeat and reorder what the         *)
(* instance seals: the chunks carry no numbers.  The key of an attempt is  *)
(* the number of the attempt; 0 is a key of some other request.            *)
(***************************************************************************)
EXTENDS Integers, Sequences, FiniteSets, Option

CONSTANTS Sealed,        \* texts the instance seals: sequences of lines
          MaxInstances,  \* MAX_INVOKE_INSTANCES
          MaxLine,       \* MAX_LINE_BYTES
          MaxRelayed     \* bound on the lines of a stream

VARIABLES
  at,        \* "prepare", "ticket", "invoke", "json", "stream", "ended"
  streaming, \* the request asks for a stream
  tried,     \* instances the request was offered to
  dec,       \* StreamDecryptor: [key, usage, held, done, pending]
  output,    \* what the running call of feed has decrypted
  released,  \* what the buyer received
  relayed,   \* lines relayed so far
  seen,      \* history: the usage totals that were decrypted
  ending     \* the outcome: [kind, code, marker]

exchangeVars == <<at, streaming, tried, dec, output, released, relayed, seen, ending>>

-----------------------------------------------------------------------------
\* Errors and what the gateway reads in them

BadRequest == [kind |-> "bad_request", code |-> 400]
MissingCredential == [kind |-> "missing_credential", code |-> 401]
Upstream(code) == [kind |-> "upstream", code |-> code]
Unavailable == [kind |-> "unavailable", code |-> 503]
Rejected == [kind |-> "rejected", code |-> 502]
BadResponse == [kind |-> "bad_response", code |-> 502]
Clean == [kind |-> "clean", code |-> 200]
Broken == [kind |-> "broken", code |-> 200]

\* account_marker: the gateway takes these for the worker's account failing.
account_marker(e) ==
  CASE e.kind = "missing_credential" -> "invalid_api_key"
    [] e.kind = "upstream" /\ e.code \in {401, 403} -> "invalid_api_key"
    [] e.kind = "upstream" /\ e.code = 402 -> "insufficient_quota"
    [] OTHER -> None

-----------------------------------------------------------------------------
\* The request

\* prepare: the first thing wrong with a request.
Faults ==
  <<"none", "selector", "path", "credential", "body", "e2e_field", "model", "stream", "options">>

prepare(fault) == CASE fault = "none" -> None
                    [] fault = "credential" -> MissingCredential
                    [] OTHER -> BadRequest

NewDecryptor == [key |-> None, usage |-> 0, held |-> None, done |-> FALSE, pending |-> 0]

Answered(e) ==
  /\ at' = "ended"
  /\ ending' = [kind |-> e.kind, code |-> e.code, marker |-> account_marker(e)]

ExchangeInit ==
  /\ at = "prepare" /\ streaming \in BOOLEAN /\ tried = 0 /\ dec = NewDecryptor
  /\ output = <<>> /\ released = <<>> /\ relayed = 0 /\ seen = {} /\ ending = None

Stays == UNCHANGED <<dec, output, released, relayed, seen, streaming>>

Prepare ==
  /\ at = "prepare"
  /\ \E i \in DOMAIN Faults :
       IF prepare(Faults[i]) = None THEN at' = "ticket" /\ UNCHANGED ending
       ELSE Answered(prepare(Faults[i]))
  /\ Stays /\ UNCHANGED tried

\* external: the admissions give a ticket or a reason why not.  encrypt_request
\* makes a response key of its own for every attempt.
Ticket ==
  /\ at = "ticket"
  /\ \/ at' = "invoke" /\ tried' = tried + 1 /\ UNCHANGED ending
     \/ /\ tried = 0 /\ UNCHANGED tried
        /\ \E e \in {Unavailable, Rejected, Upstream(402), Upstream(429)} : Answered(e)
     \* retry_ticket has none: the refusal stands
     \/ tried > 0 /\ Answered(Upstream(429)) /\ UNCHANGED tried
  /\ Stays

\* A refusal for capacity is the only one that another instance is tried for.
Invoke ==
  /\ at = "invoke"
  /\ \/ at' = (IF streaming THEN "stream" ELSE "json") /\ UNCHANGED ending
     \/ IF tried < MaxInstances THEN at' = "ticket" /\ UNCHANGED ending
        ELSE Answered(Upstream(429))
     \/ \E e \in {Unavailable, Upstream(401), Upstream(402), Upstream(500)} : Answered(e)
  /\ Stays /\ UNCHANGED tried

-----------------------------------------------------------------------------
\* A whole response

\* decrypt_response and the checks after it: [key, size, gzip, model].
complete_response(r) == r.key = tried /\ r.size /\ r.gzip /\ r.model

Complete ==
  /\ at = "json"
  /\ \E r \in [key : 0 .. tried, size : BOOLEAN, gzip : BOOLEAN, model : BOOLEAN] :
       IF complete_response(r)
       THEN Answered(Clean) /\ released' = <<[what |-> "completion", key |-> r.key]>>
       ELSE Answered(BadResponse) /\ UNCHANGED released
  /\ UNCHANGED <<streaming, tried, dec, output, relayed, seen>>

-----------------------------------------------------------------------------
\* A stream

\* The token counts that a frame reports.
Counts == [prompt : Nat \cup {None}, completion : Nat \cup {None}, total : Nat \cup {None}]

\* The lines of a sealed text: content, or usage alone (free of content).
TextLines ==
  [what : {"blank", "done", "garbled"}]
  \union [what : {"chunk"}, id : Nat, model : {"asked", "none", "other"},
          usage : Counts \cup {None}, free : BOOLEAN]

\* The instance seals its engine's stream by events or by lines, and that stream
\* ends with [DONE]: nothing but a blank line comes after it in its text.
ASSUME ExchangeAssumption ==
  /\ \A text \in Sealed :
       /\ text \in Seq(TextLines) /\ Len(text) <= 2
       /\ \A i, j \in DOMAIN text : i < j /\ text[i].what = "done" => text[j].what = "blank"
  /\ None \notin Nat /\ None \notin Counts
  /\ None \notin [kind : {"clean", "broken"}, code : {200}, marker : {None}]

\* The lines of the relay: [what, key, text].
Lines ==
  [what : {"init"}, key : 0 .. tried]
  \union [what : {"e2e"}, key : 0 .. tried, text : Sealed]
  \union [what : {"done", "error", "other"}]

\* A decryption under way: the decryptor, what it has put out, whether it failed.
State == [d |-> dec, o |-> output, ok |-> TRUE]

Fail(st) == [st EXCEPT !.ok = FALSE]

Emit(st, item) == [st EXCEPT !.o = Append(@, item)]

Total(usage) == usage.prompt + usage.completion

\* require_billable: both counts, and a total that is their sum.
require_billable(usage) ==
  /\ usage.prompt # None /\ usage.completion # None
  /\ usage.total \in {None, Total(usage)}

\* usage_total: the total, or the sum of what there is.
usage_total(usage) ==
  IF usage.total # None THEN usage.total
  ELSE (IF usage.prompt = None THEN 0 ELSE usage.prompt)
       + (IF usage.completion = None THEN 0 ELSE usage.completion)

\* check_chunk: the model, if any, is the one asked for; usage never falls.
check_chunk(st, line) ==
  IF line.model = "other" THEN Fail(st)
  ELSE IF line.usage = None THEN st
  ELSE IF usage_total(line.usage) < st.d.usage THEN Fail(st)
  ELSE [st EXCEPT !.d.usage = usage_total(line.usage)]

ReleaseDone(st) ==
  IF st.d.held = None THEN Fail(st)
  ELSE [Emit(Emit(st, [what |-> "usage", usage |-> st.d.held]), [what |-> "done"])
          EXCEPT !.d.held = None, !.d.done = TRUE]

\* The frame that was held stays for the final [DONE].
HeldThrough(st, line) ==
  LET c == check_chunk(st, line) IN
  IF ~c.ok THEN c ELSE Emit(c, [what |-> "content", of |-> line.id])

\* Content: what was held is void, and running usage is stripped.
ReleaseContent(st, line) ==
  LET c == check_chunk(st, line) IN
  IF ~c.ok THEN c ELSE [Emit(c, [what |-> "content", of |-> line.id]) EXCEPT !.d.held = None]

\* A content-free usage frame is kept back.
HoldUsage(st, line) ==
  IF ~require_billable(line.usage) THEN Fail(st)
  ELSE LET c == check_chunk(st, line) IN
       IF ~c.ok THEN c ELSE [c EXCEPT !.d.held = line.usage]

release(st, line) ==
  IF ~st.ok \/ line.what = "blank" THEN st
  ELSE IF line.what = "done" THEN ReleaseDone(st)
  ELSE IF line.what = "garbled" THEN Fail(st)
  ELSE IF line.usage # None /\ line.free THEN HoldUsage(st, line)
  ELSE ReleaseContent(st, line)

\* The lines of one text, in order; here a text has at most two.
ReleaseText(st, text) ==
  CASE Len(text) = 0 -> st
    [] Len(text) = 1 -> release(st, text[1])
    [] OTHER -> release(release(st, text[1]), text[2])

Blank(text) == \A i \in DOMAIN text : text[i].what = "blank"

\* relay_event
RelayInit(st, line) == IF st.d.key # None THEN Fail(st) ELSE [st EXCEPT !.d.key = line.key]

\* A chunk opens under the stream key alone, which opens nothing unless it is of
\* this request's response key.
RelayChunk(st, line) ==
  IF st.d.key # tried \/ line.key # tried THEN Fail(st)
  ELSE IF st.d.done /\ ~Blank(line.text) THEN Fail(st)
  ELSE ReleaseText(st, line.text)

relay_event(st, line) ==
  CASE line.what = "init" -> RelayInit(st, line)
    [] line.what = "e2e" -> RelayChunk(st, line)
    [] line.what = "done" -> IF st.d.done THEN st ELSE Fail(st)
    [] line.what = "error" -> Fail(st)
    [] OTHER -> st

Usages(text) == {usage_total(text[i].usage) : i \in {i \in DOMAIN text : text[i].what = "chunk"
                                                          /\ text[i].usage # None}}

\* A line of the relay is complete.  An error aborts the stream, and with it goes
\* what the same call of feed had decrypted before.
Line ==
  /\ at = "stream" /\ relayed < MaxRelayed
  /\ \E line \in Lines :
       LET st == relay_event(State, line) IN
       /\ dec' = [st.d EXCEPT !.pending = 0]
       /\ relayed' = relayed + 1
       /\ seen' = IF st.ok /\ line.what = "e2e" THEN seen \union Usages(line.text) ELSE seen
       /\ IF st.ok THEN output' = st.o /\ UNCHANGED <<at, ending>>
          ELSE Answered(Broken) /\ output' = <<>>
  /\ UNCHANGED <<streaming, tried, released>>

\* A chunk ends inside a line; too long a line aborts.
Part ==
  /\ at = "stream" /\ dec.pending <= MaxLine
  /\ dec' = [dec EXCEPT !.pending = @ + 1]
  /\ IF dec.pending + 1 > MaxLine THEN Answered(Broken) /\ output' = <<>>
     ELSE UNCHANGED <<at, ending, output>>
  /\ UNCHANGED <<streaming, tried, released, relayed, seen>>

\* feed returns, and stream_response passes its output on.
Flush ==
  /\ at = "stream" /\ output # <<>>
  /\ released' = released \o output /\ output' = <<>>
  /\ UNCHANGED <<at, streaming, tried, dec, relayed, seen, ending>>

\* The upstream's body ends or breaks off.
StreamEnds ==
  /\ at = "stream" /\ output = <<>>
  /\ \E broken \in BOOLEAN : Answered(IF dec.done /\ ~broken THEN Clean ELSE Broken)
  /\ Stays /\ UNCHANGED tried

ExchangeNext == \/ Prepare \/ Ticket \/ Invoke \/ Complete \/ Line \/ Part \/ Flush \/ StreamEnds

ExchangeSpec == ExchangeInit /\ [][ExchangeNext]_exchangeVars

-----------------------------------------------------------------------------
(***************************************************************************)
(* Properties                                                              *)
(***************************************************************************)

FromEnd(n) == released[Len(released) - n]

EndedAs(kinds) == ending # None /\ ending.kind \in kinds

\* However the relay loses, repeats or reorders the instance's chunks and whatever
\* it says in plain text: the buyer gets the usage and [DONE] once, together and
\* last; the usage is the largest count that the instance reported, and billable;
\* a stream counts as complete only with them; and what a refused or broken
\* answer had released is content sealed for this attempt (StreamDecryptor,
\* complete_response).
ReleasedTrue ==
  /\ EndedAs({"clean"}) /\ streaming => Len(released) > 1 /\ FromEnd(0).what = "done"
  /\ \A i \in DOMAIN released :
       /\ released[i].what = "done" => i = Len(released) /\ i > 1 /\ released[i - 1].what = "usage"
       /\ released[i].what = "usage" =>
            /\ i = Len(released) - 1 /\ require_billable(released[i].usage)
            /\ \A u \in seen : u <= usage_total(released[i].usage)
       /\ released[i].what = "content" => dec.key = tried
       /\ released[i].what = "completion" => EndedAs({"clean"}) /\ released[i].key = tried
  /\ ending # None /\ ~EndedAs({"clean", "broken"}) => released = <<>>

=============================================================================
