---------------------------- MODULE MCUpstream ----------------------------
(***************************************************************************)
(* What the worker takes from its upstreams, in one run: `part` says which *)
(* behaviour it is, the relay of a Bedrock stream, one request through the *)
(* Bedrock adapter, the judging of a machine's evidence or an exchange     *)
(* with a Chutes instance.                                                 *)
(***************************************************************************)
EXTENDS BedrockStream, BedrockRequest, Attestation, ChutesExchange

VARIABLE part

-----------------------------------------------------------------------------
(* Machines: one running the published image, one under a debug platform,  *)
(* one running something else.                                             *)

Ev(i, t, d) == [index |-> i, type |-> t, sha384 |-> d]

MCBoot ==
    [m \in Machines |->
        IF m = "o" THEN <<Ev(1, "boot", "d1"), Ev(4, "app", "d9")>>
        ELSE <<Ev(1, "boot", "d1"), Ev(0, "no_action", None), Ev(4, "app", "d2")>>]

MCMrtd == [m \in Machines |-> "fw"]

MCPlatform == [a |-> "current", b |-> "debug", o |-> "current"]

MCFirst == [a |-> "k1", b |-> "k2", o |-> "k3"]

MCEntries ==
    {[mrtd |-> "fw", gpus |-> {"h100", "h200"}, count |-> 1,
      rtmrs |-> [r \in 0 .. 3 |-> CASE r = 0 -> <<"d1">> [] r = 3 -> <<"d2">> [] OTHER -> <<>>]]}

-----------------------------------------------------------------------------
(* What a Chutes instance seals                                            *)

Usage(p, c, t) == [prompt |-> p, completion |-> c, total |-> t]

Piece(m, u, f) == [what |-> "chunk", id |-> 1, model |-> m, usage |-> u, free |-> f]

Done == [what |-> "done"]

MCSealed ==
    {<<Piece("asked", None, FALSE)>>, <<Piece("none", Usage(1, 2, 3), FALSE)>>,
     <<Piece("asked", Usage(1, 1, None), TRUE)>>, <<Piece("asked", Usage(1, None, None), TRUE)>>,
     <<Piece("none", Usage(1, 2, 3), TRUE), Done>>, <<Done>>, <<[what |-> "blank"]>>,
     <<[what |-> "garbled"]>>, <<Piece("other", None, FALSE)>>}

-----------------------------------------------------------------------------
(* Requests, registry documents and answers of the Bedrock adapter         *)

Id(n) == [name |-> n, legal |-> TRUE, prefixed |-> FALSE]

Selector(n) == [name |-> n, legal |-> TRUE, prefixed |-> TRUE]

MCEnv == [network |-> "mainnet", region |-> "us-east-1", keys |-> 1]

MCEnvs == {MCEnv, [MCEnv EXCEPT !.network = "local"], [MCEnv EXCEPT !.region = "us-west-2"],
           [MCEnv EXCEPT !.keys = 2], [MCEnv EXCEPT !.network = "testnet"]}

Row(m, s, e, r) == [shape |-> "exact", provider |-> "anthropic", model |-> Id(m),
                    upstream_model |-> Selector(s), response_model |-> Id(e), revision |-> r]

Doc(rev, rs) == [json |-> "unique", shape |-> "exact", fits |-> TRUE, schema_version |-> 1,
                 network |-> "mainnet", revision |-> rev, bindings |-> rs]

MCPayloads ==
    {Doc(1, <<Row("m1", "s1", "e1", 1)>>), Doc(2, <<Row("m1", "s2", "e2", 2)>>),
     Doc(2, <<Row("m1", "s1", "e1", 1), Row("m2", "s2", "e2", 2)>>), Doc(3, <<>>),
     Doc(2, <<Row("m1", "s1", "e1", 1), Row("m1", "s2", "e2", 2)>>),
     Doc(1, <<Row("m1", "s1", "e1", 2)>>),
     Doc(2, <<[Row("m1", "s2", "e2", 2) EXCEPT !.upstream_model = Id("m1")]>>),
     [Doc(3, <<Row("m1", "s2", "e2", 3)>>) EXCEPT !.network = "testnet"]}

MCHeaders ==
    [policy |-> <<"exact-canonical-no-replay-v1">>, content_type |-> <<"application/json">>,
     version |-> <<"2023-06-01">>, revision |-> <<[n |-> 1, canonical |-> TRUE]>>, beta |-> <<>>]

Beta(items) == [fits |-> TRUE, printable |-> TRUE, items |-> items]

MCBody == [fits |-> TRUE, json |-> "unique", object |-> TRUE, model |-> Id("m1"),
           stream |-> "absent"]

MCRequest == [method |-> "POST", path |-> "/v1/messages", headers |-> MCHeaders,
              body |-> MCBody]

MCRequests ==
    {MCRequest, [MCRequest EXCEPT !.method = "GET"], [MCRequest EXCEPT !.path = "/v1/messages?x"],
     [MCRequest EXCEPT !.headers.policy = <<>>],
     [MCRequest EXCEPT !.headers.content_type = @ \o @],
     [MCRequest EXCEPT !.headers.revision = <<[n |-> 1, canonical |-> FALSE]>>],
     [MCRequest EXCEPT !.headers.beta = <<Beta(<<<<"token">>, <<>>>>)>>],
     [MCRequest EXCEPT !.headers.beta = <<Beta(<<<<"token">>, <<"token", "space">>>>)>>],
     [MCRequest EXCEPT !.body.json = "duplicate"], [MCRequest EXCEPT !.body.fits = FALSE],
     [MCRequest EXCEPT !.body.stream = "other"]}
    \cup {[MCRequest EXCEPT !.headers.revision = <<[n |-> r, canonical |-> TRUE]>>,
                            !.headers.beta = <<Beta(<<<<"token">>>>)>>,
                            !.body.model = Id(m), !.body.stream = s] :
             r \in 1 .. 2, m \in {"m1", "m2"}, s \in {"true", "false"}}

MCReply == [status |-> 200, content_type |-> "application/json",
            retry_after |-> [seconds |-> FALSE, value |-> 0],
            body |-> [arrives |-> TRUE, fits |-> TRUE, json |-> "unique", object |-> TRUE,
                      model |-> "e1", too_long |-> FALSE]]

MCReplies ==
    {[MCReply EXCEPT !.status = s] : s \in {200, 302, 401, 403, 413, 500}}
    \cup {[MCReply EXCEPT !.content_type = t, !.body.model = e] :
             t \in {"application/json", "text/event-stream"}, e \in {"e1", "e2", "m1", None}}
    \cup {[MCReply EXCEPT !.status = 400, !.body.too_long = l, !.body.arrives = a] :
             l \in BOOLEAN, a \in BOOLEAN}
    \cup {[MCReply EXCEPT !.status = 429, !.retry_after = [seconds |-> s, value |-> 7]] :
             s \in BOOLEAN}
    \cup {[MCReply EXCEPT !.body.arrives = FALSE], [MCReply EXCEPT !.body.fits = FALSE],
          [MCReply EXCEPT !.body.json = "duplicate"], [MCReply EXCEPT !.body.too_long = TRUE]}

-----------------------------------------------------------------------------
(* The sum                                                                 *)

NoStream ==
    /\ pc = "idle" /\ buffer = <<>> /\ scanned = 0 /\ preamble = 0 /\ pending = <<>>
    /\ total = 0 /\ started = FALSE /\ terminal = FALSE /\ consumed = 0 /\ base = 0
    /\ chunk = <<>> /\ end = None /\ stream = <<>> /\ out = <<>>

NoEvidence ==
    /\ who = None /\ clock = 0 /\ held = None /\ owner = None /\ quotes = {} /\ asked = {}
    /\ cur = Unasked

NoExchange ==
    /\ at = "idle" /\ streaming = None /\ tried = None /\ dec = None /\ output = <<>>
    /\ released = <<>> /\ relayed = 0 /\ seen = {} /\ ending = None

NoRequest ==
    /\ step = "none" /\ network = None /\ call = None /\ rows = None /\ used = None
    /\ reply = None /\ answer = None

MCInit ==
    \/ part = "stream" /\ Init /\ NoEvidence /\ NoExchange /\ NoRequest
    \/ part = "evidence" /\ EvidenceInit /\ NoStream /\ NoExchange /\ NoRequest
    \/ part = "exchange" /\ ExchangeInit /\ NoStream /\ NoEvidence /\ NoRequest
    \/ part = "request" /\ RequestInit /\ NoStream /\ NoEvidence /\ NoExchange

MCNext ==
    /\ UNCHANGED part
    /\ \/ part = "stream" /\ Next /\ UNCHANGED <<evidenceVars, exchangeVars, requestVars>>
       \/ part = "evidence" /\ EvidenceNext /\ UNCHANGED <<vars, exchangeVars, requestVars>>
       \/ part = "exchange" /\ ExchangeNext /\ UNCHANGED <<vars, evidenceVars, requestVars>>
       \/ part = "request" /\ RequestNext /\ UNCHANGED <<vars, evidenceVars, exchangeVars>>

MCSpec ==
    MCInit /\ [][MCNext]_<<part, vars, evidenceVars, exchangeVars, requestVars>>
=============================================================================
