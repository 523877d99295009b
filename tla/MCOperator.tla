----------------------------- MODULE MCOperator -----------------------------
(***************************************************************************)
(* What the operator does, in one run: `part` says whether a behaviour is  *)
(* about the keys of a worker, about the market and the streaming check,   *)
(* about the prices of one product, about the response to one probe, or    *)
(* about the notifications.                                                *)
(***************************************************************************)
EXTENDS MinerKeys, StreamingCheck, TLC

CONSTANTS U32Max, Refused, Gaps, MAX_PAGE_SIZE, ALL_CAP, PageLimits, MaxId

VARIABLES part, retail, text, preview, offer, view, body, arrived, parser, verdict,
          messages, listing, inbox

MCImages == [h1 |-> [status |-> "supported", binding |-> FALSE],
             h2 |-> [status |-> "supported", binding |-> TRUE]]

Product(p, m, c) == [provider |-> p, model |-> m, status |-> "active", chat |-> c]

Route(p, m, bp, bm) == [provider |-> p, model |-> m, buyer_provider |-> bp, buyer_model |-> bm]

MCCatalog == {Product("anthropic", "m1", TRUE), Product("openai", "g1", TRUE),
              Product("openai", "pic", FALSE)}

MCRoutes == {Route("anthropic", "m1", "anthropic", "m1"), Route("openai", "g1", "openai", "g1"),
             Route("near", "q1", "openai", "pic")}

Slot(v, ms) == [verified |-> v, models |-> ms]

Cover(ms, sl) == [unscoped |-> ms, slots |-> sl]

MCCoverages ==
  {[anthropic |-> Cover({}, [s1 |-> Slot(TRUE, {"m1"}), s2 |-> Slot(FALSE, {"m1"})])],
   [anthropic |-> Cover({"m1"}, [s1 |-> Slot(TRUE, {})]), openai |-> Cover({"g1", "pic"}, <<>>)]}

MCElsewhere == {[Direct EXCEPT !["anthropic"] = a, !["openai"] = o] :
                  <<a, o>> \in {<<None, None>>, <<"bedrock", None>>, <<"foundry", "azure">>}}

MCFallback == [anthropic |-> "m1", openai |-> "g1", near |-> "q1"]

MCBorn == [w \in Workers |-> IF w \in Foreign THEN 2 ELSE 1]

Endpoint(s) == [https |-> TRUE, userinfo |-> FALSE, host |-> TRUE, suffix |-> s]

MCFlags ==
  {"anthropic" :> <<"a", "b", "a", "c">>, "anthropic" :> <<"a", "">>,
   "anthropic_upstream" :> "direct", "anthropic_upstream" :> "bedrock",
   "anthropic_upstream" :> "foundry",
   "bedrock_key" :> <<"a">> @@ "bedrock_region" :> "us-east-1",
   "bedrock_key" :> <<"a", "b">> @@ "bedrock_region" :> "us-west-2",
   "foundry_key" :> <<"b">> @@ "foundry_endpoint" :> Endpoint("openai.azure.com"),
   "foundry_endpoint" :> Endpoint("services.ai.azure.com") @@ "foundry_arm" :> "set",
   "openai_upstream" :> "azure" @@ "azure_key" :> <<"a">> @@ "azure_arm" :> "set",
   "azure_endpoint" :> Endpoint("openai.azure.com"),
   "gemini" :> <<"">>, "gemini" :> <<"a", "a">>}

Dot == 10

Other == 11

Chars == {0, 5, 9, Dot, Other}

MCTexts == UNION {[1 .. n -> Chars] : n \in 0 .. 3}
           \cup {<<a, Dot, b, c>> : a, b, c \in {0, 5, 9}}
           \cup {<<9, 9, Dot, 9, 0>>, <<9, 9, Dot, 9, 1>>, <<0, Dot, 0, 0, 1>>, <<1, 0, 0>>}

\* A text-only product below 1000 nano-dollars, one priced per image and one
\* with a long context.
Prices(i, o, more) ==
  [d \in {"input", "output", "cache read", "cache write 5m", "cache write 1h", "audio input",
          "audio output", "image input", "image output", "per image", "per video second",
          "cache storage/hr", "long-ctx input", "long-ctx output"} |->
     CASE d = "input" -> i [] d = "output" -> o
       [] d \in DOMAIN more -> more[d] [] OTHER -> None]

MCRetails ==
  {[price |-> Prices(999, 0, <<>>), threshold |-> None],
   [price |-> Prices(10001, 200000, "cache read" :> 7 @@ "per image" :> 40000), threshold |-> 5],
   [price |-> Prices(15, 74999, "per video second" :> 123456 @@ "long-ctx input" :> 30001
                                @@ "audio input" :> 0), threshold |-> 128000]}

PR == INSTANCE Pricing WITH Texts <- MCTexts, Retails <- MCRetails,
        Fields <- {{}, {1}, {11000, 210001}}

pricesAll == <<retail, text, preview, offer, view>>

Event(line) == line \o <<"nl", "nl">>

MCBodies ==
  {<<"event", "nl">> \o Event(<<"head", "tail">>) \o Event(<<"gen">>) \o Event(<<"gen">>)
     \o Event(<<"ping">>) \o Event(<<"gen">>) \o Event(<<"gen">>),
   Event(<<"gen">>) \o Event(<<"gen">>) \o Event(<<"gen">>) \o Event(<<"done">>)}

AR == INSTANCE Arrivals WITH Bodies <- MCBodies, Pending <- None,
        Cuts <- {3, 5, 9, 12, 16, 18, 21}

probeAll == <<body, arrived, parser, verdict>>

IB == INSTANCE Inbox

inboxAll == <<messages, listing, inbox>>

allVars == <<part, keyVars, checkVars, pricesAll, probeAll, inboxAll>>

NoMarket ==
  /\ StreamingInit /\ sel = Direct /\ ~echo /\ bindings = [m \in Models("anthropic") |-> 7]
  /\ \A w \in Workers : rows[w] = None

NoPrices == retail = None /\ text = None /\ preview = None /\ offer = None /\ view = None

NoProbe == body = None /\ arrived = None /\ parser = None /\ verdict = None

NoInbox == messages = {} /\ listing = None /\ inbox = None

MCInit ==
  KeysInit /\ \/ part = "keys" /\ NoMarket /\ NoPrices /\ NoProbe /\ NoInbox
              \/ part = "market" /\ StreamingInit /\ NoPrices /\ NoProbe /\ NoInbox
              \/ part = "prices" /\ NoMarket /\ PR!Init /\ NoProbe /\ NoInbox
              \/ part = "probe" /\ NoMarket /\ NoPrices /\ AR!Init /\ NoInbox
              \/ part = "inbox" /\ NoMarket /\ NoPrices /\ NoProbe /\ IB!Init

MCNext ==
  \/ part = "keys" /\ KeysNext /\ UNCHANGED <<part, checkVars, pricesAll, probeAll, inboxAll>>
  \/ part = "market" /\ StreamingNext /\ UNCHANGED <<part, keyVars, pricesAll, probeAll, inboxAll>>
  \/ part = "prices" /\ PR!Next /\ UNCHANGED <<part, keyVars, checkVars, probeAll, inboxAll>>
  \/ part = "probe" /\ AR!Next /\ UNCHANGED <<part, keyVars, checkVars, pricesAll, inboxAll>>
  \/ part = "inbox" /\ IB!Next /\ UNCHANGED <<part, keyVars, checkVars, pricesAll, probeAll>>

MCSpec == MCInit /\ [][MCNext]_allVars

\* What the CLI prints is true: the figures of a price are what the miner typed,
\* confirmed and is paid; a listing of notifications has no gap and no repetition;
\* and what check-streaming says of a response follows from when its events
\* arrived, however its bytes were cut into chunks (pricing.rs, notifications.rs,
\* streaming_check.rs).
ViewsTrue == /\ part = "prices" => PR!PricesTrue
             /\ part = "inbox" => IB!InboxWhole
             /\ part = "probe" => AR!VerdictHonest
=============================================================================
