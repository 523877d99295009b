------------------------------ MODULE Pricing ------------------------------
(***************************************************************************)
(* What a miner reads and sends when it prices an offer (cli/src/pricing.rs *)
(* and the previews of commands/products.rs): a typed percentage becomes   *)
(* basis points, the retail vector becomes what the miner would receive,   *)
(* amounts are printed, confirmed, and later compared with the field.  The *)
(* registry may change its retail between any two of these.                *)
(*                                                                         *)
(* The properties are about what the printed text denotes, so text is      *)
(* modelled: a sequence of digits, Dot and Other.  Products in u128 cannot *)
(* overflow; U32Max stands for the width of the parsed numbers.            *)
(***************************************************************************)
EXTENDS Integers, FiniteSets, SequencesExt

CONSTANTS Texts,    \* what may be typed after --discount-pct
          Retails,  \* price vectors a product may have
          Fields,   \* costs of the other eligible offers of a product
          U32Max,   \* largest value of a u32
          Refused,  \* shown for a text that is not accepted
          None

VARIABLES retail,   \* the registry's price vector of the product
          text,     \* what was typed
          preview,  \* what the confirmation shows, or None
          offer,    \* the discount the registry has recorded, or None
          view      \* what gmcli pricing shows, or None

priceVars == <<retail, text, preview, offer, view>>

Dot == 10
Other == 11

-----------------------------------------------------------------------------
(* Percentages                                                             *)

MAX_DISCOUNT_BP == 9990

AllDigits(s) == \A i \in DOMAIN s : s[i] \in 0 .. 9

Number(s) == FoldLeft(LAMBDA n, d : n * 10 + d, 0, s)

Dots(s) == {i \in DOMAIN s : s[i] = Dot}

Whole(s) == IF Dots(s) = {} THEN s ELSE SubSeq(s, 1, Min(Dots(s)) - 1)

Decimals(s) == IF Dots(s) = {} THEN <<>> ELSE SubSeq(s, Min(Dots(s)) + 1, Len(s))

\* One decimal is tenths.
Cents(s) == IF Len(s) = 1 THEN Number(s) * 10 ELSE Number(s)

\* The basis points, if the text is accepted.
parse_discount_pct(s) ==
    LET whole == Number(Whole(s))
        bp == whole * 100 + Cents(Decimals(s))
    IN IF /\ Cardinality(Dots(s)) <= 1
          /\ Whole(s) # <<>> /\ AllDigits(Whole(s)) /\ whole <= U32Max
          /\ Len(Decimals(s)) <= 2 /\ AllDigits(Decimals(s))
          /\ whole * 100 <= U32Max /\ bp <= U32Max
          /\ bp <= MAX_DISCOUNT_BP
       THEN {bp} ELSE {}

Digits[n \in Nat] == IF n < 10 THEN <<n>> ELSE Append(Digits[n \div 10], n % 10)

\* At least `width` digits.
Padded(n, width) == [i \in 1 .. width - Len(Digits[n]) |-> 0] \o Digits[n]

\* The text without trailing zeros, but at least `least` long.
Trimmed(s, least) ==
    SubSeq(s, 1, Max({least} \cup {i \in DOMAIN s : s[i] # 0}))

\* Mutant: the cents are not padded.
CentsUnpadded(bp) ==
    IF bp % 100 = 0 THEN Digits[bp \div 100]
    ELSE Digits[bp \div 100] \o <<Dot>> \o Trimmed(Digits[bp % 100], 0)

format_discount_pct(bp) ==
    IF bp % 100 = 0 THEN Digits[bp \div 100]
    ELSE Digits[bp \div 100] \o <<Dot>> \o Trimmed(Padded(bp % 100, 2), 0)

-----------------------------------------------------------------------------
(* Price vectors                                                           *)

\* PRICE_DIMENSIONS: input and output are the anchors, which every product
\* prices.
Anchors == {"input", "output"}

PRICE_DIMENSIONS ==
    Anchors \cup {"cache read", "cache write 5m", "cache write 1h", "audio input", "audio output",
                  "image input", "image output", "per image", "per video second",
                  "cache storage/hr", "long-ctx input", "long-ctx output"}

\* RetailDimensions: a dimension may be unpriced; the threshold of the
\* long-context tier is a number of tokens.
Priced(r) == {d \in PRICE_DIMENSIONS : r.price[d] # None}

\* Mutant: the price is rounded to the nearest.
RoundedToNearest(price, bp) == (price * (10000 - bp) + 5000) \div 10000

effective_per_mtok_ndollars(price, bp) ==
    (price * (10000 - Min({bp, MAX_DISCOUNT_BP}))) \div 10000

effective_dimensions(r, bp) ==
    [r EXCEPT !.price = [d \in PRICE_DIMENSIONS |->
        IF r.price[d] = None THEN None ELSE effective_per_mtok_ndollars(r.price[d], bp)]]

-----------------------------------------------------------------------------
(* What is printed                                                         *)

Nano == 1000000000

\* Mutant: always three decimal places.
ThreePlaces(n) ==
    Digits[n \div Nano] \o <<Dot>> \o SubSeq(Padded(n % Nano, 9), 1, 3)

format_usd(n) ==
    Digits[n \div Nano] \o <<Dot>> \o Trimmed(Padded(n % Nano, 9), 3)

\* extra_dimension_count.
extra_dimension_count(r) == Cardinality(Priced(r) \ Anchors)

\* effective_rate_summary: the anchors, the unit prices, and how many more
\* there are.
effective_rate_summary(r, bp) ==
    LET units == {"per image", "per video second"} \cap Priced(r)
        e == effective_dimensions(r, bp)
    IN [rates |-> [d \in Anchors \cup units |-> format_usd(e.price[d])],
        more |-> extra_dimension_count(r) - Cardinality(units)]

\* extra_dimension_lines, with long_context_note.
extra_dimension_lines(r, bp) ==
    LET e == effective_dimensions(r, bp)
    IN [rows |-> [d \in Priced(r) \ Anchors |-> <<format_usd(r.price[d]), format_usd(e.price[d])>>],
        threshold |-> IF {"long-ctx input", "long-ctx output"} \cap Priced(r) # {}
                      THEN r.threshold ELSE None]

\* declaration_lines, source_declaration_lines and sent_as_lines.
declaration_lines(r, bp) ==
    [declared |-> format_discount_pct(bp),
     kept |-> format_discount_pct(10000 - bp),
     anchors |-> [d \in Anchors |-> <<format_usd(r.price[d]),
                                      format_usd(effective_dimensions(r, bp).price[d])>>],
     extras |-> extra_dimension_lines(r, bp)]

-----------------------------------------------------------------------------
(* declare-product and pricing                                             *)

\* The percentage is parsed by clap and shown at the retail just fetched.
Declare(t) ==
    /\ preview = None /\ view = None
    /\ text' = t
    /\ preview' = IF parse_discount_pct(t) = {} THEN Refused
                  ELSE declaration_lines(retail, CHOOSE bp \in parse_discount_pct(t) : TRUE)
    /\ UNCHANGED <<retail, offer, view>>

\* The body carries discount_bp alone.
Confirm ==
    /\ preview \notin {None, Refused}
    /\ offer' \in parse_discount_pct(text)
    /\ preview' = None
    /\ UNCHANGED <<retail, text, view>>

\* The answer is no, or the text was refused.
Decline ==
    /\ preview # None /\ preview' = None /\ text' = None
    /\ UNCHANGED <<retail, offer, view>>

\* The registry changes the product's retail.
RetailChanges(r) ==
    /\ view = None /\ retail' = r
    /\ UNCHANGED <<text, preview, offer, view>>

\* A reference request: one Mtok in and one out.
Cost(r, bp) == LET e == effective_dimensions(r, bp) IN e.price["input"] + e.price["output"]

\* The registry's ranking: rank 1 is shared by all offers at the best cost.
Rank(cost, field) == 1 + Cardinality({c \in field : c < cost})

\* render_pricing of one product: in which section it stands, and for an offer
\* of the caller's what rank_table and advice_lines say.
render_pricing(eligible, field) ==
    LET cost == Cost(retail, offer)
        all == IF eligible THEN field \cup {cost} ELSE field
    IN [section |-> IF eligible THEN "yours" ELSE IF offer # None THEN "broken" ELSE "unsold",
        cost |-> IF eligible THEN format_usd(cost) ELSE None,
        best |-> format_usd(Min(all)),
        advised |-> IF eligible /\ Rank(cost, field) > 1 THEN format_discount_pct(offer) ELSE None,
        rates |-> IF offer # None THEN effective_rate_summary(retail, offer) ELSE None]

\* cmd_pricing and cmd_status after it.
Pricing(eligible, field) ==
    /\ preview = None /\ view = None
    /\ IF eligible THEN offer # None ELSE field # {}
    /\ view' = render_pricing(eligible, field)
    /\ UNCHANGED <<retail, text, preview, offer>>

\* Back at the prompt.
Leave == view # None /\ view' = None /\ UNCHANGED <<retail, text, preview, offer>>

Init == retail \in Retails /\ text = None /\ preview = None /\ offer = None /\ view = None

Next ==
    \/ \E t \in Texts : Declare(t)
    \/ Confirm \/ Decline \/ Leave
    \/ \E r \in Retails : RetailChanges(r)
    \/ \E eligible \in BOOLEAN, field \in Fields : Pricing(eligible, field)

Spec == Init /\ [][Next]_priceVars

-----------------------------------------------------------------------------
(* Properties                                                              *)

\* The number a text denotes, in units of 10^-places.
Denotes(s, places) ==
    Number(SelectSeq(s, LAMBDA c : c # Dot)) * 10 ^ (places - Len(Decimals(s)))

\* A pair of printed amounts is the exact retail, and the largest whole number
\* of nano-dollars that the discount leaves of it.
PaidExactly(pair, bp, price) ==
    LET paid == Denotes(pair[2], 9)
    IN /\ Denotes(pair[1], 9) = price
       /\ paid * 10000 <= price * (10000 - bp) /\ price * (10000 - bp) < (paid + 1) * 10000

Legible(s) ==
    /\ s # <<>> /\ s[1] # Dot /\ ToSet(s) \subseteq 0 .. 10
    /\ Len(Decimals(s)) <= 2 /\ Cardinality(Dots(s)) <= 1
    /\ Denotes(s, 2) <= MAX_DISCOUNT_BP

\* What the miner typed is what it confirms, what the registry records and what
\* every later view prints: every legible percentage is accepted and none else;
\* each printed figure is exact, for every dimension that is priced and no
\* other, with none left out of the count; an offer is called dearer only when
\* the printed costs say so, and then with its own discount to start from.
PricesTrue ==
    /\ text # None => (Legible(text) <=> preview # Refused)
    /\ preview \notin {None, Refused} =>
         LET bp == Denotes(text, 2)
             shown == preview.anchors @@ preview.extras.rows
         IN /\ Denotes(preview.declared, 2) = bp /\ Denotes(preview.kept, 2) = 10000 - bp
            /\ \E r \in Retails :
                 /\ DOMAIN shown = Priced(r)
                 /\ \A d \in Priced(r) : PaidExactly(shown[d], bp, r.price[d])
                 /\ preview.extras.threshold \in {None, r.threshold}
    /\ offer # None => offer \in 0 .. MAX_DISCOUNT_BP
    /\ text # None /\ preview = None => offer = Denotes(text, 2)
    /\ view # None /\ view.rates # None =>
         /\ \A d \in DOMAIN view.rates.rates :
              PaidExactly(<<format_usd(retail.price[d]), view.rates.rates[d]>>, offer,
                          retail.price[d])
         /\ view.rates.more = Cardinality(Priced(retail) \ DOMAIN view.rates.rates)
    /\ view # None /\ view.cost # None =>
         /\ (view.advised # None) <=> (Denotes(view.cost, 9) > Denotes(view.best, 9))
         /\ view.advised # None => Denotes(view.advised, 2) = offer
=============================================================================
