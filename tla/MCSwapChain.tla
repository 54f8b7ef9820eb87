----------------------------- MODULE MCSwapChain -----------------------------
(***************************************************************************)
(* An order and a direct swap whose outputs carry the same binding, a buy  *)
(* order, one external payment and a relay with a fork: h1 - h2 and        *)
(* h1 - g2.  The payment is mined in h1 and needs two confirmations.       *)
(***************************************************************************)
EXTENDS SwapChain

D == {"sale", "swap", "buy"}
P == {"pay"}
H == {"h1", "h2", "g2"}
A == "anchor"

MCPrev == [h \in H |-> IF h = "h1" THEN A ELSE "h1"]
MCHeight == [h \in H \cup {A} |-> CASE h = A -> 10 [] h = "h1" -> 11 [] OTHER -> 12]
MCKind == [d \in D |-> CASE d = "sale" -> "sell" [] d = "buy" -> "buy" [] OTHER -> "direct"]
MCExpiry == [d \in D |-> 3]
MCTimeout == [d \in D |-> 4]
MCRequired == [d \in D |-> 2]
MCSettles == [p \in P |-> {"sale", "swap"}]
MCMinedIn == [p \in P |-> "h1"]

Of(txs) == [txs |-> txs, coinbase |-> <<>>, sound |-> TRUE]
Mined(txs, hs) == [txs |-> txs, coinbase |-> hs, sound |-> TRUE]
Overpaid(b) == [b EXCEPT !.sound = FALSE]

Opening == Of(<<Operation("post", "sale"), Operation("create", "swap"), Operation("post", "buy")>>)

MCBlock ==
  {Of(<<>>), Opening,
   Of(<<Operation("fill_sell", "sale"), Batch(<<"h1">>)>>),
   Of(<<Operation("fill_buy", "buy"), Operation("cancel", "sale")>>),
   Mined(<<Operation("fill_sell", "sale")>>, <<"h1", "h2">>),
   Mined(<<Operation("fill_buy", "buy")>>, <<"h1", "g2">>),
   Of(<<Batch(<<"h2">>), Claim("swap", "pay")>>),
   Of(<<Claim("sale", "pay")>>),
   Of(<<Claim("sale", "pay"), Claim("swap", "pay")>>),
   Of(<<Operation("claim_htlc", "buy"), Operation("sweep", "sale")>>),
   Of(<<Operation("refund", "swap"), Operation("refund_htlc", "buy")>>),
   Overpaid(Of(<<Batch(<<"h1", "g2">>)>>)),
   Overpaid(Of(<<>>))}

MCChunks == {<<"h1", "h2">>, <<"h2">>}
=============================================================================
