-------------------------- MODULE PurchaseLifecycle --------------------------
(***************************************************************************)
(* What the market promises a buyer and a seller about one purchase, with  *)
(* the clock, the disputes' adjudication and all other money left out:     *)
(*  - an undelivered purchase is refunded in full;                         *)
(*  - a delivered one nobody contests pays the seller, less the fee;       *)
(*  - a contested one refunds at most the cap agreed when it was bought;   *)
(*  - the price is split once, exactly, and a closed purchase stays so.    *)
(***************************************************************************)
EXTENDS Integers

CONSTANT Purchases
VARIABLE deal   \* purchase -> stage, price, cap and what was paid out of the price

NoDeal == [stage |-> "None", price |-> 0, cap |-> 0, refund |-> 0, fee |-> 0, proceeds |-> 0]

Init == deal = [i \in Purchases |-> NoDeal]

\* d becomes e:
Moves(d, e, from, to) ==
  /\ d.stage = from /\ e.stage = to
  /\ e.price = d.price /\ e.cap = d.cap

PaysNothing(d, e) == e.refund = d.refund /\ e.fee = d.fee /\ e.proceeds = d.proceeds

SplitExactly(e) ==
  /\ e.refund >= 0 /\ e.fee >= 0 /\ e.proceeds >= 0
  /\ e.refund + e.fee + e.proceeds = e.price

Fund(d, e) ==
  /\ d = NoDeal
  /\ e.stage = "Funded" /\ e.price >= 0 /\ e.cap \in 0..e.price
  /\ PaysNothing(d, e)

Deliver(d, e)      == Moves(d, e, "Funded", "Delivered") /\ PaysNothing(d, e)
Contest(d, e)      == Moves(d, e, "Delivered", "Disputed") /\ PaysNothing(d, e)
RefundInFull(d, e) == Moves(d, e, "Funded", "Refunded") /\ SplitExactly(e) /\ e.refund = e.price
Accept(d, e)       == Moves(d, e, "Delivered", "Settled") /\ SplitExactly(e) /\ e.refund = 0
Judge(d, e)        == Moves(d, e, "Disputed", "Settled") /\ SplitExactly(e) /\ e.refund <= e.cap

Step(i) ==
  LET d == deal[i]
      e == deal'[i]
  IN /\ \/ Fund(d, e) \/ Deliver(d, e) \/ Contest(d, e)
        \/ RefundInFull(d, e) \/ Accept(d, e) \/ Judge(d, e)
     /\ deal' = [deal EXCEPT ![i] = e]

Next == \E i \in Purchases : Step(i)

Spec == Init /\ [][Next]_deal
=============================================================================
