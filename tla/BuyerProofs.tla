---------------------------- MODULE BuyerProofs ----------------------------
(***************************************************************************)
(* The ledger is sound and the budget kept, for any number of commands,    *)
(* versions, budgets and faults.  What makes it inductive: the bond of a   *)
(* purchase is set once, so no spend is ever replaced; a command holds the *)
(* amount its call will take; and without fault or overlap there is at     *)
(* most one command, whose amount still fits into the budget.              *)
(***************************************************************************)
EXTENDS BuyerAgent, TLAPS

Priced(on, amount) ==
  /\ amount \in Nat \ {0}
  /\ IF on.kind = "purchase" THEN amount = PriceOf[on.of] ELSE amount \in Bonds

ChainTyped ==
  /\ active \subseteq Versions /\ purchases \in Seq(Purchases) /\ Len(purchases) <= MaxPurchases
  /\ allowance \in Nat /\ paid \in Nat /\ late \subseteq Txs

\* A bond belongs to a dispute: a delivered purchase has none.
BondsHeld == \A p \in Ids : purchases[p].bond > 0 => purchases[p].state \in {"Disputed", "Closed"}

SpendOf(on, amount) == [kind |-> on.kind, ref |-> ReceiptRef(on), amount |-> amount]

---------------------------------------------------------------------------
(* The market: spends are added, never changed.                            *)

LEMMA PurchasesTyped ==
  ASSUME ChainTyped, NEW p \in Ids
  PROVE  /\ p \in 1..MaxPurchases /\ purchases[p] \in Purchases
         /\ purchases[p].version \in Versions /\ purchases[p].state \in States
         /\ purchases[p].bond \in Nat /\ PriceOf[purchases[p].version] \in Nat \ {0}
<1>1. Len(purchases) \in Nat /\ p \in 1..Len(purchases) BY DEF ChainTyped, Ids
<1>2. purchases[p] \in Purchases BY <1>1 DEF ChainTyped
<1>3. purchases[p].version \in Versions /\ purchases[p].state \in States /\ purchases[p].bond \in Bonds \cup {0}
  BY <1>2 DEF Purchases
<1>4. MaxPurchases \in Nat /\ Len(purchases) <= MaxPurchases BY BuyerOK DEF ChainTyped
<1>5. p \in 1..MaxPurchases BY <1>1, <1>4
<1>6. purchases[p].bond \in Nat
  <2>1. \A b \in Bonds : b \in Nat BY BuyerOK
  <2>2. CASE purchases[p].bond \in Bonds BY <2>1, <2>2
  <2>3. CASE purchases[p].bond = 0 BY <2>3
  <2> QED BY <1>3, <2>2, <2>3
<1>7. PriceOf[purchases[p].version] \in Nat \ {0} BY <1>3, BuyerOK
<1> QED BY <1>2, <1>3, <1>5, <1>6, <1>7

PriceSpend(p) == [kind |-> "purchase", ref |-> p, amount |-> PriceOf[purchases[p].version]]
BondSpend(p) == [kind |-> "bond", ref |-> p, amount |-> purchases[p].bond]
IsSpend(s) == \E p \in Ids : s = PriceSpend(p) \/ (purchases[p].bond > 0 /\ s = BondSpend(p))

LEMMA SpendsAre ==
  /\ \A s : s \in Spends <=> IsSpend(s)
  /\ \A s : s \in Spends' <=> IsSpend(s)'
<1>1. \A s : s \in Spends <=> IsSpend(s)
  <2> SUFFICES ASSUME NEW s PROVE s \in Spends <=> IsSpend(s) OBVIOUS
  <2>1. s \in {[kind |-> "purchase", ref |-> p, amount |-> PriceOf[purchases[p].version]] : p \in Ids}
        <=> \E p \in Ids : s = PriceSpend(p)
    BY DEF PriceSpend
  <2>2. s \in {[kind |-> "bond", ref |-> p, amount |-> purchases[p].bond] : p \in {q \in Ids : purchases[q].bond > 0}}
        <=> \E p \in {q \in Ids : purchases[q].bond > 0} : s = BondSpend(p)
    BY DEF BondSpend
  <2>3. (\E p \in {q \in Ids : purchases[q].bond > 0} : s = BondSpend(p))
        <=> \E p \in Ids : purchases[p].bond > 0 /\ s = BondSpend(p)
    OBVIOUS
  <2>4. s \in Spends <=> (\E p \in Ids : s = PriceSpend(p)) \/ \E p \in Ids : purchases[p].bond > 0 /\ s = BondSpend(p)
    BY <2>1, <2>2, <2>3 DEF Spends
  <2> QED BY <2>4 DEF IsSpend
<1>2. \A s : s \in Spends' <=> IsSpend(s)'
  <2> SUFFICES ASSUME NEW s PROVE s \in Spends' <=> IsSpend(s)' OBVIOUS
  <2>1. s \in {[kind |-> "purchase", ref |-> p, amount |-> PriceOf[purchases'[p].version]] : p \in Ids'}
        <=> \E p \in Ids' : s = PriceSpend(p)'
    BY DEF PriceSpend
  <2>2. s \in {[kind |-> "bond", ref |-> p, amount |-> purchases'[p].bond] : p \in {q \in Ids' : purchases'[q].bond > 0}}
        <=> \E p \in {q \in Ids' : purchases'[q].bond > 0} : s = BondSpend(p)'
    BY DEF BondSpend
  <2>3. (\E p \in {q \in Ids' : purchases'[q].bond > 0} : s = BondSpend(p)')
        <=> \E p \in Ids' : purchases'[p].bond > 0 /\ s = BondSpend(p)'
    OBVIOUS
  <2>4. s \in Spends' <=> (\E p \in Ids' : s = PriceSpend(p)') \/ \E p \in Ids' : purchases'[p].bond > 0 /\ s = BondSpend(p)'
    BY <2>1, <2>2, <2>3 DEF Spends
  <2> QED BY <2>4 DEF IsSpend
<1> QED BY <1>1, <1>2

LEMMA Bought ==
  ASSUME ChainTyped, BondsHeld, NEW v \in Versions, Len(purchases) < MaxPurchases,
         purchases' = Append(purchases, [version |-> v, state |-> "Funded", bond |-> 0])
  PROVE  /\ purchases' \in Seq(Purchases) /\ Len(purchases)' <= MaxPurchases /\ BondsHeld'
         /\ Spends' = Spends \cup {[kind |-> "purchase", ref |-> Len(purchases) + 1, amount |-> PriceOf[v]]}
         /\ \A s \in Spends : s.ref # Len(purchases) + 1
<1> DEFINE r == [version |-> v, state |-> "Funded", bond |-> 0]
<1>1. r \in Purchases /\ r.version = v /\ r.state = "Funded" /\ r.bond = 0 BY DEF Purchases, States
<1>2. purchases' = Append(purchases, r) OBVIOUS
<1> HIDE DEF r
<1>3. Len(purchases) \in Nat /\ purchases \in Seq(Purchases) /\ MaxPurchases \in Nat BY BuyerOK DEF ChainTyped
<1>4. /\ purchases' \in Seq(Purchases) /\ Len(purchases') = Len(purchases) + 1
      /\ \A p \in 1..Len(purchases) : purchases'[p] = purchases[p]
      /\ purchases'[Len(purchases) + 1] = r
  BY <1>1, <1>2, <1>3
<1>5. Ids' = Ids \cup {Len(purchases) + 1} /\ Len(purchases) + 1 \notin Ids BY <1>3, <1>4 DEF Ids
<1>6. \A p \in Ids : purchases'[p] = purchases[p] BY <1>4 DEF Ids
<1>7. BondsHeld'
  <2>1. ~(purchases'[Len(purchases) + 1].bond > 0) BY <1>1, <1>4
  <2> QED BY <2>1, <1>5, <1>6 DEF BondsHeld
<1>8. Spends' = Spends \cup {[kind |-> "purchase", ref |-> Len(purchases) + 1, amount |-> PriceOf[v]]}
  <2> DEFINE n == [kind |-> "purchase", ref |-> Len(purchases) + 1, amount |-> PriceOf[v]]
  <2>1. \A p \in Ids : PriceSpend(p)' = PriceSpend(p) /\ BondSpend(p)' = BondSpend(p)
    BY <1>6 DEF PriceSpend, BondSpend
  <2>2. [kind |-> "purchase", ref |-> Len(purchases) + 1, amount |-> PriceOf[purchases'[Len(purchases) + 1].version]] = n
    BY <1>1, <1>4
  <2>3. ~(purchases'[Len(purchases) + 1].bond > 0) BY <1>1, <1>4
  <2>4. \A s : IsSpend(s)' <=> IsSpend(s) \/ s = n
    BY <1>5, <1>6, <2>1, <2>2, <2>3 DEF IsSpend, PriceSpend
  <2> HIDE DEF n
  <2>5. \A s : s \in Spends' <=> s \in Spends \/ s = n BY <2>4, SpendsAre
  <2>6. Spends' = Spends \cup {n} BY <2>5
  <2> QED BY <2>6 DEF n
<1>9. \A s \in Spends : s.ref \in Ids BY SpendsAre DEF IsSpend, PriceSpend, BondSpend
<1> QED BY <1>3, <1>4, <1>5, <1>7, <1>8, <1>9

LEMMA Disputed ==
  ASSUME ChainTyped, BondsHeld, NEW p \in Ids, NEW b \in Bonds, purchases[p].state = "Delivered",
         purchases' = [purchases EXCEPT ![p].state = "Disputed", ![p].bond = b]
  PROVE  /\ purchases' \in Seq(Purchases) /\ Len(purchases)' = Len(purchases) /\ BondsHeld'
         /\ Spends' = Spends \cup {[kind |-> "bond", ref |-> p, amount |-> b]}
         /\ \A s \in Spends : <<s.kind, s.ref>> # <<"bond", p>>
<1> DEFINE r == [purchases[p] EXCEPT !.state = "Disputed", !.bond = b]
<1>0. b \in Nat \ {0} BY BuyerOK
<1>1. /\ r \in Purchases /\ r.version = purchases[p].version /\ r.state = "Disputed" /\ r.bond = b
  BY PurchasesTyped DEF Purchases, States
<1>2. purchases' = [purchases EXCEPT ![p] = r] OBVIOUS
<1> HIDE DEF r
<1>3. Len(purchases) \in Nat /\ purchases \in Seq(Purchases) /\ p \in 1..Len(purchases) BY DEF ChainTyped, Ids
<1>4. /\ purchases' \in Seq(Purchases) /\ Len(purchases') = Len(purchases)
      /\ \A q \in 1..Len(purchases) : purchases'[q] = IF q = p THEN r ELSE purchases[q]
  BY <1>1, <1>2, <1>3
<1>5. Ids' = Ids BY <1>4 DEF Ids
<1>6. \A q \in Ids : purchases'[q] = IF q = p THEN r ELSE purchases[q] BY <1>4 DEF Ids
<1>7. BondsHeld' BY <1>1, <1>5, <1>6 DEF BondsHeld
<1>8. ~(purchases[p].bond > 0) BY DEF BondsHeld
<1>9. Spends' = Spends \cup {[kind |-> "bond", ref |-> p, amount |-> b]}
  <2> DEFINE n == [kind |-> "bond", ref |-> p, amount |-> b]
  <2>1. \A q \in Ids : PriceSpend(q)' = PriceSpend(q) BY <1>1, <1>6 DEF PriceSpend
  <2>2. \A q \in Ids : q # p => purchases'[q] = purchases[q] /\ BondSpend(q)' = BondSpend(q) BY <1>6 DEF BondSpend
  <2>a. purchases'[p].bond = b BY <1>1, <1>6
  <2>b. b > 0 BY <1>0
  <2>c. purchases'[p].bond > 0 BY <2>a, <2>b
  <2>d. BondSpend(p)' = n BY <2>a DEF BondSpend
  <2>3. purchases'[p].bond > 0 /\ BondSpend(p)' = n BY <2>c, <2>d
  <2>4. \A s : IsSpend(s)' <=> IsSpend(s) \/ s = n
    BY <1>5, <1>8, <2>1, <2>2, <2>3 DEF IsSpend
  <2> HIDE DEF n
  <2>5. \A s : s \in Spends' <=> s \in Spends \/ s = n BY <2>4, SpendsAre
  <2>6. Spends' = Spends \cup {n} BY <2>5
  <2> QED BY <2>6 DEF n
<1>10. \A s \in Spends : <<s.kind, s.ref>> # <<"bond", p>> BY <1>8, SpendsAre DEF IsSpend, PriceSpend, BondSpend
<1> QED BY <1>4, <1>7, <1>9, <1>10

LEMMA SameSpends == ASSUME purchases' = purchases PROVE Spends' = Spends /\ Ids' = Ids
BY DEF Spends, Ids

LEMMA PurchaseMoved ==
  ASSUME ChainTyped, BondsHeld, NEW p \in Ids, purchaseMoves(p)
  PROVE  ChainTyped' /\ BondsHeld' /\ Spends' = Spends /\ late' = late /\ paid' = paid
<1>1. PICK x \in Moves[purchases[p].state] : purchases' = [purchases EXCEPT ![p].state = x]
  BY DEF purchaseMoves
<1> DEFINE r == [purchases[p] EXCEPT !.state = x]
<1>0. purchases[p].state \in {"Funded", "Delivered", "Disputed"} BY DEF purchaseMoves, Moves
<1>a. x \in {"Delivered", "Closed"} /\ (purchases[p].state # "Funded" => x = "Closed")
  BY <1>0, <1>1 DEF Moves
<1>2. /\ r \in Purchases /\ r.version = purchases[p].version /\ r.state = x /\ r.bond = purchases[p].bond
  BY <1>a, PurchasesTyped DEF Purchases, States
<1>3. purchases' = [purchases EXCEPT ![p] = r] BY <1>1
<1> HIDE DEF r
<1>4. Len(purchases) \in Nat /\ purchases \in Seq(Purchases) /\ p \in 1..Len(purchases) BY DEF ChainTyped, Ids
<1>5. /\ purchases' \in Seq(Purchases) /\ Len(purchases') = Len(purchases)
      /\ \A q \in 1..Len(purchases) : purchases'[q] = IF q = p THEN r ELSE purchases[q]
  BY <1>2, <1>3, <1>4
<1>6. Ids' = Ids BY <1>5 DEF Ids
<1>7. \A q \in Ids : purchases'[q] = IF q = p THEN r ELSE purchases[q] BY <1>5 DEF Ids
<1>8. purchases[p].bond > 0 => purchases[p].state \in {"Disputed", "Closed"} BY DEF BondsHeld
<1>9. BondsHeld' BY <1>a, <1>2, <1>6, <1>7, <1>8 DEF BondsHeld
<1>10. \A q \in Ids : purchases'[q].version = purchases[q].version /\ purchases'[q].bond = purchases[q].bond
  BY <1>2, <1>7
<1>11. \A s : IsSpend(s)' <=> IsSpend(s)
  BY <1>6, <1>10 DEF IsSpend, PriceSpend, BondSpend
<1>12. Spends' = Spends BY <1>11, SpendsAre
<1> QED BY <1>5, <1>9, <1>12 DEF ChainTyped, purchaseMoves

\* What a successful call adds is the spend its receipt names, and that is new.
LEMMA PaidSpend ==
  ASSUME ChainTyped, BondsHeld, NEW on \in Targets, NEW amount, Priced(on, amount),
         Payable(on, amount), pays(on, amount)
  PROVE  /\ purchases' \in Seq(Purchases) /\ Len(purchases)' <= MaxPurchases /\ BondsHeld'
         /\ allowance' \in Nat /\ paid' = paid + amount /\ paid' \in Nat
         /\ ReceiptRef(on) \in 1..MaxPurchases
         /\ Spends' = Spends \cup {SpendOf(on, amount)}
         /\ \A s \in Spends : <<s.kind, s.ref>> # <<on.kind, ReceiptRef(on)>>
<1>1. amount \in Nat /\ allowance >= amount /\ allowance' = allowance - amount /\ paid' = paid + amount
  BY DEF Priced, Payable, pays
<1>2. allowance' \in Nat /\ paid' \in Nat BY <1>1 DEF ChainTyped
<1>3. CASE on.kind = "purchase"
  <2>1. on.of \in Versions /\ Len(purchases) < MaxPurchases BY <1>3 DEF Payable, ChainTyped
  <2>2. purchases' = Append(purchases, [version |-> on.of, state |-> "Funded", bond |-> 0]) BY <1>3 DEF pays
  <2>3. amount = PriceOf[on.of] BY <1>3 DEF Priced
  <2>4. SpendOf(on, amount) = [kind |-> "purchase", ref |-> Len(purchases) + 1, amount |-> PriceOf[on.of]]
    BY <1>3, <2>3 DEF SpendOf, ReceiptRef
  <2>5. ReceiptRef(on) = Len(purchases) + 1 /\ ReceiptRef(on) \in 1..MaxPurchases
    BY <1>3, <2>1, BuyerOK DEF ReceiptRef, ChainTyped
  <2>6. /\ purchases' \in Seq(Purchases) /\ Len(purchases)' <= MaxPurchases /\ BondsHeld'
        /\ Spends' = Spends \cup {[kind |-> "purchase", ref |-> Len(purchases) + 1, amount |-> PriceOf[on.of]]}
        /\ \A s \in Spends : s.ref # Len(purchases) + 1
    BY <2>1, <2>2, Bought
  <2> QED BY <1>1, <1>2, <2>4, <2>5, <2>6
<1>4. CASE on.kind # "purchase"
  <2>1. on.kind = "bond" BY <1>4 DEF Targets
  <2>2. on.of \in Ids /\ purchases[on.of].state = "Delivered" BY <2>1 DEF Payable
  <2>3. purchases' = [purchases EXCEPT ![on.of].state = "Disputed", ![on.of].bond = amount] BY <1>4 DEF pays
  <2>4. amount \in Bonds BY <1>4 DEF Priced
  <2>5. SpendOf(on, amount) = [kind |-> "bond", ref |-> on.of, amount |-> amount] /\ ReceiptRef(on) = on.of
    BY <2>1 DEF SpendOf, ReceiptRef
  <2>6. on.of \in 1..MaxPurchases BY <2>2, PurchasesTyped
  <2>7. /\ purchases' \in Seq(Purchases) /\ Len(purchases)' = Len(purchases) /\ BondsHeld'
        /\ Spends' = Spends \cup {[kind |-> "bond", ref |-> on.of, amount |-> amount]}
        /\ \A s \in Spends : <<s.kind, s.ref>> # <<"bond", on.of>>
    BY <2>2, <2>3, <2>4, Disputed
  <2> QED BY <1>1, <1>2, <2>1, <2>5, <2>6, <2>7 DEF ChainTyped
<1> QED BY <1>3, <1>4

Good(t) == t \in Txs /\ (t.fn = "pay" => Priced(t.on, t.amount))
LateSound == \A t \in late : Good(t)
Grown == Spends \subseteq Spends'

LEMMA Executed ==
  ASSUME ChainTyped, BondsHeld, NEW t, Good(t), execute(t), active' \subseteq Versions, late' \subseteq Txs
  PROVE  ChainTyped' /\ BondsHeld' /\ Grown
<1>1. CASE t.fn = "approve" /\ allowance' = t.amount /\ UNCHANGED <<purchases, paid>>
  <2>1. t.amount \in Nat BY <1>1 DEF Good, Txs
  <2> QED BY <1>1, <2>1, SameSpends DEF ChainTyped, BondsHeld, Grown
<1>2. CASE t.fn = "pay" /\ Payable(t.on, t.amount) /\ pays(t.on, t.amount)
  <2>1. t.on \in Targets /\ Priced(t.on, t.amount) BY <1>2 DEF Good, Txs
  <2> QED BY <1>2, <2>1, PaidSpend DEF ChainTyped, Grown
<1> QED BY <1>1, <1>2 DEF execute

---------------------------------------------------------------------------
(* The commands                                                            *)

\* The amount is fixed before the approval and is what the call will take.
Fixed == {"approving", "paying", "recording"}
EntryOf(r) == [kind |-> r.on.kind, ref |-> r.ref, amount |-> r.amount]
Sound(r) ==
  /\ r.at \in Fixed => Priced(r.on, r.amount)
  /\ r.at = "uploading" => r.on.kind = "bond"
CommandsSound ==
  \A c \in Commands : Sound(cmd[c]) /\ (cmd[c].at = "recording" => Entry(c) \in Spends)

Safe == TypeOK /\ BondsHeld /\ LateSound /\ CommandsSound /\ LedgerSound

Unrecorded(r) == \A e \in ledger.entries : <<e.kind, e.ref>> # <<r.on.kind, r.ref>>
\* Without fault or overlap: one command at a time, whose amount still fits, and a ledger that
\* misses at most what that command is about to record.
InTurn ==
  /\ late = {}
  /\ \A c, d \in Commands : cmd[c] # Idle /\ cmd[d] # Idle => c = d
  /\ ledger.budget <= top /\ ledger.spent <= top
  /\ \A c \in Commands : cmd[c].at \in Fixed => ledger.spent + cmd[c].amount <= ledger.budget
  /\ \A c \in Commands :
       cmd[c].at = "recording" => paid = ledger.spent + cmd[c].amount /\ Unrecorded(cmd[c])
  /\ (\A c \in Commands : cmd[c].at # "recording") => paid = ledger.spent
  /\ \A s \in Spends \ ledger.entries : \E c \in Commands : cmd[c].at = "recording" /\ s = Entry(c)

IInv == Safe /\ (Undisturbed => InTurn)

LEMMA Typed ==
  ASSUME TypeOK
  PROVE  /\ ChainTyped /\ faults \in Nat /\ MaxFaults \in Nat /\ top \in Nat /\ overlapped \in BOOLEAN
         /\ ledger.budget \in Nat /\ ledger.spent \in Nat /\ ledger.entries \subseteq Entries
         /\ \A c \in Commands :
              /\ cmd[c] \in Running \cup {Idle}
              /\ cmd[c] # Idle <=> cmd[c].at # "idle"
              /\ cmd[c].at \in Stages =>
                   /\ cmd[c] \in Running /\ cmd[c].on \in Targets
                   /\ cmd[c].amount \in Nat /\ cmd[c].ref \in 0..MaxPurchases
<1>1. ChainTyped BY DEF TypeOK, ChainTyped
<1>2. faults \in Nat /\ MaxFaults \in Nat BY BuyerOK DEF TypeOK
<1>3. ledger.budget \in Nat /\ ledger.spent \in Nat /\ ledger.entries \subseteq Entries BY DEF TypeOK
<1>4. ASSUME NEW c \in Commands
      PROVE  /\ cmd[c] \in Running \cup {Idle}
             /\ cmd[c] # Idle <=> cmd[c].at # "idle"
             /\ cmd[c].at \in Stages =>
                  /\ cmd[c] \in Running /\ cmd[c].on \in Targets
                  /\ cmd[c].amount \in Nat /\ cmd[c].ref \in 0..MaxPurchases
  <2>1. cmd[c] \in Running \cup {Idle} BY DEF TypeOK
  <2>2. CASE cmd[c] \in Running BY <2>2 DEF Running, Stages, Idle
  <2>3. CASE cmd[c] = Idle
    <3>1. cmd[c].at = "idle" BY <2>3 DEF Idle
    <3> QED BY <2>3, <3>1 DEF Stages
  <2> QED BY <2>1, <2>2, <2>3
<1> QED BY <1>1, <1>2, <1>3, <1>4 DEF TypeOK

\* One command moves on, the ledger stays, and the market may have moved.
LEMMA SafeKept ==
  ASSUME Safe, NEW c \in Commands, NEW r \in Running \cup {Idle}, cmd' = [cmd EXCEPT ![c] = r],
         Sound(r), r.at = "recording" => EntryOf(r) \in Spends',
         ChainTyped', BondsHeld', LateSound', Grown,
         ledger' = ledger, top' = top, faults' \in 0..MaxFaults, overlapped' \in BOOLEAN
  PROVE  Safe' /\ cmd'[c] = r /\ \A d \in Commands \ {c} : cmd'[d] = cmd[d]
<1>1. cmd \in [Commands -> Running \cup {Idle}] BY DEF Safe, TypeOK
<1>2. cmd' \in [Commands -> Running \cup {Idle}] /\ cmd'[c] = r /\ \A d \in Commands \ {c} : cmd'[d] = cmd[d]
  BY <1>1
<1>3. TypeOK' BY <1>2 DEF Safe, TypeOK, ChainTyped
<1>4. CommandsSound'
  <2> SUFFICES ASSUME NEW d \in Commands
               PROVE  Sound(cmd'[d]) /\ (cmd'[d].at = "recording" => EntryOf(cmd'[d]) \in Spends')
    BY DEF CommandsSound, Sound, Entry, EntryOf, Priced
  <2>1. CASE d = c BY <1>2, <2>1
  <2>2. CASE d # c
    <3>1. Sound(cmd[d]) /\ (cmd[d].at = "recording" => EntryOf(cmd[d]) \in Spends)
      BY DEF Safe, CommandsSound, Entry, EntryOf
    <3> QED BY <1>2, <2>2, <3>1 DEF Grown
  <2> QED BY <2>1, <2>2
<1>5. LedgerSound' BY DEF LedgerSound, Safe, Grown
<1> QED BY <1>2, <1>3, <1>4, <1>5 DEF Safe

LEMMA InitSafe == ASSUME Init PROVE IInv
<1>1. purchases = <<>> /\ Len(purchases) = 0 /\ Ids = {} BY DEF Init, Ids
<1>2. purchases \in Seq(Purchases) BY <1>1
<1>3. TypeOK
  <2>1. ledger \in [budget : Nat, spent : Nat, entries : SUBSET Entries] BY DEF Init
  <2>2. cmd \in [Commands -> Running \cup {Idle}] BY DEF Init
  <2>3. 0 \in 0..MaxFaults /\ 0 <= MaxPurchases BY BuyerOK
  <2> QED BY <1>1, <1>2, <2>1, <2>2, <2>3 DEF Init, TypeOK
<1>4. BondsHeld /\ LateSound BY <1>1 DEF Init, BondsHeld, LateSound
<1>5. \A c \in Commands : cmd[c] = Idle /\ cmd[c].at = "idle" BY DEF Init, Idle
<1>6. CommandsSound BY <1>5 DEF CommandsSound, Sound, Fixed
<1>7. LedgerSound BY DEF Init, LedgerSound
<1>8. Spends = {} BY <1>1, SpendsAre DEF IsSpend
<1>9. InTurn BY <1>5, <1>8 DEF Init, InTurn, Fixed
<1> QED BY <1>3, <1>4, <1>6, <1>7, <1>9 DEF IInv, Safe

LEMMA RunningTyped ==
  ASSUME NEW st \in Stages, NEW on \in Targets, NEW amount \in Nat, NEW ref \in 0..MaxPurchases
  PROVE  [at |-> st, on |-> on, amount |-> amount, ref |-> ref] \in Running
BY DEF Running

\* A command that neither pays nor has paid keeps what holds between commands in turn.
LEMMA InTurnKept ==
  ASSUME Safe, InTurn, NEW c \in Commands, NEW r \in Running \cup {Idle},
         \A d \in Commands : cmd[d] # Idle => d = c,
         cmd'[c] = r, \A d \in Commands \ {c} : cmd'[d] = cmd[d],
         cmd[c].at # "recording", r.at # "recording",
         r.at \in Fixed => ledger.spent + r.amount <= ledger.budget,
         Spends' = Spends, paid' = paid, late' = late, ledger' = ledger, top' = top
  PROVE  InTurn'
<1>1. \A d \in Commands \ {c} : cmd[d] = Idle /\ cmd'[d] = Idle /\ cmd'[d].at = "idle" BY DEF Idle
<1>2. \A d \in Commands : cmd[d].at # "recording" /\ cmd'[d].at # "recording"
  <2>1. \A d \in Commands \ {c} : cmd[d].at = "idle" BY <1>1 DEF Idle
  <2> QED BY <1>1, <2>1
<1>3. \A d, e \in Commands : cmd'[d] # Idle /\ cmd'[e] # Idle => d = e BY <1>1
<1>4. \A d \in Commands : cmd'[d].at \in Fixed => ledger.spent + cmd'[d].amount <= ledger.budget
  BY <1>1 DEF Fixed
<1>5. paid = ledger.spent BY <1>2 DEF InTurn
<1>6. Spends \ ledger.entries = {} BY <1>2 DEF InTurn
<1> QED BY <1>2, <1>3, <1>4, <1>5, <1>6 DEF InTurn

LEMMA BeginsStep ==
  ASSUME IInv, NEW c \in Commands, NEW on \in Targets, NEW st \in Stages, NEW amount \in Nat,
         st # "recording", st \in Fixed => Priced(on, amount) /\ authorize(amount),
         st = "uploading" => on.kind = "bond", begins(c, st, on, amount)
  PROVE  IInv'
<1> DEFINE r == [at |-> st, on |-> on, amount |-> amount, ref |-> 0]
<1>1. /\ r \in Running \cup {Idle} /\ r.at = st /\ r.amount = amount /\ r.on = on
  BY RunningTyped, BuyerOK
<1>2. /\ cmd' = [cmd EXCEPT ![c] = r] /\ cmd[c] = Idle /\ overlapped' = (overlapped \/ ~Alone(c))
      /\ purchases' = purchases /\ allowance' = allowance /\ paid' = paid /\ late' = late /\ active' = active
      /\ ledger' = ledger /\ faults' = faults /\ top' = top
  BY DEF begins, chainVars
<1> HIDE DEF r
<1>3. Sound(r) BY <1>1 DEF Sound
<1>4. Safe /\ ChainTyped BY Typed DEF IInv, Safe
<1>5. Spends' = Spends /\ Ids' = Ids BY <1>2, SameSpends
<1>6. ChainTyped' /\ BondsHeld' /\ LateSound' /\ Grown
  BY <1>2, <1>4, <1>5 DEF ChainTyped, BondsHeld, Safe, LateSound, Grown
<1>7. overlapped' \in BOOLEAN /\ faults' \in 0..MaxFaults BY <1>2, <1>4 DEF Safe, TypeOK, Alone
<1>8. Safe' /\ cmd'[c] = r /\ \A d \in Commands \ {c} : cmd'[d] = cmd[d]
  BY <1>1, <1>2, <1>3, <1>4, <1>6, <1>7, SafeKept
<1>9. ASSUME Undisturbed' PROVE InTurn'
  <2>1. InTurn /\ Alone(c) BY <1>2, <1>9 DEF Undisturbed, IInv
  <2>2. \A d \in Commands : cmd[d] # Idle => d = c BY <2>1 DEF Alone
  <2>3. cmd[c].at # "recording" BY <1>2 DEF Idle
  <2>4. r.at \in Fixed => ledger.spent + r.amount <= ledger.budget BY <1>1 DEF authorize
  <2> QED BY <1>1, <1>2, <1>4, <1>5, <1>8, <2>1, <2>2, <2>3, <2>4, InTurnKept
<1> QED BY <1>8, <1>9 DEF IInv

LEMMA BuyStep == ASSUME IInv, NEW c \in Commands, NEW v \in Versions, buy(c, v) PROVE IInv'
<1> DEFINE on == [kind |-> "purchase", of |-> v]
<1>1. on \in Targets /\ on.kind = "purchase" /\ on.of = v BY DEF Targets
<1>2. begins(c, "approving", on, PriceOf[v]) /\ authorize(PriceOf[v]) BY DEF buy
<1> HIDE DEF on
<1>3. PriceOf[v] \in Nat \ {0} BY BuyerOK
<1>4. Priced(on, PriceOf[v]) BY <1>1, <1>3 DEF Priced
<1> QED BY <1>1, <1>2, <1>3, <1>4, BeginsStep DEF Stages

LEMMA DisputeStep == ASSUME IInv, NEW c \in Commands, NEW p \in Ids, openDispute(c, p) PROVE IInv'
<1> DEFINE on == [kind |-> "bond", of |-> p]
<1>1. p \in 1..MaxPurchases BY PurchasesTyped, Typed DEF IInv, Safe
<1>2. on \in Targets /\ on.kind = "bond" BY <1>1 DEF Targets
<1>3. begins(c, "uploading", on, 0) BY DEF openDispute
<1> HIDE DEF on
<1>4. "uploading" \notin Fixed BY DEF Fixed
<1> QED BY <1>2, <1>3, <1>4, BeginsStep DEF Stages

LEMMA GivenUp ==
  ASSUME ChainTyped, BondsHeld, LateSound, NEW t, Good(t), givenUp(t)
  PROVE  ChainTyped' /\ BondsHeld' /\ LateSound' /\ Grown
<1>1. CASE UNCHANGED <<purchases, allowance, paid>> /\ late' \in {late, late \cup {t}}
  <2>1. late' \subseteq Txs BY <1>1 DEF ChainTyped, Good
  <2>2. ChainTyped' /\ BondsHeld' /\ Grown
    BY <1>1, <2>1, SameSpends DEF givenUp, ChainTyped, BondsHeld, Grown
  <2> QED BY <1>1, <2>2 DEF LateSound
<1>2. CASE execute(t) /\ UNCHANGED late
  <2>1. active' \subseteq Versions /\ late' \subseteq Txs BY <1>2 DEF givenUp, ChainTyped
  <2> QED BY <1>2, <2>1, Executed DEF LateSound
<1> QED BY <1>1, <1>2 DEF givenUp

\* After a fault only safety is left to keep.
LEMMA FaultStep ==
  ASSUME Safe, NEW c \in Commands, cmd' = [cmd EXCEPT ![c] = Idle],
         ChainTyped', BondsHeld', LateSound', Grown,
         faults < MaxFaults, faults' = faults + 1,
         ledger' = ledger, overlapped' = overlapped, top' = top
  PROVE  IInv'
<1>1. Idle.at = "idle" BY DEF Idle
<1>2. Sound(Idle) /\ Idle.at # "recording" BY <1>1 DEF Sound, Fixed
<1>3. faults \in Nat /\ MaxFaults \in Nat /\ overlapped \in BOOLEAN BY Typed DEF Safe
<1>4. faults' \in 0..MaxFaults /\ faults' # 0 BY <1>3
<1>5. Safe' BY <1>2, <1>3, <1>4, SafeKept
<1> QED BY <1>4, <1>5 DEF IInv, Undisturbed

LEMMA CrashStep == ASSUME IInv, NEW c \in Commands, crash(c) PROVE IInv'
<1>1. /\ cmd' = [cmd EXCEPT ![c] = Idle] /\ faults < MaxFaults /\ faults' = faults + 1
      /\ UNCHANGED <<active, purchases, allowance, paid, late, ledger, overlapped, top>>
  BY DEF crash, chainVars
<1>2. Safe /\ ChainTyped BY Typed DEF IInv, Safe
<1>3. ChainTyped' /\ BondsHeld' /\ LateSound' /\ Grown
  BY <1>1, <1>2, SameSpends DEF ChainTyped, BondsHeld, Safe, LateSound, Grown
<1> QED BY <1>1, <1>2, <1>3, FaultStep

\* A running command that changes nothing but itself.
LEMMA QuietStep ==
  ASSUME IInv, NEW c \in Commands, NEW r \in Running \cup {Idle}, cmd' = [cmd EXCEPT ![c] = r],
         cmd[c] # Idle, cmd[c].at # "recording", r.at # "recording", Sound(r),
         Undisturbed /\ r.at \in Fixed => ledger.spent + r.amount <= ledger.budget,
         ChainTyped', purchases' = purchases, paid' = paid, late' = late,
         UNCHANGED <<ledger, faults, overlapped, top>>
  PROVE  IInv'
<1>1. Safe BY DEF IInv
<1>2. Spends' = Spends /\ Ids' = Ids BY SameSpends
<1>3. BondsHeld' /\ LateSound' /\ Grown BY <1>1, <1>2 DEF Safe, BondsHeld, LateSound, Grown
<1>4. faults' \in 0..MaxFaults /\ overlapped' \in BOOLEAN BY <1>1 DEF Safe, TypeOK
<1>5. Safe' /\ cmd'[c] = r /\ \A d \in Commands \ {c} : cmd'[d] = cmd[d] BY <1>1, <1>3, <1>4, SafeKept
<1>6. ASSUME Undisturbed' PROVE InTurn'
  <2>1. Undisturbed /\ InTurn BY <1>6 DEF Undisturbed, IInv
  <2>2. \A d \in Commands : cmd[d] # Idle => d = c BY <2>1 DEF InTurn
  <2>3. r.at \in Fixed => ledger.spent + r.amount <= ledger.budget BY <2>1
  <2> QED BY <1>1, <1>2, <1>5, <2>1, <2>2, <2>3, InTurnKept
<1> QED BY <1>5, <1>6 DEF IInv

LEMMA AuthorizeBondStep == ASSUME IInv, NEW c \in Commands, authorizeBond(c) PROVE IInv'
<1>1. PICK b \in Bonds : cmd' = [cmd EXCEPT ![c] =
        IF authorize(b) THEN [cmd[c] EXCEPT !.at = "approving", !.amount = b] ELSE Idle]
  BY DEF authorizeBond
<1>2. /\ cmd[c].at = "uploading"
      /\ UNCHANGED <<active, purchases, allowance, paid, late, ledger, faults, overlapped, top>>
  BY DEF authorizeBond, chainVars
<1>3. cmd[c] \in Running /\ cmd[c].on \in Targets /\ cmd[c] # Idle
  BY <1>2, Typed DEF IInv, Safe, Stages
<1>a. cmd[c].on.kind = "bond" BY <1>2 DEF IInv, Safe, CommandsSound, Sound
<1>4. ChainTyped' BY <1>2, Typed DEF IInv, Safe, ChainTyped
<1>5. b \in Nat \ {0} BY BuyerOK
<1>6. CASE authorize(b)
  <2> DEFINE r == [cmd[c] EXCEPT !.at = "approving", !.amount = b]
  <2>1. r \in Running /\ r.at = "approving" /\ r.amount = b /\ r.on = cmd[c].on
    BY <1>3, <1>5 DEF Running, Stages
  <2>2. cmd' = [cmd EXCEPT ![c] = r] BY <1>1, <1>6
  <2> HIDE DEF r
  <2>4. Priced(r.on, r.amount) BY <1>a, <1>5, <2>1 DEF Priced
  <2>5. ledger.spent + r.amount <= ledger.budget BY <1>6, <2>1 DEF authorize
  <2> QED BY <1>2, <1>3, <1>4, <2>1, <2>2, <2>4, <2>5, QuietStep DEF Sound
<1>7. CASE ~authorize(b)
  <2>1. cmd' = [cmd EXCEPT ![c] = Idle] BY <1>1, <1>7
  <2>2. Idle.at = "idle" BY DEF Idle
  <2> QED BY <1>2, <1>3, <1>4, <2>1, <2>2, QuietStep DEF Sound, Fixed
<1> QED BY <1>6, <1>7

LEMMA ApproveStep == ASSUME IInv, NEW c \in Commands, approveExact(c) PROVE IInv'
<1> DEFINE t == [fn |-> "approve", amount |-> cmd[c].amount]
           r == [cmd[c] EXCEPT !.at = "paying"]
<1>0. Safe /\ ChainTyped BY Typed DEF IInv, Safe
<1>1. /\ cmd[c].at = "approving" /\ UNCHANGED <<ledger, overlapped, top>>
      /\ IF allowance >= cmd[c].amount THEN cmd' = [cmd EXCEPT ![c] = r] /\ UNCHANGED <<chainVars, faults>>
         ELSE \/ sends(t) /\ cmd' = [cmd EXCEPT ![c] = r]
              \/ givenUp(t) /\ cmd' = [cmd EXCEPT ![c] = Idle]
  BY DEF approveExact
<1>2. cmd[c] \in Running /\ cmd[c].amount \in Nat /\ cmd[c] # Idle BY <1>0, <1>1, Typed DEF Safe, Stages
<1>3. Priced(cmd[c].on, cmd[c].amount) BY <1>0, <1>1 DEF Safe, CommandsSound, Sound, Fixed
<1>4. t \in Txs /\ t.fn = "approve" /\ t.amount = cmd[c].amount BY <1>2 DEF Txs
<1>5. r \in Running /\ r.at = "paying" /\ r.on = cmd[c].on /\ r.amount = cmd[c].amount
  BY <1>2 DEF Running, Stages
<1> HIDE DEF t, r
<1>6. Good(t) BY <1>4 DEF Good
<1>7. ASSUME givenUp(t), cmd' = [cmd EXCEPT ![c] = Idle] PROVE IInv'
  <2>1. ChainTyped' /\ BondsHeld' /\ LateSound' /\ Grown BY <1>0, <1>6, <1>7, GivenUp DEF Safe
  <2>2. faults < MaxFaults /\ faults' = faults + 1 BY <1>7 DEF givenUp
  <2> QED BY <1>0, <1>1, <1>7, <2>1, <2>2, FaultStep
<1>8. ASSUME cmd' = [cmd EXCEPT ![c] = r],
             UNCHANGED <<chainVars, faults>> \/ sends(t)
      PROVE  IInv'
  <2>1. /\ purchases' = purchases /\ paid' = paid /\ late' = late /\ active' = active /\ faults' = faults
        /\ allowance' \in {allowance, cmd[c].amount}
    BY <1>4, <1>8 DEF chainVars, sends, execute
  <2>2. ChainTyped' BY <1>0, <1>2, <2>1 DEF ChainTyped
  <2>3. Sound(r) BY <1>3, <1>5 DEF Sound
  <2>4. Undisturbed => ledger.spent + r.amount <= ledger.budget
    BY <1>1, <1>5 DEF IInv, InTurn, Fixed
  <2> QED BY <1>1, <1>2, <1>5, <1>8, <2>1, <2>2, <2>3, <2>4, QuietStep
<1> QED BY <1>1, <1>7, <1>8

LEMMA PayStep == ASSUME IInv, NEW c \in Commands, pay(c) PROVE IInv'
<1> DEFINE t == PayTx(c)
           k == ReceiptRef(cmd[c].on)
           r == [cmd[c] EXCEPT !.at = "recording", !.ref = k]
<1>0. Safe /\ ChainTyped BY Typed DEF IInv, Safe
<1>1. /\ cmd[c].at = "paying" /\ UNCHANGED <<ledger, overlapped, top>>
      /\ \/ sends(t) /\ cmd' = [cmd EXCEPT ![c] = r]
         \/ (refused(t) \/ givenUp(t)) /\ cmd' = [cmd EXCEPT ![c] = Idle]
  BY DEF pay, recorded
<1>2. cmd[c] \in Running /\ cmd[c].on \in Targets /\ cmd[c].amount \in Nat /\ cmd[c] # Idle
  BY <1>0, <1>1, Typed DEF Safe, Stages
<1>3. Priced(cmd[c].on, cmd[c].amount) BY <1>0, <1>1 DEF Safe, CommandsSound, Sound, Fixed
<1>4. t \in Txs /\ t.fn = "pay" /\ t.on = cmd[c].on /\ t.amount = cmd[c].amount BY <1>2 DEF Txs, PayTx
<1> HIDE DEF k
<1>a. /\ r.at = "recording" /\ r.on = cmd[c].on /\ r.amount = cmd[c].amount /\ r.ref = k
      /\ k \in 0..MaxPurchases => r \in Running
  BY <1>2 DEF Running, Stages
<1>b. k \in 1..MaxPurchases => k \in 0..MaxPurchases BY BuyerOK
<1> HIDE DEF t, r
<1>5. /\ r.at = "recording" /\ r.on = cmd[c].on /\ r.amount = cmd[c].amount /\ r.ref = ReceiptRef(cmd[c].on)
      /\ ReceiptRef(cmd[c].on) \in 1..MaxPurchases => r \in Running
  BY <1>a, <1>b DEF k
<1>6. Good(t) BY <1>3, <1>4 DEF Good
<1>7. ASSUME givenUp(t), cmd' = [cmd EXCEPT ![c] = Idle] PROVE IInv'
  <2>1. ChainTyped' /\ BondsHeld' /\ LateSound' /\ Grown BY <1>0, <1>6, <1>7, GivenUp DEF Safe
  <2>2. faults < MaxFaults /\ faults' = faults + 1 BY <1>7 DEF givenUp
  <2> QED BY <1>0, <1>1, <1>7, <2>1, <2>2, FaultStep
<1>8. ASSUME refused(t), cmd' = [cmd EXCEPT ![c] = Idle] PROVE IInv'
  <2>1. UNCHANGED <<active, purchases, allowance, paid, late, faults>> BY <1>8 DEF refused, chainVars
  <2>2. ChainTyped' BY <1>0, <2>1 DEF ChainTyped
  <2>3. Idle.at = "idle" BY DEF Idle
  <2> QED BY <1>1, <1>2, <1>8, <2>1, <2>2, <2>3, QuietStep DEF Sound, Fixed
<1>9. ASSUME sends(t), cmd' = [cmd EXCEPT ![c] = r] PROVE IInv'
  <2>1. /\ Payable(cmd[c].on, cmd[c].amount) /\ pays(cmd[c].on, cmd[c].amount)
        /\ active' = active /\ late' = late /\ faults' = faults
    BY <1>4, <1>9 DEF sends, execute
  <2> DEFINE n == SpendOf(cmd[c].on, cmd[c].amount)
  <2>2. /\ purchases' \in Seq(Purchases) /\ Len(purchases)' <= MaxPurchases /\ BondsHeld'
        /\ allowance' \in Nat /\ paid' = paid + cmd[c].amount /\ paid' \in Nat
        /\ ReceiptRef(cmd[c].on) \in 1..MaxPurchases
        /\ Spends' = Spends \cup {n}
        /\ \A s \in Spends : <<s.kind, s.ref>> # <<cmd[c].on.kind, ReceiptRef(cmd[c].on)>>
    BY <1>0, <1>2, <1>3, <2>1, PaidSpend DEF Safe
  <2>3. EntryOf(r) = n BY <1>5 DEF EntryOf, SpendOf
  <2> HIDE DEF n
  <2>4. ChainTyped' /\ LateSound' /\ Grown BY <1>0, <2>1, <2>2 DEF ChainTyped, Safe, LateSound, Grown
  <2>5. r \in Running /\ Sound(r) BY <1>3, <1>5, <2>2 DEF Sound
  <2>6. EntryOf(r) \in Spends' BY <2>2, <2>3
  <2>7. faults' \in 0..MaxFaults /\ overlapped' \in BOOLEAN BY <1>0, <1>1, <2>1 DEF Safe, TypeOK
  <2>8. Safe' /\ cmd'[c] = r /\ \A d \in Commands \ {c} : cmd'[d] = cmd[d]
    BY <1>0, <1>1, <1>9, <2>2, <2>4, <2>5, <2>6, <2>7, SafeKept
  <2>9. ASSUME Undisturbed' PROVE InTurn'
    <3>1. InTurn BY <1>1, <2>1, <2>9 DEF Undisturbed, IInv
    <3>2. \A d \in Commands \ {c} : cmd[d] = Idle /\ cmd'[d] = Idle /\ cmd'[d].at = "idle"
      BY <1>2, <2>8, <3>1 DEF InTurn, Idle
    <3>3. \A d \in Commands : cmd[d].at # "recording" BY <1>1, <2>8, <3>2
    <3>4. paid = ledger.spent /\ Spends \ ledger.entries = {} BY <3>1, <3>3 DEF InTurn
    <3>5. ledger.spent + cmd[c].amount <= ledger.budget BY <1>1, <3>1 DEF InTurn, Fixed
    <3>6. ledger.entries \subseteq Spends BY <1>0 DEF Safe, LedgerSound
    <3>7. Unrecorded(r) BY <1>5, <2>2, <3>6 DEF Unrecorded
    <3>8. \A d \in Commands : cmd'[d].at \in Fixed => d = c BY <3>2 DEF Fixed
    <3>9. \A s \in Spends' \ ledger.entries : s = n BY <2>2, <3>4
    <3>10. Entry(c)' = n BY <2>3, <2>8 DEF Entry, EntryOf
    <3>11. late' = {} /\ \A d, e \in Commands : cmd'[d] # Idle /\ cmd'[e] # Idle => d = e
      BY <2>1, <3>1, <3>2 DEF InTurn
    <3>12. ledger'.budget <= top' /\ ledger'.spent <= top' BY <1>1, <3>1 DEF InTurn
    <3>13. \A d \in Commands : cmd'[d].at \in Fixed => ledger'.spent + cmd'[d].amount <= ledger'.budget
      BY <1>1, <1>5, <2>8, <3>5, <3>8
    <3>14. \A d \in Commands :
             cmd'[d].at = "recording" => paid' = ledger'.spent + cmd'[d].amount /\ Unrecorded(cmd[d])'
      BY <1>1, <1>5, <2>2, <2>8, <3>2, <3>4, <3>7 DEF Unrecorded
    <3>15. cmd'[c].at = "recording" BY <1>5, <2>8
    <3>16. \A s \in Spends' \ ledger'.entries : \E d \in Commands : cmd'[d].at = "recording" /\ s = Entry(d)'
      BY <1>1, <3>9, <3>10, <3>15
    <3> QED BY <3>11, <3>12, <3>13, <3>14, <3>15, <3>16 DEF InTurn
  <2> QED BY <2>8, <2>9 DEF IInv
<1> QED BY <1>1, <1>7, <1>8, <1>9

LEMMA RecordStep == ASSUME IInv, NEW c \in Commands, record(c) PROVE IInv'
<1>0. Safe /\ ChainTyped BY Typed DEF IInv, Safe
<1>1. /\ cmd[c].at = "recording" /\ cmd' = [cmd EXCEPT ![c] = Idle]
      /\ UNCHANGED <<active, purchases, allowance, paid, late, faults, overlapped, top>>
  BY DEF record, chainVars
<1>2. cmd[c] \in Running /\ cmd[c].on \in Targets /\ cmd[c].amount \in Nat /\ cmd[c].ref \in 0..MaxPurchases /\ cmd[c] # Idle
  BY <1>0, <1>1, Typed DEF Safe, Stages
<1>3. Entry(c) \in Spends BY <1>0, <1>1 DEF Safe, CommandsSound
<1>4. Spends' = Spends /\ Ids' = Ids BY <1>1, SameSpends
<1>5. Entry(c) \in Entries
  <2>1. Entry(c).ref \in Ids BY <1>3, SpendsAre DEF IsSpend, PriceSpend, BondSpend
  <2>2. Entry(c).ref \in 1..MaxPurchases BY <1>0, <2>1, PurchasesTyped
  <2>3. cmd[c].on.kind \in {"purchase", "bond"} BY <1>2 DEF Targets
  <2> QED BY <1>2, <2>2, <2>3 DEF Entry, Entries
<1> DEFINE fits == /\ authorize(cmd[c].amount)
                   /\ \A e \in ledger.entries : <<e.kind, e.ref>> # <<cmd[c].on.kind, cmd[c].ref>>
<1>6. /\ fits => ledger' = [ledger EXCEPT !.spent = @ + cmd[c].amount, !.entries = @ \cup {Entry(c)}]
      /\ ~fits => ledger' = ledger
  BY DEF record
<1>7. /\ ledger \in [budget : Nat, spent : Nat, entries : SUBSET Entries]
      /\ ledger.budget \in Nat /\ ledger.spent \in Nat /\ ledger.entries \subseteq Entries
  BY <1>0 DEF Safe, TypeOK
<1>8. /\ ledger' \in [budget : Nat, spent : Nat, entries : SUBSET Entries] /\ ledger'.budget = ledger.budget
      /\ fits => ledger'.spent = ledger.spent + cmd[c].amount /\ ledger'.entries = ledger.entries \cup {Entry(c)}
      /\ ~fits => ledger'.spent = ledger.spent /\ ledger'.entries = ledger.entries
  <2>1. CASE ~fits BY <1>6, <1>7, <2>1
  <2>2. CASE fits
    <3>1. ledger.entries \cup {Entry(c)} \subseteq Entries BY <1>5, <1>7
    <3>2. ledger.spent + cmd[c].amount \in Nat BY <1>2, <1>7
    <3>3. ledger' = [budget |-> ledger.budget, spent |-> ledger.spent + cmd[c].amount,
                     entries |-> ledger.entries \cup {Entry(c)}]
      BY <1>6, <1>7, <2>2
    <3> QED BY <1>7, <2>2, <3>1, <3>2, <3>3
  <2> QED BY <2>1, <2>2
<1>9. cmd' \in [Commands -> Running \cup {Idle}] /\ cmd'[c] = Idle /\ \A d \in Commands \ {c} : cmd'[d] = cmd[d]
  BY <1>0, <1>1 DEF Safe, TypeOK
<1>10. Idle.at = "idle" BY DEF Idle
<1>11. Safe'
  <2>1. TypeOK' BY <1>0, <1>1, <1>8, <1>9 DEF Safe, TypeOK
  <2>2. BondsHeld' /\ LateSound' BY <1>0, <1>1, <1>4 DEF Safe, BondsHeld, LateSound
  <2>3. ledger'.entries \subseteq Spends' BY <1>0, <1>3, <1>4, <1>8 DEF Safe, LedgerSound
  <2>4. \A d \in Commands : Sound(cmd'[d]) /\ (cmd'[d].at = "recording" => EntryOf(cmd'[d]) \in Spends')
    <3>1. \A d \in Commands : Sound(cmd[d]) /\ (cmd[d].at = "recording" => EntryOf(cmd[d]) \in Spends)
      BY <1>0 DEF Safe, CommandsSound, Entry, EntryOf
    <3>2. Sound(Idle) BY <1>10 DEF Sound, Fixed
    <3> QED BY <1>4, <1>9, <1>10, <3>1, <3>2
  <2>5. CommandsSound' BY <2>4 DEF CommandsSound, Sound, Entry, EntryOf, Priced
  <2> QED BY <2>1, <2>2, <2>3, <2>5 DEF Safe, LedgerSound
<1>12. ASSUME Undisturbed' PROVE InTurn'
  <2>1. InTurn BY <1>1, <1>12 DEF Undisturbed, IInv
  <2>2. \A d \in Commands \ {c} : cmd[d] = Idle BY <1>2, <2>1 DEF InTurn
  <2>3. \A d \in Commands : cmd'[d] = Idle /\ cmd'[d].at = "idle" BY <1>9, <1>10, <2>2
  <2>4. ledger.spent + cmd[c].amount <= ledger.budget /\ ledger.budget <= top
    BY <1>1, <2>1 DEF InTurn, Fixed
  <2>5. paid = ledger.spent + cmd[c].amount /\ Unrecorded(cmd[c]) BY <1>1, <2>1 DEF InTurn
  <2>6. cmd[c].amount > 0
    <3>1. Priced(cmd[c].on, cmd[c].amount) BY <1>0, <1>1 DEF Safe, CommandsSound, Sound, Fixed
    <3> QED BY <3>1 DEF Priced
  <2>7. fits BY <2>4, <2>5, <2>6 DEF authorize, Unrecorded
  <2>8. top \in Nat BY <1>0, Typed DEF Safe
  <2>9. ledger'.budget <= top' /\ ledger'.spent <= top' /\ paid' = ledger'.spent
    BY <1>1, <1>2, <1>7, <1>8, <2>4, <2>5, <2>7, <2>8
  <2>10. \A s \in Spends \ ledger.entries : s = Entry(c)
    <3>1. \A d \in Commands : cmd[d].at = "recording" => d = c BY <1>10, <2>2
    <3> QED BY <2>1, <3>1 DEF InTurn
  <2>11. Spends' \ ledger'.entries = {} BY <1>4, <1>8, <2>7, <2>10
  <2>12. late' = {} BY <1>1, <2>1 DEF InTurn
  <2> QED BY <2>3, <2>9, <2>11, <2>12 DEF InTurn, Fixed
<1> QED BY <1>11, <1>12 DEF IInv

LEMMA MarketStep == ASSUME IInv, MarketSteps PROVE IInv'
<1>0. Safe /\ ChainTyped BY Typed DEF IInv, Safe
<1>1. UNCHANGED <<ledger, cmd, faults, overlapped, top>> BY DEF MarketSteps
<1>2. ChainTyped' /\ BondsHeld' /\ LateSound' /\ Grown /\ (late = {} => Spends' = Spends /\ late' = late /\ paid' = paid)
  <2>1. ASSUME NEW t \in late, mineLate(t)
        PROVE  ChainTyped' /\ BondsHeld' /\ LateSound' /\ Grown /\ late # {}
    <3>1. Good(t) /\ late' = late \ {t} /\ active' = active BY <1>0, <2>1 DEF Safe, LateSound, mineLate
    <3>2. active' \subseteq Versions /\ late' \subseteq Txs /\ LateSound'
      BY <1>0, <3>1 DEF ChainTyped, Safe, LateSound
    <3>3. CASE UNCHANGED <<purchases, allowance, paid>>
      BY <1>0, <3>2, <3>3, SameSpends DEF Safe, ChainTyped, BondsHeld, Grown
    <3>4. CASE execute(t) BY <1>0, <3>1, <3>2, <3>4, Executed DEF Safe
    <3> QED BY <2>1, <3>2, <3>3, <3>4 DEF mineLate
  <2>2. ASSUME NEW p \in Ids, purchaseMoves(p)
        PROVE  ChainTyped' /\ BondsHeld' /\ LateSound' /\ Spends' = Spends /\ late' = late /\ paid' = paid
    BY <1>0, <2>2, PurchaseMoved DEF Safe, LateSound
  <2>3. ASSUME NEW v \in Versions, setVersionActive(v)
        PROVE  ChainTyped' /\ BondsHeld' /\ LateSound' /\ Spends' = Spends /\ late' = late /\ paid' = paid
    <3>1. purchases' = purchases /\ allowance' = allowance /\ paid' = paid /\ late' = late /\ active' \subseteq Versions
      BY <1>0, <2>3 DEF setVersionActive, ChainTyped
    <3> QED BY <1>0, <3>1, SameSpends DEF Safe, ChainTyped, BondsHeld, LateSound
  <2> QED BY <2>1, <2>2, <2>3 DEF MarketSteps, Grown
<1>3. Safe'
  <2>1. TypeOK' BY <1>0, <1>1, <1>2 DEF Safe, TypeOK, ChainTyped
  <2>2. \A d \in Commands : Sound(cmd[d]) /\ (cmd[d].at = "recording" => EntryOf(cmd[d]) \in Spends')
    BY <1>0, <1>2 DEF Safe, CommandsSound, Entry, EntryOf, Grown
  <2>3. CommandsSound' BY <1>1, <2>2 DEF CommandsSound, Sound, Entry, EntryOf, Priced
  <2> QED BY <1>0, <1>1, <1>2, <2>1, <2>3 DEF Safe, LedgerSound, Grown
<1>4. ASSUME Undisturbed' PROVE InTurn'
  <2>1. InTurn BY <1>1, <1>4 DEF Undisturbed, IInv
  <2>2. Spends' = Spends /\ late' = late /\ paid' = paid BY <1>2, <2>1 DEF InTurn
  <2> QED BY <1>1, <2>1, <2>2 DEF InTurn, Entry, Unrecorded
<1> QED BY <1>3, <1>4 DEF IInv

LEMMA SetBudgetStep == ASSUME IInv, NEW b \in Budgets, setBudget(b) PROVE IInv'
<1>0. Safe /\ ChainTyped BY Typed DEF IInv, Safe
<1>1. /\ ledger' = [ledger EXCEPT !.budget = b] /\ top' = (IF b > top THEN b ELSE top)
      /\ overlapped' = (overlapped \/ \E c \in Commands : cmd[c] # Idle)
      /\ UNCHANGED <<active, purchases, allowance, paid, late, cmd, faults>>
  BY DEF setBudget, chainVars
<1>2. b \in Nat /\ top \in Nat /\ overlapped \in BOOLEAN BY <1>0, BuyerOK, Typed DEF Safe
<1>3. ledger \in [budget : Nat, spent : Nat, entries : SUBSET Entries] BY <1>0 DEF Safe, TypeOK
<1>4. /\ ledger' \in [budget : Nat, spent : Nat, entries : SUBSET Entries]
      /\ ledger'.budget = b /\ ledger'.spent = ledger.spent /\ ledger'.entries = ledger.entries
  BY <1>1, <1>2, <1>3
<1>5. Spends' = Spends /\ Ids' = Ids BY <1>1, SameSpends
<1>6. top' \in Nat /\ b <= top' /\ top <= top' BY <1>1, <1>2
<1>7. overlapped' \in BOOLEAN BY <1>1, <1>2
<1>8. Safe'
  <2>1. TypeOK' BY <1>0, <1>1, <1>4, <1>6, <1>7 DEF Safe, TypeOK
  <2>2. BondsHeld' /\ LateSound' /\ CommandsSound' /\ LedgerSound'
    BY <1>0, <1>1, <1>4, <1>5 DEF Safe, BondsHeld, LateSound, CommandsSound, LedgerSound, Sound, Priced, Entry
  <2> QED BY <2>1, <2>2 DEF Safe
<1>9. ASSUME Undisturbed' PROVE InTurn'
  <2>1. InTurn /\ \A c \in Commands : cmd[c] = Idle BY <1>1, <1>9 DEF Undisturbed, IInv
  <2>a. Idle.at = "idle" BY DEF Idle
  <2>2. \A c \in Commands : cmd[c].at = "idle" BY <2>1, <2>a
  <2>3. ledger.spent <= top' BY <1>2, <1>3, <1>6, <2>1 DEF InTurn
  <2> QED BY <1>1, <1>4, <1>5, <1>6, <2>1, <2>2, <2>3 DEF InTurn, Fixed
<1> QED BY <1>8, <1>9 DEF IInv

LEMMA StutterStep == ASSUME IInv, UNCHANGED vars PROVE IInv'
<1>1. UNCHANGED <<active, purchases, allowance, paid, late, ledger, cmd, faults, overlapped, top>>
  BY DEF vars, chainVars
<1>2. Spends' = Spends /\ Ids' = Ids BY <1>1, SameSpends
<1>3. Safe' BY <1>1, <1>2 DEF IInv, Safe, TypeOK, BondsHeld, LateSound, CommandsSound, LedgerSound, Sound, Priced, Entry
<1>4. ASSUME Undisturbed' PROVE InTurn'
  BY <1>1, <1>2, <1>4 DEF Undisturbed, IInv, InTurn, Entry, Unrecorded
<1> QED BY <1>3, <1>4 DEF IInv

LEMMA Inductive == ASSUME IInv, [Next]_vars PROVE IInv'
<1>1. ASSUME NEW c \in Commands, CommandSteps(c) PROVE IInv'
  <2>1. ASSUME NEW v \in Versions, buy(c, v) PROVE IInv' BY <2>1, BuyStep
  <2>2. ASSUME NEW p \in Ids, openDispute(c, p) PROVE IInv' BY <2>2, DisputeStep
  <2> QED BY <1>1, <2>1, <2>2, AuthorizeBondStep, ApproveStep, PayStep, RecordStep, CrashStep DEF CommandSteps
<1>2. ASSUME NEW b \in Budgets, setBudget(b) PROVE IInv' BY <1>2, SetBudgetStep
<1> QED BY <1>1, <1>2, MarketStep, StutterStep DEF Next

LEMMA Reached == Spec => []IInv
<1>1. Init => IInv BY InitSafe
<1>2. IInv /\ [Next]_vars => IInv' BY Inductive
<1> QED BY <1>1, <1>2, PTL DEF Spec

---------------------------------------------------------------------------
(* Theorems                                                                *)

\* Commands, ledger, purchases and transactions whose receipt is late keep their types.
THEOREM BuyerTypeCorrect == Spec => []TypeOK
<1>1. IInv => TypeOK BY DEF IInv, Safe
<1> QED BY <1>1, Reached, PTL

\* No command acts on an amount it never fixed: while it approves, pays or records, it holds
\* the price of the version it buys, or a bond the contract may ask; and what it is about to
\* record is a spend the market has made (approveExact, send, record).
THEOREM CommandsAlwaysSound == Spec => []CommandsSound
<1>1. IInv => CommandsSound BY DEF IInv, Safe
<1> QED BY <1>1, Reached, PTL

\* Nor does a transaction that was given up carry one: mined late, it pays the price or bond
\* of the command that sent it (send).
THEOREM LateCallsSound == Spec => []LateSound
<1>1. IInv => LateSound BY DEF IInv, Safe
<1> QED BY <1>1, Reached, PTL

\* An entry of the ledger is a spend the market made, at its amount, for any number of
\* overlapping commands, lost receipts and crashes (record, send).
THEOREM LedgersSound == Spec => []LedgerSound
<1>1. IInv => LedgerSound BY DEF IInv, Safe
<1> QED BY <1>1, Reached, PTL

\* Commands that run to their end in turn keep within the highest budget set and leave no spend
\* unrecorded, whatever the prices and however often the budget changes (authorize, record).
THEOREM BudgetsKept == Spec => []BudgetKept
<1>1. ASSUME IInv PROVE BudgetKept
  <2> SUFFICES ASSUME Undisturbed
               PROVE  /\ paid <= top
                      /\ \A s \in Spends \ ledger.entries : \E c \in Commands : cmd[c].at = "recording" /\ s = Entry(c)
    BY DEF BudgetKept
  <2>1. InTurn BY <1>1 DEF IInv
  <2>2. paid \in Nat /\ top \in Nat /\ ledger.spent \in Nat /\ ledger.budget \in Nat
    BY <1>1, Typed DEF IInv, Safe, ChainTyped
  <2>3. paid <= top
    <3>1. CASE \A c \in Commands : cmd[c].at # "recording" BY <2>1, <3>1 DEF InTurn
    <3>2. ASSUME NEW c \in Commands, cmd[c].at = "recording" PROVE paid <= top
      <4>1. paid = ledger.spent + cmd[c].amount /\ ledger.spent + cmd[c].amount <= ledger.budget /\ ledger.budget <= top
        BY <2>1, <3>2 DEF InTurn, Fixed
      <4>2. cmd[c].amount \in Nat BY <1>1, <3>2, Typed DEF IInv, Safe, Stages
      <4> QED BY <2>2, <4>1, <4>2
    <3> QED BY <3>1, <3>2
  <2> QED BY <2>1, <2>3 DEF InTurn
<1> QED BY <1>1, Reached, PTL
=============================================================================
