----------------------------- MODULE BuyerAgent -----------------------------
(***************************************************************************)
(* The buyer's commands that spend, the ledger file that limits them, and  *)
(* the wallet and market they spend through.  Several commands may run at  *)
(* once, each an operating-system process.  A step ends where the code     *)
(* awaits; the ledger is read and written without an await.                *)
(***************************************************************************)
EXTENDS Integers, Sequences

CONSTANTS
  Commands,      \* processes that may run at a time
  Versions, PriceOf, Bonds,
  Budgets,       \* what the buyer may set
  MaxPurchases,  \* bound
  MaxFaults      \* bound: crashes and transactions given up

ASSUME BuyerOK ==
  /\ PriceOf \in [Versions -> Nat \ {0}] /\ Bonds \subseteq Nat \ {0} /\ Budgets \subseteq Nat
  /\ MaxPurchases \in Nat /\ MaxFaults \in Nat

VARIABLES
  active,        \* versions on sale: active, and with collateral to sell
  purchases,     \* by number: version, state and bond, 0 without a dispute
  allowance,     \* what the market may take from the wallet
  paid,          \* what it has taken
  late,          \* transactions whose sender gave up, still to be included or dropped
  ledger,        \* disk
  cmd,           \* memory: progress of each command
  faults,        \* faults so far
  overlapped,    \* history: a command or the budget changed while another command ran
  top            \* history: the highest budget set

chainVars == <<active, purchases, allowance, paid, late>>
vars == <<chainVars, ledger, cmd, faults, overlapped, top>>

States == {"Funded", "Delivered", "Disputed", "Closed"}
Purchases == [version : Versions, state : States, bond : Bonds \cup {0}]
Entries == [kind : {"purchase", "bond"}, ref : 1..MaxPurchases, amount : Nat]
\* What a command spends on: a version, or a dispute of a purchase.
Targets == [kind : {"purchase"}, of : Versions] \cup [kind : {"bond"}, of : 1..MaxPurchases]
Stages == {"uploading", "approving", "paying", "recording"}
Idle == [at |-> "idle"]
Running == [at : Stages, on : Targets, amount : Nat, ref : 0..MaxPurchases]
Txs == [fn : {"approve"}, amount : Nat] \cup [fn : {"pay"}, on : Targets, amount : Nat]

Init ==
  /\ active = Versions /\ purchases = <<>> /\ allowance = 0 /\ paid = 0 /\ late = {}
  /\ ledger = [budget |-> 0, spent |-> 0, entries |-> {}]
  /\ cmd = [c \in Commands |-> Idle]
  /\ faults = 0 /\ overlapped = FALSE /\ top = 0

TypeOK ==
  /\ active \subseteq Versions /\ purchases \in Seq(Purchases) /\ Len(purchases) <= MaxPurchases
  /\ allowance \in Nat /\ paid \in Nat /\ late \subseteq Txs
  /\ ledger \in [budget : Nat, spent : Nat, entries : SUBSET Entries]
  /\ cmd \in [Commands -> Running \cup {Idle}]
  /\ faults \in 0..MaxFaults /\ overlapped \in BOOLEAN /\ top \in Nat

---------------------------------------------------------------------------
(* The market and the token *)

Ids == 1..Len(purchases)

\* buy and openDispute: their guards, and the token's.
Payable(on, amount) ==
  /\ allowance >= amount
  /\ \/ on.kind = "purchase" /\ on.of \in active /\ Len(purchases) < MaxPurchases
     \/ on.kind = "bond" /\ on.of \in Ids /\ purchases[on.of].state = "Delivered"

pays(on, amount) ==
  /\ allowance' = allowance - amount /\ paid' = paid + amount
  /\ IF on.kind = "purchase"
     THEN purchases' = Append(purchases, [version |-> on.of, state |-> "Funded", bond |-> 0])
     ELSE purchases' = [purchases EXCEPT ![on.of].state = "Disputed", ![on.of].bond = amount]

execute(t) ==
  \/ t.fn = "approve" /\ allowance' = t.amount /\ UNCHANGED <<purchases, paid>>
  \/ t.fn = "pay" /\ Payable(t.on, t.amount) /\ pays(t.on, t.amount)
Reverts(t) == t.fn = "pay" /\ ~Payable(t.on, t.amount)

mineLate(t) ==
  /\ t \in late /\ late' = late \ {t}
  /\ IF Reverts(t) THEN UNCHANGED <<purchases, allowance, paid>> ELSE execute(t)
  /\ UNCHANGED active

\* Delivery, refund or settlement by others, with time; and the seller's switch.
Moves == [Funded |-> {"Delivered", "Closed"}, Delivered |-> {"Closed"}, Disputed |-> {"Closed"}]
purchaseMoves(p) ==
  /\ purchases[p].state \in DOMAIN Moves
  /\ \E s \in Moves[purchases[p].state] : purchases' = [purchases EXCEPT ![p].state = s]
  /\ UNCHANGED <<active, allowance, paid, late>>
setVersionActive(v) ==
  /\ active' = IF v \in active THEN active \ {v} ELSE active \cup {v}
  /\ UNCHANGED <<purchases, allowance, paid, late>>

---------------------------------------------------------------------------
(* The ledger *)

Alone(c) == \A d \in Commands \ {c} : cmd[d] = Idle

\* Mutant: each spend is held against the whole budget.
authorize_each(amount) == amount > 0 /\ amount <= ledger.budget

authorize(amount) == amount > 0 /\ ledger.spent + amount <= ledger.budget

setBudget(b) ==
  /\ ledger' = [ledger EXCEPT !.budget = b]
  /\ top' = IF b > top THEN b ELSE top
  /\ overlapped' = (overlapped \/ \E c \in Commands : cmd[c] # Idle)
  /\ UNCHANGED <<chainVars, cmd, faults>>

Entry(c) == [kind |-> cmd[c].on.kind, ref |-> cmd[c].ref, amount |-> cmd[c].amount]

\* The limit is checked again: a spend that no longer fits is not written down.
record(c) ==
  /\ cmd[c].at = "recording" /\ cmd' = [cmd EXCEPT ![c] = Idle]
  /\ IF /\ authorize(cmd[c].amount)
        /\ \A e \in ledger.entries : <<e.kind, e.ref>> # <<cmd[c].on.kind, cmd[c].ref>>
     THEN ledger' = [ledger EXCEPT !.spent = @ + cmd[c].amount, !.entries = @ \cup {Entry(c)}]
     ELSE UNCHANGED ledger
  /\ UNCHANGED <<chainVars, faults, overlapped, top>>

---------------------------------------------------------------------------
(* The commands *)

begins(c, stage, on, amount) ==
  /\ cmd[c] = Idle
  /\ cmd' = [cmd EXCEPT ![c] = [at |-> stage, on |-> on, amount |-> amount, ref |-> 0]]
  /\ overlapped' = (overlapped \/ ~Alone(c))
  /\ UNCHANGED <<chainVars, ledger, faults, top>>

\* The price of a version never changes; one above the command's maximum ends it here.
buy(c, v) ==
  /\ v \in active /\ authorize(PriceOf[v])
  /\ begins(c, "approving", [kind |-> "purchase", of |-> v], PriceOf[v])

openDispute(c, p) ==
  /\ p \in Ids /\ purchases[p].state = "Delivered"
  /\ begins(c, "uploading", [kind |-> "bond", of |-> p], 0)

\* The evidence is stored, the bond quoted on terms fixed when the purchase was made.
authorizeBond(c) ==
  /\ cmd[c].at = "uploading"
  /\ \E b \in Bonds : cmd' = [cmd EXCEPT ![c] =
       IF authorize(b) THEN [cmd[c] EXCEPT !.at = "approving", !.amount = b] ELSE Idle]
  /\ UNCHANGED <<chainVars, ledger, faults, overlapped, top>>

\* Given up: the sender saw no receipt, the transaction is included now, later or never.
givenUp(t) ==
  /\ faults < MaxFaults /\ faults' = faults + 1
  /\ UNCHANGED active
  /\ \/ UNCHANGED <<purchases, allowance, paid>> /\ late' \in {late, late \cup {t}}
     \/ execute(t) /\ UNCHANGED late

\* simulateContract reverts, or the receipt does.
refused(t) == Reverts(t) /\ UNCHANGED <<chainVars, faults>>
sends(t) == execute(t) /\ UNCHANGED <<active, late, faults>>

approveExact(c) ==
  LET t == [fn |-> "approve", amount |-> cmd[c].amount]
      goes == cmd' = [cmd EXCEPT ![c] = [cmd[c] EXCEPT !.at = "paying"]] IN
  /\ cmd[c].at = "approving"
  /\ IF allowance >= cmd[c].amount THEN goes /\ UNCHANGED <<chainVars, faults>>
     ELSE \/ sends(t) /\ goes
          \/ givenUp(t) /\ cmd' = [cmd EXCEPT ![c] = Idle]
  /\ UNCHANGED <<ledger, overlapped, top>>

PayTx(c) == [fn |-> "pay", on |-> cmd[c].on, amount |-> cmd[c].amount]
\* The number in the receipt's event.
ReceiptRef(on) == IF on.kind = "purchase" THEN Len(purchases) + 1 ELSE on.of
recorded(c) == cmd' = [cmd EXCEPT ![c] = [cmd[c] EXCEPT !.at = "recording", !.ref = ReceiptRef(cmd[c].on)]]

\* Mutant: the status of the receipt is not looked at.
pay_anyStatus(c) ==
  /\ cmd[c].at = "paying"
  /\ \/ (sends(PayTx(c)) \/ refused(PayTx(c))) /\ recorded(c)
     \/ givenUp(PayTx(c)) /\ cmd' = [cmd EXCEPT ![c] = Idle]
  /\ UNCHANGED <<ledger, overlapped, top>>

pay(c) ==
  /\ cmd[c].at = "paying"
  /\ \/ sends(PayTx(c)) /\ recorded(c)
     \/ (refused(PayTx(c)) \/ givenUp(PayTx(c))) /\ cmd' = [cmd EXCEPT ![c] = Idle]
  /\ UNCHANGED <<ledger, overlapped, top>>

\* The process is stopped, or an error ends it.
crash(c) ==
  /\ cmd[c] # Idle /\ cmd' = [cmd EXCEPT ![c] = Idle]
  /\ faults < MaxFaults /\ faults' = faults + 1
  /\ UNCHANGED <<chainVars, ledger, overlapped, top>>

CommandSteps(c) ==
  \/ \E v \in Versions : buy(c, v)
  \/ \E p \in Ids : openDispute(c, p)
  \/ authorizeBond(c) \/ approveExact(c) \/ pay(c) \/ record(c) \/ crash(c)
MarketSteps ==
  /\ (\E t \in late : mineLate(t)) \/ (\E p \in Ids : purchaseMoves(p)) \/ (\E v \in Versions : setVersionActive(v))
  /\ UNCHANGED <<ledger, cmd, faults, overlapped, top>>

Next == (\E c \in Commands : CommandSteps(c)) \/ MarketSteps \/ \E b \in Budgets : setBudget(b)
Spec == Init /\ [][Next]_vars

---------------------------------------------------------------------------
(* Properties *)

Spends == {[kind |-> "purchase", ref |-> p, amount |-> PriceOf[purchases[p].version]] : p \in Ids}
     \cup {[kind |-> "bond", ref |-> p, amount |-> purchases[p].bond] : p \in {q \in Ids : purchases[q].bond > 0}}

Undisturbed == faults = 0 /\ ~overlapped

\* The ledger holds only what was spent, each spend once and at its amount, however commands
\* overlap, fail or are overtaken: a receipt that reports success is of the call that spent.
LedgerSound == ledger.entries \subseteq Spends

\* Commands that run to their end one after the other never spend, prices and bonds together,
\* more than the highest budget set, and forget no spend (authorize, record).
BudgetKept ==
  Undisturbed =>
    /\ paid <= top
    /\ \A s \in Spends \ ledger.entries : \E c \in Commands : cmd[c].at = "recording" /\ s = Entry(c)

\* policy.ts:2, "The buyer agent may only spend (purchase prices + dispute bonds) up to a persisted
\* budget", for commands that run one after the other.
SpendWithinBudget == ~overlapped => paid <= top
=============================================================================
