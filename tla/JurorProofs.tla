------------------------------ MODULE JurorProofs ------------------------------
(***************************************************************************)
(* What the juror services keep true of votes and rationales, for any      *)
(* jurors, disputes, bounds, crashes, lost runs and late transactions.     *)
(***************************************************************************)
EXTENDS JurorServices, TLAPS

---------------------------------------------------------------------------
(* The inductive invariant.  What a step only reads is a parameter.        *)

\* JurorServices!Opens, of the disk d reads.
OpensWith(j, d, c, files) ==
  IF j \in Agents THEN files[j][d].secret = c ELSE recoverVerdict(c) # {}

SeatsOpen(seats, files) ==
  \A d \in Disputes, j \in Jurors :
    seats[d][j].commitment # NoVote => OpensWith(j, d, seats[d][j].commitment, files)

\* A commitment on its way is one of a vote that was fixed.
Sound(j, c, files) ==
  c.fn = "commitVote" => c.vote # NoVote /\ OpensWith(j, c.id, c.vote, files)

PoolSound(pool, files) ==
  \A j \in Jurors : \A i \in 1..Len(pool[j]) : Sound(j, pool[j][i], files)

\* A run plans a commit only with a vote prepared, and prepares only what was decided.
Prepared(r) ==
  \A x \in r.todo : /\ x.kind = "commit" => r.prepared[x.juror] # None
                    /\ x.kind = "prepare" => r.decision[x.juror] # None
RunsPrepared == \A d \in Disputes : Prepared(run[d])

\* The success of a reveal is only reported when the vote is public.
RevealsSeen(receipts, seats) ==
  \A j \in Jurors, d \in Disputes :
    receipts[j][d].awaits = "revealVote" /\ receipts[j][d].fate = "success" => seats[d][j].revealed

ListedLate(listed, seats) ==
  \A d \in Disputes, j \in Jurors : listed[d][j] # None => seats[d][j].revealed
HandedLate(files, seats, disputes) ==
  \A d \in Disputes, a \in Agents :
    files[a][d].published => seats[d][a].revealed \/ disputes[d].status = "Resolved"

Coherent ==
  /\ TypeOK
  /\ SeatsOpen(seat, disk) /\ PoolSound(mempool, disk) /\ RunsPrepared
  /\ RevealsSeen(receipt, seat) /\ ListedLate(posted, seat) /\ HandedLate(disk, seat, dispute)

---------------------------------------------------------------------------
(* The market: votes stay public, resolved disputes resolved.              *)

SeatsKept ==
  \A d \in Disputes, j \in Jurors :
    /\ seat[d][j].revealed => seat'[d][j].revealed
    /\ seat'[d][j].commitment = seat[d][j].commitment
ClosedStay == \A d \in Disputes : dispute[d].status = "Resolved" => dispute'[d].status = "Resolved"

LEMMA FailRound ==
  ASSUME MarketTypeOK, NEW d \in Disputes, failRound(d), dispute[d].status # "Resolved"
  PROVE  MarketTypeOK' /\ SeatsKept /\ ClosedStay
<1> DEFINE R == [status : Statuses, round : Rounds, clock : Clocks, others : {"empty", "committed", "revealed"}]
<1>1. dispute[d] \in R  BY DEF MarketTypeOK
<1> DEFINE status == IF dispute[d].round = 1 THEN "AwaitingSelection" ELSE "Resolved"
           second == 2
           new == [dispute[d] EXCEPT !.status = status, !.round = second, !.clock = "early"]
<1>2. status \in Statuses /\ second \in Rounds  BY DEF Statuses, Rounds
<1>3. dispute' = [dispute EXCEPT ![d] = new]  BY <1>1 DEF failRound, MarketTypeOK
<1> HIDE DEF status, second
<1>9. new \in R  BY <1>1, <1>2 DEF Clocks
<1> HIDE DEF R, new
<1>4. dispute \in [Disputes -> R]  BY DEF MarketTypeOK, R
<1>5. dispute' \in [Disputes -> R]  BY <1>3, <1>4, <1>9
<1>6. MarketTypeOK'  BY <1>5 DEF MarketTypeOK, failRound, R
<1>7. SeatsKept  BY DEF SeatsKept, failRound
<1>8. ClosedStay
  <2> SUFFICES ASSUME NEW e \in Disputes, dispute[e].status = "Resolved"
               PROVE  dispute'[e].status = "Resolved"  BY DEF ClosedStay
  <2> QED  BY <1>3, <1>4
<1> QED  BY <1>6, <1>7, <1>8

LEMMA SeatPanel ==
  ASSUME MarketTypeOK, NEW d \in Disputes, seatPanel(d), dispute[d].status # "Resolved"
  PROVE  MarketTypeOK' /\ SeatsKept /\ ClosedStay
<1> DEFINE R == [status : Statuses, round : Rounds, clock : Clocks, others : {"empty", "committed", "revealed"}]
<1>1. dispute \in [Disputes -> R] /\ dispute[d] \in R  BY DEF MarketTypeOK
<1> DEFINE new == [dispute[d] EXCEPT !.status = "Voting", !.clock = "commit", !.others = "empty"]
<1>2. new \in R  BY <1>1 DEF Statuses, Rounds, Clocks
<1>3. dispute' = [dispute EXCEPT ![d] = new]  BY <1>1 DEF seatPanel, MarketTypeOK
<1> HIDE DEF R, new
<1>4. dispute' \in [Disputes -> R]  BY <1>1, <1>2, <1>3
<1>5. ClosedStay
  <2> SUFFICES ASSUME NEW e \in Disputes, dispute[e].status = "Resolved"
               PROVE  dispute'[e].status = "Resolved"  BY DEF ClosedStay
  <2> QED  BY <1>3, <1>1
<1>6. PICK p : seat' = [seat EXCEPT ![d] = [j \in Jurors |->
        IF j \in p THEN [seat[d][j] EXCEPT !.round = dispute[d].round] ELSE seat[d][j]]]
  BY DEF seatPanel
<1> DEFINE row == [j \in Jurors |->
        IF j \in p THEN [seat[d][j] EXCEPT !.round = dispute[d].round] ELSE seat[d][j]]
<1>7. seat \in [Disputes -> [Jurors -> Seats]]  BY DEF MarketTypeOK
<1>8. dispute[d].round \in {0} \cup Rounds  BY DEF MarketTypeOK
<1>9. ASSUME NEW j \in Jurors
      PROVE  /\ row[j] \in Seats /\ row[j].revealed = seat[d][j].revealed
             /\ row[j].commitment = seat[d][j].commitment
  <2>1. seat[d][j] \in Seats  BY <1>7
  <2> QED  BY <2>1, <1>8 DEF Seats
<1>10. row \in [Jurors -> Seats]  BY <1>9
<1>11. seat' = [seat EXCEPT ![d] = row]  BY <1>6
<1> HIDE DEF row
<1>12. seat' \in [Disputes -> [Jurors -> Seats]]  BY <1>7, <1>10, <1>11
<1>13. MarketTypeOK'  BY <1>4, <1>12 DEF MarketTypeOK, seatPanel, R
<1>14. SeatsKept
  <2> SUFFICES ASSUME NEW e \in Disputes, NEW j \in Jurors
               PROVE  /\ seat[e][j].revealed => seat'[e][j].revealed
                      /\ seat'[e][j].commitment = seat[e][j].commitment  BY DEF SeatsKept
  <2> QED  BY <1>9, <1>11, <1>7
<1> QED  BY <1>5, <1>13, <1>14

LEMMA RearmSelection ==
  ASSUME MarketTypeOK, NEW d \in Disputes, rearmSelection(d)
  PROVE  MarketTypeOK' /\ SeatsKept /\ ClosedStay
<1> DEFINE R == [status : Statuses, round : Rounds, clock : Clocks, others : {"empty", "committed", "revealed"}]
           new == [dispute[d] EXCEPT !.clock = "early"]
<1>1. dispute \in [Disputes -> R] /\ dispute[d] \in R  BY DEF MarketTypeOK
<1>2. new \in R /\ new.status = dispute[d].status  BY <1>1 DEF Clocks
<1>3. dispute' = [dispute EXCEPT ![d] = new]  BY DEF rearmSelection
<1> HIDE DEF R, new
<1>4. dispute' \in [Disputes -> R]  BY <1>1, <1>2, <1>3
<1>5. ClosedStay
  <2> SUFFICES ASSUME NEW e \in Disputes, dispute[e].status = "Resolved"
               PROVE  dispute'[e].status = "Resolved"  BY DEF ClosedStay
  <2> QED  BY <1>1, <1>2, <1>3
<1> QED  BY <1>4, <1>5 DEF MarketTypeOK, SeatsKept, rearmSelection, R

LEMMA SelectJurors ==
  ASSUME MarketTypeOK, NEW d \in Disputes, selectJurors(d), dispute[d].status # "Resolved"
  PROVE  MarketTypeOK' /\ SeatsKept /\ ClosedStay
<1>1. CASE seatPanel(d)  BY <1>1, SeatPanel
<1>2. CASE failRound(d)  BY <1>2, FailRound
<1>3. CASE rearmSelection(d)  BY <1>3, RearmSelection
<1> QED  BY <1>1, <1>2, <1>3 DEF selectJurors

\* What an included call does to votes.
Voted(j, c) ==
  /\ \A d \in Disputes, i \in Jurors :
       /\ seat[d][i].revealed => seat'[d][i].revealed
       /\ \/ seat'[d][i].commitment = seat[d][i].commitment
          \/ /\ c.fn = "commitVote" /\ d = c.id /\ i = j
             /\ seat'[d][i].commitment = c.vote
  /\ c.fn = "revealVote" => seat'[c.id][j].revealed

LEMMA CommitVote ==
  ASSUME MarketTypeOK, NEW j \in Jurors, NEW d \in Disputes, NEW v \in Votes \cup {NoVote},
         commitVote(j, d, v)
  PROVE  /\ MarketTypeOK' /\ ClosedStay
         /\ \A e \in Disputes, i \in Jurors :
              /\ seat'[e][i].revealed = seat[e][i].revealed
              /\ (e # d \/ i # j) => seat'[e][i].commitment = seat[e][i].commitment
         /\ seat'[d][j].commitment = v
<1>1. seat \in [Disputes -> [Jurors -> Seats]] /\ seat[d] \in [Jurors -> Seats] /\ seat[d][j] \in Seats
  BY DEF MarketTypeOK
<1> DEFINE new == [seat[d][j] EXCEPT !.commitment = v]
           row == [seat[d] EXCEPT ![j] = new]
<1>2. new \in Seats /\ new.revealed = seat[d][j].revealed /\ new.commitment = v
  BY <1>1 DEF Seats
<1>3. seat' = [seat EXCEPT ![d] = row]  BY DEF commitVote
<1> HIDE DEF new
<1>4. row \in [Jurors -> Seats] /\ row[j] = new /\ \A i \in Jurors : i # j => row[i] = seat[d][i]
  BY <1>1, <1>2
<1> HIDE DEF row
<1>5. seat' \in [Disputes -> [Jurors -> Seats]]  BY <1>1, <1>3, <1>4
<1>6. seat'[d] = row /\ \A e \in Disputes : e # d => seat'[e] = seat[e]  BY <1>1, <1>3
<1>7. MarketTypeOK' /\ ClosedStay  BY <1>5 DEF MarketTypeOK, ClosedStay, commitVote
<1>8. ASSUME NEW e \in Disputes, NEW i \in Jurors
      PROVE  /\ seat'[e][i].revealed = seat[e][i].revealed
             /\ (e # d \/ i # j) => seat'[e][i].commitment = seat[e][i].commitment
  <2>1. CASE e # d  BY <2>1, <1>6
  <2>2. CASE e = d /\ i # j  BY <2>2, <1>4, <1>6
  <2>3. CASE e = d /\ i = j  BY <2>3, <1>2, <1>4, <1>6
  <2> QED  BY <2>1, <2>2, <2>3
<1> QED  BY <1>2, <1>4, <1>6, <1>7, <1>8

LEMMA RevealVote ==
  ASSUME MarketTypeOK, NEW j \in Jurors, NEW d \in Disputes, revealVote(j, d)
  PROVE  MarketTypeOK' /\ SeatsKept /\ ClosedStay /\ seat'[d][j].revealed
<1>1. seat \in [Disputes -> [Jurors -> Seats]] /\ seat[d] \in [Jurors -> Seats] /\ seat[d][j] \in Seats
  BY DEF MarketTypeOK
<1> DEFINE new == [seat[d][j] EXCEPT !.revealed = TRUE]
           row == [seat[d] EXCEPT ![j] = new]
<1>2. new \in Seats /\ new.revealed /\ new.commitment = seat[d][j].commitment
  BY <1>1 DEF Seats
<1>3. seat' = [seat EXCEPT ![d] = row]  BY DEF revealVote
<1> HIDE DEF new
<1>4. row \in [Jurors -> Seats] /\ row[j] = new /\ \A i \in Jurors : i # j => row[i] = seat[d][i]
  BY <1>1, <1>2
<1> HIDE DEF row
<1>5. seat' \in [Disputes -> [Jurors -> Seats]]  BY <1>1, <1>3, <1>4
<1>6. seat'[d] = row /\ \A e \in Disputes : e # d => seat'[e] = seat[e]  BY <1>1, <1>3
<1>7. MarketTypeOK' /\ ClosedStay  BY <1>5 DEF MarketTypeOK, ClosedStay, revealVote
<1>8. ASSUME NEW e \in Disputes, NEW i \in Jurors
      PROVE  /\ seat[e][i].revealed => seat'[e][i].revealed
             /\ seat'[e][i].commitment = seat[e][i].commitment
  <2>1. CASE e # d  BY <2>1, <1>6
  <2>2. CASE e = d /\ i # j  BY <2>2, <1>4, <1>6
  <2>3. CASE e = d /\ i = j  BY <2>3, <1>2, <1>4, <1>6
  <2> QED  BY <2>1, <2>2, <2>3
<1>9. SeatsKept  BY <1>8 DEF SeatsKept
<1> QED  BY <1>2, <1>4, <1>6, <1>7, <1>9

LEMMA TallyDispute ==
  ASSUME MarketTypeOK, NEW d \in Disputes, tallyDispute(d), dispute[d].status # "Resolved"
  PROVE  MarketTypeOK' /\ SeatsKept /\ ClosedStay
<1>1. CASE failRound(d)  BY <1>1, FailRound
<1>2. CASE /\ dispute' = [dispute EXCEPT ![d].status = "Resolved", ![d].clock = "early"]
           /\ \E paid \in SUBSET {j \in Panel(d) : seat[d][j].revealed} :
                claimable' = [j \in Jurors |-> claimable[j] \/ j \in paid]
           /\ UNCHANGED seat
  <2> DEFINE R == [status : Statuses, round : Rounds, clock : Clocks, others : {"empty", "committed", "revealed"}]
             new == [dispute[d] EXCEPT !.status = "Resolved", !.clock = "early"]
  <2>1. dispute \in [Disputes -> R] /\ dispute[d] \in R  BY DEF MarketTypeOK
  <2>2. new \in R /\ new.status = "Resolved"  BY <2>1 DEF Statuses, Clocks
  <2>3. dispute' = [dispute EXCEPT ![d] = new]  BY <1>2, <2>1
  <2> HIDE DEF R, new
  <2>4. dispute' \in [Disputes -> R]  BY <2>1, <2>2, <2>3
  <2>5. ClosedStay
    <3> SUFFICES ASSUME NEW e \in Disputes, dispute[e].status = "Resolved"
                 PROVE  dispute'[e].status = "Resolved"  BY DEF ClosedStay
    <3> QED  BY <2>1, <2>2, <2>3
  <2>6. claimable' \in [Jurors -> BOOLEAN]
    <3>1. PICK paid : claimable' = [j \in Jurors |-> claimable[j] \/ j \in paid]  BY <1>2
    <3>2. \A j \in Jurors : (claimable[j] \/ j \in paid) \in BOOLEAN  OBVIOUS
    <3> QED  BY <3>1, <3>2
  <2>7. MarketTypeOK' /\ SeatsKept  BY <1>2, <2>4, <2>6 DEF MarketTypeOK, SeatsKept, R
  <2> QED  BY <2>5, <2>7
<1> QED  BY <1>1, <1>2 DEF tallyDispute

LEMMA Executed ==
  ASSUME MarketTypeOK, NEW j \in Jurors, NEW c \in Calls, Accepted(j, c), execute(j, c)
  PROVE  MarketTypeOK' /\ ClosedStay /\ Voted(j, c)
<1>1. /\ c.id \in Disputes /\ c.vote \in Votes \cup {NoVote}
  BY DEF Calls
<1>2. CASE c.fn = "selectJurors"
  <2>1. dispute[c.id].status # "Resolved" /\ selectJurors(c.id)  BY <1>2 DEF Accepted, execute
  <2>2. MarketTypeOK' /\ SeatsKept /\ ClosedStay
    BY <2>1, <1>1, SelectJurors
  <2> QED  BY <1>2, <2>2 DEF SeatsKept, Voted
<1>3. CASE c.fn = "commitVote"
  <2>1. commitVote(j, c.id, c.vote)  BY <1>3 DEF execute
  <2> QED  BY <1>1, <1>3, <2>1, CommitVote DEF Voted
<1>4. CASE c.fn = "revealVote"
  <2>1. revealVote(j, c.id)  BY <1>4 DEF execute
  <2> QED  BY <1>1, <2>1, RevealVote DEF SeatsKept, Voted
<1>5. CASE c.fn = "tallyDispute"
  <2>1. dispute[c.id].status # "Resolved" /\ tallyDispute(c.id)  BY <1>5 DEF Accepted, execute, Voting
  <2>2. MarketTypeOK' /\ SeatsKept /\ ClosedStay  BY <2>1, <1>1, TallyDispute
  <2> QED  BY <1>5, <2>2 DEF SeatsKept, Voted
<1>6. CASE c.fn = "withdraw"
  <2>1. withdraw(j)  BY <1>6 DEF execute
  <2>2. claimable' \in [Jurors -> BOOLEAN]  BY <2>1 DEF withdraw, MarketTypeOK
  <2>3. MarketTypeOK' /\ ClosedStay  BY <2>1, <2>2 DEF withdraw, MarketTypeOK, ClosedStay
  <2> QED  BY <1>6, <2>1, <2>3 DEF withdraw, Voted
<1> QED  BY <1>2, <1>3, <1>4, <1>5, <1>6 DEF Accepted

---------------------------------------------------------------------------
(* Steps of the market                                                     *)

\* A step of the market that services do not see keeps what they made of votes.
LEMMA MarketKeeps ==
  ASSUME Coherent, MarketTypeOK', SeatsKept, ClosedStay, UNCHANGED <<agentVars, run, mempool, receipt, posted, faults>>
  PROVE  Coherent'
<1> USE DEF agentVars
<1>1. TypeOK'  BY DEF Coherent, TypeOK, ChainTypeOK, AgentTypeOK, WorkflowTypeOK
<1>2. SeatsOpen(seat', disk')
  BY DEF Coherent, SeatsOpen, SeatsKept, OpensWith
<1>3. PoolSound(mempool', disk') /\ RunsPrepared'
  BY DEF Coherent, PoolSound, Sound, OpensWith, RunsPrepared, Prepared
<1>4. RevealsSeen(receipt', seat') /\ ListedLate(posted', seat')
  BY DEF Coherent, RevealsSeen, ListedLate, SeatsKept
<1>5. HandedLate(disk', seat', dispute')
  BY AgentsOK DEF Coherent, HandedLate, SeatsKept, ClosedStay
<1> QED  BY <1>1, <1>2, <1>3, <1>4, <1>5 DEF Coherent

\* A change of one dispute that does not reopen it.
LEMMA DisputeChanged ==
  ASSUME Coherent, NEW d \in Disputes,
         NEW r \in [status : Statuses, round : Rounds, clock : Clocks, others : {"empty", "committed", "revealed"}],
         dispute[d].status = "Resolved" => r.status = "Resolved",
         dispute' = [dispute EXCEPT ![d] = r],
         UNCHANGED <<seat, claimable, agentVars, run, mempool, receipt, posted, faults>>
  PROVE  Coherent'
<1>1. MarketTypeOK  BY DEF Coherent, TypeOK, ChainTypeOK
<1>2. MarketTypeOK'  BY <1>1 DEF MarketTypeOK
<1>3. ClosedStay
  <2> SUFFICES ASSUME NEW e \in Disputes, dispute[e].status = "Resolved"
               PROVE  dispute'[e].status = "Resolved"  BY DEF ClosedStay
  <2> QED  BY <1>1 DEF MarketTypeOK
<1>4. SeatsKept  BY DEF SeatsKept
<1> QED  BY <1>2, <1>3, <1>4, MarketKeeps

LEMMA OthersMoveDispute ==
  ASSUME Coherent, NEW d \in Disputes, openDispute(d) \/ othersVote(d) \/ othersKeep(d),
         UNCHANGED <<agentVars, run>>
  PROVE  Coherent'
<1> DEFINE R == [status : Statuses, round : Rounds, clock : Clocks, others : {"empty", "committed", "revealed"}]
<1>1. dispute \in [Disputes -> R] /\ dispute[d] \in R
  BY DEF Coherent, TypeOK, ChainTypeOK, MarketTypeOK
<1>2. CASE openDispute(d)
  <2> DEFINE r == [dispute[d] EXCEPT !.status = "AwaitingSelection"]
  <2>1. r \in R  BY <1>1 DEF Statuses
  <2>2. dispute[d].status # "Resolved"  BY <1>2 DEF openDispute, None
  <2>3. dispute' = [dispute EXCEPT ![d] = r]  BY <1>2 DEF openDispute
  <2> HIDE DEF r, R
  <2> QED  BY <1>2, <2>1, <2>2, <2>3, DisputeChanged DEF openDispute, R
<1>3. CASE othersVote(d)
  <2> SUFFICES ASSUME NEW o \in {"committed", "revealed"}, dispute' = [dispute EXCEPT ![d].others = o]
               PROVE  Coherent'  BY <1>3 DEF othersVote
  <2> DEFINE r == [dispute[d] EXCEPT !.others = o]
  <2>1. r \in R /\ r.status = dispute[d].status  BY <1>1
  <2>2. dispute' = [dispute EXCEPT ![d] = r]  OBVIOUS
  <2>3. UNCHANGED <<seat, claimable, agentVars, run, mempool, receipt, posted, faults>>
    BY <1>3 DEF othersVote
  <2> HIDE DEF r
  <2> QED  BY <2>1, <2>2, <2>3, DisputeChanged
<1>4. CASE othersKeep(d)
  <2>1. MarketTypeOK  BY DEF Coherent, TypeOK, ChainTypeOK
  <2>2. dispute[d].status # "Resolved" /\ (selectJurors(d) \/ tallyDispute(d))
    BY <1>4 DEF othersKeep, Voting
  <2>3. MarketTypeOK' /\ SeatsKept /\ ClosedStay  BY <2>1, <2>2, SelectJurors, TallyDispute
  <2>4. UNCHANGED <<mempool, receipt, posted, faults>>  BY <1>4 DEF othersKeep
  <2> QED  BY <2>3, <2>4, MarketKeeps
<1> QED  BY <1>2, <1>3, <1>4

LEMMA TimeKeeps ==
  ASSUME Coherent, TimePasses, UNCHANGED <<agentVars, run>>
  PROVE  Coherent'
<1> DEFINE R == [status : Statuses, round : Rounds, clock : Clocks, others : {"empty", "committed", "revealed"}]
           new(d, c) == [dispute[d] EXCEPT !.clock = c]
<1>1. MarketTypeOK  BY DEF Coherent, TypeOK, ChainTypeOK
<1>2. dispute \in [Disputes -> R]  BY <1>1 DEF MarketTypeOK
<1>3. UNCHANGED <<seat, claimable, mempool, receipt, posted, faults>>  BY DEF TimePasses
<1>4. PICK c \in [Disputes -> Clocks] : dispute' = [d \in Disputes |-> new(d, c[d])]  BY DEF TimePasses
<1>5. \A d \in Disputes : new(d, c[d]) \in R /\ new(d, c[d]).status = dispute[d].status
  BY <1>2, <1>4
<1> HIDE DEF R, new
<1>6. dispute' \in [Disputes -> R] /\ \A d \in Disputes : dispute'[d].status = dispute[d].status
  BY <1>4, <1>5
<1>7. MarketTypeOK'  BY <1>1, <1>3, <1>6 DEF MarketTypeOK, R
<1>8. SeatsKept /\ ClosedStay  BY <1>3, <1>6 DEF SeatsKept, ClosedStay
<1> QED  BY <1>3, <1>7, <1>8, MarketKeeps

LEMMA OthersKeepCoherent ==
  ASSUME Coherent, OthersAct, UNCHANGED <<agentVars, run>>
  PROVE  Coherent'
BY OthersMoveDispute, TimeKeeps DEF OthersAct

LEMMA TailPool ==
  ASSUME mempool \in [Jurors -> Seq(Calls)], NEW j \in Jurors, mempool[j] # <<>>,
         mempool' = [mempool EXCEPT ![j] = Tail(mempool[j])]
  PROVE  /\ Head(mempool[j]) \in Calls /\ mempool' \in [Jurors -> Seq(Calls)]
         /\ Head(mempool[j]) = mempool[j][1] /\ 1 \in 1..Len(mempool[j])
         /\ \A i \in Jurors : \A n \in 1..Len(mempool'[i]) :
              \E m \in 1..Len(mempool[i]) : mempool'[i][n] = mempool[i][m]
<1> DEFINE s == mempool[j]
<1>1. s \in Seq(Calls) /\ s # <<>>  OBVIOUS
<1> HIDE DEF s
<1>2. /\ Head(s) \in Calls /\ Head(s) = s[1] /\ 1 \in 1..Len(s)
      /\ Tail(s) \in Seq(Calls) /\ Len(Tail(s)) = Len(s) - 1
      /\ \A n \in 1..Len(Tail(s)) : Tail(s)[n] = s[n + 1] /\ n + 1 \in 1..Len(s)
  BY <1>1
<1> DEFINE t == Tail(s)
<1>3. \A n \in 1..Len(t) : \E m \in 1..Len(s) : t[n] = s[m]  BY <1>2
<1>4. t \in Seq(Calls)  BY <1>2
<1>5. mempool' = [mempool EXCEPT ![j] = t]  BY DEF s
<1> HIDE DEF t
<1>6. mempool' \in [Jurors -> Seq(Calls)]  BY <1>4, <1>5
<1>7. \A i \in Jurors : \A n \in 1..Len(mempool'[i]) :
        \E m \in 1..Len(mempool[i]) : mempool'[i][n] = mempool[i][m]
  <2> SUFFICES ASSUME NEW i \in Jurors PROVE \A n \in 1..Len(mempool'[i]) :
                 \E m \in 1..Len(mempool[i]) : mempool'[i][n] = mempool[i][m]
    OBVIOUS
  <2>1. CASE i = j  BY <2>1, <1>3, <1>5 DEF s
  <2>2. CASE i # j  BY <2>2, <1>5
  <2> QED  BY <2>1, <2>2
<1> QED  BY <1>2, <1>6, <1>7 DEF s

LEMMA Mined ==
  ASSUME Coherent, NEW j \in Jurors, Mine(j), UNCHANGED <<agentVars, run>>
  PROVE  Coherent'
<1> DEFINE c == Head(mempool[j])
           awaited == /\ receipt[j][c.id].awaits = c.fn
                      /\ \A i \in 2..Len(mempool[j]) : mempool[j][i].id # c.id
           answered(fate) ==
             receipt' = IF awaited THEN [receipt EXCEPT ![j][c.id].fate = fate] ELSE receipt
<1>1. /\ MarketTypeOK /\ mempool \in [Jurors -> Seq(Calls)]
      /\ receipt \in [Jurors -> [Disputes -> Receipts]]
  BY DEF Coherent, TypeOK, ChainTypeOK
<1>2. mempool[j] # <<>> /\ mempool' = [mempool EXCEPT ![j] = Tail(mempool[j])]  BY DEF Mine
<1>3. /\ c \in Calls /\ mempool' \in [Jurors -> Seq(Calls)]
      /\ c = mempool[j][1] /\ 1 \in 1..Len(mempool[j])
      /\ \A i \in Jurors : \A n \in 1..Len(mempool'[i]) :
           \E m \in 1..Len(mempool[i]) : mempool'[i][n] = mempool[i][m]
  BY <1>1, <1>2, TailPool
<1>4. \/ Accepted(j, c) /\ execute(j, c) /\ answered("success")
      \/ answered("reverted") /\ UNCHANGED marketVars
  BY DEF Mine
<1>5. UNCHANGED <<posted, faults, disk, jobs, run>>  BY DEF Mine, agentVars
<1> HIDE DEF c
<1>6. c.id \in Disputes /\ c.vote \in Votes \cup {NoVote}  BY <1>3 DEF Calls
<1>7. /\ MarketTypeOK' /\ ClosedStay
      /\ Voted(j, c) \/ (SeatsKept /\ answered("reverted"))
      /\ answered("success") \/ answered("reverted")
  <2>1. CASE Accepted(j, c) /\ execute(j, c) /\ answered("success")
    BY <2>1, <1>1, <1>3, Executed
  <2>2. CASE answered("reverted") /\ UNCHANGED marketVars
    BY <2>2, <1>1 DEF marketVars, MarketTypeOK, ClosedStay, SeatsKept
  <2> QED  BY <1>4, <2>1, <2>2
<1>8. \A d \in Disputes, i \in Jurors : seat[d][i].revealed => seat'[d][i].revealed
  BY <1>7 DEF Voted, SeatsKept
<1>9. SeatsOpen(seat', disk')
  <2> SUFFICES ASSUME NEW d \in Disputes, NEW i \in Jurors, seat'[d][i].commitment # NoVote
               PROVE  OpensWith(i, d, seat'[d][i].commitment, disk')
    BY DEF SeatsOpen
  <2>1. CASE seat'[d][i].commitment = seat[d][i].commitment
    BY <2>1, <1>5 DEF Coherent, SeatsOpen, OpensWith
  <2>2. CASE /\ c.fn = "commitVote" /\ d = c.id /\ i = j
             /\ seat'[d][i].commitment = c.vote
    <3>1. Sound(j, c, disk)  BY <1>3 DEF Coherent, PoolSound
    <3> QED  BY <2>2, <3>1, <1>5 DEF Sound, OpensWith
  <2> QED  BY <2>1, <2>2, <1>7 DEF Voted, SeatsKept
<1>10. PoolSound(mempool', disk')
  <2> SUFFICES ASSUME NEW i \in Jurors, NEW n \in 1..Len(mempool'[i])
               PROVE  Sound(i, mempool'[i][n], disk')
    BY DEF PoolSound
  <2>1. PICK m \in 1..Len(mempool[i]) : mempool'[i][n] = mempool[i][m]  BY <1>3
  <2> QED  BY <2>1, <1>5 DEF Coherent, PoolSound, Sound, OpensWith
<1>11. ASSUME NEW fate \in {"success", "reverted"}, answered(fate), fate = "success" => Voted(j, c)
       PROVE  receipt' \in [Jurors -> [Disputes -> Receipts]] /\ RevealsSeen(receipt', seat')
  <2>1. CASE ~awaited
    BY <2>1, <1>1, <1>8, <1>11 DEF Coherent, RevealsSeen
  <2>2. CASE awaited
    <3> DEFINE new == [receipt[j][c.id] EXCEPT !.fate = fate]
               row == [receipt[j] EXCEPT ![c.id] = new]
    <3>1. receipt[j] \in [Disputes -> Receipts] /\ receipt[j][c.id] \in Receipts  BY <1>1, <1>6
    <3>2. c.fn \in {"selectJurors", "commitVote", "revealVote", "tallyDispute", "withdraw"}
      BY <1>3 DEF Calls
    <3>3. receipt[j][c.id].awaits = c.fn  BY <2>2
    <3>4. new \in Receipts /\ new.fate = fate /\ new.awaits = c.fn
      BY <3>1, <3>2, <3>3 DEF Receipts, NoReceipt, None, Fates
    <3>5. receipt' = [receipt EXCEPT ![j] = row]  BY <1>11, <2>2, <3>1
    <3> HIDE DEF new
    <3>6. row \in [Disputes -> Receipts] /\ row[c.id] = new
          /\ \A d \in Disputes : d # c.id => row[d] = receipt[j][d]
      BY <3>1, <3>4, <1>6
    <3> HIDE DEF row
    <3>7. receipt' \in [Jurors -> [Disputes -> Receipts]]  BY <1>1, <3>5, <3>6
    <3>8. ASSUME NEW i \in Jurors, NEW d \in Disputes,
                 receipt'[i][d].awaits = "revealVote", receipt'[i][d].fate = "success"
          PROVE  seat'[d][i].revealed
      <4>1. CASE i = j /\ d = c.id
        <5>1. receipt'[i][d] = new  BY <4>1, <1>1, <3>5, <3>6
        <5>2. c.fn = "revealVote" /\ fate = "success"  BY <5>1, <3>4, <3>8
        <5> QED  BY <4>1, <5>2, <1>11 DEF Voted
      <4>2. CASE ~(i = j /\ d = c.id)
        <5>1. receipt'[i][d] = receipt[i][d]  BY <4>2, <1>1, <3>5, <3>6
        <5> QED  BY <5>1, <3>8, <1>8 DEF Coherent, RevealsSeen
      <4> QED  BY <4>1, <4>2
    <3> QED  BY <3>7, <3>8 DEF RevealsSeen
  <2> QED  BY <2>1, <2>2
<1>12. receipt' \in [Jurors -> [Disputes -> Receipts]] /\ RevealsSeen(receipt', seat')
  <2>1. CASE Accepted(j, c) /\ execute(j, c) /\ answered("success")
    BY <2>1, <1>1, <1>3, <1>11, Executed
  <2>2. CASE answered("reverted")  BY <2>2, <1>11
  <2> QED  BY <2>1, <2>2, <1>4 DEF c
<1>13. TypeOK'
  BY <1>3, <1>5, <1>7, <1>12 DEF Coherent, TypeOK, ChainTypeOK, AgentTypeOK, WorkflowTypeOK
<1>14. RunsPrepared' /\ ListedLate(posted', seat')
  BY <1>5, <1>8 DEF Coherent, RunsPrepared, Prepared, ListedLate
<1>15. HandedLate(disk', seat', dispute')
  BY <1>5, <1>7, <1>8, AgentsOK DEF Coherent, HandedLate, ClosedStay
<1> QED  BY <1>9, <1>10, <1>12, <1>13, <1>14, <1>15 DEF Coherent

---------------------------------------------------------------------------
(* Steps of the services: the market stays, calls are sound, disks keep    *)
(* their secrets.                                                          *)

SecretsKept ==
  \A a \in Agents, d \in Disputes :
    disk[a][d].secret # NoVote => disk'[a][d].secret = disk[a][d].secret

\* What one service does to transactions and receipts.
CallsSound ==
  /\ mempool' \in [Jurors -> Seq(Calls)]
  /\ \A j \in Jurors :
       \/ mempool'[j] = mempool[j]
       \/ \E c \in Calls : Sound(j, c, disk') /\ mempool'[j] = Append(mempool[j], c)
  /\ receipt' \in [Jurors -> [Disputes -> Receipts]]
  /\ \A j \in Jurors, d \in Disputes :
       receipt'[j][d].awaits = "revealVote" /\ receipt'[j][d].fate = "success"
         => receipt'[j][d] = receipt[j][d]

\* What it does to the rationales and the count of faults.
ListingSound ==
  /\ posted' \in [Disputes -> [Jurors -> Verdicts \cup {None}]] /\ ListedLate(posted', seat)
  /\ faults' \in 0..MaxFaults

LEMMA ServiceKeeps ==
  ASSUME Coherent, UNCHANGED marketVars, CallsSound, ListingSound, SecretsKept,
         AgentTypeOK', WorkflowTypeOK', RunsPrepared', HandedLate(disk', seat, dispute)
  PROVE  Coherent'
<1>1. TypeOK'
  BY DEF Coherent, TypeOK, ChainTypeOK, MarketTypeOK, marketVars, CallsSound, ListingSound
<1>2. SeatsOpen(seat', disk')
  <2> SUFFICES ASSUME NEW d \in Disputes, NEW j \in Jurors, seat[d][j].commitment # NoVote
               PROVE  OpensWith(j, d, seat[d][j].commitment, disk')
    BY DEF SeatsOpen, marketVars
  <2> QED  BY DEF Coherent, SeatsOpen, OpensWith, SecretsKept
<1>3. PoolSound(mempool', disk')
  <2> SUFFICES ASSUME NEW j \in Jurors, NEW i \in 1..Len(mempool'[j])
               PROVE  Sound(j, mempool'[j][i], disk')
    BY DEF PoolSound
  <2>1. ASSUME NEW n \in 1..Len(mempool[j]) PROVE Sound(j, mempool[j][n], disk')
    <3>1. mempool[j][n] \in Calls  BY DEF Coherent, TypeOK, ChainTypeOK
    <3>2. Sound(j, mempool[j][n], disk)  BY DEF Coherent, PoolSound
    <3> QED  BY <3>1, <3>2 DEF Sound, OpensWith, SecretsKept, Calls
  <2>2. CASE mempool'[j] = mempool[j]  BY <2>1, <2>2
  <2>3. ASSUME NEW c \in Calls, Sound(j, c, disk'), mempool'[j] = Append(mempool[j], c)
        PROVE  Sound(j, mempool'[j][i], disk')
    <3>1. mempool[j] \in Seq(Calls)  BY DEF Coherent, TypeOK, ChainTypeOK
    <3>2. CASE i \in 1..Len(mempool[j])
      <4>1. mempool'[j][i] = mempool[j][i]  BY <3>1, <3>2, <2>3
      <4> QED  BY <4>1, <3>2, <2>1
    <3>3. CASE i \notin 1..Len(mempool[j])
      <4>1. mempool'[j][i] = c  BY <3>1, <3>3, <2>3
      <4> QED  BY <4>1, <2>3
    <3> QED  BY <3>2, <3>3
  <2> QED  BY <2>2, <2>3 DEF CallsSound
<1>4. RevealsSeen(receipt', seat')
  BY DEF Coherent, RevealsSeen, CallsSound, marketVars
<1>5. ListedLate(posted', seat') /\ HandedLate(disk', seat', dispute')
  BY DEF ListingSound, ListedLate, HandedLate, marketVars
<1> QED  BY <1>1, <1>2, <1>3, <1>4, <1>5 DEF Coherent

LEMMA CallsMade == ASSUME NEW d \in Disputes, NEW fn \in {"selectJurors", "tallyDispute", "withdraw"}
                   PROVE  Call(fn, d) \in Calls /\ Call(fn, d).fn = fn
BY DEF Call, Calls

LEMMA Sends ==
  ASSUME ChainTypeOK, NEW j \in Jurors, NEW c \in Calls, send(j, c), Sound(j, c, disk')
  PROVE  CallsSound /\ UNCHANGED marketVars
<1> DEFINE new == [awaits |-> c.fn, fate |-> "pending"]
           more == Append(mempool[j], c)
           row == [receipt[j] EXCEPT ![c.id] = new]
<1>1. mempool \in [Jurors -> Seq(Calls)] /\ receipt \in [Jurors -> [Disputes -> Receipts]]
  BY DEF ChainTypeOK
<1>2. new \in Receipts /\ new.fate = "pending" /\ c.id \in Disputes  BY DEF Receipts, Calls, Fates
<1>3. more \in Seq(Calls)  BY <1>1
<1>4. mempool' = [mempool EXCEPT ![j] = more]  BY DEF send
<1>5. receipt' = [receipt EXCEPT ![j] = row]  BY <1>1 DEF send
<1> HIDE DEF new
<1>6. row \in [Disputes -> Receipts] /\ row[c.id] = new
      /\ \A d \in Disputes : d # c.id => row[d] = receipt[j][d]
  BY <1>1, <1>2
<1> HIDE DEF row
<1>7. receipt' \in [Jurors -> [Disputes -> Receipts]]  BY <1>1, <1>5, <1>6
<1>8. ASSUME NEW i \in Jurors, NEW d \in Disputes, receipt'[i][d].fate = "success"
      PROVE  receipt'[i][d] = receipt[i][d]
  <2>1. CASE i = j /\ d = c.id  BY <2>1, <1>1, <1>2, <1>5, <1>6, <1>8
  <2>2. CASE i = j /\ d # c.id  BY <2>2, <1>1, <1>5, <1>6
  <2>3. CASE i # j  BY <2>3, <1>1, <1>5
  <2> QED  BY <2>1, <2>2, <2>3
<1>9. mempool' \in [Jurors -> Seq(Calls)] /\ mempool'[j] = Append(mempool[j], c)
      /\ \A i \in Jurors : i # j => mempool'[i] = mempool[i]
  <2> HIDE DEF more
  <2>1. mempool' \in [Jurors -> Seq(Calls)] /\ mempool'[j] = more
        /\ \A i \in Jurors : i # j => mempool'[i] = mempool[i]
    BY <1>1, <1>3, <1>4
  <2> QED  BY <2>1 DEF more
<1>10. UNCHANGED marketVars  BY DEF send
<1> QED  BY <1>7, <1>8, <1>9, <1>10 DEF CallsSound

LEMMA SendsNothing ==
  ASSUME ChainTypeOK, sendNothing
  PROVE  CallsSound /\ UNCHANGED marketVars
BY DEF sendNothing, CallsSound, ChainTypeOK, marketVars

LEMMA Answers ==
  ASSUME ChainTypeOK, NEW j \in Jurors, NEW d \in Disputes, answer(j, d)
  PROVE  CallsSound /\ UNCHANGED marketVars
<1> DEFINE row == [receipt[j] EXCEPT ![d] = NoReceipt]
<1>1. receipt \in [Jurors -> [Disputes -> Receipts]]  BY DEF ChainTypeOK
<1>2. NoReceipt \in Receipts /\ NoReceipt.fate # "success"  BY DEF Receipts, NoReceipt, None
<1>3. receipt' = [receipt EXCEPT ![j] = row]  BY <1>1 DEF answer
<1>4. row \in [Disputes -> Receipts] /\ row[d] = NoReceipt
      /\ \A e \in Disputes : e # d => row[e] = receipt[j][e]
  BY <1>1, <1>2
<1> HIDE DEF row
<1>5. receipt' \in [Jurors -> [Disputes -> Receipts]]  BY <1>1, <1>3, <1>4
<1>6. ASSUME NEW i \in Jurors, NEW e \in Disputes, receipt'[i][e].fate = "success"
      PROVE  receipt'[i][e] = receipt[i][e]
  <2>1. CASE i = j /\ e = d  BY <2>1, <1>1, <1>2, <1>3, <1>4, <1>6
  <2>2. CASE i = j /\ e # d  BY <2>2, <1>1, <1>3, <1>4
  <2>3. CASE i # j  BY <2>3, <1>1, <1>3
  <2> QED  BY <2>1, <2>2, <2>3
<1>7. UNCHANGED <<mempool, marketVars>>  BY DEF answer, marketVars
<1> QED  BY <1>5, <1>6, <1>7 DEF CallsSound, ChainTypeOK

LEMMA Faults ==
  ASSUME ChainTypeOK, noFault \/ fault
  PROVE  faults' \in 0..MaxFaults
BY JurorChainOK DEF ChainTypeOK, noFault, fault

LEMMA ListsNothing ==
  ASSUME Coherent, UNCHANGED posted, noFault \/ fault
  PROVE  ListingSound
<1>1. ChainTypeOK  BY DEF Coherent, TypeOK
<1> QED  BY <1>1, Faults DEF Coherent, ChainTypeOK, ListingSound

LEMMA Lists ==
  ASSUME Coherent, NEW d \in Disputes, NEW j \in Jurors, NEW v \in Verdicts \cup {None},
         storeRationale(d, j, v), seat[d][j].revealed, noFault \/ fault
  PROVE  ListingSound
<1>1. ChainTypeOK /\ posted \in [Disputes -> [Jurors -> Verdicts \cup {None}]]
  BY DEF Coherent, TypeOK, ChainTypeOK
<1> DEFINE row == [posted[d] EXCEPT ![j] = v]
<1>2. row \in [Jurors -> Verdicts \cup {None}] /\ \A i \in Jurors : i # j => row[i] = posted[d][i]
  BY <1>1
<1>3. posted' = [posted EXCEPT ![d] = row]  BY <1>1 DEF storeRationale
<1> HIDE DEF row
<1>4. posted' \in [Disputes -> [Jurors -> Verdicts \cup {None}]]  BY <1>1, <1>2, <1>3
<1>5. ASSUME NEW e \in Disputes, NEW i \in Jurors, posted'[e][i] # None
      PROVE  seat[e][i].revealed
  <2>1. CASE e = d /\ i = j  BY <2>1
  <2>2. CASE e = d /\ i # j
    <3>1. posted'[e][i] = posted[e][i]  BY <2>2, <1>1, <1>2, <1>3
    <3> QED  BY <3>1, <1>5 DEF Coherent, ListedLate
  <2>3. CASE e # d
    <3>1. posted'[e][i] = posted[e][i]  BY <2>3, <1>1, <1>3
    <3> QED  BY <3>1, <1>5 DEF Coherent, ListedLate
  <2> QED  BY <2>1, <2>2, <2>3
<1>6. faults' \in 0..MaxFaults  BY <1>1, Faults
<1> QED  BY <1>4, <1>5, <1>6 DEF ListingSound, ListedLate

---------------------------------------------------------------------------
(* Juror processes                                                         *)

DiskSound == AgentTypeOK' /\ SecretsKept /\ HandedLate(disk', seat, dispute)

LEMMA AgentKeeps ==
  ASSUME Coherent, UNCHANGED run, UNCHANGED marketVars, CallsSound, ListingSound, DiskSound
  PROVE  Coherent'
<1>1. WorkflowTypeOK' /\ RunsPrepared'
  BY DEF Coherent, TypeOK, WorkflowTypeOK, RunsPrepared, Prepared
<1> QED  BY <1>1, ServiceKeeps DEF DiskSound

LEMMA DiskSame ==
  ASSUME Coherent, UNCHANGED disk, jobs' \in [Agents -> SUBSET Disputes]
  PROVE  DiskSound
BY DEF Coherent, TypeOK, AgentTypeOK, DiskSound, SecretsKept, HandedLate

LEMMA DiskWritten ==
  ASSUME Coherent, jobs' \in [Agents -> SUBSET Disputes],
         NEW a \in Agents, NEW d \in Disputes, NEW r \in Records,
         disk' = [disk EXCEPT ![a] = [disk[a] EXCEPT ![d] = r]],
         disk[a][d].secret # NoVote => r.secret = disk[a][d].secret,
         r.published => disk[a][d].published \/ seat[d][a].revealed \/ dispute[d].status = "Resolved"
  PROVE  DiskSound /\ disk'[a][d] = r
<1> DEFINE row == [disk[a] EXCEPT ![d] = r]
<1>1. disk \in [Agents -> [Disputes -> Records]]  BY DEF Coherent, TypeOK, AgentTypeOK
<1>2. row \in [Disputes -> Records] /\ row[d] = r /\ \A e \in Disputes : e # d => row[e] = disk[a][e]
  BY <1>1
<1>3. disk' = [disk EXCEPT ![a] = row]  OBVIOUS
<1> HIDE DEF row
<1>4. disk' \in [Agents -> [Disputes -> Records]] /\ disk'[a][d] = r  BY <1>1, <1>2, <1>3
<1>5. \A b \in Agents, e \in Disputes : disk'[b][e] = IF b = a /\ e = d THEN r ELSE disk[b][e]
  BY <1>1, <1>2, <1>3
<1>6. AgentTypeOK' /\ SecretsKept  BY <1>4, <1>5 DEF AgentTypeOK, SecretsKept
<1>7. HandedLate(disk', seat, dispute)  BY <1>5 DEF Coherent, HandedLate
<1> QED  BY <1>4, <1>6, <1>7 DEF DiskSound

LEMMA ScanLogs ==
  ASSUME Coherent, NEW a \in Agents, scanLogs(a), UNCHANGED run
  PROVE  Coherent'
<1> DEFINE row == [d \in Disputes |->
                [disk[a][d] EXCEPT !.known = disk[a][d].known \/ dispute[d].status # None]]
<1>1. disk \in [Agents -> [Disputes -> Records]] /\ jobs \in [Agents -> SUBSET Disputes] /\ ChainTypeOK
  BY DEF Coherent, TypeOK, AgentTypeOK
<1>2. ASSUME NEW d \in Disputes
      PROVE  row[d] \in Records /\ row[d].secret = disk[a][d].secret /\ row[d].published = disk[a][d].published
  <2> DEFINE known == disk[a][d].known \/ dispute[d].status # None
  <2>1. disk[a][d] \in Records /\ known \in BOOLEAN  BY <1>1
  <2>2. row[d] = [disk[a][d] EXCEPT !.known = known]  OBVIOUS
  <2> HIDE DEF known, row
  <2> QED  BY <2>1, <2>2 DEF Records
<1>3. disk' = [disk EXCEPT ![a] = row]  BY DEF scanLogs
<1>4. row \in [Disputes -> Records]  BY <1>2
<1> HIDE DEF row
<1>5. disk' \in [Agents -> [Disputes -> Records]]
      /\ \A b \in Agents, d \in Disputes : /\ disk'[b][d].secret = disk[b][d].secret
                                           /\ disk'[b][d].published = disk[b][d].published
  BY <1>1, <1>2, <1>3, <1>4
<1>6. jobs' = jobs /\ sendNothing /\ UNCHANGED posted /\ noFault
  BY DEF scanLogs, chainVars, sendNothing, noFault
<1>7. DiskSound
  BY <1>1, <1>5, <1>6 DEF Coherent, DiskSound, AgentTypeOK, SecretsKept, HandedLate
<1> QED  BY <1>1, <1>6, <1>7, SendsNothing, ListsNothing, AgentKeeps

LEMMA StartDecision ==
  ASSUME Coherent, NEW a \in Agents, NEW d \in Disputes, startDecision(a, d), UNCHANGED run
  PROVE  Coherent'
<1>1. ChainTypeOK /\ jobs \in [Agents -> SUBSET Disputes]  BY DEF Coherent, TypeOK, AgentTypeOK
<1>2. jobs' \in [Agents -> SUBSET Disputes]  BY <1>1 DEF startDecision
<1>3. sendNothing /\ UNCHANGED posted /\ noFault /\ UNCHANGED disk
  BY DEF startDecision, chainVars, sendNothing, noFault
<1> QED  BY <1>1, <1>2, <1>3, DiskSame, SendsNothing, ListsNothing, AgentKeeps

LEMMA MakeDecision ==
  ASSUME Coherent, NEW a \in Agents, NEW d \in Disputes, makeDecision(a, d), UNCHANGED run
  PROVE  Coherent'
<1>1. /\ ChainTypeOK /\ jobs \in [Agents -> SUBSET Disputes]
      /\ disk \in [Agents -> [Disputes -> Records]] /\ disk[a][d] \in Records
  BY DEF Coherent, TypeOK, AgentTypeOK
<1>2. jobs' \in [Agents -> SUBSET Disputes]  BY <1>1 DEF makeDecision
<1>3. sendNothing /\ UNCHANGED posted /\ (noFault \/ fault)
  BY DEF makeDecision, marketVars, sendNothing
<1>4. DiskSound
  <2>1. CASE UNCHANGED disk  BY <2>1, <1>2, DiskSame
  <2>2. ASSUME NEW v \in Verdicts,
               disk' = [disk EXCEPT ![a][d].decision = IF disk[a][d].decision = None THEN v ELSE disk[a][d].decision]
        PROVE  DiskSound
    <3> DEFINE decision == IF disk[a][d].decision = None THEN v ELSE disk[a][d].decision
               r == [disk[a][d] EXCEPT !.decision = decision]
    <3>1. decision \in Verdicts \cup {None}  BY <1>1 DEF Records
    <3>2. disk' = [disk EXCEPT ![a] = [disk[a] EXCEPT ![d] = r]]  BY <1>1, <2>2
    <3> HIDE DEF decision
    <3>3. r \in Records /\ r.secret = disk[a][d].secret /\ r.published = disk[a][d].published
      BY <1>1, <3>1 DEF Records
    <3> HIDE DEF r
    <3> QED  BY <1>2, <3>2, <3>3, DiskWritten
  <2> QED  BY <2>1, <2>2 DEF makeDecision
<1> QED  BY <1>1, <1>3, <1>4, SendsNothing, ListsNothing, AgentKeeps

LEMMA CommitPhase ==
  ASSUME Coherent, NEW a \in Agents, NEW d \in Disputes, commitPhase(a, d), UNCHANGED run
  PROVE  Coherent'
<1>1. /\ ChainTypeOK /\ jobs' \in [Agents -> SUBSET Disputes]
      /\ disk \in [Agents -> [Disputes -> Records]] /\ disk[a][d] \in Records
  BY DEF Coherent, TypeOK, AgentTypeOK, commitPhase
<1>2. PICK salt \in Salts :
        LET secret == prepareCommit(a, d, salt) IN
        /\ disk' = [disk EXCEPT ![a][d].secret = secret]
        /\ \/ send(a, [fn |-> "commitVote", id |-> d, vote |-> secret]) /\ noFault
           \/ sendNothing /\ fault
  BY DEF commitPhase
<1> DEFINE secret == prepareCommit(a, d, salt)
           r == [disk[a][d] EXCEPT !.secret = secret]
           c == [fn |-> "commitVote", id |-> d, vote |-> secret]
<1>3. /\ disk' = [disk EXCEPT ![a][d].secret = secret]
      /\ (send(a, c) /\ noFault) \/ (sendNothing /\ fault)
  BY <1>2
<1>4. /\ secret \in Votes
      /\ disk[a][d].secret # NoVote => secret = disk[a][d].secret
  <2>1. disk[a][d].decision \in Verdicts  BY <1>1 DEF commitPhase, Records
  <2>2. [verdict |-> disk[a][d].decision, salt |-> salt] \in Votes  BY <2>1 DEF Votes
  <2>3. disk[a][d].secret \in Votes \cup {NoVote}  BY <1>1 DEF Records
  <2> QED  BY <2>2, <2>3 DEF prepareCommit
<1>5. disk' = [disk EXCEPT ![a] = [disk[a] EXCEPT ![d] = r]]  BY <1>1, <1>3
<1> HIDE DEF secret
<1>6. secret # NoVote  BY <1>4 DEF Votes, NoVote, Verdicts, None
<1>7. r \in Records /\ r.secret = secret /\ r.published = disk[a][d].published
  BY <1>1, <1>4 DEF Records
<1> HIDE DEF r
<1>8. DiskSound /\ disk'[a][d].secret = secret  BY <1>1, <1>4, <1>5, <1>7, DiskWritten
<1>9. c \in Calls /\ c.id = d /\ c.vote = secret  BY <1>4 DEF Calls
<1> HIDE DEF c
<1>10. Sound(a, c, disk')  BY <1>6, <1>8, <1>9 DEF Sound, OpensWith
<1>11. CallsSound /\ UNCHANGED marketVars /\ (noFault \/ fault)
  BY <1>1, <1>3, <1>9, <1>10, Sends, SendsNothing, AgentsOK
<1>12. UNCHANGED posted  BY DEF commitPhase
<1> QED  BY <1>8, <1>11, <1>12, ListsNothing, AgentKeeps

LEMMA RevealPhase ==
  ASSUME Coherent, NEW a \in Agents, NEW d \in Disputes, revealPhase(a, d), UNCHANGED run
  PROVE  Coherent'
<1>1. /\ ChainTypeOK /\ jobs' \in [Agents -> SUBSET Disputes] /\ disk[a][d] \in Records
  BY DEF Coherent, TypeOK, AgentTypeOK, revealPhase
<1> DEFINE c == [fn |-> "revealVote", id |-> d, vote |-> disk[a][d].secret]
<1>2. UNCHANGED <<disk, posted>> /\ ((send(a, c) /\ noFault) \/ (sendNothing /\ fault))
  BY DEF revealPhase
<1>3. c \in Calls /\ Sound(a, c, disk')  BY <1>1 DEF Calls, Records, Sound
<1> HIDE DEF c
<1>4. CallsSound /\ UNCHANGED marketVars /\ (noFault \/ fault)
  BY <1>1, <1>2, <1>3, Sends, SendsNothing, AgentsOK
<1> QED  BY <1>1, <1>2, <1>4, DiskSame, ListsNothing, AgentKeeps

\* Rationales are handed over with the decision on disk, listed once the vote is public.
LEMMA MaybePublish ==
  ASSUME Coherent, NEW a \in Agents, NEW d \in Disputes, NEW uploaded \in BOOLEAN,
         maybePublish(a, d, uploaded), noFault \/ fault
  PROVE  ListingSound
<1>1. disk[a][d].decision \in Verdicts \cup {None}
  BY DEF Coherent, TypeOK, AgentTypeOK, Records
<1>2. CASE UNCHANGED posted  BY <1>2, ListsNothing
<1>3. CASE /\ acceptsRationale(d, a, disk[a][d].secret.verdict)
           /\ storeRationale(d, a, disk[a][d].decision)
  BY <1>1, <1>3, Lists, AgentsOK DEF acceptsRationale
<1> QED  BY <1>2, <1>3 DEF maybePublish

LEMMA PublishRevealed ==
  ASSUME Coherent, NEW a \in Agents, NEW d \in Disputes, publishRevealed(a, d), UNCHANGED run
  PROVE  Coherent'
<1>1. /\ ChainTypeOK /\ jobs' \in [Agents -> SUBSET Disputes]
      /\ disk \in [Agents -> [Disputes -> Records]] /\ disk[a][d] \in Records
  BY DEF Coherent, TypeOK, AgentTypeOK, publishRevealed
<1>2. sendNothing  BY DEF publishRevealed, sendNothing, marketVars
<1>3. PICK uploaded \in BOOLEAN : maybePublish(a, d, uploaded) /\ (noFault \/ fault)
  BY DEF publishRevealed
<1>4. ListingSound  BY <1>3, MaybePublish
<1>5. disk' = [disk EXCEPT ![a][d].published = TRUE] /\ seat[d][a].revealed
  BY DEF publishRevealed
<1> DEFINE r == [disk[a][d] EXCEPT !.published = TRUE]
<1>6. disk' = [disk EXCEPT ![a] = [disk[a] EXCEPT ![d] = r]]  BY <1>1, <1>5
<1>8. r \in Records /\ r.secret = disk[a][d].secret  BY <1>1 DEF Records
<1> HIDE DEF r
<1>7. DiskSound  BY <1>1, <1>5, <1>6, <1>8, DiskWritten
<1> QED  BY <1>1, <1>2, <1>4, <1>7, SendsNothing, AgentKeeps

LEMMA Keep ==
  ASSUME Coherent, NEW a \in Agents, NEW d \in Disputes, keep(a, d), UNCHANGED run
  PROVE  Coherent'
<1>1. ChainTypeOK /\ jobs' \in [Agents -> SUBSET Disputes]
  BY DEF Coherent, TypeOK, AgentTypeOK, keep
<1>2. PICK fn \in {"selectJurors", "tallyDispute"} : send(a, Call(fn, d))  BY DEF keep
<1>3. CallsSound /\ UNCHANGED marketVars
  <2>1. Call(fn, d) \in Calls /\ Call(fn, d).fn = fn  BY CallsMade
  <2>2. Sound(a, Call(fn, d), disk')  BY <2>1 DEF Sound
  <2> QED  BY <1>1, <1>2, <2>1, <2>2, Sends, AgentsOK
<1>4. UNCHANGED <<disk, posted>> /\ noFault  BY DEF keep, noFault
<1> QED  BY <1>1, <1>3, <1>4, DiskSame, ListsNothing, AgentKeeps

LEMMA OnResolved ==
  ASSUME Coherent, NEW a \in Agents, NEW d \in Disputes, onResolved(a, d), UNCHANGED run
  PROVE  Coherent'
<1> DEFINE publishes == seat[d][a].round # 0 /\ Publishable(a, d)
           published == publishes \/ disk[a][d].published
<1>1. /\ ChainTypeOK /\ jobs' \in [Agents -> SUBSET Disputes]
      /\ disk \in [Agents -> [Disputes -> Records]] /\ disk[a][d] \in Records
  BY DEF Coherent, TypeOK, AgentTypeOK, onResolved
<1>2. dispute[d].status = "Resolved"
      /\ disk' = [disk EXCEPT ![a][d].resolved = TRUE, ![a][d].published = published]
  BY DEF onResolved
<1>3. published \in BOOLEAN  BY <1>1 DEF Records, Publishable
<1> HIDE DEF published
<1> DEFINE r == [disk[a][d] EXCEPT !.resolved = TRUE, !.published = published]
<1>4. disk' = [disk EXCEPT ![a] = [disk[a] EXCEPT ![d] = r]]  BY <1>1, <1>2
<1>9. r \in Records /\ r.secret = disk[a][d].secret  BY <1>1, <1>3 DEF Records
<1> HIDE DEF r
<1>10. dispute[d].status = "Resolved" /\ jobs' \in [Agents -> SUBSET Disputes]  BY <1>1, <1>2
<1>5. DiskSound  BY <1>4, <1>9, <1>10, DiskWritten
<1>6. PICK uploaded \in BOOLEAN, asked \in BOOLEAN :
        /\ IF seat[d][a].round # 0 THEN maybePublish(a, d, uploaded) ELSE UNCHANGED posted
        /\ IF seat[d][a].round # 0 /\ claimable[a] /\ asked
           THEN send(a, Call("withdraw", d)) ELSE sendNothing
        /\ noFault \/ fault
  BY DEF onResolved
<1>7. ListingSound  BY <1>6, MaybePublish, ListsNothing
<1>8. CallsSound /\ UNCHANGED marketVars
  <2>1. CASE sendNothing  BY <2>1, <1>1, SendsNothing
  <2>2. CASE send(a, Call("withdraw", d))
    <3>1. Call("withdraw", d) \in Calls /\ Call("withdraw", d).fn = "withdraw"  BY CallsMade
    <3>2. Sound(a, Call("withdraw", d), disk')  BY <3>1 DEF Sound
    <3> QED  BY <1>1, <2>2, <3>1, <3>2, Sends, AgentsOK
  <2> QED  BY <1>6, <2>1, <2>2
<1> QED  BY <1>5, <1>7, <1>8, AgentKeeps

LEMMA Outcome ==
  ASSUME Coherent, NEW a \in Agents, NEW d \in Disputes, outcome(a, d), UNCHANGED run
  PROVE  Coherent'
<1>1. /\ ChainTypeOK /\ jobs' \in [Agents -> SUBSET Disputes]
      /\ disk \in [Agents -> [Disputes -> Records]] /\ disk[a][d] \in Records /\ a \in Jurors
  BY AgentsOK DEF Coherent, TypeOK, AgentTypeOK, outcome
<1>2. CallsSound /\ UNCHANGED marketVars  BY <1>1, Answers DEF outcome
<1>3. CASE UNCHANGED <<disk, posted, faults>>
  BY <1>1, <1>2, <1>3, DiskSame, ListsNothing, AgentKeeps DEF noFault
<1>4. CASE /\ receipt[a][d].awaits = "revealVote" /\ receipt[a][d].fate = "success"
           /\ disk' = [disk EXCEPT ![a][d].published = TRUE]
           /\ \E uploaded \in BOOLEAN : maybePublish(a, d, uploaded) /\ (noFault \/ fault)
  <2>1. seat[d][a].revealed  BY <1>1, <1>4 DEF Coherent, RevealsSeen
  <2> DEFINE r == [disk[a][d] EXCEPT !.published = TRUE]
  <2>2. disk' = [disk EXCEPT ![a] = [disk[a] EXCEPT ![d] = r]]  BY <1>1, <1>4
  <2>5. r \in Records /\ r.secret = disk[a][d].secret  BY <1>1 DEF Records
  <2> HIDE DEF r
  <2>3. DiskSound  BY <1>1, <2>1, <2>2, <2>5, DiskWritten
  <2>4. ListingSound  BY <1>4, MaybePublish
  <2> QED  BY <1>2, <2>3, <2>4, AgentKeeps
<1> QED  BY <1>3, <1>4 DEF outcome

LEMMA ReceiptTimeout ==
  ASSUME Coherent, NEW a \in Agents, NEW d \in Disputes, receiptTimeout(a, d), UNCHANGED run
  PROVE  Coherent'
<1>1. ChainTypeOK /\ jobs' \in [Agents -> SUBSET Disputes] /\ a \in Jurors
  BY AgentsOK DEF Coherent, TypeOK, AgentTypeOK, receiptTimeout
<1> QED  BY <1>1, Answers, DiskSame, ListsNothing, AgentKeeps DEF receiptTimeout

LEMMA Restart ==
  ASSUME Coherent, NEW a \in Agents, restart(a), UNCHANGED run
  PROVE  Coherent'
<1>1. /\ ChainTypeOK /\ receipt \in [Jurors -> [Disputes -> Receipts]]
      /\ mempool \in [Jurors -> Seq(Calls)] /\ jobs \in [Agents -> SUBSET Disputes] /\ a \in Jurors
  BY AgentsOK DEF Coherent, TypeOK, ChainTypeOK, AgentTypeOK
<1>2. jobs' \in [Agents -> SUBSET Disputes]  BY <1>1 DEF restart
<1>3. NoReceipt \in Receipts /\ NoReceipt.fate # "success"  BY DEF Receipts, NoReceipt, None
<1> DEFINE row == [d \in Disputes |-> NoReceipt]
<1>4. row \in [Disputes -> Receipts] /\ \A d \in Disputes : row[d] = NoReceipt  BY <1>3
<1>5. receipt' = [receipt EXCEPT ![a] = row]  BY DEF restart
<1> HIDE DEF row
<1>6. receipt' \in [Jurors -> [Disputes -> Receipts]]  BY <1>1, <1>4, <1>5
<1>7. ASSUME NEW j \in Jurors, NEW d \in Disputes, receipt'[j][d].fate = "success"
      PROVE  receipt'[j][d] = receipt[j][d]
  <2>1. CASE j = a  BY <2>1, <1>1, <1>3, <1>4, <1>5, <1>7
  <2>2. CASE j # a  BY <2>2, <1>1, <1>5
  <2> QED  BY <2>1, <2>2
<1>8. UNCHANGED <<mempool, marketVars, posted, disk>> /\ fault  BY DEF restart
<1>9. CallsSound  BY <1>1, <1>6, <1>7, <1>8 DEF CallsSound
<1> QED  BY <1>2, <1>8, <1>9, DiskSame, ListsNothing, AgentKeeps

LEMMA AgentStepKeeps ==
  ASSUME Coherent, NEW a \in Agents, AgentStep(a), UNCHANGED run
  PROVE  Coherent'
<1>1. CASE scanLogs(a)  BY <1>1, ScanLogs
<1>2. CASE restart(a)  BY <1>2, Restart
<1>3. ASSUME NEW d \in Disputes,
             \/ drive(a, d) \/ makeDecision(a, d) \/ outcome(a, d)
             \/ keep(a, d) \/ receiptTimeout(a, d)
      PROVE  Coherent'
  BY <1>3, StartDecision, CommitPhase, RevealPhase, PublishRevealed, OnResolved,
     MakeDecision, Outcome, Keep, ReceiptTimeout DEF drive
<1> QED  BY <1>1, <1>2, <1>3 DEF AgentStep, AgentWork

---------------------------------------------------------------------------
(* The workflow                                                            *)

RunSound == WorkflowTypeOK' /\ RunsPrepared'

LEMMA WorkflowKeeps ==
  ASSUME Coherent, UNCHANGED agentVars, UNCHANGED marketVars, CallsSound, ListingSound, RunSound
  PROVE  Coherent'
<1>1. AgentTypeOK' /\ SecretsKept /\ HandedLate(disk', seat, dispute)
  BY DEF Coherent, TypeOK, AgentTypeOK, agentVars, SecretsKept, HandedLate
<1> QED  BY <1>1, ServiceKeeps DEF RunSound

LEMMA RunSame == ASSUME Coherent, UNCHANGED run PROVE RunSound
BY DEF Coherent, TypeOK, WorkflowTypeOK, RunsPrepared, Prepared, RunSound

LEMMA RunWritten ==
  ASSUME Coherent, NEW d \in Disputes, NEW r \in Runs, Prepared(r), run' = [run EXCEPT ![d] = r]
  PROVE  RunSound
<1>1. run \in [Disputes -> Runs]  BY DEF Coherent, TypeOK, WorkflowTypeOK
<1>2. run' \in [Disputes -> Runs] /\ \A e \in Disputes : run'[e] = IF e = d THEN r ELSE run[e]
  BY <1>1
<1>3. \A e \in Disputes : Prepared(run[e])  BY DEF Coherent, RunsPrepared
<1>4. \A e \in Disputes : Prepared(run'[e])  BY <1>2, <1>3
<1> QED  BY <1>2, <1>4 DEF RunSound, WorkflowTypeOK, RunsPrepared

LEMMA Applied ==
  ASSUME Coherent, NEW d \in Disputes, NEW x, NEW r \in Runs, Prepared(r), apply(d, x, r)
  PROVE  RunSound
<1> DEFINE new == [r EXCEPT !.todo = r.todo \ {x}]
<1>1. new \in Runs /\ new.todo \subseteq r.todo /\ new.prepared = r.prepared /\ new.decision = r.decision
  BY DEF Runs
<1>2. run' = [run EXCEPT ![d] = new]  BY DEF apply
<1> HIDE DEF new
<1>3. Prepared(new)  BY <1>1 DEF Prepared
<1> QED  BY <1>1, <1>2, <1>3, RunWritten

LEMMA RunTyped ==
  ASSUME Coherent, NEW d \in Disputes
  PROVE  /\ run[d] \in Runs /\ Prepared(run[d]) /\ run[d].todo \subseteq Steps
         /\ run[d].decision \in [Hosted -> Verdicts \cup {None}]
         /\ run[d].prepared \in [Hosted -> Verdicts \cup {None}]
         /\ run[d].failures \in [Retried -> [Hosted -> Nat]]
         /\ \A x \in run[d].todo : x.kind \in Kinds /\ x.juror \in Hosted
BY DEF Coherent, TypeOK, WorkflowTypeOK, RunsPrepared, Runs, Steps

LEMMA Done == ASSUME Coherent, NEW d \in Disputes, NEW x, done(d, x) PROVE RunSound
BY RunTyped, Applied DEF done

LEMMA Failed ==
  ASSUME Coherent, NEW d \in Disputes, NEW x \in run[d].todo, failed(d, x)
  PROVE  RunSound
<1>1. CASE x.kind \notin Retried  BY <1>1, RunTyped, Applied DEF failed
<1>2. CASE x.kind \in Retried
  <2> DEFINE k == x.kind
             j == x.juror
             n == run[d].failures[k][j] + 1
             row == [run[d].failures[k] EXCEPT ![j] = n]
             all == [run[d].failures EXCEPT ![k] = row]
             r == [run[d] EXCEPT !.failures = all]
  <2>1. /\ run[d] \in Runs /\ Prepared(run[d]) /\ k \in Retried /\ j \in Hosted
        /\ run[d].failures \in [Retried -> [Hosted -> Nat]]
    BY <1>2, RunTyped
  <2>2. n \in Nat  BY <2>1
  <2> HIDE DEF n
  <2>3. row \in [Hosted -> Nat]  BY <2>1, <2>2
  <2>4. all \in [Retried -> [Hosted -> Nat]]
    <3> HIDE DEF row
    <3> QED  BY <2>1, <2>3
  <2>5. [run[d] EXCEPT !.failures[k][j] = run[d].failures[k][j] + 1] = r  BY <2>1 DEF n
  <2>6. apply(d, x, r)  BY <1>2, <2>5 DEF failed
  <2> HIDE DEF all
  <2>7. r \in Runs /\ r.todo = run[d].todo /\ r.prepared = run[d].prepared /\ r.decision = run[d].decision
    BY <2>1, <2>4 DEF Runs
  <2> HIDE DEF r
  <2>8. Prepared(r)  BY <2>1, <2>7 DEF Prepared
  <2> QED  BY <2>6, <2>7, <2>8, Applied
<1> QED  BY <1>1, <1>2

LEMMA PlanTyped ==
  ASSUME Coherent, NEW d \in Disputes
  PROVE  /\ planNext(d) \subseteq Steps
         /\ \A x \in planNext(d) : /\ x.kind = "commit" => run[d].prepared[x.juror] # None
                                   /\ x.kind = "prepare" => run[d].decision[x.juror] # None
<1> DEFINE Good(S) == /\ S \subseteq Steps
                      /\ \A x \in S : /\ x.kind = "commit" => run[d].prepared[x.juror] # None
                                      /\ x.kind = "prepare" => run[d].decision[x.juror] # None
<1>1. \A k \in Kinds, j \in Hosted : /\ Step(k, j) \in Steps
                                     /\ Step(k, j).kind = k /\ Step(k, j).juror = j
  BY DEF Step, Steps
<1>2. \A k \in Kinds \ {"commit", "prepare"}, J \in SUBSET Hosted : Good({Step(k, j) : j \in J})
  BY <1>1
<1>3. Good({}) /\ \A S, T : Good(S) /\ Good(T) => Good(S \cup T)  OBVIOUS
<1>4. {"select", "tally", "withdraw", "publish", "deliberate", "reveal"} \subseteq Kinds \ {"commit", "prepare"}
      /\ {"commit", "prepare"} \subseteq Kinds
  BY DEF Kinds, Retried
<1>5. \A k \in Kinds \ {"commit", "prepare"}, j \in Hosted : Good({Step(k, j)})  BY <1>1
<1>6. \A j \in Hosted : /\ run[d].prepared[j] # None => Good({Step("commit", j)})
                        /\ run[d].decision[j] # None => Good({Step("prepare", j)})
  BY <1>1, <1>4
<1>7. Good(planResolved(d))
  <2> DEFINE P == {i \in Hosted : Unpublished(d, i)}
             W == {i \in Hosted : claimable[i] /\ Tries("withdraw", d, i)}
  <2>1. planResolved(d) = {Step("publish", j) : j \in P} \cup {Step("withdraw", j) : j \in W}
    BY DEF planResolved
  <2>2. P \in SUBSET Hosted /\ W \in SUBSET Hosted  OBVIOUS
  <2> HIDE DEF P, W
  <2>3. Good({Step("publish", j) : j \in P}) /\ Good({Step("withdraw", j) : j \in W})
    <3> HIDE DEF Good
    <3> QED  BY <1>2, <1>4, <2>2
  <2> HIDE DEF Good
  <2> QED  BY <1>3, <2>1, <2>3
<1>8. Good(planSelection(d))
  <2>1. \A x \in planSelection(d) : x = Step("select", Keeper)  BY DEF planSelection
  <2> QED  BY <1>1, <1>4, <2>1, HostedOK
<1>9. \A j \in Hosted : Good(planSeat(d, j))
  <2> TAKE j \in Hosted
  <2> HIDE DEF Good
  <2>1. /\ Good({}) /\ Good({Step("deliberate", j)}) /\ Good({Step("reveal", j)}) /\ Good({Step("publish", j)})
        /\ run[d].prepared[j] # None => Good({Step("commit", j)})
        /\ run[d].decision[j] # None => Good({Step("prepare", j)})
    BY <1>3, <1>4, <1>5, <1>6
  <2> QED  BY <2>1 DEF planSeat
<1>10. Good(planVoting(d))
  <2> DEFINE T == IF TallyOpen(d) THEN {Step("tally", Keeper)} ELSE {}
             U == UNION {planSeat(d, j) : j \in Hosted \cap Panel(d)}
  <2>1. Good(T)
    <3>1. Good({Step("tally", Keeper)})
      <4> HIDE DEF Good
      <4> QED  BY <1>4, <1>5, HostedOK
    <3> HIDE DEF Good
    <3> QED  BY <1>3, <3>1
  <2>2. Good(U)
    <3>1. \A x \in U : \E j \in Hosted : x \in planSeat(d, j)  OBVIOUS
    <3> HIDE DEF U
    <3> QED  BY <3>1, <1>9
  <2>3. planVoting(d) = U \cup T  BY DEF planVoting
  <2> HIDE DEF Good, U, T
  <2> QED  BY <1>3, <2>1, <2>2, <2>3
<1>11. Good(planNext(d))
  <2> HIDE DEF Good
  <2> QED  BY <1>3, <1>7, <1>8, <1>10 DEF planNext
<1> QED  BY <1>11

LEMMA Wake ==
  ASSUME Coherent, NEW d \in Disputes, wake(d), UNCHANGED agentVars
  PROVE  Coherent'
<1> DEFINE r == [NoRun EXCEPT !.on = TRUE]
<1>1. NoRun \in Runs  BY DEF NoRun, Runs
<1>2. NoRun.todo = {}  BY DEF NoRun
<1>3. r \in Runs /\ r.todo = {}  BY <1>1, <1>2 DEF Runs
<1>4. run' = [run EXCEPT ![d] = r]  BY DEF wake
<1> HIDE DEF r
<1>5. Prepared(r)  BY <1>3 DEF Prepared
<1>6. RunSound  BY <1>3, <1>4, <1>5, RunWritten
<1>7. ChainTypeOK /\ sendNothing /\ UNCHANGED posted /\ noFault
  BY DEF Coherent, TypeOK, wake, chainVars, sendNothing, noFault
<1> QED  BY <1>6, <1>7, SendsNothing, ListsNothing, WorkflowKeeps

LEMMA DriveDispute ==
  ASSUME Coherent, NEW d \in Disputes, driveDispute(d), UNCHANGED agentVars
  PROVE  Coherent'
<1>1. ChainTypeOK /\ sendNothing /\ UNCHANGED posted /\ noFault
  BY DEF Coherent, TypeOK, driveDispute, chainVars, sendNothing, noFault
<1>2. RunSound
  <2>1. CASE run' = [run EXCEPT ![d] = NoRun]
    <3>1. NoRun \in Runs /\ Prepared(NoRun)  BY DEF NoRun, Runs, Prepared
    <3> QED  BY <2>1, <3>1, RunWritten
  <2>2. CASE run' = [run EXCEPT ![d].todo = planNext(d)]
    <3> DEFINE plan == planNext(d)
               r == [run[d] EXCEPT !.todo = plan]
    <3>1. plan \subseteq Steps
          /\ \A x \in plan : /\ x.kind = "commit" => run[d].prepared[x.juror] # None
                             /\ x.kind = "prepare" => run[d].decision[x.juror] # None
      BY PlanTyped
    <3>2. run' = [run EXCEPT ![d] = r]  BY <2>2
    <3> HIDE DEF plan
    <3>3. run[d] \in Runs  BY RunTyped
    <3>4. r \in Runs /\ r.todo = plan /\ r.prepared = run[d].prepared /\ r.decision = run[d].decision
      BY <3>1, <3>3 DEF Runs
    <3> HIDE DEF r
    <3>5. Prepared(r)
      <4> SUFFICES ASSUME NEW x \in plan
                   PROVE  /\ x.kind = "commit" => r.prepared[x.juror] # None
                          /\ x.kind = "prepare" => r.decision[x.juror] # None
        BY <3>4 DEF Prepared
      <4>1. /\ x.kind = "commit" => run[d].prepared[x.juror] # None
            /\ x.kind = "prepare" => run[d].decision[x.juror] # None
        BY <3>1
      <4>2. r.prepared = run[d].prepared /\ r.decision = run[d].decision  BY <3>4
      <4> QED  BY <4>1, <4>2
    <3> QED  BY <3>2, <3>4, <3>5, RunWritten
  <2> QED  BY <2>1, <2>2 DEF driveDispute
<1> QED  BY <1>1, <1>2, SendsNothing, ListsNothing, WorkflowKeeps

LEMMA Deliberate ==
  ASSUME Coherent, NEW d \in Disputes, NEW x \in run[d].todo, deliberate(d, x), UNCHANGED agentVars
  PROVE  Coherent'
<1>1. ChainTypeOK /\ sendNothing /\ UNCHANGED posted /\ (noFault \/ fault)
  BY DEF Coherent, TypeOK, deliberate
<1>2. RunSound
  <2>1. CASE failed(d, x)  BY <2>1, Failed
  <2>2. ASSUME NEW v \in Verdicts, apply(d, x, [run[d] EXCEPT !.decision[x.juror] = v])
        PROVE  RunSound
    <3> DEFINE j == x.juror
               decision == [run[d].decision EXCEPT ![j] = v]
               r == [run[d] EXCEPT !.decision = decision]
    <3>1. /\ run[d] \in Runs /\ Prepared(run[d]) /\ j \in Hosted
          /\ run[d].decision \in [Hosted -> Verdicts \cup {None}]
      BY RunTyped
    <3>2. decision \in [Hosted -> Verdicts \cup {None}]
          /\ \A i \in Hosted : run[d].decision[i] # None => decision[i] # None
      BY <3>1 DEF Verdicts, None
    <3>3. [run[d] EXCEPT !.decision[x.juror] = v] = r  BY <3>1
    <3>4. apply(d, x, r)  BY <2>2, <3>3
    <3> HIDE DEF decision
    <3>5. r \in Runs /\ r.todo = run[d].todo /\ r.prepared = run[d].prepared /\ r.decision = decision
      BY <3>1, <3>2 DEF Runs
    <3> HIDE DEF r
    <3>6. \A y \in run[d].todo : y.juror \in Hosted  BY RunTyped
    <3>7. Prepared(r)  BY <3>1, <3>2, <3>5, <3>6 DEF Prepared
    <3> QED  BY <3>4, <3>5, <3>7, Applied
  <2> QED  BY <2>1, <2>2 DEF deliberate
<1> QED  BY <1>1, <1>2, SendsNothing, ListsNothing, WorkflowKeeps

LEMMA PrepareVote ==
  ASSUME Coherent, NEW d \in Disputes, NEW x \in run[d].todo, prepareVote(d, x), UNCHANGED agentVars
  PROVE  Coherent'
<1>1. ChainTypeOK /\ sendNothing /\ UNCHANGED posted /\ noFault
  BY DEF Coherent, TypeOK, prepareVote
<1>2. RunSound
  <2> DEFINE j == x.juror
             v == run[d].decision[j]
             prepared == [run[d].prepared EXCEPT ![j] = v]
             r == [run[d] EXCEPT !.prepared = prepared]
  <2>1. /\ run[d] \in Runs /\ Prepared(run[d]) /\ j \in Hosted
        /\ run[d].prepared \in [Hosted -> Verdicts \cup {None}]
        /\ run[d].decision \in [Hosted -> Verdicts \cup {None}]
    BY RunTyped
  <2>2. v \in Verdicts /\ v # None
    <3>1. v # None  BY <2>1 DEF Prepared, prepareVote
    <3> QED  BY <2>1, <3>1
  <2>3. [run[d] EXCEPT !.prepared[x.juror] = run[d].decision[x.juror]] = r  BY <2>1
  <2>4. apply(d, x, r)  BY <2>3 DEF prepareVote
  <2> HIDE DEF v
  <2>5. prepared \in [Hosted -> Verdicts \cup {None}]
        /\ \A i \in Hosted : run[d].prepared[i] # None => prepared[i] # None
    BY <2>1, <2>2
  <2> HIDE DEF prepared
  <2>6. r \in Runs /\ r.todo = run[d].todo /\ r.decision = run[d].decision /\ r.prepared = prepared
    BY <2>1, <2>5 DEF Runs
  <2> HIDE DEF r
  <2>7. \A y \in run[d].todo : y.juror \in Hosted  BY RunTyped
  <2>8. Prepared(r)  BY <2>1, <2>5, <2>6, <2>7 DEF Prepared
  <2> QED  BY <2>4, <2>6, <2>8, Applied
<1> QED  BY <1>1, <1>2, SendsNothing, ListsNothing, WorkflowKeeps

\* A hosted juror commits to a derived vote, which any later run recovers.
LEMMA CallSound ==
  ASSUME Coherent, NEW d \in Disputes, NEW x \in run[d].todo, NEW c \in call(d, x)
  PROVE  c \in Calls /\ Sound(x.juror, c, disk')
<1>1. x.juror \in Hosted /\ x.juror \notin Agents  BY RunTyped, ServicesOK
<1>2. CASE x.kind \in {"select", "tally", "withdraw"}
  <2>1. \E fn \in {"selectJurors", "tallyDispute", "withdraw"} : c = Call(fn, d)
    BY <1>2 DEF call
  <2> QED  BY <2>1, CallsMade DEF Sound
<1>3. CASE x.kind = "commit"
  <2> DEFINE v == run[d].prepared[x.juror]
  <2>1. c = [fn |-> "commitVote", id |-> d, vote |-> derivedVote(d, x.juror)]  BY <1>3 DEF call
  <2>2. v \in Verdicts
    <3>1. v # None  BY <1>3, RunTyped DEF Prepared
    <3> QED  BY <1>1, <3>1, RunTyped
  <2>3. derivedVote(d, x.juror) = [verdict |-> v, salt |-> Derived]  BY DEF derivedVote
  <2> HIDE DEF v
  <2>4. derivedVote(d, x.juror) \in Votes  BY <2>2, <2>3 DEF Votes
  <2>5. recoverVerdict(derivedVote(d, x.juror)) # {}  BY <2>2, <2>3 DEF recoverVerdict
  <2>6. derivedVote(d, x.juror) # NoVote  BY <2>2, <2>3 DEF NoVote, Verdicts, None
  <2>7. c \in Calls /\ c.vote = derivedVote(d, x.juror) /\ c.id = d  BY <2>1, <2>4 DEF Calls
  <2> QED  BY <1>1, <2>5, <2>6, <2>7 DEF Sound, OpensWith
<1>4. CASE x.kind = "reveal"
  <2>1. PICK v \in Verdicts :
          c = [fn |-> "revealVote", id |-> d, vote |-> [verdict |-> v, salt |-> Derived]]
    BY <1>4 DEF call, recoverVerdict
  <2>2. [verdict |-> v, salt |-> Derived] \in Votes  BY DEF Votes
  <2>3. c \in Calls /\ c.fn = "revealVote"  BY <2>1, <2>2 DEF Calls
  <2> QED  BY <2>3 DEF Sound
<1> QED  BY <1>2, <1>3, <1>4 DEF call

LEMMA Transact ==
  ASSUME Coherent, NEW d \in Disputes, NEW x \in run[d].todo, transact(d, x), UNCHANGED agentVars
  PROVE  Coherent'
<1>1. ChainTypeOK /\ UNCHANGED posted /\ x.juror \in Jurors
  BY RunTyped, HostedOK DEF Coherent, TypeOK, transact
<1>2. ASSUME NEW c \in call(d, x), send(x.juror, c), noFault, UNCHANGED run
      PROVE  Coherent'
  BY <1>1, <1>2, CallSound, Sends, RunSame, ListsNothing, WorkflowKeeps
<1>3. CASE done(d, x) /\ noFault /\ sendNothing
  BY <1>1, <1>3, Done, SendsNothing, ListsNothing, WorkflowKeeps
<1>4. CASE keeperSelectReverts(d, x) /\ noFault /\ sendNothing
  <2> DEFINE r == [run[d] EXCEPT !.tooFew = TRUE]
  <2>1. run[d] \in Runs /\ Prepared(run[d])  BY RunTyped
  <2>2. r \in Runs /\ r.todo = run[d].todo /\ r.prepared = run[d].prepared /\ r.decision = run[d].decision
    BY <2>1 DEF Runs
  <2>3. apply(d, x, r)  BY <1>4 DEF keeperSelectReverts
  <2> HIDE DEF r
  <2>4. Prepared(r)  BY <2>1, <2>2 DEF Prepared
  <2>5. RunSound  BY <2>2, <2>3, <2>4, Applied
  <2> QED  BY <1>1, <1>4, <2>5, SendsNothing, ListsNothing, WorkflowKeeps
<1>5. CASE failed(d, x) /\ fault /\ sendNothing
  BY <1>1, <1>5, Failed, SendsNothing, ListsNothing, WorkflowKeeps
<1> QED  BY <1>2, <1>3, <1>4, <1>5 DEF transact

LEMMA PublishRationale ==
  ASSUME Coherent, NEW d \in Disputes, NEW x \in run[d].todo, publishRationale(d, x), UNCHANGED agentVars
  PROVE  Coherent'
<1>1. ChainTypeOK /\ sendNothing  BY DEF Coherent, TypeOK, publishRationale
<1>2. CASE failed(d, x) /\ fault /\ UNCHANGED posted
  BY <1>1, <1>2, Failed, SendsNothing, ListsNothing, WorkflowKeeps
<1>3. CASE /\ seat[d][x.juror].revealed /\ noFault
           /\ storeRationale(d, x.juror, run[d].decision[x.juror])
           /\ apply(d, x, [run[d] EXCEPT !.published[x.juror] = TRUE])
  <2> DEFINE published == [run[d].published EXCEPT ![x.juror] = TRUE]
             r == [run[d] EXCEPT !.published = published]
  <2>1. /\ run[d] \in Runs /\ Prepared(run[d]) /\ x.juror \in Hosted /\ x.juror \in Jurors
        /\ run[d].decision[x.juror] \in Verdicts \cup {None}
    BY RunTyped, HostedOK
  <2>2. published \in [Hosted -> BOOLEAN] /\ r = [run[d] EXCEPT !.published[x.juror] = TRUE]
    BY <2>1 DEF Runs
  <2>3. apply(d, x, r)  BY <1>3, <2>2
  <2>4. ListingSound  BY <1>3, <2>1, Lists
  <2> HIDE DEF published
  <2>5. r \in Runs /\ r.todo = run[d].todo /\ r.prepared = run[d].prepared /\ r.decision = run[d].decision
    BY <2>1, <2>2 DEF Runs
  <2> HIDE DEF r
  <2>6. Prepared(r)  BY <2>1, <2>5 DEF Prepared
  <2>7. RunSound  BY <2>3, <2>5, <2>6, Applied
  <2> QED  BY <1>1, <2>4, <2>7, SendsNothing, WorkflowKeeps
<1> QED  BY <1>2, <1>3 DEF publishRationale

LEMMA Settle ==
  ASSUME Coherent, NEW d \in Disputes, NEW x \in run[d].todo, settle(d, x), UNCHANGED agentVars
  PROVE  Coherent'
<1>1. /\ ChainTypeOK /\ UNCHANGED posted /\ x.juror \in Jurors /\ answer(x.juror, d)
      /\ noFault \/ fault
      /\ done(d, x) \/ failed(d, x) \/ UNCHANGED run
  BY RunTyped, HostedOK DEF Coherent, TypeOK, settle
<1>2. RunSound  BY <1>1, Done, Failed, RunSame
<1> QED  BY <1>1, <1>2, Answers, ListsNothing, WorkflowKeeps

LEMMA RunLost ==
  ASSUME Coherent, NEW d \in Disputes, runLost(d), UNCHANGED agentVars
  PROVE  Coherent'
<1>1. /\ ChainTypeOK /\ receipt \in [Jurors -> [Disputes -> Receipts]]
      /\ mempool \in [Jurors -> Seq(Calls)]
  BY DEF Coherent, TypeOK, ChainTypeOK
<1>2. NoReceipt \in Receipts /\ NoReceipt.fate # "success"  BY DEF Receipts, NoReceipt, None
<1>3. ASSUME NEW j \in Jurors
      PROVE  /\ receipt'[j] \in [Disputes -> Receipts]
             /\ \A e \in Disputes : receipt'[j][e].fate = "success" => receipt'[j][e] = receipt[j][e]
  <2> DEFINE row == [receipt[j] EXCEPT ![d] = NoReceipt]
  <2>1. row \in [Disputes -> Receipts] /\ row[d] = NoReceipt
        /\ \A e \in Disputes : e # d => row[e] = receipt[j][e]
    BY <1>1, <1>2
  <2>2. receipt'[j] = IF j \in Hosted THEN row ELSE receipt[j]  BY DEF runLost
  <2> HIDE DEF row
  <2>3. CASE j \in Hosted
    <3>1. receipt'[j] = row  BY <2>2, <2>3
    <3> QED  BY <3>1, <2>1, <1>2
  <2>4. CASE j \notin Hosted  BY <2>2, <2>4, <1>1
  <2> QED  BY <2>3, <2>4
<1>4. receipt' \in [Jurors -> [Disputes -> Receipts]]  BY <1>3 DEF runLost
<1>5. UNCHANGED <<mempool, marketVars, posted>> /\ fault  BY DEF runLost
<1>6. CallsSound  BY <1>1, <1>3, <1>4, <1>5 DEF CallsSound
<1>7. RunSound
  <2>1. NoRun \in Runs /\ Prepared(NoRun)  BY DEF NoRun, Runs, Prepared
  <2> QED  BY <2>1, RunWritten DEF runLost
<1> QED  BY <1>5, <1>6, <1>7, ListsNothing, WorkflowKeeps

LEMMA WorkflowStepKeeps ==
  ASSUME Coherent, NEW d \in Disputes, WorkflowStep(d), UNCHANGED agentVars
  PROVE  Coherent'
<1>1. CASE wake(d)  BY <1>1, Wake
<1>2. CASE runLost(d)  BY <1>2, RunLost
<1>3. CASE driveDispute(d)  BY <1>3, DriveDispute
<1>4. ASSUME NEW x \in run[d].todo, runStep(d, x) \/ settle(d, x)
      PROVE  Coherent'
  BY <1>4, Deliberate, PrepareVote, Transact, PublishRationale, Settle DEF runStep
<1> QED  BY <1>1, <1>2, <1>3, <1>4 DEF WorkflowStep, advance

---------------------------------------------------------------------------
(* The theorems                                                            *)

LEMMA InitCoherent == ASSUME Init PROVE Coherent
<1> USE DEF Init, ChainInit, AgentInit, WorkflowInit
<1>1. ChainTypeOK
  <2>1. /\ \A d \in Disputes : dispute[d] \in [status : Statuses, round : Rounds, clock : Clocks,
                                               others : {"empty", "committed", "revealed"}]
        /\ dispute = [d \in Disputes |-> dispute[d]]
    BY DEF Statuses, Rounds, Clocks
  <2>2. \A d \in Disputes, j \in Jurors : seat[d][j] \in Seats  BY DEF Seats
  <2>3. /\ \A d \in Disputes : seat[d] = [j \in Jurors |-> seat[d][j]]
        /\ seat = [d \in Disputes |-> seat[d]]
    OBVIOUS
  <2>4. seat \in [Disputes -> [Jurors -> Seats]]  BY <2>2, <2>3
  <2>5. MarketTypeOK  BY <2>1, <2>4 DEF MarketTypeOK
  <2>6. NoReceipt \in Receipts  BY DEF Receipts
  <2>7. receipt \in [Jurors -> [Disputes -> Receipts]]  BY <2>6
  <2>8. /\ mempool \in [Jurors -> Seq(Calls)] /\ faults \in 0..MaxFaults
        /\ posted \in [Disputes -> [Jurors -> Verdicts \cup {None}]]
    BY JurorChainOK
  <2> QED  BY <2>5, <2>7, <2>8 DEF ChainTypeOK
<1>2. NoRecord \in Records /\ ~NoRecord.published  BY DEF NoRecord, Records
<1>3. NoRun \in Runs /\ Prepared(NoRun)  BY DEF NoRun, Runs, Prepared
<1>4. AgentTypeOK /\ WorkflowTypeOK /\ RunsPrepared
  BY <1>2, <1>3 DEF AgentTypeOK, WorkflowTypeOK, RunsPrepared
<1>5. SeatsOpen(seat, disk)
  <2>1. \A d \in Disputes, j \in Jurors : seat[d][j].commitment = NoVote  OBVIOUS
  <2> QED  BY <2>1 DEF SeatsOpen
<1>6. PoolSound(mempool, disk)
  <2>1. \A j \in Jurors : Len(mempool[j]) = 0  OBVIOUS
  <2> QED  BY <2>1 DEF PoolSound
<1>7. RevealsSeen(receipt, seat)
  <2>1. \A j \in Jurors, d \in Disputes : receipt[j][d].fate # "success"  BY DEF NoReceipt, None
  <2> QED  BY <2>1 DEF RevealsSeen
<1>8. ListedLate(posted, seat) /\ HandedLate(disk, seat, dispute)
  BY <1>2 DEF ListedLate, HandedLate
<1> QED  BY <1>1, <1>4, <1>5, <1>6, <1>7, <1>8 DEF Coherent, TypeOK

LEMMA StaysCoherent == Spec => []Coherent
<1>1. Init => Coherent  BY InitCoherent
<1>2. Coherent /\ [Next]_vars => Coherent'
  <2> SUFFICES ASSUME Coherent, [Next]_vars PROVE Coherent'  OBVIOUS
  <2>1. CASE AgentActs  BY <2>1, AgentStepKeeps DEF AgentActs
  <2>2. CASE WorkflowActs  BY <2>2, WorkflowStepKeeps DEF WorkflowActs
  <2>3. CASE MarketActs  BY <2>3, Mined, OthersKeepCoherent DEF MarketActs
  <2>4. CASE UNCHANGED vars
    <3>1. ChainTypeOK /\ sendNothing /\ UNCHANGED <<posted, run, disk, jobs>> /\ noFault
          /\ jobs' \in [Agents -> SUBSET Disputes]
      BY <2>4 DEF Coherent, TypeOK, AgentTypeOK, vars, chainVars, agentVars, sendNothing, noFault
    <3> QED  BY <3>1, DiskSame, SendsNothing, ListsNothing, AgentKeeps
  <2> QED  BY <2>1, <2>2, <2>3, <2>4 DEF Next
<1> QED  BY <1>1, <1>2, PTL DEF Spec

\* Chain, files, transactions and runs stay well typed, whatever is lost (juror.ts, steps.ts).
THEOREM JurorTypeCorrect == Spec => []TypeOK
<1>1. Coherent => TypeOK  BY DEF Coherent
<1> QED  BY <1>1, StaysCoherent, PTL

\* Whatever a service forgets, every commitment of its jurors can be opened: the file of a
\* juror process holds its vote (commit.ts), a later run derives it again (salt.ts).
THEOREM CommitmentsOpen == Spec => []CommitmentOpens
<1>1. Coherent => CommitmentOpens
  BY DEF Coherent, SeatsOpen, PoolSound, Sound, OpensWith, CommitmentOpens, Opens
<1> QED  BY <1>1, StaysCoherent, PTL

\* Rationales appear only after their votes, in any order of ticks, steps and transactions
\* (publish.ts, rationales.ts).
THEOREM RationalesLate == Spec => []NoEarlyRationale
<1>1. Coherent => NoEarlyRationale
  BY DEF Coherent, ListedLate, HandedLate, NoEarlyRationale
<1> QED  BY <1>1, StaysCoherent, PTL
=============================================================================
