------------------------------ MODULE MCJurors ------------------------------
(***************************************************************************)
(* One juror with a process of its own, one hosted by the workflow.  To    *)
(* keep the instance small one of the two is drawn for the dispute.  Draws *)
(* are re-armed, and anybody but the workflow draws and tallies, only in   *)
(* the first round and while nothing has failed: the process until there   *)
(* is a panel and when its juror sits on it, others when it does not.  The *)
(* workflow always does.  The first salt drawn is called s1.               *)
(***************************************************************************)
EXTENDS JurorServices

CONSTANTS a, w, s1, s2
MCMaxFailures == [deliberate |-> 1, publish |-> 1, withdraw |-> 1]

Calm == faults' = 0 /\ \A d \in Disputes : dispute[d].round = 1
Pending(fn) == \E i \in 1..Len(mempool'[a]) : mempool'[a][i].fn = fn
Drawn == \E d \in Disputes : seat[d][a].round # 0
Rearmed(d) == dispute[d].clock # "early" /\ dispute'[d] = [dispute[d] EXCEPT !.clock = "early"]
KeptByOthers(d) == mempool' = mempool /\ dispute[d].status \notin {None, dispute'[d].status}

KeepersRest ==
  /\ Pending("selectJurors") => Calm /\ \A d \in Disputes : dispute'[d].status = "AwaitingSelection"
  /\ Pending("tallyDispute") => Calm /\ Drawn
  /\ \A d \in Disputes : /\ Rearmed(d) => Calm
                         /\ KeptByOthers(d) => Calm /\ ~Drawn
FirstSalt == \A d \in Disputes : disk'[a][d].secret.salt = s2 => disk[a][d].secret # NoVote

MCSpec == Init /\ [][Next /\ KeepersRest /\ FirstSalt]_vars /\ Fairness
=============================================================================
