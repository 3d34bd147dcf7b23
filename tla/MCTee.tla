-------------------------------- MODULE MCTee --------------------------------
(***************************************************************************)
(* The TEE service with one purchase, for TLC.  Behaviours without a crash *)
(* are complete.  With the crash, the process had not yet failed a job,    *)
(* no back-off ends after it, MaxLate transactions are sent in all, and    *)
(* no other relay delivers.                                                *)
(***************************************************************************)
EXTENDS TeeService

CONSTANTS s1, MaxLate

MCNext ==
  /\ Next
  /\ crashes' > crashes => \A j \in DOMAIN retry : retry[j].attempts = 0
  /\ crashes > 0 => \A j \in DOMAIN retry : j \in DOMAIN retry' /\ retry'[j].ready => retry[j].ready
  /\ crashes' > 0 => Len(txs') <= MaxLate /\ \A i \in Sales : sale'[i].key # ForeignKey

MCSpec == Init /\ [][MCNext]_vars /\ Fairness
=============================================================================
