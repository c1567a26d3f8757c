---------------------------- MODULE MC_WinCompat ----------------------------
(***************************************************************************)
(* The Windows threading layer of compat_winthreads.c for TLC: the         *)
(* condition variable (MC_WinCondVar) and the thread-local storage.  The   *)
(* two share no state in the code, so their interleaving is the product of *)
(* their behaviours and shows nothing either does not show alone; the      *)
(* behaviour picks one of them at the start (part) and runs it, so the     *)
(* states of the run are the sum of the two, not the product.              *)
(***************************************************************************)
EXTENDS MC_WinCondVar, WinThreadLocal

VARIABLE part

allvars == <<vars, tlvars, part>>

MCInit ==
  /\ Init /\ TLInit
  /\ part \in {"condvar", "threadlocal"}

MCNext ==
  \/ part = "condvar" /\ Next /\ UNCHANGED <<tlvars, part>>
  \/ part = "threadlocal" /\ TLNext /\ UNCHANGED <<vars, part>>

MCSpec == MCInit /\ [][MCNext]_allvars /\ Fairness
=============================================================================
