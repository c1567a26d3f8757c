---------------------------- MODULE MC_WinCondVar ----------------------------
(***************************************************************************)
(* Threads sharing one mutex and one condition variable: three threads     *)
(* for the untimed waits (a signaller and two waiters competing for        *)
(* tokens), two for the timed ones (the clock multiplies the states).      *)
(***************************************************************************)
EXTENDS WinCondVar

CONSTANTS t1, t2, t3

MCThreads3 == {t1, t2, t3}
MCThreads2 == {t1, t2}
MCTimed1 == {t1}
=============================================================================
