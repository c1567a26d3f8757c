----------------------------- MODULE MC_ProcMon -----------------------------
(***************************************************************************)
(* ProcMon for TLC.  pid_t is 4 bits wide, so positive PIDs are 1..7 and   *)
(* a long of 17 or 8 does not survive the (pid_t) cast.                    *)
(***************************************************************************)
EXTENDS ProcMon

Spc(v, ok, nx) == [value |-> v, ok |-> ok, next |-> nx]

\* Valid specifiers for PID 1 (with and without a suffix), for a PID with
\* no process, and rejected ones: junk after the number, no number, a
\* value that wraps onto PID 1, and one that wraps negative.
MCSpecs ==
  { Spc(1, TRUE, "nul"), Spc(1, TRUE, ":"), Spc(3, TRUE, " "),
    Spc(1, TRUE, "x"), Spc(0, FALSE, "x"), Spc(17, TRUE, "nul"),
    Spc(8, TRUE, "nul") }
=============================================================================
