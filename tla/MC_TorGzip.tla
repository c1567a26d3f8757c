----------------------------- MODULE MC_TorGzip -----------------------------
(***************************************************************************)
(* TorGzip for TLC.  size_t is 24 bits and unsigned int 22 bits, because  *)
(* TLC integers are 32-bit; the real limits are never near the sizes of   *)
(* the documents below, which keep their real byte counts.                *)
(***************************************************************************)
EXTENDS TorGzip

CONSTANTS z1, z2

MCZStates == {z1, z2}

Doc(plain, packed, complete) ==
  [plain |-> plain, packed |-> packed, complete |-> complete]

\* A short document, a large one, ones that compress 23:1 and 30:1, a bomb, a
\* truncated stream, and one past UINT_MAX / 2 compressed.
MCDocs ==
  { Doc(500, 300, TRUE), Doc(200000, 50000, TRUE), Doc(70000, 3000, TRUE),
    Doc(90000, 3000, TRUE), Doc(1000000, 1000, TRUE), Doc(5000, 1500, FALSE),
    Doc(3000000, 2200000, TRUE) }
=============================================================================
