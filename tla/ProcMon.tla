------------------------------ MODULE ProcMon ------------------------------
(***************************************************************************)
(* The process-termination monitor of src/common/procmon.c.                *)
(*                                                                         *)
(* spider_process_monispider_new parses a process specifier and arms a    *)
(* persistent 15-second timer; each expiry runs the poll callback, which  *)
(* asks the OS whether the PID still exists and calls the owner's         *)
(* callback when it does not.  On Windows the monitor prefers a process   *)
(* handle (GetExitCodeProcess) and falls back to OpenProcess error codes; *)
(* elsewhere it sends signal 0 with kill().                               *)
(*                                                                         *)
(* The OS is part of the model: each PID has an incarnation number, is    *)
(* alive or not, lets us signal or open it or not, and keeps the exit     *)
(* code of its last incarnation.  A PID is reused by a later incarnation, *)
(* except while a handle to its process object is open (Windows keeps the *)
(* PID reserved then).                                                    *)
(***************************************************************************)
EXTENDS Integers

CONSTANTS
  Pids,          \* PIDs the OS hands out
  MaxGen,        \* bound on incarnations per PID (reuse)
  ExitCodes,     \* exit codes a process may end with
  STILL_ACTIVE,  \* 259, what GetExitCodeProcess reports for a live process
  Platforms,     \* subset of {"unix", "win32"}
  Specs,         \* specifiers: what spider_parse_long reports for them
  PidBits,       \* width of pid_t
  NULL

\* (pid_t)(pid_l): the low PidBits bits, as a signed value
PidT(x) == ((x + 2 ^ (PidBits - 1)) % 2 ^ PidBits) - 2 ^ (PidBits - 1)

\* parse_process_specifier: spec is [value, ok, next] as spider_parse_long
\* leaves them (the long, its success flag, the character after it).
\* Returns the pid, or NULL for "invalid PID".
ParseSkipsWidthCheck(spec) ==
  IF spec.ok /\ spec.next \in {"nul", " ", ":"} THEN PidT(spec.value) ELSE NULL
parse_process_specifier(spec) ==
  LET pid_ok == spec.ok /\ spec.next \in {"nul", " ", ":"}
      pid == PidT(spec.value)
  IN IF pid_ok /\ pid = spec.value THEN pid ELSE NULL

VARIABLES
  platform,  \* the build, fixed for a behaviour
  os,        \* Pids -> [gen, alive, perm, exit]
  pm,        \* NULL or [pid, poll_hproc, hproc, e]
  watched,   \* history: the incarnation that was the PID when new ran
  notified   \* history: cb has been called since new

vars == <<platform, os, pm, watched, notified>>

\* The positive pid_t values: what a valid specifier can name.
PosPid == 1..(2 ^ (PidBits - 1) - 1)
Incarnation == [pid : PosPid, gen : 0..MaxGen]

\* A PID outside Pids has no process.
Alive(p) == p \in Pids /\ os[p].alive
Perm(p) == p \in Pids /\ os[p].perm
GenOf(p) == IF p \in Pids THEN os[p].gen ELSE 0
ExitOf(p) == IF p \in Pids THEN os[p].exit ELSE 0

Init ==
  /\ platform \in Platforms
  /\ os \in [Pids -> [gen : {0}, alive : BOOLEAN, perm : BOOLEAN,
                      exit : {0}]]
  /\ pm = NULL
  /\ watched = NULL
  /\ notified = FALSE

-----------------------------------------------------------------------------
(* The OS.                                                                  *)
HandleOpenTo(p) == pm # NULL /\ pm.hproc # NULL /\ pm.hproc.pid = p

ProcessExit(p, code) ==
  /\ os[p].alive
  /\ os' = [os EXCEPT ![p].alive = FALSE, ![p].exit = code]
  /\ UNCHANGED <<platform, pm, watched, notified>>

ProcessSpawn(p) ==
  /\ ~os[p].alive
  /\ os[p].gen < MaxGen
  /\ ~HandleOpenTo(p)
  /\ \E perm \in BOOLEAN :
       os' = [os EXCEPT ![p] = [gen |-> @.gen + 1, alive |-> TRUE,
                                perm |-> perm, exit |-> @.exit]]
  /\ UNCHANGED <<platform, pm, watched, notified>>

\* OpenProcess(PROCESS_QUERY_INFORMATION | SYNCHRONIZE, FALSE, pid): a
\* handle to the current incarnation, or NULL with ERROR_ACCESS_DENIED for
\* a process we may not open, ERROR_INVALID_PARAMETER for an unused PID.
OpenProcess(p) ==
  IF Alive(p) /\ Perm(p)
  THEN [h |-> [pid |-> p, gen |-> GenOf(p)], err |-> "none"]
  ELSE [h |-> NULL,
        err |-> IF Alive(p) THEN "ERROR_ACCESS_DENIED"
                ELSE "ERROR_INVALID_PARAMETER"]

\* Seeded fault: any kill() failure, EPERM included, is taken as death.
KillSaysGoneOnAnyError(p) == ~Alive(p) \/ ~Perm(p)

\* kill(pid, 0) && errno == ESRCH: EPERM means someone is there.
KillSaysGone(p) == ~Alive(p)

\* GetExitCodeProcess on a handle: the PID cannot have been reused while
\* the handle is open, so the handle's incarnation is the current one.
ExitCodeOf(h) == IF Alive(h.pid) THEN STILL_ACTIVE ELSE ExitOf(h.pid)

-----------------------------------------------------------------------------
(* The monitor.                                                             *)
spider_process_monispider_new(spec) ==
  LET pid == parse_process_specifier(spec) IN
  /\ pm = NULL
  /\ IF pid = NULL
     THEN UNCHANGED <<pm, watched, notified>>
     ELSE LET op == OpenProcess(pid)
          IN /\ pm' = [pid |-> pid,
                       poll_hproc |-> platform = "win32" /\ op.h # NULL,
                       hproc |-> IF platform = "win32" THEN op.h ELSE NULL,
                       e |-> TRUE]
             /\ watched' = [pid |-> pid, gen |-> GenOf(pid)]
             /\ notified' = FALSE
  /\ UNCHANGED <<platform, os>>

\* What one poll concludes, and the handle it may have opened.
PollOutcome ==
  IF platform = "unix"
  THEN [dead |-> KillSaysGone(pm.pid), pm |-> pm]
  ELSE IF pm.poll_hproc
  THEN [dead |-> ExitCodeOf(pm.hproc) # STILL_ACTIVE, pm |-> pm]
  ELSE LET op == OpenProcess(pm.pid) IN
       IF op.h # NULL
       THEN [dead |-> FALSE,
             pm |-> [pm EXCEPT !.hproc = op.h, !.poll_hproc = TRUE]]
       ELSE [dead |-> op.err = "ERROR_INVALID_PARAMETER", pm |-> pm]

\* Seeded fault: the timer is not EV_PERSIST and fires once.
PollCbOneShot ==
  /\ pm # NULL /\ pm.e
  /\ pm' = [PollOutcome.pm EXCEPT !.e = FALSE]
  /\ notified' = (notified \/ PollOutcome.dead)
  /\ UNCHANGED <<platform, os, watched>>

\* The EV_PERSIST timer fires and spider_process_monispider_poll_cb runs.
spider_process_monispider_poll_cb ==
  /\ pm # NULL /\ pm.e
  /\ pm' = PollOutcome.pm
  /\ notified' = (notified \/ PollOutcome.dead)
  /\ UNCHANGED <<platform, os, watched>>

spider_process_monispider_free ==
  /\ pm # NULL
  /\ pm' = NULL
  /\ watched' = NULL
  /\ notified' = FALSE
  /\ UNCHANGED <<platform, os>>

Next ==
  \/ \E p \in Pids :
       \/ ProcessSpawn(p)
       \/ \E c \in ExitCodes : ProcessExit(p, c)
  \/ \E s \in Specs : spider_process_monispider_new(s)
  \/ spider_process_monispider_poll_cb
  \/ spider_process_monispider_free

\* Libevent runs a pending persistent timer every 15 s while the loop runs.
Spec == Init /\ [][Next]_vars /\ WF_vars(spider_process_monispider_poll_cb)

-----------------------------------------------------------------------------
TypeOK ==
  /\ platform \in Platforms
  /\ os \in [Pids -> [gen : 0..MaxGen, alive : BOOLEAN, perm : BOOLEAN,
                      exit : ExitCodes \cup {0}]]
  /\ pm = NULL \/ pm \in [pid : PosPid, poll_hproc : BOOLEAN,
                          hproc : Incarnation \cup {NULL}, e : BOOLEAN]
  /\ watched \in Incarnation \cup {NULL}
  /\ notified \in BOOLEAN

WatchedEnded ==
  watched # NULL /\ ~(Alive(watched.pid) /\ GenOf(watched.pid) = watched.gen)

\* The poll callback calls cb only after the monitored process has ended:
\* kill's EPERM and OpenProcess's ERROR_ACCESS_DENIED both mean alive.
NoFalseAlarm == notified => WatchedEnded

\* What the poll cannot see: the PID taken by a later incarnation, which
\* kill() and OpenProcess take for the monitored process, or an exit code
\* equal to STILL_ACTIVE read through the handle.
Masked ==
  /\ watched # NULL
  /\ \/ GenOf(watched.pid) # watched.gen
     \/ platform = "win32" /\ pm # NULL /\ pm.poll_hproc
          /\ ExitOf(watched.pid) = STILL_ACTIVE

\* When the monitored process ends, the persistent timer keeps polling
\* until the callback is called, unless the owner frees the monitor or
\* the end is Masked.
DeathNoticed ==
  (pm # NULL /\ WatchedEnded) ~> (pm = NULL \/ notified \/ Masked)
=============================================================================
