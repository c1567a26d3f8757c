--------------------------- MODULE HsCacheAbstract ---------------------------
(***************************************************************************)
(* What the HSDir v3 descriptor cache promises (spec 4.8 and 4.11), with   *)
(* no sizes, decoding or v2 cache: per blinded key at most one entry,      *)
(* stamped with the time it was stored and carrying its lifetime.          *)
(*   - An entry is replaced only by a strictly higher revision counter.    *)
(*   - The periodic sweep removes exactly the entries whose lifetime has   *)
(*     run out.                                                            *)
(*   - Memory pressure removes entries oldest first: no entry it removes   *)
(*     is younger than one it keeps.                                       *)
(*   - Shutdown removes everything.                                        *)
(* Time only moves forward.                                                *)
(***************************************************************************)
EXTENDS Integers

CONSTANTS Keys, None

VARIABLES cache, now

Init ==
  /\ cache = [k \in Keys |-> None]
  /\ now \in Nat

\* Exactly one key receives a new entry, stamped now, whose revision is
\* above the one it replaces.
Put ==
  \E k \in Keys :
    /\ cache'[k] # None
    /\ cache[k] = None \/ cache[k].rev < cache'[k].rev
    /\ cache'[k].created = now
    /\ \A j \in Keys \ {k} : cache'[j] = cache[j]
    /\ UNCHANGED now

Expired(k) == cache[k] # None /\ cache[k].created + cache[k].lifetime <= now

Sweep ==
  /\ cache' = [k \in Keys |-> IF Expired(k) THEN None ELSE cache[k]]
  /\ UNCHANGED now

Removed(k) == cache[k] # None /\ cache'[k] = None

Reclaim ==
  /\ \A k \in Keys : cache'[k] = cache[k] \/ Removed(k)
  /\ \A g, k \in Keys :
       Removed(g) /\ cache'[k] # None => cache[g].created <= cache[k].created
  /\ UNCHANGED now

Shutdown ==
  /\ cache' = [k \in Keys |-> None]
  /\ UNCHANGED now

Advance ==
  /\ now' > now
  /\ UNCHANGED cache

Next == Put \/ Sweep \/ Reclaim \/ Shutdown \/ Advance

\* The sweep runs periodically, so an expired entry does not stay forever.
Spec == Init /\ [][Next]_<<cache, now>> /\ WF_<<cache, now>>(Sweep)
=============================================================================
