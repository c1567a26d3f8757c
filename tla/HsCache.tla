------------------------------- MODULE HsCache -------------------------------
(***************************************************************************)
(* The HSDir descriptor cache of src/src/or/hs_cache.c: a map from blinded *)
(* key to the plaintext part of a v3 descriptor, fed by                    *)
(* hs_cache_sspidere_as_dir, swept by hs_cache_clean_as_dir and shrunk by  *)
(* hs_cache_handle_oom.  The cache shares an allocation counter and its    *)
(* OOM loop with the legacy v2 cache (rendcache.c, not under src/), which  *)
(* is modelled from the spec as a fixed set of entries that only shrink.   *)
(*                                                                         *)
(* Descriptors are the encoded texts of HsDesc, decoded on store by its    *)
(* hs_desc_decode_plaintext at the current time; an entry keeps the       *)
(* decoded plaintext and the text itself, which the lookup serves.         *)
(* Everything runs on the main event loop, so each handler is one atomic  *)
(* step.                                                                   *)
(***************************************************************************)
EXTENDS HsDesc, FiniteSets, FiniteSetsExt

CONSTANTS
  Keys,              \* blinded public keys
  Descs,             \* encoded descriptors that may be posted
  V2Init,            \* entries of the legacy v2 cache: [ts, size]
  NoEntry,           \* an absent map slot (model value)
  EntryOverhead,     \* sizeof(entry) + sizeof(plaintext) + sizeof(cert)
  MaxEntryLifetime,  \* rend_cache_max_entry_lifetime()
  RendPostPeriod,    \* get_options()->RendPostPeriod
  MinRemove,         \* min_remove_bytes values the OOM handler is given
  ClockStart,        \* time(NULL) when the model starts
  ClockSteps,        \* amounts the wall clock can advance by
  ClockMax,          \* bound on the wall clock
  MaxInits           \* bound on hs_cache_init calls (init, free_all, init...)

ASSUME RendPostPeriod \in Nat \ {0}
ASSUME MinRemove \subseteq Nat \ {0}
ASSUME ClockStart >= MaxEntryLifetime

VARIABLES
  dir,       \* hs_cache_v3_dir: Keys -> entry or NoEntry
  v2,        \* the legacy v2 cache's entries
  alloc,     \* rend_cache_total_allocation
  now,       \* time(NULL)
  oomRet,    \* what the last hs_cache_handle_oom returned, and was asked
  phase,     \* "before" hs_cache_init, "live", or "after" hs_cache_free_all
  inits,     \* hs_cache_init calls so far
  leaked     \* history: bytes free_all freed and left in the counter

lifecycle == <<phase, inits, leaked>>
vars == <<dir, v2, alloc, now, oomRet, lifecycle>>

\* cache_dir_desc_new: the decoded plaintext and a copy of the encoded
\* text d, stamped with time(NULL).
cache_dir_desc_new(p, d) ==
  [key |-> p.key, rev |-> p.rev, lifetime |-> p.lifetime,
   minutes |-> p.minutes, blob |-> p.blob, len |-> p.len, created |-> now,
   doc |-> d]

\* cache_get_entry_size
cache_get_entry_size(e) == EntryOverhead + e.blob + e.len

\* rend_cache_increment_allocation / rend_cache_decrement_allocation; the
\* decrement clamps at zero instead of wrapping.
IncrementAllocation(a, n) == a + n
DecrementAllocation(a, n) == IF a >= n THEN a - n ELSE 0

Present(k) == dir[k] # NoEntry

\* remove_v3_desc_as_dir and sspidere_v3_desc_as_dir: the map entry of the
\* descriptor's key is removed, or set to the descriptor.
remove_v3_desc_as_dir(d, e) == [d EXCEPT ![e.key] = NoEntry]
sspidere_v3_desc_as_dir(d, e) == [d EXCEPT ![e.key] = e]

\* cache_lookup_v3_as_dir: -1 for a query that is not a base64 blinded key,
\* else 1 and the cached encoded text, or 0.
cache_lookup_v3_as_dir(query) ==
  CASE query \notin Keys -> [found |-> -1]
    [] Present(query) -> [found |-> 1, desc |-> dir[query].doc]
    [] OTHER -> [found |-> 0]

\* hs_cache_lookup_as_dir(version, query): every supported version,
\* which is only version 3, goes to cache_lookup_v3_as_dir.
hs_cache_lookup_as_dir(query) == cache_lookup_v3_as_dir(query)

V3Bytes(d) == MapThenSumSet(LAMBDA k : cache_get_entry_size(d[k]),
                            {k \in Keys : d[k] # NoEntry})
V2Bytes(s) == MapThenSumSet(LAMBDA e : e.size, s)

-----------------------------------------------------------------------------
\* hs_cache_v3_dir starts NULL, which every reader treats as an empty map.
Init ==
  /\ phase = "before" /\ inits = 0 /\ leaked = 0
  /\ dir = [k \in Keys |-> NoEntry]
  /\ v2 = V2Init
  /\ alloc = V2Bytes(V2Init)
  /\ now = ClockStart
  /\ oomRet = NoEntry

(***************************************************************************)
(* hs_cache_sspidere_as_dir with cache_sspidere_v3_as_dir: a descriptor    *)
(* that decodes replaces the entry for its key unless the cached revision  *)
(* counter is greater or equal; the old entry's size is taken off and the  *)
(* new one's added to the allocation counter.                              *)
(***************************************************************************)
\* Seeded fault: the old entry's size is not taken off the counter.
StoreKeepsOldSize(e) ==
  LET old == dir[e.key] IN
  /\ IF old = NoEntry THEN TRUE ELSE old.rev < e.rev
  /\ dir' = [dir EXCEPT ![e.key] = e]
  /\ alloc' = IncrementAllocation(alloc, cache_get_entry_size(e))

\* Seeded fault: the revision-counter comparison is missing.
StoreWithoutRevisionCheck(e) ==
  LET old == dir[e.key] IN
  /\ dir' = [dir EXCEPT ![e.key] = e]
  /\ alloc' = IncrementAllocation(
                IF old = NoEntry THEN alloc
                ELSE DecrementAllocation(alloc, cache_get_entry_size(old)),
                cache_get_entry_size(e))

cache_sspidere_v3_as_dir(e) ==
  LET old == dir[e.key] IN
  /\ IF old = NoEntry THEN TRUE ELSE old.rev < e.rev
  /\ dir' = sspidere_v3_desc_as_dir(
              IF old = NoEntry THEN dir ELSE remove_v3_desc_as_dir(dir, old), e)
  /\ alloc' = IncrementAllocation(
                IF old = NoEntry THEN alloc
                ELSE DecrementAllocation(alloc, cache_get_entry_size(old)),
                cache_get_entry_size(e))

hs_cache_sspidere_as_dir(d) ==
  LET p == hs_desc_decode_plaintext(d, now) IN
  /\ phase = "live"
  /\ p # Invalid
  /\ cache_sspidere_v3_as_dir(cache_dir_desc_new(p, d))
  /\ UNCHANGED <<v2, now, oomRet, lifecycle>>

\* A post that fails to decode, or is not newer, is freed and changes nothing.
StoreRejected(d) ==
  LET p == hs_desc_decode_plaintext(d, now) IN
  /\ phase = "live"
  /\ IF p = Invalid THEN TRUE
     ELSE Present(p.key) /\ dir[p.key].rev >= p.rev
  /\ UNCHANGED vars

(***************************************************************************)
(* cache_clean_v3_as_dir(now, cutoff): every entry created at or before    *)
(* the cutoff is removed; a cutoff of 0 means "use each entry's lifetime". *)
(* Returns the new map and the bytes removed.                              *)
(***************************************************************************)
EntryCutoff(e, t, cutoff) == IF cutoff = 0 THEN t - e.lifetime ELSE cutoff

Expires(e, t, cutoff) == e # NoEntry /\ e.created <= EntryCutoff(e, t, cutoff)

CleanV3(d, t, cutoff) ==
  LET gone == {k \in Keys : Expires(d[k], t, cutoff)} IN
  [map |-> [k \in Keys |-> IF k \in gone THEN NoEntry ELSE d[k]],
   freed |-> MapThenSumSet(LAMBDA k : cache_get_entry_size(d[k]), gone)]

\* rend_cache_clean_v2_descs_as_dir(cutoff): drops v2 entries older than it.
CleanV2(s, cutoff) ==
  LET gone == {e \in s : e.ts < cutoff} IN
  [set |-> s \ gone, freed |-> V2Bytes(gone)]

(***************************************************************************)
(* hs_cache_clean_as_dir(now): v2 with cutoff now - max lifetime, then v3  *)
(* with each entry's own lifetime.  Each removal decrements the counter.   *)
(***************************************************************************)
\* Seeded fault: the v3 sweep is handed the v2 cutoff instead of 0.
CleanWithV2Cutoff ==
  LET r2 == CleanV2(v2, now - MaxEntryLifetime)
      r3 == CleanV3(dir, now, now - MaxEntryLifetime)
  IN
  /\ v2' = r2.set
  /\ dir' = r3.map
  /\ alloc' = DecrementAllocation(DecrementAllocation(alloc, r2.freed),
                                  r3.freed)
  /\ UNCHANGED <<now, oomRet, lifecycle>>

hs_cache_clean_as_dir ==
  LET r2 == CleanV2(v2, now - MaxEntryLifetime)
      r3 == CleanV3(dir, now, 0)
  IN
  /\ v2' = r2.set
  /\ dir' = r3.map
  /\ alloc' = DecrementAllocation(DecrementAllocation(alloc, r2.freed),
                                  r3.freed)
  /\ UNCHANGED <<now, oomRet, lifecycle>>

(***************************************************************************)
(* hs_cache_handle_oom(now, min): K starts at the maximum entry lifetime;  *)
(* each round cleans v2 then, if still short, v3 with cutoff now - K and   *)
(* lowers K by RendPostPeriod; it stops when enough bytes are freed or K   *)
(* is negative.  st carries the two caches, the counter and bytes_removed. *)
(***************************************************************************)
\* Seeded fault: the loop stops at K = 0 instead of below it.
RECURSIVE OomLoopStopsAtZero(_, _, _)
OomLoopStopsAtZero(st, k, m) ==
  IF k <= 0 THEN st
  ELSE
    LET r2 == CleanV2(st.v2, now - k)
        s1 == [st EXCEPT !.v2 = r2.set,
                         !.alloc = DecrementAllocation(@, r2.freed),
                         !.removed = @ + r2.freed]
    IN IF s1.removed >= m THEN s1
       ELSE LET r3 == CleanV3(s1.dir, now, now - k)
                s2 == [s1 EXCEPT !.dir = r3.map,
                                 !.alloc = DecrementAllocation(@, r3.freed),
                                 !.removed = @ + r3.freed]
            IN IF s2.removed >= m THEN s2
               ELSE OomLoopStopsAtZero(s2, k - RendPostPeriod, m)

RECURSIVE OomLoop(_, _, _)
OomLoop(st, k, m) ==
  IF k < 0 THEN st
  ELSE
    LET r2 == CleanV2(st.v2, now - k)
        s1 == [st EXCEPT !.v2 = r2.set,
                         !.alloc = DecrementAllocation(@, r2.freed),
                         !.removed = @ + r2.freed]
    IN IF s1.removed >= m THEN s1
       ELSE LET r3 == CleanV3(s1.dir, now, now - k)
                s2 == [s1 EXCEPT !.dir = r3.map,
                                 !.alloc = DecrementAllocation(@, r3.freed),
                                 !.removed = @ + r3.freed]
            IN IF s2.removed >= m THEN s2
               ELSE OomLoop(s2, k - RendPostPeriod, m)

hs_cache_handle_oom(m) ==
  LET st == OomLoop([dir |-> dir, v2 |-> v2, alloc |-> alloc, removed |-> 0],
                    MaxEntryLifetime, m)
  IN
  /\ dir' = st.dir
  /\ v2' = st.v2
  /\ alloc' = st.alloc
  /\ oomRet' = [min |-> m, freed |-> st.removed]
  /\ UNCHANGED <<now, lifecycle>>

(***************************************************************************)
(* hs_cache_init creates the map when it is NULL, before the first init   *)
(* or after a free_all; an init while it exists is the fatal assert, which *)
(* the owner never triggers.  hs_cache_free_all frees every entry and sets *)
(* the map to NULL, without touching the allocation counter; freeing a     *)
(* NULL map does nothing.                                                  *)
(***************************************************************************)
hs_cache_init ==
  /\ phase \in {"before", "after"}
  /\ inits < MaxInits
  /\ phase' = "live"
  /\ inits' = inits + 1
  /\ UNCHANGED <<dir, v2, alloc, now, oomRet, leaked>>

hs_cache_free_all ==
  /\ phase' = IF phase = "live" THEN "after" ELSE phase
  /\ dir' = [k \in Keys |-> NoEntry]
  /\ leaked' = leaked + V3Bytes(dir)
  /\ UNCHANGED <<v2, alloc, now, oomRet, inits>>

\* The wall clock moves forward.
Tick ==
  \E s \in ClockSteps :
    /\ now + s <= ClockMax
    /\ now' = now + s
    /\ UNCHANGED <<dir, v2, alloc, oomRet, lifecycle>>

Next ==
  \/ \E d \in Descs : hs_cache_sspidere_as_dir(d) \/ StoreRejected(d)
  \/ hs_cache_clean_as_dir
  \/ \E m \in MinRemove : hs_cache_handle_oom(m)
  \/ hs_cache_init
  \/ hs_cache_free_all
  \/ Tick

\* hs_cache_clean_as_dir runs from the periodic housekeeping callback.
Spec == Init /\ [][Next]_vars /\ WF_vars(hs_cache_clean_as_dir)

-----------------------------------------------------------------------------
\* A cache entry: a decoded plaintext indexed under its own blinded key.
Entry(k) ==
  [key: {k}, rev: Nat, lifetime: 0..MaxLifetimeSec, minutes: Nat,
   blob: Nat \ 0..SaltAndMacLen, len: 0..(MaxDescSize - 1),
   created: ClockStart..now, doc: Descs]

TypeOK ==
  /\ \A k \in Keys : dir[k] = NoEntry \/ dir[k] \in Entry(k)
  /\ v2 \subseteq V2Init
  /\ alloc \in Nat
  /\ now \in ClockStart..ClockMax
  /\ phase \in {"before", "live", "after"}
  /\ inits \in 0..MaxInits /\ leaked \in Nat

(***************************************************************************)
(* The allocation counter that the OOM handler reads counts the bytes the  *)
(* two caches hold, plus exactly the bytes of the entries that             *)
(* hs_cache_free_all freed: every store, replacement, sweep and OOM round  *)
(* adjusts it by the size of what it added or freed, before the first      *)
(* init, while the cache lives, after a free_all and after a new           *)
(* hs_cache_init.  free_all (hs_cache.c:395) frees the map without         *)
(* decrementing, so after init, free_all, init the counter stays too high  *)
(* by what the first cache held.                                           *)
(***************************************************************************)
AllocationMatchesContents ==
  alloc = V3Bytes(dir) + V2Bytes(v2) + leaked

(***************************************************************************)
(* When hs_cache_handle_oom returns less than it was asked for, the v3     *)
(* cache has been emptied of every entry it held (the comment at           *)
(* hs_cache.c:348: "if K becomes negative, it means we've empty the        *)
(* caches").                                                               *)
(***************************************************************************)
OomShortOnlyWhenEmpty ==
  [][\A m \in MinRemove :
       hs_cache_handle_oom(m) /\ oomRet'.freed < m
         => \A k \in Keys : dir'[k] = NoEntry]_vars

(***************************************************************************)
(* Every cached entry's lifetime is the advertised one in seconds, and the *)
(* advertised one is within 1..180 minutes (spec 4.7 and boundary case 8). *)
(***************************************************************************)
LifetimeAsAdvertised ==
  \A k \in Keys : Present(k) =>
     /\ dir[k].minutes \in 1..(MaxLifetimeSec \div 60)
     /\ dir[k].lifetime = dir[k].minutes * 60

(***************************************************************************)
(* The cache implements the abstract cache of HsCacheAbstract.  Every      *)
(* store, sweep, OOM round and free_all is a step that specification      *)
(* allows:                                                                 *)
(*   - a stored entry replaces only a lower revision counter               *)
(*     (cache_sspidere_v3_as_dir);                                         *)
(*   - hs_cache_clean_as_dir removes exactly the entries past their own    *)
(*     lifetime;                                                           *)
(*   - hs_cache_handle_oom removes entries oldest first, whatever the v2   *)
(*     cache frees in between;                                             *)
(*   - an expired entry is eventually swept.                               *)
(***************************************************************************)
AbsCache ==
  [k \in Keys |-> IF dir[k] = NoEntry THEN NoEntry
                  ELSE [rev |-> dir[k].rev, created |-> dir[k].created,
                        lifetime |-> dir[k].lifetime]]

Abstract == INSTANCE HsCacheAbstract WITH cache <- AbsCache, None <- NoEntry

CacheRefinesAbstract == Abstract!Spec
=============================================================================
