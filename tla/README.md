# TLA+ models of the hidden-service descriptor subsystem

This directory holds TLA+ models of the code under `src/`, with TLC
configurations to check them. The models cover the v3 descriptor codec (encoder, the
HSDir's plaintext decode, the client's full decode), the directory cache
that stores and serves descriptors, the bounded storage directory,
the vote collator, the Windows condition variable, the zlib wrapper, and
the process monitor.
Each module translates the C functions named in `PROJECT.json` ("map").
Every action models a whole function, including its early returns and error
paths.

## 1. The system and its parts

| Part | Source | State it keeps | Operations that change state |
|---|---|---|---|
| Directory cache (C9) | `or/hs_cache.c` | `hs_cache_v3_dir`: a map from blinded key to entry `{created_ts, plaintext_data, encoded_desc}`. The allocation counter is shared with the v2 cache (`rendcommon.c`, not under src). | `hs_cache_init`, `hs_cache_store_as_dir` (decode, then `cache_store_v3_as_dir`), `hs_cache_clean_as_dir`, `hs_cache_handle_oom`, `hs_cache_free_all` |
| Plaintext decode (C7) | `or/hs_descriptor.c` | none (pure) | `hs_desc_decode_plaintext`, `desc_decode_plaintext_v3`, `encrypted_data_length_is_valid` |
| Other descriptor codecs (C2-C6, C8) | `or/hs_descriptor.c` | none (pure) | `hs_desc_encode_descripspider` (inner layer, middle layer, padding, two encryptions, signature, self-decode); `hs_desc_decode_descripspider` (both decryptions, auth data, create2 list, auth types, intro points and their cross-certification) |
| Storage directory (C10) | `common/storagedir.c` | handle `{contents (NULL or listing), usage_known, usage, max_files}`; the directory itself (files `<n>`, `<n>.tmp`) | `new`, `list`/`rescan`/`clean_tmpfiles`, `get_usage`, `save_bytes_to_file`, `save_string_to_file`, `remove_file`, `shrink`, `remove_all` |
| Vote collator (C11) | `or/dircollate.c` | `{n_votes, n_authorities, by_rsa_sha1, by_both_ids, all_rsa_sha1_lst, next_vote_num, is_collated}` | `new`, `add_vote`, `collate` |
| Windows condvar | `common/compat_winthreads.c` | `{n_waiting, n_to_wake, generation, event}` | `spider_cond_wait`, `signal_one`, `signal_all` |
| Windows thread-local storage | `common/compat_winthreads.c` | `spider_threadlocal_t {index}`, over the process's TLS index pool | `spider_threadlocal_init`, `destroy`, `get`, `set` |
| Process monitor | `common/procmon.c` | `{pid, hproc, poll_hproc, timer}` | `new`, the poll callback, `free` |
| zlib wrapper | `common/torgzip.c` | `total_zlib_allocation`, and per state `{input_so_far, output_so_far}` | `spider_gzip_compress`/`uncompress`, `spider_zlib_new`/`process`/`free` |

How the parts interact:
- A service encodes its descriptor and posts the text to HSDirs.
- The cache calls the plaintext decoder on every store, and serves the stored text on lookup.
- A client that knows the onion address derives the blinded key and subcredential, fetches the text and decodes all of it.
- Anyone may post, so an HSDir also sees texts that are not a service's own output.
- The cache shares the allocation counter and the OOM loop with the v2 cache.
- The spec runs everything on one event-loop thread, so cache operations are totally ordered.
- The storage directory is driven by its owner. Its directory outlives the process.
- The condition variable, process monitor and zlib wrapper are infrastructure. They do not touch the descriptor state.

What is hard:
- In the codec: the HSDir can check only the plaintext layer. The client's decode must still accept exactly what the service published. This rests on the signature, the KDF binding of both layers to the signed key and revision, and the encoder's self-decode.
- In the cache:
  - descriptors of one key arriving in any order;
  - allocation accounting across replacement, clean and OOM;
  - the expiry boundary;
  - the OOM loop's cutoff arithmetic;
  - the uint32 lifetime conversion.
- In the storage directory:
  - the in-RAM listing going stale against the directory;
  - failed unlinks and listings;
  - a crash between writing `<n>.tmp` and renaming it;
  - qsort tie order in shrink.
- In the condition variable: wake tokens, the generation counter and the manual-reset event under interleaved waiters and signallers, plus tick-count wrap.
- In the zlib wrapper: buffer doubling against the size_t, `SIZE_T_CEILING` and `unsigned int` limits, the bomb ratio on sizes versus on output, and the global allocation counter under failed inits.

## 2. Modules

### HsCache (`HsCache.tla`, instantiated by `MC_HsCache.tla`)

The cache extends `HsDesc` and decodes every posted text with its
`hs_desc_decode_plaintext`. A posted text is an encoded descriptor as
`HsDesc` represents it (see below). An entry keeps the text (`doc`) for
lookup.

State:
- `dir`: the v3 map (key -> entry or `NoEntry`).
- `v2`: the v2 entries that share the counter.
- `alloc`: the allocation counter.
- `now`: the wall clock.
- `oomRet`: the last OOM round's goal and result.
- `phase`: `before` `hs_cache_init`, `live`, or `after` `hs_cache_free_all`. The map is NULL outside `live`, and every reader treats it as empty.
- `inits`: the `hs_cache_init` calls so far, capped by `MaxInits` (2).
- `leaked`: a history variable, the bytes of the entries `hs_cache_free_all` freed without decrementing the counter.

Definitions and their code:
- `hs_cache_lookup_as_dir` dispatches every supported version, which is only v3, to `cache_lookup_v3_as_dir`: -1 for a query that is not a key, 1 and the stored text, or 0.
- `cache_sspidere_v3_as_dir` is the revision-counter guard, then remove-and-decrement, then store-and-increment. The map updates are `remove_v3_desc_as_dir` and `sspidere_v3_desc_as_dir`.
- `StoreRejected` covers every path where a store changes nothing: decode failure, or a cached revision >= the new one.
- `hs_cache_clean_as_dir` cleans v2 with `now - MaxEntryLifetime`, then v3 with cutoff 0 (per-entry lifetime, `created_ts <= cutoff` expires).
- `hs_cache_handle_oom` is the do/while loop, written as the recursive `OomLoop`.
- `hs_cache_init` runs whenever the map is NULL: first, and again after `hs_cache_free_all`, up to `MaxInits` calls. An init while the map exists is the fatal assert, which the owner never causes.
- `hs_cache_free_all` empties the map and leaves the counter alone (line 395). After init, store, free_all and init, the counter is too high by what the first cache held. `AllocationMatchesContents` states exactly that excess. Whether the counter's owner (`rendcommon.c`, not under `src/`) resets it is outside the model, so no run claims the excess as a bug.
- Stores need the map. Clean and OOM return early on a NULL map (line 202), so they are allowed in every phase.
- `CleanV2` and the allocation helpers belong to `rendcommon.c`, which is not under src. They are modelled from the spec and marked `spec_modelled`.

Refinement:
- `HsCacheAbstract` is the cache's promise with sizes, decoding and the v2 cache left out. Its state is a map from key to `{rev, created, lifetime}` and the clock.
- Its steps:
  - `Put` of a strictly higher revision, stamped now;
  - `Sweep` of exactly the expired entries, weakly fair;
  - `Reclaim`, which removes entries with no removed entry younger than a kept one;
  - `Shutdown`;
  - `Advance` of the clock.
- `HsCache` maps to it through `AbsCache`, which projects each entry. `CacheRefinesAbstract` is `Abstract!Spec`, checked as a property.

Fairness: weak fairness on `hs_cache_clean_as_dir`. The spec says clean is called by the periodic housekeeping tick, so it runs whenever the process runs.

### HsDesc and HsPublish (`HsDesc.tla`, `HsPublish.tla`)

`HsDesc` holds the codec of `hs_descriptor.c` as pure operators, with no
state. Data is abstracted as follows:
- A text is its tokens and its length. The length is computed as the
  encoder computes it: fixed lines (`TextLen`), decimal numbers, base64 of
  the link specifiers, multi-line base64 of each encrypted blob, and the
  middle layer padded to `PadMultiple`.
- A certificate is `{type, signedKey, signingKey, signer, included,
  expires}`. `cert_is_valid` wants the type, the embedded key, a signature
  by that key (`signer = signingKey`) and no expiry.
- A signature is `{by, over}`: the key that made it and the body it covers.
- An encrypted blob is `{kdf, intact, plain, len}`. `kdf` is the
  KDF input (blinded key, subcredential, revision counter, layer). The MAC
  check passes when the blob is intact and was keyed with the input the
  decoder derives.
- `Invalid` is a model value, the NULL or -1 every step returns on failure.

How the operators follow the code:
- Each C function is an operator of the same name. Where a function
  continues after a result it computed (`desc_encode_v3` after the
  superencrypted blob, `desc_decode_encrypted_v3` after decryption), the
  rest is an operator of its own that takes that result. Examples are
  `SignedEnvelope`, `DecodeInnerLayer`, `WithIntroPoints` and `SelfDecoded`.
- A step given `Invalid` returns `Invalid`, which models the `goto err`.

`HsPublish` extends `HsCache` with what surrounds the HSDir:
- the services' descriptors (`ServiceDescs`), encoded at `EncodeTime` with
  the descriptor signing key;
- the subcredential a client derives for each blinded key (`Subcred`);
- `ClientDecodesServed`, the end-to-end property.

`MC_HsCache` posts to the cache four kinds of text:
- the published encodings (two keys, two revisions, two lifetimes, one or
  two intro points of both kinds, with and without auth types and the
  single-onion flag);
- texts derived from them without the service's keys: an edited revision
  counter, another revision's blob spliced in, and a descriptor under an
  attacker-signed certificate that clients could decrypt;
- signed texts that one plaintext check refuses;
- for the lifetime run, a wrapping and a zero lifetime.

Five service descriptors are refused by the encoder: 11 intro points
(which only the self-decode catches), an expired intro-point
certificate, a 200-minute lifetime, no known auth type, and no ntor.

### StorageDir (`StorageDir.tla`, instantiated by `MC_StorageDir.tla`)

State:
- `disk`: the persistent directory, `Names -> [size, mtime]` or `NoFile`, where `Names` are `<n>` and `<n>.tmp` for `n` in `1000..1000+max_files-1`.
- `contents`: the in-RAM listing, or `NULL`.
- `usage_known` and `usage`.
- `now`: the file-system clock that stamps mtimes.
- `crashed`: set when the process dereferences a NULL listing.
- `shrunk`: a history variable. After a shrink step it holds that shrink's target, min and the files whose unlink failed in its loop. After any other step it is `NULL`. It lets `ShrinkRemovesOldestToGoal` read the step's arguments without re-evaluating the action.

Definitions and their code:
- `Rescans(dk)` gives every outcome of `storage_dir_rescan`, including `clean_tmpfiles`:
  - each `.tmp` unlink may fail when `"clean_tmpfiles"` is in `UnlinkFailsIn`;
  - the listing may fail when `ListdirMayFail`.
- `write_bytes_to_file` is in `util.c`, not under src. It either writes `<n>.tmp` and renames it over `<n>`, or fails and changes nothing.
- `sspiderage_dir_shrink` models the whole function:
  - the early return;
  - the rescan, where failure returns -1;
  - get_usage and the second early return;
  - every mtime order qsort may produce (`MtimeOrders`);
  - the unlink loop (`ShrinkLoop`), with its `BUG()` guard on usage. Any subset of the listed files may fail to unlink when `"shrink"` is in `UnlinkFailsIn`. A failed unlink is skipped and does not count towards `min_to_remove`;
  - the final rescan.
- `sspiderage_dir_save_string_to_file(str)` saves `strlen(str)` bytes. A C string is a byte sequence, and `strlen` is the position of its first NUL, so a string with a byte after its NUL saves the bytes before it only.
- `sspiderage_dir_remove_all` is `shrink(0, MaxFiles)`.
- `sspiderage_dir_remove_file` may fail to unlink when `"remove_file"` is in `UnlinkFailsIn`. It then changes nothing.
- `UnlinkFailsIn` names the callers whose `unlink()` may fail. The passing run lets it fail in `remove_file` and in the shrink loop. These failures leave usage exact: a failed `remove_file` changes nothing, and shrink rescans at the end. The unlink run lets it fail only in `clean_tmpfiles`, which is where usage goes wrong.
- `Restart` is the process dying at any point and creating a new handle. It may leave the `.tmp` of a save that was in flight.
- No fairness: nothing in the directory must eventually happen.

### WinCondVar (`WinCondVar.tla`, instantiated by `MC_WinCondVar.tla`)

This module models the condition variable that `compat_winthreads.c` builds from a critical section and a manual-reset event.

State:
- The shared fields `n_waiting`, `n_to_wake`, `generation` and `event`.
- `owner`: the caller's mutex.
- Per thread:
  - `pc`: the step of `spider_cond_wait` the thread is at;
  - the locals `generation_at_start`, `res`, `result`, `ms` and `ms_orig`;
  - `realStart` and `waitFrom`: the tick at which the wait started and the tick at which it blocked.
- `clock`: the ticks since start. `GetTickCount` is `DWORD(TickBase + clock)` modulo 2^`TickBits`, so it wraps as the real DWORD does.

Actions:
- Each section the code runs under `cond->lock` is one atomic step:
  - register (lines 188-191);
  - the check (199-230), with its three exits: token, `WAIT_TIMEOUT`, tick timeout;
  - the final reset (235-238).
- The steps between those sections are separate actions, where other threads interleave:
  - leaving the lock;
  - `WaitForSingleObject` returning because the event is set;
  - its `WAIT_TIMEOUT`;
  - relocking.
- Signalling:
  - `signal_one` and `signal_all` are `spider_cond_signal_impl`.
  - Its `SetEvent` releases every thread blocked on the manual-reset event.
- `ClearLocals` resets a thread's locals when its call returns. They are dead after the return, and resetting them keeps the state space small.

Fairness:
- Weak fairness on the steps inside the wait: unlock, `WaitForSingleObject` returning, `WAIT_TIMEOUT` and the check.
- The OS schedules a runnable thread and returns from a wait on a set event.
- Callers are not assumed to lock, signal or relock. The lock is `cond->lock` only.

Bounds:
- `MaxSignals` caps the generation counter.
- Three threads, so two can wait while a third signals. `TimedThreads` lets one of them pass a timeout of 1 tick, and the clock runs for 1 tick, so all three exits of the check happen. Three signals (`MaxSignals`) are allowed.
- The tickwrap run uses two threads, both of them timed.
- `TickBits` is 8. The tickwrap run starts `TickBase` at 255, one tick before the wrap.

Seen but not checked: after a `signal_one` with no waiter, `n_to_wake` stays 1 and the event stays set. A later waiter then returns from `WaitForSingleObject` at once and loops until the next signal. This contradicts the comment at lines 224-226, but it yields no wrong result (see the hazard at line 224).

### DirCollate (`DirCollate.tla`, instantiated by `MC_DirCollate.tla`)

State:
- `docs`: the parsed votes. Each is a function from RSA digest to an Ed25519 key, `NoEd` or `Unlisted`. A well-formed vote lists a digest at most once.
- `reflects`: each row's `ed25519_reflects_consensus` flag. It belongs to the document, so it survives a collator's free. dirvote collates the same votes more than once.
- The collator's fields:
  - `n_votes`, `n_authorities`, `next_vote_num`, `is_collated`;
  - the maps `by_rsa_sha1`, `by_both_ids` and `by_collated_rsa_sha1`, as functions to a `vrs_lst` array of row references or `NoList`;
  - `all_rsa_sha1_lst`.
- `failed`: set when one of the asserts at lines 118, 137 and 290 fires.
- History variables: `added` (the document of each vote number) and `method`.

Actions:
- `dircollaspider_new` and `dircollaspider_free`.
- `dircollaspider_add_vote` applies `add_routerstatus` to every row:
  - it clears the flag (line 108);
  - it gets or creates both arrays, asserts the slot is empty, and stores the row.
- `dircollaspider_collate` runs `CollateByRsa` or `CollateByEd25519`, sorts the digests, and sets `is_collated`.
  - Hash-table iteration order is abstracted. Each pass touches each digest once, and the list is sorted afterwards.
  - When two accepted pairs share a digest, the overwrite order in `rsa_digests` is kept as a nondeterministic pick.
- The caller's duties (the asserts at lines 148 and 191-193, and 208) are guards, as is "each vote exactly once".

No fairness: the collator has no obligation to progress.

Bounds:
- Three votes, RSA digests `{1, 2}`, Ed25519 keys `{e1, e2}`.
- `n_authorities` in `{2, 3, 4}` and every `n_votes <= n_authorities`.
- Methods 1 (RSA only) and 2 (Ed25519).
- Together these give every majority situation of three voters, two conflicting Ed25519 keys for one digest, RSA-only rows next to keyed ones, missing votes (`n_votes < n_authorities`), and repeated collation.
- Symmetry on the votes and on the Ed25519 keys is sound: there is no liveness property, and neither set is ordered.

### TorGzip (`TorGzip.tla`, instantiated by `MC_TorGzip.tla`)

zlib is not under `src/`. It is abstracted to what the wrapper sees. A document is `[plain, packed, complete]`: its uncompressed and compressed sizes, and whether the bytes hold the whole stream. A deflate or inflate call fills the free output as far as the document allows. It returns `Z_STREAM_END` at the end of a whole stream, `Z_BUF_ERROR` when nothing moved (or under `Z_FINISH` before the end), and `Z_OK` otherwise. zlib keeps a stream's trailer unread until the end, so `avail_in` is zero only there.

One-shot functions: these are operators, because they keep no state.
- `spider_gzip_compress` is `DeflateLoop`. The first buffer is half the input, at least 1024 bytes. It doubles on `Z_BUF_ERROR`, or on `Z_OK` with little room (the case falls through). It fails if the size wraps (`Twice`, size_t) or exceeds zlib's `unsigned int`. It ends with the ratio check at line 228.
- `spider_gzip_uncompress` is `InflateLoop` and `InflateGrow`. The first buffer is twice the input, checked against `SIZE_T_CEILING` and `UINT_MAX`. With `complete_only`, inflate runs with `Z_FINISH`. The `Z_BUF_ERROR` path applies the checks in the code's order: a free byte means truncation, then the size_t wrap, the bomb ratio on the doubled size, `SIZE_T_CEILING`, and `UINT_MAX`.

Incremental API: this is a state machine over two stream slots.
- `spider_zlib_new` computes the allocation from `method_bits`, `get_memlevel` and `spider_zlib_state_size_precalc`. The window bits are masked with `& 15`, from `Bitwise`. The init may fail, and then nothing is counted.
- `spider_zlib_process` accumulates `input_so_far` and `output_so_far`. It abandons a decompressing stream that crosses the bomb ratio, then maps the zlib code to `TOR_ZLIB_*` exactly as lines 504-520 do.
- `spider_zlib_free` subtracts the allocation.
- `fedIn`, `gotOut` and `lastRet` are history variables for the cumulative bytes and the last result.

Bounds:
- Seven documents:
  - a short one;
  - a large one at 4:1;
  - two at 23:1 and 30:1 around the factor 25;
  - a 1000:1 bomb;
  - a truncated stream, which only uncompress is given: compress always ends its stream;
  - one past `UINT_MAX / 2` compressed.
- size_t is 24 bits and `unsigned int` 22 bits, so the width limits are reachable.
- Two stream slots, with chunks of 1000 bytes in and 40000 out, and two process calls per stream. Together they reach a cumulative output of 80000 bytes, past 65536, from 1000 bytes of input, split over two calls.

No fairness: callers drive the streams.

### ProcMon (`ProcMon.tla`, instantiated by `MC_ProcMon.tla`)

State:
- `platform`: `unix` or `win32`, chosen once per behaviour.
- `os`: per PID, an incarnation number, whether it is alive, whether we may signal or open it, and the exit code of its last incarnation. A PID outside `Pids` has no process.
- `pm`: the monitor `{pid, poll_hproc, hproc, e}`, or NULL. `hproc` names the incarnation its handle refers to.
- `watched` and `notified` are history variables: the incarnation the PID named when `new` ran, and whether `cb` has been called since.

Actions:
- The OS: a process exits with a code from `ExitCodes`, or a dead PID is reused by a new incarnation. Windows keeps the PID reserved while a handle is open.
- `spider_process_monispider_new(spec)`:
  - runs `parse_process_specifier`: the flag and the next character from `spider_parse_long`, then the `(pid_t)` cast compared with the long, at `PidBits` wide;
  - on Windows, opens a handle;
  - arms the timer.
- `spider_process_monispider_poll_cb` is the whole callback:
  - Unix: `kill(pid, 0)` with `errno == ESRCH`;
  - Windows with a handle: `GetExitCodeProcess` against `STILL_ACTIVE`;
  - Windows without a handle: a new `OpenProcess`. It either gains a handle, or reads the error code, where only `ERROR_INVALID_PARAMETER` means dead.
  - Then it calls `cb`.
- `spider_process_monispider_free`.

Fairness: weak fairness on the poll callback. Libevent runs the EV_PERSIST timer every 15 s while the loop runs. The OS and the owner have no fairness.

Bounds:
- PIDs `{1, 2}`, one reuse per PID, and exit codes `{0, 259}`.
- Specifiers:
  - PID 1, with and without a suffix;
  - PID 3, which has no process;
  - junk after the number;
  - no number;
  - 17, which wraps onto PID 1 at 4 bits;
  - 8, which wraps negative.
- Both platforms.

### WinThreadLocal (`WinThreadLocal.tla`, checked with WinCondVar by `MC_WinCompat.tla`)

This module models the thread-local storage wrappers at lines 134-175 of `compat_winthreads.c`, over the Win32 TLS calls.

State:
- `allocated`: the indexes of the process's TLS range that `TlsAlloc` has handed out and `TlsFree` has not taken back.
- `foreign`: the indexes that other code in the process holds. Other libraries share the pool.
- `slot[i][t]`: the value of index `i` in thread `t`.
- `index`: the field of each `spider_threadlocal_t`. It starts at 0, as a zeroed object does.
- `life`: what the caller knows of each object. It is new, live (init returned 0), failed (init returned -1) or destroyed.

Actions:
- `spider_threadlocal_init`: `TlsAlloc` takes any free index and zeroes it in every thread, or returns `TLS_OUT_OF_INDEXES` when none is free; init then returns -1.
- `spider_threadlocal_destroy`: `TlsFree` of the object's index, then the `memset` that sets it to 0.
- `spider_threadlocal_set` stores into the calling thread's slot. `spider_threadlocal_get` changes no state, so it is not an action.
  - The error branches of both end in `spider_assert`. They are reached only on `TLS_OUT_OF_INDEXES`, which no live object holds, so they are left out.
  - Callers use only objects whose init returned 0, as the header asks.
- `OtherTlsAlloc` and `OtherTlsFree` are the other code in the process.
- Other code's stores into its own slots are left out: no property reads those slots.

The two Windows modules share no state. `MC_WinCompat` therefore chooses one of them at the start (`part`) and runs it. The run's states are the sum of the two state spaces, not their product. The product would show nothing that either module does not show alone.

Bounds: two threads, two objects, two TLS indexes and the values `NULL` and `v1`. Both objects can be live together, the pool can be exhausted by an object and other code, and an index freed by one object can be handed to the other.

## 3. Runs

| Run | Config | Expect | Checks | Shows |
|---|---|---|---|---|
| hs_cache | `MC_HsCache.cfg` | pass | TypeOK, AllocationMatchesContents, ClientDecodesServed, OomShortOnlyWhenEmpty, CacheRefinesAbstract | Stores of new, stale, equal and invalid descriptors for two keys, cleans, OOM rounds with a small and a large goal, clock steps of 30 and 60 minutes, init, free_all and a second init keep the counter equal to the cached bytes plus exactly what free_all freed. The cache implements `HsCacheAbstract`: revisions only rise, the sweep removes exactly the expired entries and eventually runs, and OOM evicts oldest first. With edited, spliced, re-certified and re-signed texts posted beside the published ones, whatever the HSDir serves decodes for a client to exactly what a service encoded. |
| hs_cache_oom | `MC_HsCache_oom.cfg` | violation | OomShortOnlyWhenEmpty | RendPostPeriod 2700 does not divide the lifetime 7200. The last OOM cutoff is `now - 1800`, so the handler returns short while a fresh entry remains. |
| hs_cache_lifetime | `MC_HsCache_lifetime.cfg` | violation | LifetimeAsAdvertised | A minute count whose `* 60` wraps, or 0 minutes, passes the lifetime check. |
| storage_dir | `MC_StorageDir.cfg` | pass | TypeOK, UsageMatchesDisk, NoSaveOverwrites, ShrinkRemovesOldestToGoal | The listing is reliable, and `unlink()` may fail in `remove_file` and in the shrink loop. Saves, removals, shrinks, rescans and restarts that leave `.tmp` files keep `usage` exact and never overwrite a file. Shrink removes the oldest files first, passing over those whose unlink failed. It either reaches both goals or leaves only files it could not unlink, so a failed unlink never ends the loop early or counts as a removal. |
| storage_dir_unlink | `MC_StorageDir_unlink.cfg` | violation | UsageMatchesDisk | A `.tmp` whose unlink failed stays listed and counted. A later save truncates it, and `usage` is then wrong while known. |
| storage_dir_listdir | `MC_StorageDir_listdir.cfg` | violation | NoNullListing | `get_usage` after a failed rescan iterates a NULL listing. |
| dir_collate | `MC_DirCollate.cfg` | pass | TypeOK, CollationMatchesReference | For every three votes, in every order, and for every collator size and method, collation gives the relay list, the rows per relay and the reflects flags of the specification's rule (section 4.10), computed independently from the votes. This holds on documents an earlier collation flagged. |
| win_condvar | `MC_WinCompat.cfg` | pass | TypeOK, WaitersCounted, TimeoutNotEarly, SignalledWaiterWakes, InitFailsOnlyWhenFull | With three threads, one of them timed, `n_waiting` always counts the threads inside the wait on all three exit paths. Without a wrap, a timeout is reported only after `ms_orig` ticks. A waiter that is eligible for an outstanding token eventually leaves, unless the tokens run out. For thread-local storage, with indexes freed and reallocated by both objects and by other code, init fails only when every index is held (`InitFailsOnlyWhenFull`). Destroy gives back its own index and no other. |
| torgzip | `MC_TorGzip.cfg` | pass | TypeOK, TotalMatchesLive, AbandonedOnBomb, OutputWithinBombBound, CompleteDocsRestored | Two streams created (with init failures), fed and freed in any order keep `total_zlib_allocation` equal to the live states' sum. Every decompressing stream whose cumulative ratio is a bomb is answered `TOR_ZLIB_ERR`, however the input was split. One-shot uncompress returns whole streams in full, refuses truncated ones under `complete_only`, and never returns more than the bomb ratio. |
| torgzip_roundtrip | `MC_TorGzip_roundtrip.cfg` | violation | CompressedAccepted | A 70000-byte document compressed 23:1 is accepted by compress but refused by uncompress: the ratio is taken on the doubled buffer (96000 bytes, 32:1), not on the output. |
| procmon | `MC_ProcMon.cfg` | pass | TypeOK, NoFalseAlarm, DeathNoticed | On both platforms, with processes we may not signal or open, the callback runs only after the monitored process ended. With the persistent timer it always runs, unless the PID was reused first (`kill` and `OpenProcess` then see the new process) or the exit code reads as `STILL_ACTIVE`. Specifiers that do not fit `pid_t` are rejected. |
| win_condvar_tickwrap | `MC_WinCondVar_tickwrap.cfg` | violation | TimeoutNotEarly | A wait started just before `GetTickCount` wraps times out after 0 ticks. |

Bounds and why they are enough:
- **HsCache:**
  - Two keys, each with revisions 1 and 2 and lifetimes of 30 and 60 minutes. Both orders of revisions and the equal-revision replay happen.
  - Invalid texts for each plaintext check (size, version, lifetime, certificate, blob length, signature), and derived texts for the checks only the client can make.
  - `MaxIntroPoints` 10, `PadMultiple` 10000, `CertLifetime` 54 h and `MaxDescSize` 50000 are the code's values. A published text is about 14200 bytes.
  - Two v2 entries, one old and one young. The OOM loop meets both its v2 and v3 exits.
  - `MaxInits` 2: one init, free_all and re-init cycle, so a cache that held entries is freed and a new one is used with the counter carrying the excess.
  - The clock starts at 9000 s (past the 7200 s entry lifetime, as a wall clock is) and runs to 14400 s in steps of 1800 s and 3600 s. Entries expire on and after their boundary.
  - The lifetime's uint32 is scaled to 24 bits, because TLC integers are 32-bit. The wrap happens at `2^24 / 60 + 1` minutes, the same arithmetic as the code at a smaller width.
- **StorageDir:**
  - Three name slots, so the directory fills and a save fails.
  - Lengths 1 and 2. The saved strings have these lengths, and one of them has a byte after its NUL.
  - A clock of three ticks, so mtimes tie and differ.
  - Shrink targets 0 and 2 and min-to-remove 0 and 1, so both exit conditions of the loop matter.

Every property of a passing run has a seeded fault listed in `PROJECT.json` ("mutants"). Each is a plausible bug in a mapped definition that TLC catches:
- a missing size cap;
- an encoder without its self-decode;
- a missed decrement;
- a dropped revision check, which breaks the refinement;
- an OOM loop that stops at K = 0;
- clean using the v2 cutoff;
- a remove that subtracts sizes while usage is unknown;
- a save that forgets usage;
- naming by file count;
- a shrink loop that counts a failed unlink towards `min_to_remove`;
- a zlib state counted although its init failed;
- bomb counters that keep only the last call;
- the bomb check on the filled buffer rather than the doubled one;
- a done path that returns the buffer size;
- a parse without the `pid_t` width check;
- EPERM from `kill` taken as death;
- a poll timer that is not persistent;
- a thread-local destroy that never calls `TlsFree`.

## 4. Not modelled, and the plan

The next modules, in order of importance:
1. **HSDir serving stale descriptors:** a service certificate that expires while its descriptor is cached, or a consensus that lowers `HSV3MaxDescriptorSize` below a cached descriptor's size (the stale_state hazard at `hs_cache.c:180` in `PROJECT.json`). Either case makes `ClientDecodesServed` fail. That is what the code does, so it belongs in a run that expects a violation, with a service whose certificate expires before `ClockMax`.

Abstractions and divergences in the codec that no run checks:
- Base64, the tokenizer and the trunnel link-specifier parser are abstracted to lengths and token lists. Text that does not tokenize is not generated.
- `decode_auth_type` compares each listed type with `strncmp` over the length of the known identifier. A type that only starts with `ed25519` is therefore accepted. The model compares whole words.
- The spec asks for exactly 16 auth-client lines. `decode_superencrypted` accepts one or more (T1N), and the model follows the code. No run is spent on this.
- Spec 4.4 says that only the middle layer trims NUL padding. `decrypt_desc_layer` trims both layers, and the model follows the code.
- For an ntor key, `decode_introduction_point` accepts any valid `CROSS_HS_IP_KEYS` certificate. It does not check that the certificate binds the descriptor signing key, as the spec requires and as the legacy branch does. The auth-key certificate is not bound to that key either. `CrossCertified` follows the code. Only the service's key can sign intro points into a descriptor, so `ClientDecodesServed` is unaffected.
- The size limit `MaxDescSize` is the default `HS_DESC_MAX_LEN`. In the code it is the consensus parameter `HSV3MaxDescriptorSize`, which can drop while a larger descriptor is cached. This is a hazard in `PROJECT.json`.
- The fake auth-client and ephemeral-key bytes, the `*_free` functions and `hs_desc_plaintext_obj_size` are not modelled.

Out of TLC's reach or out of scope:
- the cryptography, and the ed25519 field arithmetic;
- zlib's compression itself;
- logging (`util_bug.c`). Its only state is the bug-capture list and the failed-assertion callback, and both exist only in unit-test builds (`TOR_UNIT_TESTS`). In the modelled code, `BUG()` and the non-fatal asserts only log;
- the rest of the Windows threading layer: `spawn_func`, `spawn_exit`, mutex and condition init and uninit, `spider_get_thread_id` and `spider_threads_init`. Each is a single OS call with no state a property reads. Thread creation is the `Threads` constant, and the failure paths of `spider_cond_init` return -1 before the condition is used;
- the headers that only declare collaborators;
- the tests.
