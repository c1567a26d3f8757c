------------------------------ MODULE TorGzip ------------------------------
(***************************************************************************)
(* The zlib wrapper of src/common/torgzip.c.                               *)
(*                                                                         *)
(* The one-shot spider_gzip_compress and spider_gzip_uncompress run their  *)
(* deflate/inflate loop to completion inside one call and keep no state,   *)
(* so they are operators: a document goes in, a result [ok, len] comes    *)
(* out.  The incremental API (spider_zlib_new / process / free) keeps      *)
(* per-stream counters and the global total_zlib_allocation, so it is a   *)
(* state machine over a few stream slots.                                  *)
(*                                                                         *)
(* zlib itself is not under src/.  It is abstracted by what the wrapper    *)
(* sees: a call fills the output buffer as far as the document allows and *)
(* reports Z_STREAM_END, Z_OK or Z_BUF_ERROR as zlib documents them.  A    *)
(* document is [plain, packed, complete]: its uncompressed and compressed *)
(* length, and whether the compressed bytes hold the whole stream (a      *)
(* truncated one decodes to its first plain bytes and then stops).        *)
(***************************************************************************)
EXTENDS Integers, FiniteSets, FiniteSetsExt, Bitwise

CONSTANTS
  MinBuf,        \* the 1024-byte minimum first buffer
  BombAfter,     \* CHECK_FOR_COMPRESSION_BOMB_AFTER
  MaxFactor,     \* MAX_UNCOMPRESSION_FACTOR
  SizeBits,      \* width of size_t
  UintMax,       \* UINT_MAX, the width of zlib's avail_in/avail_out
  ZStates,       \* slots for spider_zlib_state_t objects
  NULL,
  Methods,       \* compress_method_t values the callers pass
  Levels,        \* zlib_compression_level_t values the callers pass
  InChunks,      \* *in_len values a caller of spider_zlib_process passes
  OutChunks,     \* *out_len values a caller of spider_zlib_process passes
  MaxCalls,      \* bound on process calls per stream
  StateOverhead, \* sizeof(spider_zlib_state_t) + sizeof(struct z_stream_s)
  Docs           \* documents the one-shot functions are given

ASSUME UintMax < 2 ^ SizeBits

\* SIZE_T_CEILING: SSIZE_MAX - 16
SizeCeiling == 2 ^ (SizeBits - 1) - 16
\* out_size *= 2 in size_t
Twice(x) == (2 * x) % (2 ^ SizeBits)

\* is_compression_bomb
IsCompressionBomb(size_in, size_out) ==
  /\ size_in # 0
  /\ size_out >= BombAfter
  /\ size_out \div size_in > MaxFactor

Err == [ok |-> FALSE, len |-> 0]

-----------------------------------------------------------------------------
(* Abstract zlib.  P bytes of output have been produced so far and A bytes *)
(* of the output buffer are free.  avail_in is only told apart as zero or  *)
(* not: zlib keeps the stream trailer unread until the stream ends, and    *)
(* the wrapper compares avail_in with avail_out only when that is 0.       *)
DeflateCall(d, P, A) ==
  LET n == IF d.packed - P <= A THEN d.packed - P ELSE A
  IN [ret |-> IF P + n = d.packed THEN "Z_STREAM_END"
              ELSE IF n = 0 THEN "Z_BUF_ERROR" ELSE "Z_OK",
      out |-> P + n, avail_out |-> A - n,
      avail_in |-> IF P + n = d.packed THEN 0 ELSE 1]

InflateCall(d, P, A, finish) ==
  LET n == IF d.plain - P <= A THEN d.plain - P ELSE A
      ended == P + n = d.plain
  IN [ret |-> IF ended /\ d.complete THEN "Z_STREAM_END"
              ELSE IF n = 0 \/ finish THEN "Z_BUF_ERROR" ELSE "Z_OK",
      out |-> P + n, avail_out |-> A - n,
      avail_in |-> IF ended THEN 0 ELSE 1]

-----------------------------------------------------------------------------
(* spider_gzip_compress                                                    *)
CompressDone(d) ==
  IF IsCompressionBomb(d.packed, d.plain) THEN Err
  ELSE [ok |-> TRUE, len |-> d.packed]

RECURSIVE DeflateLoop(_, _, _)
DeflateLoop(d, P, size) ==
  LET z == DeflateCall(d, P, size - P)
      new == Twice(size)
  IN CASE z.ret = "Z_STREAM_END" -> CompressDone(d)
       [] z.ret = "Z_OK" /\ z.avail_out >= z.avail_in + 16 ->
            DeflateLoop(d, z.out, size)
       [] OTHER ->
            IF new < size THEN Err
            ELSE IF new - z.out > UintMax THEN Err
            ELSE DeflateLoop(d, z.out, new)

spider_gzip_compress(d) ==
  DeflateLoop(d, 0, IF d.plain \div 2 < MinBuf THEN MinBuf ELSE d.plain \div 2)

(* spider_gzip_uncompress                                                  *)
\* done: *out_len is the offset of next_out; the NUL terminator does not
\* count.
DoneWithBufferSize(P, size) == [ok |-> TRUE, len |-> size]
UncompressDone(P, size) == [ok |-> TRUE, len |-> P]

RECURSIVE InflateLoop(_, _, _, _), InflateGrow(_, _, _, _)
\* Seeded fault: the bomb check looks at the buffer that was filled, not at
\* the doubled one.
InflateGrowBombOnOld(d, co, z, size) ==
  LET new == Twice(size) IN
  IF z.avail_out > 0 THEN Err
  ELSE IF new < size THEN Err
  ELSE IF IsCompressionBomb(d.packed, size) THEN Err
  ELSE IF new >= SizeCeiling THEN Err
  ELSE IF new - z.out > UintMax THEN Err
  ELSE InflateLoop(d, co, z.out, new)

\* The Z_BUF_ERROR case: a free output byte means truncated input;
\* otherwise the buffer doubles, subject to the size_t wrap, the bomb
\* ratio, SIZE_T_CEILING and zlib's unsigned int, in that order.
InflateGrow(d, co, z, size) ==
  LET new == Twice(size) IN
  IF z.avail_out > 0 THEN Err
  ELSE IF new < size THEN Err
  ELSE IF IsCompressionBomb(d.packed, new) THEN Err
  ELSE IF new >= SizeCeiling THEN Err
  ELSE IF new - z.out > UintMax THEN Err
  ELSE InflateLoop(d, co, z.out, new)

\* inflate with Z_FINISH when complete_only, Z_SYNC_FLUSH otherwise.  A
\* document is one stream, so Z_STREAM_END always comes with avail_in 0.
InflateLoop(d, co, P, size) ==
  LET z == InflateCall(d, P, size - P, co) IN
  CASE z.ret = "Z_STREAM_END" -> UncompressDone(z.out, size)
    [] z.ret = "Z_OK" /\ ~co /\ z.avail_in = 0 -> UncompressDone(z.out, size)
    [] z.ret = "Z_OK" /\ z.avail_out >= z.avail_in + 16 ->
         InflateLoop(d, co, z.out, size)
    [] OTHER -> InflateGrow(d, co, z, size)

spider_gzip_uncompress(d, co) ==
  LET size == IF Twice(d.packed) < MinBuf THEN MinBuf ELSE Twice(d.packed) IN
  IF size >= SizeCeiling \/ size > UintMax THEN Err
  ELSE InflateLoop(d, co, 0, size)


-----------------------------------------------------------------------------
(* The incremental API.                                                    *)
\* method_bits and get_memlevel
method_bits(method, level) ==
  (IF method = "GZIP_METHOD" THEN 16 ELSE 0)
    + (CASE level = "MEDIUM_COMPRESSION" -> 13
         [] level = "LOW_COMPRESSION" -> 11
         [] OTHER -> 15)
get_memlevel(level) ==
  CASE level = "MEDIUM_COMPRESSION" -> 7
    [] level = "LOW_COMPRESSION" -> 6
    [] OTHER -> 8

spider_zlib_state_size_precalc(inflate_, windowbits, memlevel) ==
  LET wb == windowbits & 15 IN
  IF inflate_ THEN StateOverhead + 2 ^ 15 + 2048
  ELSE StateOverhead + 2 ^ (wb + 2) + 2 ^ (memlevel + 9) + 2048

VARIABLES
  zs,                     \* ZStates -> stream record or NULL
  total_zlib_allocation,
  fedIn, gotOut,          \* history: bytes zlib consumed and produced per live stream
  lastRet,                \* history: the step's spider_zlib_process call, or NULL
  oneshot                 \* history: the step's one-shot call and result, or NULL

vars == <<zs, total_zlib_allocation, fedIn, gotOut, lastRet, oneshot>>

Init ==
  /\ zs = [s \in ZStates |-> NULL]
  /\ total_zlib_allocation = 0
  /\ fedIn = [s \in ZStates |-> 0]
  /\ gotOut = [s \in ZStates |-> 0]
  /\ lastRet = NULL
  /\ oneshot = NULL

\* Seeded fault: the allocation is counted before the init result is known.
NewCountsFailedInit(s, comp, method, lvl) ==
  LET level == IF comp THEN lvl ELSE "HIGH_COMPRESSION"
      alloc == spider_zlib_state_size_precalc(~comp, method_bits(method, level),
                                              get_memlevel(level))
  IN /\ zs[s] = NULL
     /\ total_zlib_allocation' = total_zlib_allocation + alloc
     /\ \/ zs' = [zs EXCEPT ![s] = [compress |-> comp, input_so_far |-> 0,
                                    output_so_far |-> 0, allocation |-> alloc,
                                    calls |-> 0]]
        \/ UNCHANGED zs
     /\ fedIn' = [fedIn EXCEPT ![s] = 0]
     /\ gotOut' = [gotOut EXCEPT ![s] = 0]
     /\ lastRet' = NULL
     /\ oneshot' = NULL

\* spider_zlib_new: deflateInit2/inflateInit2 may fail (out of memory), and
\* then the object is freed and NULL returned with nothing counted.
spider_zlib_new(s, comp, method, lvl) ==
  LET level == IF comp THEN lvl ELSE "HIGH_COMPRESSION"
      alloc == spider_zlib_state_size_precalc(~comp, method_bits(method, level),
                                              get_memlevel(level))
  IN /\ zs[s] = NULL
     /\ \/ /\ zs' = [zs EXCEPT ![s] = [compress |-> comp, input_so_far |-> 0,
                                       output_so_far |-> 0,
                                       allocation |-> alloc, calls |-> 0]]
           /\ total_zlib_allocation' = total_zlib_allocation + alloc
        \/ UNCHANGED <<zs, total_zlib_allocation>>
     /\ fedIn' = [fedIn EXCEPT ![s] = 0]
     /\ gotOut' = [gotOut EXCEPT ![s] = 0]
     /\ lastRet' = NULL
     /\ oneshot' = NULL

\* The codes zlib's deflate and inflate can return for a call that consumed
\* c of the input and produced o bytes.
ZlibRet(comp, err, c, o, finish) ==
  /\ err = "Z_OK" => c + o > 0
  /\ err = "Z_BUF_ERROR" => c + o = 0 \/ (finish /\ ~comp)
  /\ err = "Z_DATA_ERROR" => ~comp

\* state->input_so_far += ...; state->output_so_far += ...
AccumulateLastCall(sofar, n) == n
Accumulate(sofar, n) == sofar + n

\* The bomb check on the running counters, then the zlib code's meaning.
ProcessResult(st, err, availIn, availOut, finish) ==
  IF ~st.compress /\ IsCompressionBomb(st.input_so_far, st.output_so_far)
  THEN "TOR_ZLIB_ERR"
  ELSE CASE err = "Z_STREAM_END" -> "TOR_ZLIB_DONE"
         [] err = "Z_BUF_ERROR" ->
              IF availIn = 0 /\ ~finish THEN "TOR_ZLIB_OK" ELSE "TOR_ZLIB_BUF_FULL"
         [] err = "Z_OK" ->
              IF availOut = 0 \/ finish THEN "TOR_ZLIB_BUF_FULL" ELSE "TOR_ZLIB_OK"
         [] OTHER -> "TOR_ZLIB_ERR"

spider_zlib_process(s, inLen, outLen, finish) ==
  /\ zs[s] # NULL
  /\ zs[s].calls < MaxCalls
  /\ \E c \in {0, inLen}, o \in {0, outLen},
        err \in {"Z_STREAM_END", "Z_OK", "Z_BUF_ERROR", "Z_DATA_ERROR"} :
       /\ ZlibRet(zs[s].compress, err, c, o, finish)
       /\ LET st == [zs[s] EXCEPT
                       !.input_so_far = Accumulate(@, c),
                       !.output_so_far = Accumulate(@, o),
                       !.calls = @ + 1]
          IN /\ zs' = [zs EXCEPT ![s] = st]
             /\ lastRet' = [ret |-> ProcessResult(st, err, inLen - c,
                                                  outLen - o, finish),
                            compress |-> st.compress,
                            fed |-> fedIn[s] + c, got |-> gotOut[s] + o]
       /\ fedIn' = [fedIn EXCEPT ![s] = @ + c]
       /\ gotOut' = [gotOut EXCEPT ![s] = @ + o]
  /\ oneshot' = NULL
  /\ UNCHANGED total_zlib_allocation

\* Seeded fault: the counter is decremented but the state stays live.
FreeKeepsState(s) ==
  /\ zs[s] # NULL
  /\ total_zlib_allocation' = total_zlib_allocation - zs[s].allocation
  /\ lastRet' = NULL
  /\ oneshot' = NULL
  /\ UNCHANGED <<zs, fedIn, gotOut>>

\* spider_zlib_free of a live state; freeing NULL returns at once.
spider_zlib_free(s) ==
  /\ zs[s] # NULL
  /\ total_zlib_allocation' = total_zlib_allocation - zs[s].allocation
  /\ zs' = [zs EXCEPT ![s] = NULL]
  /\ fedIn' = [fedIn EXCEPT ![s] = 0]
  /\ gotOut' = [gotOut EXCEPT ![s] = 0]
  /\ lastRet' = NULL
  /\ oneshot' = NULL

\* The one-shot results for every document, computed once.
Compressed == [d \in Docs |-> spider_gzip_compress(d)]
Uncompressed == [p \in Docs \X BOOLEAN |-> spider_gzip_uncompress(p[1], p[2])]

\* A caller compresses or uncompresses a whole document in one call.  The
\* functions share no state with the streams, so their calls are taken
\* while no stream is live, which loses no behaviour of either.
OneShotIdle == \A s \in ZStates : zs[s] = NULL

\* spider_gzip_compress always ends its stream (deflate with Z_FINISH), so
\* what it compresses is a whole document.
GzipCompressCall(d) ==
  /\ d.complete
  /\ OneShotIdle
  /\ oneshot' = [op |-> "compress", doc |-> d, co |-> TRUE,
                  res |-> Compressed[d]]
  /\ lastRet' = NULL
  /\ UNCHANGED <<zs, total_zlib_allocation, fedIn, gotOut>>

GzipUncompressCall(d, co) ==
  /\ OneShotIdle
  /\ oneshot' = [op |-> "uncompress", doc |-> d, co |-> co,
                  res |-> Uncompressed[<<d, co>>]]
  /\ lastRet' = NULL
  /\ UNCHANGED <<zs, total_zlib_allocation, fedIn, gotOut>>

Next ==
  \/ \E s \in ZStates :
       \/ \E comp \in BOOLEAN, m \in Methods, l \in Levels :
            spider_zlib_new(s, comp, m, l)
       \/ \E i \in InChunks, o \in OutChunks, f \in BOOLEAN :
            spider_zlib_process(s, i, o, f)
       \/ spider_zlib_free(s)
  \/ \E d \in Docs : GzipCompressCall(d)
  \/ \E d \in Docs, co \in BOOLEAN : GzipUncompressCall(d, co)

Spec == Init /\ [][Next]_vars

-----------------------------------------------------------------------------
TypeOK ==
  /\ \A s \in ZStates :
       zs[s] = NULL \/
       zs[s] \in [compress : BOOLEAN, input_so_far : Nat, output_so_far : Nat,
                  allocation : Nat, calls : 0..MaxCalls]
  /\ total_zlib_allocation \in Nat

\* total_zlib_allocation, which spider_zlib_get_total_allocation reports to
\* the OOM handler, is the sum of the allocations of the live states: new
\* counts only a state it returns, and free takes back what new counted.
TotalMatchesLive ==
  total_zlib_allocation
    = MapThenSumSet(LAMBDA s : zs[s].allocation, {s \in ZStates : zs[s] # NULL})

\* A decompressing stream whose whole output so far exceeds
\* MAX_UNCOMPRESSION_FACTOR times its whole input so far (past
\* CHECK_FOR_COMPRESSION_BOMB_AFTER) is answered TOR_ZLIB_ERR by
\* spider_zlib_process, however the caller split input and output
\* across calls.
AbandonedOnBomb ==
  lastRet # NULL /\ ~lastRet.compress /\ IsCompressionBomb(lastRet.fed, lastRet.got)
    => lastRet.ret = "TOR_ZLIB_ERR"

\* spider_gzip_uncompress never returns more than MAX_UNCOMPRESSION_FACTOR
\* times its input once the output passes CHECK_FOR_COMPRESSION_BOMB_AFTER,
\* although it checks the ratio on buffer sizes, not on the output.
OutputWithinBombBound ==
  oneshot # NULL /\ oneshot.op = "uncompress" /\ oneshot.res.ok =>
    \/ oneshot.res.len < BombAfter
    \/ oneshot.res.len \div oneshot.doc.packed <= MaxFactor

\* A successful spider_gzip_uncompress of a whole stream returns all of it,
\* and with complete_only a truncated stream is an error.
CompleteDocsRestored ==
  oneshot # NULL /\ oneshot.op = "uncompress" =>
    /\ oneshot.res.ok /\ oneshot.doc.complete => oneshot.res.len = oneshot.doc.plain
    /\ oneshot.co /\ ~oneshot.doc.complete => ~oneshot.res.ok

\* What spider_gzip_compress produces, another relay's
\* spider_gzip_uncompress accepts: compress refuses output "other Spiders
\* would think was a zlib bomb" (torgzip.c:228).
CompressedAccepted ==
  oneshot # NULL /\ oneshot.op = "compress" /\ oneshot.res.ok =>
    Uncompressed[<<oneshot.doc, TRUE>>].ok

=============================================================================
