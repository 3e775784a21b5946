------------------------------ MODULE alt_cache ------------------------------
(***************************************************************************)
(* The functions that flush parts of the caches, line by line, over a      *)
(* direct-mapped cache that writes back.  The processor of this system has *)
(* been built without caches; its programs flush all the same, and on a    *)
(* processor with caches the buffers of the controllers depend on it.      *)
(***************************************************************************)
EXTENDS Integers

CONSTANTS Size,      \* NIOS2_DCACHE_SIZE and NIOS2_ICACHE_SIZE, in bytes
          Line,      \* Their line size
          Memory     \* Bytes of memory; the bit above them bypasses the cache

\* Without a cache the functions are compiled empty.
ASSUME CacheAssumption ==
  /\ Line \in Nat \ {0} /\ Size \in Nat \ {0} /\ Memory \in Nat /\ Size % Line = 0 /\ Memory % Line = 0

VARIABLES
  cached, dirty,  \* The lines the cache holds, and those of them that memory is behind of
  discarded,      \* Lines whose changes this function has dropped
  op,             \* The function that runs, with its arguments
  i,              \* The address it has got to
  block           \* The block alt_uncached_malloc has given, or NoBlock

cacheVars == <<cached, dirty, discarded, op, i, block>>

NoBlock == -1
NoOp == [name |-> "none", start |-> 0, len |-> 0]
LineOf(addr) == addr \div Line
Index(line) == line % (Size \div Line)
Lines(start, len) == {LineOf(a) : a \in start .. start + len - 1}

-----------------------------------------------------------------------------
(* The instructions *)

Drop(lines, writeBack) ==
  /\ cached' = cached \ lines /\ dirty' = dirty \ lines
  /\ discarded' = IF writeBack THEN discarded ELSE discarded \cup (dirty \cap lines)

flushda(addr) == Drop({LineOf(addr)}, TRUE)
initda(addr) == Drop({LineOf(addr)}, FALSE)

\* By the index of the address, whatever line is there.
flushd(addr) == Drop({l \in cached : Index(l) = Index(LineOf(addr))}, TRUE)

-----------------------------------------------------------------------------
(* The functions: a loop over the region, and once more behind it *)

Starts(name, start, len) ==
  /\ op = NoOp /\ op' = [name |-> name, start |-> start, len |-> len] /\ i' = start
  /\ discarded' = {} /\ UNCHANGED <<cached, dirty>>

\* The instruction cache needs no more than all of its lines, and holds none that memory is behind of.
alt_dcache_flush(start, len) == Starts("dcache_flush", start, len) /\ UNCHANGED block
alt_dcache_flush_no_writeback(start, len) == Starts("no_writeback", start, len) /\ UNCHANGED block
alt_dcache_flush_all == Starts("dcache_flush_all", 0, Size) /\ UNCHANGED block
alt_icache_flush(start, len) == dirty = {} /\ Starts("icache_flush", start, IF len > Size THEN Size ELSE len) /\ UNCHANGED block
alt_icache_flush_all == alt_icache_flush(0, Size)

\* Whole lines from memalign, flushed from the cache, and their address with the bit set.
alt_uncached_malloc(ptr, size) ==
  LET aligned_size == ((size + Line - 1) \div Line) * Line IN
  /\ ptr % Line = 0 /\ ptr + aligned_size <= Memory /\ block = NoBlock
  /\ Starts("uncached_malloc", ptr, aligned_size) /\ block' = ptr + Memory

\* Free and alt_remap_cached clear the bit again.
alt_remap_cached(ptr) == ptr % Memory
alt_uncached_free(ptr) ==
  /\ op = NoOp /\ block = ptr /\ ptr # NoBlock /\ alt_remap_cached(ptr) % Line = 0 /\ block' = NoBlock
  /\ UNCHANGED <<cached, dirty, discarded, op, i>>

Instruction(addr) ==
  CASE op.name \in {"dcache_flush", "uncached_malloc"} -> flushda(addr)
    [] op.name = "no_writeback" -> initda(addr)
    [] op.name \in {"dcache_flush_all", "icache_flush"} -> flushd(addr)

Loop ==
  /\ op # NoOp /\ i < op.start + op.len
  /\ Instruction(i) /\ i' = i + Line /\ UNCHANGED <<op, block>>

\* Mutant: a region that begins within a line gets no more turns than one that begins with it.
Unaligned_No == FALSE

\* A region that begins within a line may reach into one more.
Unaligned == op.start % Line # 0

Finish ==
  /\ op # NoOp /\ i >= op.start + op.len
  /\ IF Unaligned THEN Instruction(i) ELSE UNCHANGED <<cached, dirty, discarded>>
  /\ op' = NoOp /\ i' = 0 /\ UNCHANGED block

\* The program uses the memory: a line takes the place of that with its index, which is written back.
Access(line, writes) ==
  /\ op = NoOp
  /\ LET out == {l \in cached : Index(l) = Index(line) /\ l # line} IN
     /\ cached' = (cached \ out) \cup {line}
     /\ dirty' = (dirty \ out) \cup (IF writes THEN {line} ELSE {})
  /\ UNCHANGED <<discarded, op, i, block>>

CacheInit ==
  /\ cached = {} /\ dirty = {} /\ discarded = {} /\ i = 0 /\ block = NoBlock
  /\ op = NoOp

CacheNext ==
  \/ \E start \in 0 .. Memory - 1 : \E len \in 0 .. Memory - start :
       \/ alt_dcache_flush(start, len) \/ alt_dcache_flush_no_writeback(start, len)
       \/ alt_icache_flush(start, len) \/ (len > 0 /\ alt_uncached_malloc(start, len))
  \/ alt_dcache_flush_all \/ alt_icache_flush_all \/ alt_uncached_free(block)
  \/ Loop \/ Finish
  \/ \E line \in 0 .. Memory \div Line - 1, writes \in BOOLEAN : Access(line, writes)

CacheSpec == CacheInit /\ [][CacheNext]_cacheVars

-----------------------------------------------------------------------------

\* Once a region has been flushed the cache holds nothing of it, wherever it begins and ends, and
\* memory has every change but those of lines that were to be dropped: the lines of the region, and
\* one behind it if it begins within a line.
RegionIsFlushed ==
  [][op # NoOp /\ op' = NoOp =>
       /\ Lines(op.start, op.len) \cap cached' = {}
       /\ op.name = "dcache_flush_all" => cached' = {}
       /\ discarded' \subseteq
            (IF op.name = "no_writeback" THEN Lines(op.start, op.len + Line - 1) ELSE {})
       /\ op.name = "uncached_malloc" => Lines(alt_remap_cached(block), op.len) \cap cached' = {}]_cacheVars
===============================================================================
