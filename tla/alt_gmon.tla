------------------------------- MODULE alt_gmon -------------------------------
(***************************************************************************)
(* The profiler: every call of an instrumented function goes through       *)
(* mcount, which looks for the arc from the caller and counts it, or has   *)
(* __mcount_record make a record of it; and a sampler that an alarm calls. *)
(* mcount runs in interrupts too, and disables them only while it makes a  *)
(* record.  Records are pointers into slabs that come from sbrk.           *)
(***************************************************************************)
EXTENDS Integers, FiniteSetsExt

CONSTANTS SelfPcs,         \* Instrumented functions
          FromPcs,         \* Where they are called
          Slab,            \* Records in a slab: MCOUNT_SLAB_INCREMENT over their size
          TextSize,        \* s_high_pc - s_low_pc
          Bucket,          \* PCSAMPLE_BYTES_PER_BUCKET
          MaxMcounts,      \* Bound on the calls
          MaxSamples       \* Bound on the samples

ASSUME GmonAssumption ==
  /\ Slab \in Nat \ {0} /\ Bucket \in Nat \ {0} /\ TextSize \in Nat
  /\ IsFiniteSet(SelfPcs) /\ IsFiniteSet(FromPcs)  \* a program has so many functions and calls

VARIABLES
  mem,        \* The records by their addresses
  fn_head,    \* The first entry of a list, of the functions in one hash bucket
  slab_ptr, slab_size,
  heap,       \* The end of the heap
  ctx,        \* mcount in the program and in an interrupt, or NoCall
  need_init,  \* pcsample_need_init
  ticks,      \* There is a system clock
  alarms,     \* How often the alarm of the sampler has been started
  samples,    \* s_pcsamples, empty before the sampler is there
  sampled, outside,  \* Samples taken, and those of them counted behind the histogram
  counted,    \* Calls that mcount has finished with, by function and caller
  uncounted, raced \* What interrupts have spoiled: counts, and the test of need_init

gmonVars == <<mem, fn_head, slab_ptr, slab_size, heap, ctx, need_init, ticks, alarms, samples, sampled,
              outside, counted, uncounted, raced>>
lists == <<mem, fn_head, slab_ptr, slab_size, heap>>
sampler == <<need_init, ticks, alarms, samples, sampled, outside>>

Levels == {"program", "interrupt"}
NoCall == [step |-> "none"]

\* The calls that mcount has finished with.
Made == MapThenSumSet(LAMBDA k : counted[k], DOMAIN counted)

\* An interrupt has the processor until it returns.
Runs(l) == l = "program" => ctx["interrupt"] = NoCall

-----------------------------------------------------------------------------
(* mcount *)

Find(ptr, field, pc) ==
  LET found[p \in DOMAIN mem \cup {0}] ==
        IF p = 0 THEN 0 ELSE IF mem[p][field] = pc THEN p ELSE found[mem[p].next]
  IN found[ptr]

\* The two searches see the lists as they are when they begin: records are only put at the front.
mcount(l, self, from) ==
  /\ Runs(l) /\ ctx[l] = NoCall
  /\ Made + Cardinality({k \in Levels : ctx[k] # NoCall}) < MaxMcounts
  /\ LET entry == Find(fn_head, "self_pc", self)
         arc == IF entry = 0 THEN 0 ELSE Find(mem[entry].arc_head, "from_pc", from)
     IN ctx' = [ctx EXCEPT ![l] =
          [step |-> IF arc = 0 THEN "record" ELSE "count", self |-> self, from |-> from,
           entry |-> entry, arc |-> arc, seen |-> IF arc = 0 THEN 0 ELSE mem[arc].count, init |-> FALSE]]
  /\ UNCHANGED <<lists, sampler, counted, uncounted, raced>>

Counted(l) == counted' = [counted EXCEPT ![<<ctx[l].self, ctx[l].from>>] = @ + 1]

\* .Lfound_arc: what has been loaded is stored, one more.
FoundArc(l) ==
  /\ Runs(l) /\ ctx[l].step = "count"
  /\ mem' = [mem EXCEPT ![ctx[l].arc].count = ctx[l].seen + 1]
  /\ uncounted' = uncounted + (mem[ctx[l].arc].count - ctx[l].seen)
  /\ Counted(l) /\ ctx' = [ctx EXCEPT ![l] = NoCall]
  /\ UNCHANGED <<fn_head, slab_ptr, slab_size, heap, sampler, raced>>

-----------------------------------------------------------------------------
(* __mcount_record *)

\* The test of pcsample_need_init, and the reset that follows it.
TestInit(l) ==
  /\ Runs(l) /\ ctx[l].step = "record"
  /\ ctx' = [ctx EXCEPT ![l].step = IF need_init THEN "reset" ELSE "enter"]
  /\ UNCHANGED <<lists, sampler, counted, uncounted, raced>>

ResetInit(l) ==
  /\ Runs(l) /\ ctx[l].step = "reset"
  /\ raced' = (raced \/ ~need_init) /\ need_init' = FALSE
  /\ ctx' = [ctx EXCEPT ![l].step = "init"]
  /\ UNCHANGED <<lists, ticks, alarms, samples, sampled, outside, counted, uncounted>>

\* The sampler cannot start before there is a clock; it is tried again with the next record.
pcsample_init(l) ==
  /\ Runs(l) /\ ctx[l].step = "init"
  /\ IF ticks
     THEN /\ samples' = [b \in 0 .. TextSize \div Bucket - 1 |-> 0] /\ alarms' = alarms + 1
          /\ need_init' = FALSE
     ELSE need_init' = TRUE /\ UNCHANGED <<samples, alarms>>
  /\ ctx' = [ctx EXCEPT ![l].step = "enter"]
  /\ UNCHANGED <<lists, ticks, sampled, outside, counted, uncounted, raced>>

\* Mutant: what is left of the slab is not looked at.
mcount_allocate_Any(s) ==
  IF s.ptr # 0 THEN [s EXCEPT !.ptr = @ + 1, !.size = @ - 1]
  ELSE [ptr |-> s.heap + 1, size |-> Slab - 1, heap |-> s.heap + Slab]

\* The next record of the slab, or the first one of a new slab, is below the pointer afterwards;
\* sbrk is not asked whether it has failed.
mcount_allocate(s) ==
  IF s.size > 0 THEN [s EXCEPT !.ptr = @ + 1, !.size = @ - 1]
  ELSE [ptr |-> s.heap + 1, size |-> Slab - 1, heap |-> s.heap + Slab]

\* The record of an arc, and one of the function if the search has found none, with interrupts
\* disabled: a record that an interrupt has made since the search is not seen.
Record(l) ==
  /\ Runs(l) /\ ctx[l].step = "enter"
  /\ LET c == ctx[l]
         new == c.entry = 0
         before == [ptr |-> slab_ptr, size |-> slab_size, heap |-> heap]
         between == IF new THEN mcount_allocate(before) ELSE before
         slab == mcount_allocate(between)
         entry == IF new THEN between.ptr - 1 ELSE c.entry
         arc == slab.ptr - 1
         fn == IF new THEN [next |-> fn_head, self_pc |-> c.self, arc_head |-> 0] ELSE mem[entry]
         record == [next |-> fn.arc_head, from_pc |-> c.from, count |-> 1]
     IN /\ mem' = [a \in DOMAIN mem \cup {entry, arc} |->
                     IF a = arc THEN record ELSE IF a = entry THEN [fn EXCEPT !.arc_head = arc] ELSE mem[a]]
        /\ fn_head' = IF new THEN entry ELSE fn_head
        /\ slab_ptr' = slab.ptr /\ slab_size' = slab.size /\ heap' = slab.heap
  /\ Counted(l) /\ ctx' = [ctx EXCEPT ![l] = NoCall]
  /\ UNCHANGED <<sampler, uncounted, raced>>

-----------------------------------------------------------------------------
(* The sampler and the environment *)

\* Mutant: a range that includes its end.
InText_End(pc) == pc >= 0 /\ pc <= TextSize

InText(pc) == pc >= 0 /\ pc < TextSize

\* The counter behind the last one belongs to someone else.
pcsample(pc) ==
  /\ Runs("program") /\ alarms > 0 /\ sampled < MaxSamples /\ sampled' = sampled + 1
  /\ LET bucket == pc \div Bucket IN
     IF ~InText(pc) THEN UNCHANGED <<samples, outside>>
     ELSE IF bucket \in DOMAIN samples
          THEN samples' = [samples EXCEPT ![bucket] = @ + 1] /\ UNCHANGED outside
          ELSE outside' = outside \cup {pc} /\ UNCHANGED samples
  /\ UNCHANGED <<lists, ctx, need_init, ticks, alarms, counted, uncounted, raced>>

\* The timer of the board gets its driver, which registers the system clock.
ClockStarts ==
  /\ ~ticks /\ ticks' = TRUE
  /\ UNCHANGED <<lists, ctx, need_init, alarms, samples, sampled, outside, counted, uncounted, raced>>

GmonInit ==
  /\ mem = <<>> /\ fn_head = 0 /\ slab_ptr = 0 /\ slab_size = 0 /\ heap = 1
  /\ ctx = [l \in Levels |-> NoCall]
  /\ need_init = TRUE /\ ticks = FALSE /\ alarms = 0 /\ samples = <<>> /\ sampled = 0 /\ outside = {}
  /\ counted = [k \in SelfPcs \X FromPcs |-> 0] /\ uncounted = 0 /\ raced = FALSE

GmonNext ==
  \/ \E l \in Levels :
       \/ \E self \in SelfPcs, from \in FromPcs : mcount(l, self, from)
       \/ FoundArc(l) \/ TestInit(l) \/ ResetInit(l) \/ pcsample_init(l) \/ Record(l)
  \/ \E pc \in 0 .. TextSize : pcsample(pc)
  \/ ClockStarts

GmonSpec == GmonInit /\ [][GmonNext]_gmonVars

-----------------------------------------------------------------------------
(* Properties *)

\* What the host adds up, for a function and a caller, is the calls there were, less those whose
\* count an interrupt has made between the load and the store: no record is lost or overwritten by
\* another one, even when an interrupt makes the same record at the same time.
CallsCounted ==
  LET entries == {a \in DOMAIN mem : "self_pc" \in DOMAIN mem[a]}
      arcs == DOMAIN mem \ entries
  IN /\ MapThenSumSet(LAMBDA a : mem[a].count, arcs) + uncounted = Made
     /\ \A a \in arcs : \E e \in entries : Find(mem[e].arc_head, "from_pc", mem[a].from_pc) # 0
     /\ \A a \in DOMAIN mem : a > 0 /\ a < heap

\* The alarm of the sampler is inserted once, unless an interrupt falls between the test of
\* need_init and its reset; and no sample is counted outside the histogram but of the code behind
\* its last whole bucket.
SamplerStartsOnce ==
  /\ alarms > 1 => raced
  /\ \A pc \in outside : pc < TextSize /\ pc >= (TextSize \div Bucket) * Bucket

\* __mcount_record "must be able to cope with reentrancy": the alarm of the sampler is inserted once,
\* whatever the interrupts do.
OneAlarm == alarms <= 1
===============================================================================
