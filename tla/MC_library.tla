------------------------------ MODULE MC_library ------------------------------
(* The library below the application, each part in behaviours of its own:    *)
(* the calls on descriptors, with the devices of this system and one file of *)
(* the host; the printing functions on small words; the profiler; the        *)
(* emulated instructions; and the caches.                                    *)
EXTENDS printing, alt_gmon, alt_exceptions, alt_cache, alt_io, TLC

VARIABLE part

\* Nothing tells one file handle of the host from another.
HandleSymmetry == Permutations(Handles)

CONSTANTS null, uart
MCNameOf == (null :> <<"n">>) @@ (uart :> <<"u">>)
MCMount == <<"/", "h">>
MCFiles == {<<"a">>}
\* A device, a file that may be missing, and a name that only begins like the mount point; the
\* other device is what the streams are before the redirection.
MCNames == {<<"u">>, <<"/", "h", "/", "a">>, <<"/", "h", "x", "a">>}

MCCharacter ==
  {Digit[k] : k \in 1 .. 16} \cup {Upper[k] : k \in 1 .. 16} \cup Letters
    \cup {"%", " ", "-", "S", "I", "A", "\n", "\r", "EOT"}

Values == {0, 10, 128, 255}
Numbers ==
  {[directives |-> <<Directive(l, field[1], field[2])>>, args |-> <<v>>] :
     l \in {"d", "u", "o", "x", "X"}, field \in {<<FALSE, 0>>, <<FALSE, 4>>, <<TRUE, 4>>}, v \in {0, 138}}
Mixed ==
  {[directives |-> <<Directive("d", TRUE, 3), Literal("%"), Directive(l, FALSE, 2)>>, args |-> <<200, v>>] :
     l \in {"x", "i"}, v \in {3, 250}}
  \cup {[directives |-> <<Directive("s", FALSE, 3), Literal("a"), Directive("c", FALSE, 2)>>,
         args |-> <<<<"b">>, "c">>]}
MCLogged == Numbers \cup Mixed
MCWrites == UNION {[1 .. n -> {"a", "EOT", "NUL"}] : n \in {1, 2, 4}}

MCRequests ==
  {[directives |-> <<Plain("x"), Literal("a"), Plain("x")>>, args |-> <<v, w>>] : v \in Values \cup {1, 127, 240}, w \in {16}}
  \cup {[directives |-> <<Literal("%"), Plain("s"), Plain("c")>>, args |-> <<<<"%", "a">>, "%">>]}

MCInit ==
  /\ part \in {"calls", "printf", "log", "gmon", "exceptions", "cache"}
  /\ PrintfInit /\ LogInit /\ GmonInit /\ ExceptionsInit /\ CacheInit /\ IoInit
  /\ (part # "printf" => semihosting = FALSE) /\ (part # "log" => flags = 0)
MCNext ==
  /\ UNCHANGED part
  /\ \/ part = "calls" /\ IoNext /\ UNCHANGED <<printfVars, logVars, gmonVars, exceptionsVars, cacheVars>>
     \/ part = "printf" /\ PrintfNext /\ UNCHANGED <<logVars, gmonVars, exceptionsVars, cacheVars, ioVars>>
     \/ part = "log" /\ LogNext /\ UNCHANGED <<printfVars, gmonVars, exceptionsVars, cacheVars, ioVars>>
     \/ part = "gmon" /\ GmonNext /\ UNCHANGED <<printfVars, logVars, exceptionsVars, cacheVars, ioVars>>
     \/ part = "exceptions" /\ ExceptionsNext /\ UNCHANGED <<printfVars, logVars, gmonVars, cacheVars, ioVars>>
     \/ part = "cache" /\ CacheNext /\ UNCHANGED <<printfVars, logVars, gmonVars, exceptionsVars, ioVars>>
MCSpec == MCInit /\ [][MCNext]_<<part, printfVars, logVars, gmonVars, exceptionsVars, cacheVars, ioVars>>
===============================================================================
