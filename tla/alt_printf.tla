------------------------------ MODULE alt_printf ------------------------------
(***************************************************************************)
(* The small printf: %x, %s, %c and %%, and alt_putstr and alt_putchar     *)
(* beside it, over the ways a character takes to the standard output.      *)
(* With semihosting a printf collects its characters in a buffer and hands *)
(* them over when the buffer is full and at the end.                       *)
(***************************************************************************)
EXTENDS formats

CONSTANTS BufSize,        \* ALT_PUTBUF_SIZE
          Requests,       \* What is printed: directives with their arguments
          MaxRequests     \* Bound on the calls

ASSUME PrintfAssumption ==
  /\ BufSize \in Nat \ {0} /\ "%%" \notin Character
  /\ \A r \in Requests :
       /\ Fits(r.directives, r.args, Character)
       /\ \A i \in 1 .. Len(r.directives) :
            LET d == r.directives[i] IN d.letter \in {"%", "c", "x", "s"} /\ ~d.zero /\ d.width = 0

VARIABLES
  semihosting, \* How the program has been built
  todo,        \* The characters of the format that are left
  args,        \* The arguments that are left
  buf,         \* The buffer, up to fill_index
  output,      \* What write has got
  asked        \* All requests so far, with their directives

printfVars == <<semihosting, todo, args, buf, output, asked>>

-----------------------------------------------------------------------------

\* Without semihosting each character goes to putchar, which does not drop it.
alt_putcharbuf(c) ==
  IF Len(buf) + 1 >= BufSize
  THEN output' = output \o Append(buf, c) /\ buf' = <<>>
  ELSE buf' = Append(buf, c) /\ UNCHANGED output

alt_putchar(c) == IF semihosting THEN alt_putcharbuf(c) ELSE output' = Append(output, c) /\ UNCHANGED buf

Nibble(v, shift) == (v \div (2 ^ shift)) % 16
Shifts == {4 * i : i \in 0 .. (Width - 1) \div 4}

\* Mutant: the search for the first digit stops above the last one.
Hex_Short(v) ==
  LET top == CHOOSE s \in Shifts : (Nibble(v, s) # 0 \/ s = 4) /\ \A t \in Shifts : t > s => Nibble(v, t) = 0
  IN [i \in 1 .. top \div 4 + 1 |-> Digit[Nibble(v, top - 4 * (i - 1)) + 1]]

\* The digits from the first that is not zero; zero by itself.
Hex(v) ==
  IF v = 0 THEN <<"0">>
  ELSE LET top == CHOOSE s \in Shifts : Nibble(v, s) # 0 /\ \A t \in Shifts : t > s => Nibble(v, t) = 0
       IN [i \in 1 .. top \div 4 + 1 |-> Digit[Nibble(v, top - 4 * (i - 1)) + 1]]

\* What a conversion prints; those it does not know print nothing and take no argument.
Known == {"c", "x", "s"}
Text(c, arg) == CASE c = "x" -> Hex(arg) [] c = "c" -> <<arg>> [] c = "s" -> arg

-----------------------------------------------------------------------------

\* The characters of a converted argument are put one by one, before the format goes on: they take
\* the place of the conversion in what is left, as characters that stand for themselves.
Put ==
  /\ todo # <<>> /\ Head(todo) # "%"
  /\ alt_putchar(IF Head(todo) = "%%" THEN "%" ELSE Head(todo))
  /\ todo' = Tail(todo) /\ UNCHANGED <<semihosting, args, asked>>

Escape ==
  /\ todo # <<>> /\ Head(todo) = "%"
  /\ LET rest == Tail(todo) IN
     IF rest = <<>> THEN todo' = <<>> /\ UNCHANGED args
     ELSE IF Head(rest) \in Known
          THEN /\ todo' = [i \in 1 .. Len(Text(Head(rest), Head(args))) |->
                             LET t == Text(Head(rest), Head(args))[i] IN IF t = "%" THEN "%%" ELSE t] \o Tail(rest)
               /\ args' = Tail(args)
          ELSE /\ todo' = (IF Head(rest) = "%" THEN <<"%%">> ELSE <<>>) \o Tail(rest)
               /\ UNCHANGED args
  /\ UNCHANGED <<semihosting, buf, output, asked>>

alt_putbufflush == output' = output \o buf /\ buf' = <<>>

\* The end of a printf that has collected something.
Flush ==
  /\ todo = <<>> /\ buf # <<>> /\ alt_putbufflush /\ UNCHANGED <<semihosting, todo, args, asked>>

\* A call of alt_printf, when the one before has returned.
Printf(r) ==
  /\ todo = <<>> /\ buf = <<>> /\ Len(asked) < MaxRequests
  /\ todo' = Format(r.directives) /\ args' = r.args /\ asked' = Append(asked, r)
  /\ UNCHANGED <<semihosting, buf, output>>

\* alt_putstr hands over all of its characters, and so does alt_putchar with its one.
alt_putstr(s) ==
  /\ todo = <<>> /\ buf = <<>> /\ Len(asked) < MaxRequests
  /\ output' = output \o s
  /\ asked' = Append(asked, [directives |-> <<Plain("s")>>, args |-> <<s>>])
  /\ UNCHANGED <<semihosting, todo, args, buf>>

PrintfInit ==
  /\ semihosting \in BOOLEAN /\ todo = <<>> /\ args = <<>> /\ buf = <<>> /\ output = <<>> /\ asked = <<>>

PrintfNext ==
  \/ Put \/ Escape \/ Flush
  \/ \E r \in Requests : Printf(r)
  \/ \E s \in {<<"a">>, <<"%", "a">>} : alt_putstr(s)

PrintfSpec == PrintfInit /\ [][PrintfNext]_printfVars

-----------------------------------------------------------------------------

\* The text can be cut into answers to the directives, in their order.
Reads(t, ds, as) ==
  LET reads[x \in (0 .. Len(ds)) \X (0 .. Len(t))] ==
        LET k == x[1]
            m == x[2]
        IN IF k = Len(ds) THEN m = Len(t)
           ELSE \E n \in m .. Len(t) :
                  Answers(SubSeq(t, m + 1, n), ds[k + 1], ArgOf(ds, as, k + 1)) /\ reads[<<k + 1, n>>]
  IN reads[<<0, 0>>]

\* Between two calls the output is what all calls have asked for, each in its place, whether the
\* characters go through the buffer or not; and the buffer never holds more than it has room for.
PrintedAsAsked ==
  /\ Len(buf) < BufSize
  /\ todo = <<>> /\ (semihosting => buf = <<>>) =>
       Reads(output, FlattenSeq([i \in 1 .. Len(asked) |-> asked[i].directives]),
                     FlattenSeq([i \in 1 .. Len(asked) |-> asked[i].args]))
===============================================================================
