------------------------------- MODULE formats -------------------------------
(***************************************************************************)
(* What a format asks for and how it is spelled, and the texts that answer *)
(* it, as the C standard says it: the reference for the two small printf   *)
(* functions of the HAL.  Numbers are words of Width bits, given as        *)
(* naturals; a text is a sequence of characters.                           *)
(***************************************************************************)
EXTENDS Integers, FiniteSets, SequencesExt

CONSTANTS Width,           \* Bits of an int and of a long, 32 on the processor
          Character        \* Characters of a string: all but the NUL that ends it

Digit == <<"0", "1", "2", "3", "4", "5", "6", "7", "8", "9", "a", "b", "c", "d", "e", "f">>
Upper == <<"0", "1", "2", "3", "4", "5", "6", "7", "8", "9", "A", "B", "C", "D", "E", "F">>

Letters == {"d", "i", "u", "o", "x", "X", "c", "s"}

\* The last two conjuncts say what a power of 2 is, for the provers.
ASSUME FormatsAssumption ==
  /\ Width \in Nat \ {0}
  /\ Letters \cup {"%", " ", "-"} \subseteq Character
  /\ \A k \in 1 .. 16 : Digit[k] \in Character /\ Upper[k] \in Character
  /\ 2 ^ 0 = 1 /\ 2 ^ 1 = 2
  /\ \A j, k \in 0 .. Width + 3 : 2 ^ j \in Nat \ {0} /\ (j + k <= Width + 3 => 2 ^ (j + k) = 2 ^ j * 2 ^ k)

\* A directive is a letter with a flag and a width (0 for none), or a character that stands for itself.
Literal(c) == [letter |-> "%", char |-> c, zero |-> FALSE, width |-> 0]
Directive(letter, zero, width) == [letter |-> letter, char |-> letter, zero |-> zero, width |-> width]
Plain(letter) == Directive(letter, FALSE, 0)

Spelled(d) ==
  IF d.letter = "%" THEN IF d.char = "%" THEN <<"%", "%">> ELSE <<d.char>>
  ELSE <<"%">> \o (IF d.zero THEN <<"0">> ELSE <<>>)
              \o (IF d.width > 0 THEN <<Digit[d.width + 1]>> ELSE <<>>) \o <<d.letter>>
Format(ds) == FlattenSeq([i \in 1 .. Len(ds) |-> Spelled(ds[i])])

\* How many arguments the first directives take, and the argument of a directive.
Before(ds, i) == Cardinality({j \in 1 .. i : ds[j].letter # "%"})
ArgOf(ds, as, i) == IF ds[i].letter = "%" THEN 0 ELSE as[Before(ds, i)]

\* The arguments are those the directives take: with others the C standard does not say what a
\* printf does.
Argument(d, chars) ==
  CASE d.letter \in {"%", "c"} -> chars [] d.letter = "s" -> Seq(chars) [] OTHER -> 0 .. 2 ^ Width - 1
Directives(chars) ==
  {Literal(c) : c \in chars} \cup {Directive(l, z, w) : l \in Letters, z \in BOOLEAN, w \in 0 .. 9}
Fits(ds, as, chars) ==
  /\ ds \in Seq(Directives(chars))
  /\ as = [i \in 1 .. Before(ds, Len(ds)) |-> as[i]]
  /\ \A i \in 1 .. Len(ds) : ds[i].letter # "%" => ArgOf(ds, as, i) \in Argument(ds[i], chars)

Base(letter) == CASE letter \in {"x", "X"} -> 16 [] letter = "o" -> 8 [] OTHER -> 10
Minus(letter, v) == letter \in {"d", "i"} /\ v >= 2 ^ (Width - 1)
Magnitude(letter, v) == IF Minus(letter, v) THEN 2 ^ Width - v ELSE v

\* The digits of t, without superfluous zeros, are those of the number.
IsNumeral(t, letter, n) ==
  LET shapes == IF letter = "X" THEN Upper ELSE Digit
      b == Base(letter)
      digit(i) == CHOOSE k \in 0 .. b - 1 : shapes[k + 1] = t[i]
      value[i \in 0 .. Len(t)] == IF i = 0 THEN 0 ELSE value[i - 1] * b + digit(i)
  IN /\ t # <<>> /\ (Len(t) > 1 => t[1] # "0")
     /\ \A i \in 1 .. Len(t) : \E k \in 1 .. b : shapes[k] = t[i]
     /\ value[Len(t)] = n

\* The text is blanks, a sign, zeros and a numeral; it is filled exactly up to the width, on the
\* side of the sign that the flag says.
Answers(t, d, arg) ==
  CASE d.letter = "%" -> t = <<d.char>>
    [] d.letter \in {"c", "s"} ->
         LET s == IF d.letter = "c" THEN <<arg>> ELSE arg
             blanks == IF d.width > Len(s) THEN d.width - Len(s) ELSE 0
         IN t = [i \in 1 .. blanks |-> " "] \o s
    [] OTHER ->
         \E blanks, zeros \in 0 .. Len(t) :
           LET sign == IF Minus(d.letter, arg) THEN <<"-">> ELSE <<>>
               fill == blanks + Len(sign) + zeros
           IN /\ fill <= Len(t)
              /\ SubSeq(t, 1, fill) = [i \in 1 .. blanks |-> " "] \o sign \o [i \in 1 .. zeros |-> "0"]
              /\ IsNumeral(SubSeq(t, fill + 1, Len(t)), d.letter, Magnitude(d.letter, arg))
              /\ (d.zero => blanks = 0) /\ (~d.zero => zeros = 0)
              /\ Len(t) >= d.width /\ (blanks + zeros > 0 => Len(t) = d.width)
===============================================================================
