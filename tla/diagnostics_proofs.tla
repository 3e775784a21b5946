--------------------------- MODULE diagnostics_proofs ---------------------------
(***************************************************************************)
(* The printing functions of the HAL and its profiler.                     *)
(*                                                                         *)
(* Both printf functions print what the C standard says of the directives  *)
(* they are given, for words of any width, any characters and any          *)
(* arguments that fit: first what the recursive functions of the formats   *)
(* return (a list of lists in a row, places and digits of a number, what   *)
(* is left of a format and of its arguments); then how far a call has got, *)
(* as the directives that are answered and the format that is left; then   *)
(* the steps of the log, with its interrupts, and those of the small       *)
(* printf, with its buffer.  What is missing from the log was lost to an   *)
(* interrupt.                                                              *)
(*                                                                         *)
(* The sampler of the profiler, which calls in interrupts may start too,   *)
(* is started once; and the calls that the profiler has recorded add up to *)
(* those there were.  A sum over a set and a search in a list are          *)
(* recursive functions: induction over finite sets and over the numbers,   *)
(* each for members of a set, gives what they return.                      *)
(***************************************************************************)
EXTENDS printing, alt_gmon, FiniteSetTheorems, SequenceTheorems, TLAPS

\* A set of numbers with 0 and the successors of its members is all of them.
LEMMA NatInduct ==
  ASSUME NEW S, 0 \in S, \A n \in Nat : n \in S => n + 1 \in S
  PROVE  Nat \subseteq S
<1> SUFFICES ASSUME Nat \ S # {} PROVE FALSE
  OBVIOUS
<1> DEFINE R == OpToRel(<, Nat)
<1>1. \E x \in Nat \ S : \A y \in Nat \ S : ~(<<y, x>> \in R)
  <2>1. IsWellFoundedOn(R, Nat)
    BY NatLessThanWellFounded
  <2> HIDE DEF R
  <2> QED
    BY <2>1, WFMin
<1>2. PICK x \in Nat \ S : \A y \in Nat \ S : ~(y < x)
  BY <1>1 DEF OpToRel
<1> QED
  BY <1>2

-----------------------------------------------------------------------------
(* Sequences of sequences *)

\* The recursive function of FlattenSeq, and what it is: the sequences so far, one after the other.
Cat(s, t) == s \o t

\* Joining lists: of what type the result is, that the order of the joints is all one, and the empty list.
LEMMA CatType ==
  ASSUME NEW C, NEW s \in Seq(C), NEW t \in Seq(C)
  PROVE  Cat(s, t) \in Seq(C)
BY ConcatProperties DEF Cat

LEMMA CatAssociative ==
  ASSUME NEW C, NEW s \in Seq(C), NEW t \in Seq(C), NEW u \in Seq(C)
  PROVE  Cat(Cat(s, t), u) = Cat(s, Cat(t, u))
BY ConcatAssociative DEF Cat

LEMMA CatEmpty ==
  ASSUME NEW C, NEW s \in Seq(C)
  PROVE  Cat(s, <<>>) = s /\ Cat(<<>>, s) = s
BY ConcatEmptySeq DEF Cat

IsFlat(f, s) == f = [i \in 1 .. Len(s) |-> IF i = 1 THEN s[i] ELSE Cat(f[i - 1], s[i])]

\* There is a function of the first sequences joined, for every list of sequences.
LEMMA FlatExists ==
  ASSUME NEW C, NEW s \in Seq(Seq(C))
  PROVE  \E f : IsFlat(f, s)
<1> DEFINE Upto(n) == {i \in 1 .. Len(s) : i <= n}
           On(f, n) == f = [i \in Upto(n) |-> IF i = 1 THEN s[i] ELSE Cat(f[i - 1], s[i])]
           N == {n \in Nat : \E f : On(f, n)}
<1>1. Len(s) \in Nat
  BY LenProperties
<1>2. 0 \in N
  <2> DEFINE f == [i \in {} |-> <<>>]
  <2>1. Upto(0) = {}
    BY <1>1
  <2>2. On(f, 0)
    BY <2>1
  <2> HIDE DEF On, f
  <2> QED
    BY <2>2
<1>3. ASSUME NEW n \in Nat, n \in N PROVE n + 1 \in N
  <2>1. PICK f : On(f, n)
    BY <1>3
  <2> DEFINE e == [i \in Upto(n + 1) |-> IF i = 1 THEN s[i] ELSE Cat(f[i - 1], s[i])]
  <2>2. \A i \in Upto(n + 1) : i # 1 => i - 1 \in Upto(n)
    BY <1>1
  <2>3. \A i \in Upto(n) : i \in Upto(n + 1)
    BY <1>1
  <2>4. \A i \in Upto(n) : e[i] = f[i]
    BY <2>1, <2>3
  <2>5. \A i \in Upto(n + 1) : e[i] = IF i = 1 THEN s[i] ELSE Cat(e[i - 1], s[i])
    BY <2>2, <2>4
  <2>6. On(e, n + 1)
    BY <2>5
  <2> HIDE DEF On, e
  <2> QED
    BY <2>6
<1>4. Len(s) \in N
  <2> HIDE DEF N
  <2> QED
    BY <1>1, <1>2, <1>3, NatInduct
<1>5. Upto(Len(s)) = 1 .. Len(s)
  BY <1>1
<1> QED
  BY <1>4, <1>5 DEF IsFlat

\* It adds one sequence at a time.
LEMMA FlatIs ==
  ASSUME NEW C, NEW s \in Seq(Seq(C)), NEW f, IsFlat(f, s)
  PROVE  /\ s # <<>> => f[1] = s[1]
         /\ \A i \in Nat \ {0} : i + 1 <= Len(s) => f[i + 1] = Cat(f[i], s[i + 1])
         /\ \A i \in 1 .. Len(s) : f[i] \in Seq(C)
<1>1. Len(s) \in Nat /\ (s # <<>> => Len(s) # 0) /\ \A i \in 1 .. Len(s) : s[i] \in Seq(C)
  BY LenProperties, ElementOfSeq, EmptySeq
<1>2. s # <<>> => f[1] = s[1]
  BY <1>1 DEF IsFlat
<1>3. ASSUME NEW i \in Nat \ {0}, i + 1 <= Len(s) PROVE f[i + 1] = Cat(f[i], s[i + 1])
  <2>1. i + 1 \in 1 .. Len(s) /\ i + 1 # 1 /\ i + 1 - 1 = i
    BY <1>1, <1>3
  <2>2. f[i + 1] = Cat(f[i + 1 - 1], s[i + 1])
    BY <2>1 DEF IsFlat
  <2> QED
    BY <2>1, <2>2
<1> DEFINE N == {n \in Nat : n + 1 <= Len(s) => f[n + 1] \in Seq(C)}
<1>4. 0 \in N
  BY <1>1, <1>2, EmptySeq
<1>5. ASSUME NEW n \in Nat, n \in N PROVE n + 1 \in N
  <2> SUFFICES ASSUME n + 1 + 1 <= Len(s) PROVE f[n + 1 + 1] \in Seq(C)
    OBVIOUS
  <2>1. f[n + 1 + 1] = Cat(f[n + 1], s[n + 1 + 1])
    BY <1>3
  <2>2. f[n + 1] \in Seq(C) /\ s[n + 1 + 1] \in Seq(C)
    BY <1>1, <1>5
  <2> QED
    BY <2>1, <2>2, CatType
<1>6. Nat \subseteq N
  <2> HIDE DEF N
  <2> QED
    BY <1>4, <1>5, NatInduct
<1>7. ASSUME NEW i \in 1 .. Len(s) PROVE f[i] \in Seq(C)
  <2> DEFINE n == i - 1
  <2>1. n \in Nat /\ n + 1 = i /\ n + 1 <= Len(s)
    BY <1>1
  <2>2. f[n + 1] \in Seq(C)
    BY <1>6, <2>1
  <2> QED
    BY <2>1, <2>2
<1> QED
  BY <1>2, <1>3, <1>7

\* What FlattenSeq returns is its last value, whatever its own recursion is over.
LEMMA FlattenIs ==
  ASSUME NEW C, NEW s \in Seq(Seq(C)), NEW f, IsFlat(f, s)
  PROVE  FlattenSeq(s) = IF Len(s) = 0 THEN s ELSE f[Len(s)]
<1> DEFINE g == CHOOSE g : IsFlat(g, s)
           N == {n \in Nat : n + 1 <= Len(s) => f[n + 1] = g[n + 1]}
<1>1. IsFlat(g, s)
  OBVIOUS
<1>2. FlattenSeq(s) = IF Len(s) = 0 THEN s ELSE g[Len(s)]
  BY DEF FlattenSeq, IsFlat, Cat
<1> HIDE DEF g
<1>3. Len(s) \in Nat /\ (s = <<>> => Len(s) = 0)
  BY LenProperties, EmptySeq
<1>4. /\ s # <<>> => f[1] = s[1] /\ g[1] = s[1]
      /\ \A i \in Nat \ {0} : i + 1 <= Len(s) => f[i + 1] = Cat(f[i], s[i + 1]) /\ g[i + 1] = Cat(g[i], s[i + 1])
  BY <1>1, FlatIs
<1>5. 0 \in N
  BY <1>3, <1>4
<1>6. ASSUME NEW n \in Nat, n \in N PROVE n + 1 \in N
  <2> SUFFICES ASSUME n + 1 + 1 <= Len(s) PROVE f[n + 1 + 1] = g[n + 1 + 1]
    OBVIOUS
  <2>1. f[n + 1] = g[n + 1]
    BY <1>3, <1>6
  <2> QED
    BY <1>4, <2>1
<1>7. Nat \subseteq N
  <2> HIDE DEF N
  <2> QED
    BY <1>5, <1>6, NatInduct
<1>8. ASSUME Len(s) # 0 PROVE f[Len(s)] = g[Len(s)]
  <2> DEFINE n == Len(s) - 1
  <2>1. n \in Nat /\ n + 1 = Len(s) /\ n + 1 <= Len(s)
    BY <1>3, <1>8
  <2>2. f[n + 1] = g[n + 1]
    BY <1>7, <2>1
  <2> QED
    BY <2>1, <2>2
<1> QED
  BY <1>2, <1>8

\* One sequence more at the end.
LEMMA FlattenAppends ==
  ASSUME NEW C, NEW s \in Seq(Seq(C)), NEW x \in Seq(C)
  PROVE  FlattenSeq(s) \in Seq(C) /\ FlattenSeq(Append(s, x)) = Cat(FlattenSeq(s), x)
<1> DEFINE t == Append(s, x)
<1>1. t \in Seq(Seq(C)) /\ Len(s) \in Nat /\ Len(t) = Len(s) + 1 /\ t[Len(s) + 1] = x /\ \A i \in 1 .. Len(s) : t[i] = s[i]
  BY AppendProperties, LenProperties
<1> HIDE DEF t
<1>2. PICK f : IsFlat(f, t)
  BY <1>1, FlatExists
<1>3. /\ t # <<>> => f[1] = t[1]
      /\ \A i \in Nat \ {0} : i + 1 <= Len(t) => f[i + 1] = Cat(f[i], t[i + 1])
      /\ \A i \in 1 .. Len(t) : f[i] \in Seq(C)
  BY <1>1, <1>2, FlatIs
<1> DEFINE e == [i \in 1 .. Len(s) |-> f[i]]
<1>4. IsFlat(e, s)
  <2>1. \A i \in 1 .. Len(t) : f[i] = IF i = 1 THEN t[i] ELSE Cat(f[i - 1], t[i])
    BY <1>2 DEF IsFlat
  <2>2. \A i \in 1 .. Len(s) : i \in 1 .. Len(t) /\ (i # 1 => i - 1 \in 1 .. Len(s))
    BY <1>1
  <2>3. \A i \in 1 .. Len(s) : e[i] = IF i = 1 THEN s[i] ELSE Cat(e[i - 1], s[i])
    BY <1>1, <2>1, <2>2
  <2> QED
    BY <2>3 DEF IsFlat
<1>5. FlattenSeq(t) = f[Len(s) + 1]
  <2>1. FlattenSeq(t) = IF Len(t) = 0 THEN t ELSE f[Len(t)]
    BY <1>1, <1>2, FlattenIs
  <2> QED
    BY <1>1, <2>1
<1>6. FlattenSeq(s) = IF Len(s) = 0 THEN s ELSE e[Len(s)]
  BY <1>4, FlattenIs
<1>7. CASE Len(s) = 0
  <2>1. s = <<>>
    BY <1>7, EmptySeq
  <2>2. t # <<>>
    BY <1>1, <1>7, EmptySeq
  <2>3. f[Len(s) + 1] = x
    BY <1>1, <1>3, <1>7, <2>2
  <2>4. x = Cat(<<>>, x) /\ s \in Seq(C)
    BY <2>1, CatEmpty, EmptySeq
  <2>5. FlattenSeq(s) = s
    BY <1>6, <1>7
  <2> QED
    BY <1>5, <2>1, <2>3, <2>4, <2>5 DEF t
<1>8. CASE Len(s) # 0
  <2>1. Len(s) \in 1 .. Len(s) /\ Len(s) \in Nat \ {0} /\ Len(s) + 1 <= Len(t) /\ Len(s) \in 1 .. Len(t)
    BY <1>1, <1>8
  <2>2. f[Len(s) + 1] = Cat(f[Len(s)], x) /\ e[Len(s)] = f[Len(s)] /\ f[Len(s)] \in Seq(C)
    BY <1>1, <1>3, <2>1
  <2> QED
    BY <1>5, <1>6, <1>8, <2>2 DEF t
<1> QED
  BY <1>7, <1>8

\* The first sequence, and the others.
LEMMA FlattenBegins ==
  ASSUME NEW C, NEW s \in Seq(Seq(C)), s # <<>>
  PROVE  FlattenSeq(s) = Cat(Head(s), FlattenSeq(Tail(s)))
<1> DEFINE t == Tail(s)
           h == Head(s)
<1>1. /\ t \in Seq(Seq(C)) /\ h \in Seq(C) /\ h = s[1] /\ Len(s) \in Nat /\ Len(t) + 1 = Len(s) /\ Len(t) \in Nat
      /\ \A i \in 1 .. Len(t) : t[i] = s[i + 1] /\ t[i] \in Seq(C)
  <2>1. t \in Seq(Seq(C)) /\ h \in Seq(C) /\ h = s[1] /\ Len(s) \in Nat /\ Len(t) = Len(s) - 1 /\ Len(t) \in Nat
    BY HeadTailProperties, LenProperties, EmptySeq
  <2>2. \A i \in 1 .. Len(t) : t[i] = s[i + 1]
    BY HeadTailProperties
  <2>3. \A i \in 1 .. Len(t) : t[i] \in Seq(C)
    BY <2>1, ElementOfSeq
  <2> QED
    BY <2>1, <2>2, <2>3
<1> HIDE DEF t, h
<1>2. PICK f : IsFlat(f, s)
  BY FlatExists
<1>3. /\ f[1] = s[1]
      /\ \A i \in Nat \ {0} : i + 1 <= Len(s) => f[i + 1] = Cat(f[i], s[i + 1])
      /\ \A i \in 1 .. Len(s) : f[i] \in Seq(C)
  BY <1>2, FlatIs
<1>4. PICK g : IsFlat(g, t)
  BY <1>1, FlatExists
<1>5. /\ t # <<>> => g[1] = t[1]
      /\ \A i \in Nat \ {0} : i + 1 <= Len(t) => g[i + 1] = Cat(g[i], t[i + 1])
      /\ \A i \in 1 .. Len(t) : g[i] \in Seq(C)
  BY <1>1, <1>4, FlatIs
<1>6. FlattenSeq(s) = f[Len(s)] /\ FlattenSeq(t) = IF Len(t) = 0 THEN t ELSE g[Len(t)]
  <2>1. FlattenSeq(s) = IF Len(s) = 0 THEN s ELSE f[Len(s)]
    BY <1>2, FlattenIs
  <2>2. FlattenSeq(t) = IF Len(t) = 0 THEN t ELSE g[Len(t)]
    BY <1>1, <1>4, FlattenIs
  <2> QED
    BY <1>1, <2>1, <2>2
<1>7. CASE Len(t) = 0
  <2>1. t = <<>> /\ Len(s) = 1
    BY <1>1, <1>7, EmptySeq
  <2>2. f[Len(s)] = h
    BY <1>1, <1>3, <2>1
  <2> QED
    BY <1>1, <1>6, <1>7, <2>1, <2>2, CatEmpty DEF t, h
<1>8. CASE Len(t) # 0
  <2> DEFINE N == {n \in Nat : n + 1 <= Len(t) => f[n + 2] = Cat(h, g[n + 1])}
  <2>1. 0 \in N
    <3>1. t # <<>> /\ 1 + 1 <= Len(s) /\ 1 \in 1 .. Len(t)
      BY <1>1, <1>8, EmptySeq
    <3>2. f[1 + 1] = Cat(f[1], s[1 + 1])
      BY <1>3, <3>1
    <3>3. t[1] = s[1 + 1] /\ g[1] = t[1] /\ f[1] = h
      BY <1>1, <1>3, <1>5, <3>1
    <3> QED
      BY <3>2, <3>3
  <2>2. ASSUME NEW n \in Nat, n \in N PROVE n + 1 \in N
    <3> SUFFICES ASSUME n + 1 + 1 <= Len(t) PROVE f[n + 1 + 2] = Cat(h, g[n + 1 + 1])
      OBVIOUS
    <3> DEFINE m == n + 1
    <3>1. m \in Nat \ {0} /\ m + 1 <= Len(t) /\ m + 1 \in Nat \ {0}
      OBVIOUS
    <3>2. m + 1 + 1 <= Len(s) /\ m + 1 \in 1 .. Len(t) /\ m \in 1 .. Len(t)
      BY <1>1, <3>1
    <3>8. f[m + 1] = Cat(h, g[m])
      <4>1. n + 1 <= Len(t) /\ n + 2 = m + 1
        BY <1>1
      <4> QED
        BY <2>2, <4>1
    <3> HIDE DEF m
    <3>3. f[m + 1 + 1] = Cat(f[m + 1], s[m + 1 + 1]) /\ g[m + 1] = Cat(g[m], t[m + 1])
      BY <1>3, <1>5, <3>1, <3>2
    <3>4. t[m + 1] = s[m + 1 + 1] /\ t[m + 1] \in Seq(C) /\ g[m] \in Seq(C)
      BY <1>1, <1>5, <3>2
    <3>5. Cat(Cat(h, g[m]), t[m + 1]) = Cat(h, Cat(g[m], t[m + 1]))
      BY <1>1, <3>4, CatAssociative, SMTT(60)
    <3>6. f[m + 1 + 1] = Cat(h, g[m + 1])
      BY <3>3, <3>4, <3>5, <3>8
    <3>7. m + 1 + 1 = n + 1 + 2 /\ m + 1 = n + 1 + 1
      BY DEF m
    <3> QED
      BY <3>6, <3>7
  <2>3. Nat \subseteq N
    <3> HIDE DEF N
    <3> QED
      BY <2>1, <2>2, NatInduct
  <2> DEFINE n == Len(t) - 1
  <2>4. n \in Nat /\ n + 1 = Len(t) /\ n + 2 = Len(s) /\ n + 1 <= Len(t)
    BY <1>1, <1>8
  <2>5. f[n + 2] = Cat(h, g[n + 1])
    BY <2>3, <2>4
  <2>6. f[Len(s)] = Cat(h, g[Len(t)])
    BY <2>4, <2>5
  <2> QED
    BY <1>6, <1>8, <2>6 DEF t, h
<1> QED
  BY <1>1, <1>7, <1>8

-----------------------------------------------------------------------------
(* Formats and their arguments *)

\* A list that begins with c is not empty; c is its head, and the list c was put before its tail.
LEMMA ConsIs ==
  ASSUME NEW C, NEW c \in C, NEW r \in Seq(C)
  PROVE  /\ Cat(<<c>>, r) \in Seq(C) /\ Cat(<<c>>, r) # <<>>
         /\ Head(Cat(<<c>>, r)) = c /\ Tail(Cat(<<c>>, r)) = r
<1> DEFINE w == Cat(<<c>>, r)
<1>1. <<c>> \in Seq(C) /\ Len(<<c>>) = 1 /\ <<c>>[1] = c /\ Len(r) \in Nat
  BY LenProperties
<1>2. /\ w \in Seq(C) /\ Len(w) = 1 + Len(r)
      /\ \A i \in 1 .. 1 + Len(r) : w[i] = IF i <= 1 THEN <<c>>[i] ELSE r[i - 1]
  BY <1>1, ConcatProperties DEF Cat
<1> HIDE DEF w
<1>3. w # <<>> /\ w[1] = c
  BY <1>1, <1>2, EmptySeq
<1>4. Head(w) = c
  BY <1>2, <1>3
<1>5. Tail(w) \in Seq(C) /\ Len(Tail(w)) = Len(r) /\ \A i \in 1 .. Len(r) : Tail(w)[i] = r[i]
  <2>1. Tail(w) \in Seq(C) /\ Len(Tail(w)) = Len(w) - 1 /\ \A i \in 1 .. Len(Tail(w)) : Tail(w)[i] = w[i + 1]
    BY <1>2, <1>3, HeadTailProperties
  <2>2. \A i \in 1 .. Len(r) : i + 1 \in 1 .. 1 + Len(r) /\ ~(i + 1 <= 1) /\ i + 1 - 1 = i
    BY <1>1
  <2>3. Len(Tail(w)) = Len(r)
    BY <1>1, <1>2, <2>1
  <2> QED
    BY <1>2, <2>1, <2>2, <2>3
<1>6. Tail(w) = r
  BY <1>5, SeqEqual
<1> QED
  BY <1>2, <1>3, <1>4, <1>6 DEF w

\* A directive is a character, or a letter with what is said of it.
LEMMA DirectiveIs ==
  ASSUME NEW C, NEW d \in Directives(C)
  PROVE  /\ d.letter = "%" \/ d.letter \in Letters
         /\ d.letter = "%" => d.char \in C
         /\ d.letter \in Letters => d.zero \in BOOLEAN /\ d.width \in 0 .. 9 /\ d.letter # "%"
         /\ d = [letter |-> d.letter, char |-> d.char, zero |-> d.zero, width |-> d.width]
<1>1. CASE \E c \in C : d = Literal(c)
  BY <1>1 DEF Literal, Letters
<1>2. CASE \E l \in Letters, z \in BOOLEAN, w \in 0 .. 9 : d = Directive(l, z, w)
  BY <1>2 DEF Directive, Letters
<1> QED
  BY <1>1, <1>2 DEF Directives

\* What follows the 0, and what follows the %.
AfterZero(d, r) ==
  IF d.width > 0 THEN Cat(<<Digit[d.width + 1]>>, Cat(<<d.letter>>, r)) ELSE Cat(<<d.letter>>, r)
AfterPercent(d, r) ==
  IF d.letter = "%" THEN Cat(<<"%">>, r) ELSE IF d.zero THEN Cat(<<"0">>, AfterZero(d, r)) ELSE AfterZero(d, r)

\* What directives are written with are characters.
LEMMA DigitCharacters ==
  /\ \A k \in 1 .. 16 : Digit[k] \in Character /\ Upper[k] \in Character
  /\ "%" \in Character /\ "0" \in Character /\ Letters \subseteq Character /\ " " \in Character /\ "-" \in Character
<1>1. Digit[1] = "0" /\ 1 \in 1 .. 16
  BY DEF Digit
<1>2. \A k \in 1 .. 16 : Digit[k] \in Character /\ Upper[k] \in Character
  BY FormatsAssumption
<1>3. Letters \cup {"%", " ", "-"} \subseteq Character
  BY FormatsAssumption
<1>4. "0" \in Character
  BY <1>1, <1>2
<1> QED
  BY <1>2, <1>3, <1>4

\* A directive is written with characters: an ordinary one, or a percent sign and what follows it.
LEMMA SpelledIs ==
  ASSUME NEW C, C \subseteq Character, NEW d \in Directives(C), NEW r \in Seq(Character)
  PROVE  /\ Spelled(d) \in Seq(Character)
         /\ Cat(Spelled(d), r) = IF d.letter = "%" /\ d.char # "%" THEN Cat(<<d.char>>, r) ELSE Cat(<<"%">>, AfterPercent(d, r))
         /\ AfterPercent(d, r) \in Seq(Character) /\ AfterZero(d, r) \in Seq(Character)
<1>1. /\ d.letter = "%" \/ d.letter \in Letters
      /\ d.letter = "%" => d.char \in Character
      /\ d.letter \in Letters => d.zero \in BOOLEAN /\ d.width \in 0 .. 9 /\ d.letter # "%"
  BY DirectiveIs
<1>2. "%" \in Character /\ "0" \in Character /\ d.letter \in Character
  BY <1>1, DigitCharacters
<1>3. d.letter # "%" => Digit[d.width + 1] \in Character
  <2>1. d.letter # "%" => d.width + 1 \in 1 .. 16
    BY <1>1
  <2> QED
    BY <2>1, DigitCharacters
<1>4. AfterZero(d, r) \in Seq(Character)
  <2>1. Cat(<<d.letter>>, r) \in Seq(Character)
    BY <1>2, ConsIs
  <2>2. CASE d.letter # "%"
    BY <1>3, <2>1, <2>2, ConsIs DEF AfterZero
  <2>3. CASE d.letter = "%"
    <3>1. d.width = 0
      BY <2>3 DEF Directives, Literal, Directive, Letters
    <3> QED
      BY <2>1, <3>1 DEF AfterZero
  <2> QED
    BY <2>2, <2>3
<1>5. AfterPercent(d, r) \in Seq(Character)
  BY <1>2, <1>4, ConsIs DEF AfterPercent
<1>6. \A c \in Character : <<c>> \in Seq(Character)
  OBVIOUS
<1>7. CASE d.letter = "%" /\ d.char # "%"
  <2>1. Spelled(d) = <<d.char>>
    BY <1>7 DEF Spelled
  <2> QED
    BY <1>1, <1>4, <1>5, <1>6, <1>7, <2>1
<1>8. CASE d.letter = "%" /\ d.char = "%"
  <2>1. Spelled(d) = <<"%", "%">>
    BY <1>8 DEF Spelled
  <2>2. <<"%", "%">> = Cat(<<"%">>, <<"%">>) /\ <<"%", "%">> \in Seq(Character)
    BY <1>2 DEF Cat
  <2>3. Cat(Spelled(d), r) = Cat(<<"%">>, Cat(<<"%">>, r))
    <3> DEFINE p == <<"%">>
    <3>1. p \in Seq(Character)
      BY <1>2, <1>6
    <3>2. <<"%", "%">> = Cat(p, p)
      BY <2>2
    <3> HIDE DEF p
    <3>3. Cat(Cat(p, p), r) = Cat(p, Cat(p, r))
      BY <3>1, CatAssociative
    <3>4. Cat(Spelled(d), r) = Cat(p, Cat(p, r))
      BY <2>1, <3>2, <3>3
    <3> QED
      BY <3>4 DEF p
  <2> QED
    BY <1>4, <1>5, <1>8, <2>1, <2>2, <2>3 DEF AfterPercent
<1>9. CASE d.letter # "%"
  <2> DEFINE z == IF d.zero THEN <<"0">> ELSE <<>>
             w == IF d.width > 0 THEN <<Digit[d.width + 1]>> ELSE <<>>
  <2>1. Spelled(d) = Cat(Cat(Cat(<<"%">>, z), w), <<d.letter>>)
    BY <1>9 DEF Spelled, Cat
  <2>2. z \in Seq(Character) /\ w \in Seq(Character) /\ <<"%">> \in Seq(Character) /\ <<d.letter>> \in Seq(Character)
    BY <1>2, <1>3, <1>6, <1>9, EmptySeq
  <2>3. Cat(w, Cat(<<d.letter>>, r)) = AfterZero(d, r)
    <3>1. Cat(<<d.letter>>, r) \in Seq(Character)
      BY <1>2, ConsIs
    <3> QED
      BY <3>1, CatEmpty DEF AfterZero
  <2>4. Cat(z, AfterZero(d, r)) = AfterPercent(d, r)
    BY <1>4, <1>9, CatEmpty DEF AfterPercent
  <2> HIDE DEF z, w
  <2> DEFINE p == <<"%">>
             l == <<d.letter>>
  <2>8. p \in Seq(Character) /\ l \in Seq(Character) /\ Spelled(d) = Cat(Cat(Cat(p, z), w), l)
    BY <2>1, <2>2
  <2> HIDE DEF p, l
  <2>9. Cat(p, z) \in Seq(Character)
    BY <2>2, <2>8, CatType
  <2>10. Cat(Cat(p, z), w) \in Seq(Character)
    BY <2>2, <2>9, CatType
  <2>5. Spelled(d) \in Seq(Character)
    BY <2>8, <2>10, CatType
  <2>6. Cat(Spelled(d), r) = Cat(p, Cat(z, Cat(w, Cat(l, r))))
    <3>1. Cat(l, r) \in Seq(Character)
      BY <2>8, CatType
    <3>2. Cat(w, Cat(l, r)) \in Seq(Character)
      BY <2>2, <3>1, CatType
    <3>3. Cat(Spelled(d), r) = Cat(Cat(Cat(p, z), w), Cat(l, r))
      BY <2>8, <2>10, CatAssociative
    <3>4. Cat(Cat(Cat(p, z), w), Cat(l, r)) = Cat(Cat(p, z), Cat(w, Cat(l, r)))
      BY <2>2, <2>9, <3>1, CatAssociative
    <3>5. Cat(Cat(p, z), Cat(w, Cat(l, r))) = Cat(p, Cat(z, Cat(w, Cat(l, r))))
      BY <2>2, <2>8, <3>2, CatAssociative
    <3> QED
      BY <3>3, <3>4, <3>5
  <2> QED
    BY <1>4, <1>5, <1>9, <2>3, <2>4, <2>5, <2>6 DEF p, l
<1> QED
  BY <1>1, <1>7, <1>8, <1>9

\* The format of the directives after the first k.
Rest(ds, k) == Format(SubSeq(ds, k + 1, Len(ds)))

\* What is left of a format after k directives: all of it, nothing, and the next one before the rest.
LEMMA RestIs ==
  ASSUME NEW C, C \subseteq Character, NEW ds \in Seq(Directives(C))
  PROVE  /\ Rest(ds, 0) = Format(ds) /\ Rest(ds, Len(ds)) = <<>>
         /\ \A k \in 0 .. Len(ds) : Rest(ds, k) \in Seq(Character)
         /\ \A k \in 0 .. Len(ds) - 1 : Rest(ds, k) = Cat(Spelled(ds[k + 1]), Rest(ds, k + 1))
<1> DEFINE n == Len(ds)
           Tl(k) == SubSeq(ds, k + 1, n)
           S(k) == [i \in 1 .. Len(Tl(k)) |-> Spelled(Tl(k)[i])]
<1>1. n \in Nat /\ \A i \in 1 .. n : ds[i] \in Directives(C)
  BY LenProperties, ElementOfSeq
<1>2. \A k \in 0 .. n : /\ Tl(k) \in Seq(Directives(C)) /\ Len(Tl(k)) = n - k
                        /\ \A i \in 1 .. n - k : Tl(k)[i] = ds[k + i]
  <2> SUFFICES ASSUME NEW k \in 0 .. n
               PROVE  /\ Tl(k) \in Seq(Directives(C)) /\ Len(Tl(k)) = n - k
                      /\ \A i \in 1 .. n - k : Tl(k)[i] = ds[k + i]
    OBVIOUS
  <2>1. k + 1 \in Int /\ n \in Int /\ \A i \in k + 1 .. n : ds[i] \in Directives(C)
    BY <1>1
  <2>2. /\ Tl(k) \in Seq(Directives(C)) /\ Len(Tl(k)) = (IF k + 1 <= n THEN n - (k + 1) + 1 ELSE 0)
        /\ \A i \in 1 .. n - (k + 1) + 1 : Tl(k)[i] = ds[k + 1 + i - 1]
    BY <2>1, SubSeqProperties
  <2>3. (IF k + 1 <= n THEN n - (k + 1) + 1 ELSE 0) = n - k /\ n - (k + 1) + 1 = n - k /\ \A i \in 1 .. n - k : k + 1 + i - 1 = k + i
    BY <1>1
  <2> HIDE DEF n, Tl
  <2> QED
    BY <2>2, <2>3
<1>3. \A k \in 0 .. n : \A i \in 1 .. n - k : k + i \in 1 .. n
  BY <1>1
<1> HIDE DEF n, Tl
<1>4. \A d \in Directives(C) : Spelled(d) \in Seq(Character)
  BY SpelledIs, EmptySeq
<1>5. \A k \in 0 .. n : S(k) \in Seq(Seq(Character)) /\ Len(S(k)) = n - k /\ \A i \in 1 .. n - k : S(k)[i] = Spelled(ds[k + i])
  <2> SUFFICES ASSUME NEW k \in 0 .. n
               PROVE  S(k) \in Seq(Seq(Character)) /\ Len(S(k)) = n - k /\ \A i \in 1 .. n - k : S(k)[i] = Spelled(ds[k + i])
    OBVIOUS
  <2>1. n - k \in Nat /\ Len(Tl(k)) = n - k
    BY <1>1, <1>2
  <2>2. \A i \in 1 .. n - k : S(k)[i] = Spelled(ds[k + i]) /\ S(k)[i] \in Seq(Character)
    BY <1>1, <1>2, <1>3, <1>4, <2>1
  <2>3. S(k) \in [1 .. n - k -> Seq(Character)]
    BY <2>1, <2>2
  <2> HIDE DEF S
  <2>4. S(k) \in Seq(Seq(Character)) /\ Len(S(k)) = n - k
    BY <2>1, <2>3
  <2> QED
    BY <2>2, <2>4
<1>6. \A k : Rest(ds, k) = FlattenSeq(S(k))
  BY DEF Rest, Format, n, Tl
<1> HIDE DEF S
<1>7. \A k \in 0 .. n : Rest(ds, k) \in Seq(Character)
  BY <1>5, <1>6, FlattenAppends, EmptySeq
<1>8. Rest(ds, n) = <<>>
  <2>1. S(n) \in Seq(Seq(Character)) /\ Len(S(n)) = 0
    BY <1>1, <1>5
  <2>2. FlattenSeq(S(n)) = S(n)
    BY <2>1 DEF FlattenSeq
  <2> QED
    BY <1>6, <2>1, <2>2, EmptySeq
<1>9. ASSUME NEW k \in 0 .. n - 1 PROVE Rest(ds, k) = Cat(Spelled(ds[k + 1]), Rest(ds, k + 1))
  <2>1. k \in 0 .. n /\ k + 1 \in 0 .. n /\ n - k \in Nat \ {0} /\ n - (k + 1) = n - k - 1 /\ n - k - 1 \in Nat
    BY <1>1
  <2>2. /\ S(k) \in Seq(Seq(Character)) /\ Len(S(k)) = n - k /\ \A i \in 1 .. n - k : S(k)[i] = Spelled(ds[k + i])
        /\ S(k + 1) \in Seq(Seq(Character)) /\ Len(S(k + 1)) = n - k - 1
        /\ \A i \in 1 .. n - k - 1 : S(k + 1)[i] = Spelled(ds[k + 1 + i])
    BY <1>5, <2>1
  <2>3. S(k) # <<>>
    BY <2>1, <2>2, EmptySeq
  <2>4. Head(S(k)) = Spelled(ds[k + 1])
    BY <2>1, <2>2, <2>3
  <2>5. Tail(S(k)) = S(k + 1)
    <3>1. /\ Tail(S(k)) \in Seq(Seq(Character)) /\ Len(Tail(S(k))) = n - k - 1
          /\ \A i \in 1 .. Len(Tail(S(k))) : Tail(S(k))[i] = S(k)[i + 1]
      BY <2>1, <2>2, <2>3, HeadTailProperties
    <3>2. \A i \in 1 .. n - k - 1 : i + 1 \in 1 .. n - k /\ k + (i + 1) = k + 1 + i
      BY <2>1
    <3>3. \A i \in 1 .. n - k - 1 : Tail(S(k))[i] = S(k + 1)[i]
      BY <2>2, <3>1, <3>2
    <3> QED
      BY <2>2, <3>1, <3>3, SeqEqual
  <2>6. FlattenSeq(S(k)) = Cat(Head(S(k)), FlattenSeq(Tail(S(k))))
    BY <2>2, <2>3, FlattenBegins
  <2> QED
    BY <1>6, <2>4, <2>5, <2>6
<1>10. Rest(ds, 0) = Format(ds)
  <2>1. SubSeq(ds, 0 + 1, Len(ds)) = ds
    BY SubSeqFull
  <2> QED
    BY <2>1 DEF Rest
<1> QED
  BY <1>7, <1>8, <1>9, <1>10 DEF n

\* A function on 1 .. n is a list.
LEMMA FunctionIsSeq ==
  ASSUME NEW n \in Nat, NEW T, NEW s \in [1 .. n -> T]
  PROVE  s \in Seq(T) /\ Len(s) = n
OBVIOUS

LEMMA ListIsSeq ==
  ASSUME NEW n \in Nat, NEW s, s = [i \in 1 .. n |-> s[i]]
  PROVE  \E T : s \in Seq(T) /\ Len(s) = n
<1> DEFINE T == {s[i] : i \in 1 .. n}
<1>1. \A i \in 1 .. n : s[i] \in T
  OBVIOUS
<1> HIDE DEF T
<1>2. s \in [1 .. n -> T]
  BY <1>1
<1> QED
  BY <1>2, FunctionIsSeq

\* What is left of a sequence after its first elements.
LEMMA SubSeqSteps ==
  ASSUME NEW T, NEW s \in Seq(T), NEW m \in 0 .. Len(s) - 1
  PROVE  /\ SubSeq(s, m + 1, Len(s)) # <<>>
         /\ Head(SubSeq(s, m + 1, Len(s))) = s[m + 1]
         /\ Tail(SubSeq(s, m + 1, Len(s))) = SubSeq(s, m + 1 + 1, Len(s))
<1> DEFINE n == Len(s)
           k == m + 1
           t == SubSeq(s, k, n)
           u == SubSeq(s, k + 1, n)
<1>1. n \in Nat /\ k \in 1 .. n /\ k \in Int /\ k + 1 \in Int /\ n \in Int /\ \A i \in 1 .. n : s[i] \in T
  BY LenProperties, ElementOfSeq
<1> HIDE DEF n, k
<1>2. (\A i \in k .. n : s[i] \in T) /\ (\A i \in k + 1 .. n : s[i] \in T)
  BY <1>1
<1>3. /\ t \in Seq(T) /\ Len(t) = (IF k <= n THEN n - k + 1 ELSE 0)
      /\ \A i \in 1 .. n - k + 1 : t[i] = s[k + i - 1]
  BY <1>1, <1>2, SubSeqProperties
<1>4. /\ u \in Seq(T) /\ Len(u) = (IF k + 1 <= n THEN n - (k + 1) + 1 ELSE 0)
      /\ \A i \in 1 .. n - (k + 1) + 1 : u[i] = s[k + 1 + i - 1]
  BY <1>1, <1>2, SubSeqProperties
<1> HIDE DEF t, u
<1>5. t # <<>>
  <2>1. Len(t) # 0
    BY <1>1, <1>3
  <2> QED
    BY <1>3, <2>1, EmptySeq
<1>6. Head(t) = s[k]
  <2>1. 1 \in 1 .. n - k + 1 /\ k + 1 - 1 = k
    BY <1>1
  <2>2. t[1] = s[k]
    BY <1>3, <2>1
  <2> QED
    BY <1>3, <1>5, <2>2, HeadTailProperties
<1>7. Tail(t) = u
  <2>1. Tail(t) \in Seq(T) /\ Len(Tail(t)) = Len(t) - 1 /\ \A i \in 1 .. Len(Tail(t)) : Tail(t)[i] = t[i + 1]
    BY <1>3, <1>5, HeadTailProperties
  <2>2. Len(Tail(t)) = Len(u) /\ Len(u) = n - k
    <3>1. Len(u) = n - k /\ Len(t) = n - k + 1
      BY <1>1, <1>3, <1>4
    <3>2. n - k \in Int
      BY <1>1
    <3> QED
      BY <2>1, <3>1, <3>2
  <2>3. ASSUME NEW i \in 1 .. n - k PROVE Tail(t)[i] = u[i]
    <3>1. i \in 1 .. n - (k + 1) + 1 /\ i + 1 \in 1 .. n - k + 1 /\ k + (i + 1) - 1 = k + 1 + i - 1
      BY <1>1
    <3>2. t[i + 1] = s[k + (i + 1) - 1] /\ u[i] = s[k + 1 + i - 1] /\ Tail(t)[i] = t[i + 1]
      BY <1>3, <1>4, <2>1, <2>2, <3>1
    <3> QED
      BY <3>1, <3>2
  <2> QED
    BY <1>4, <2>1, <2>2, <2>3, SeqEqual
<1> QED
  BY <1>5, <1>6, <1>7 DEF t, u, k, n

\* How many arguments the first directives take, one directive after the other.
LEMMA BeforeIs ==
  ASSUME NEW C, NEW ds \in Seq(Directives(C))
  PROVE  /\ Before(ds, 0) = 0
         /\ \A k \in 0 .. Len(ds) : Before(ds, k) \in Nat
         /\ \A k \in 0 .. Len(ds) - 1 : Before(ds, k + 1) = Before(ds, k) + (IF ds[k + 1].letter = "%" THEN 0 ELSE 1)
<1> DEFINE n == Len(ds)
           T(k) == {j \in 1 .. k : ds[j].letter # "%"}
<1>1. n \in Nat
  BY LenProperties
<1> HIDE DEF n
<1>2. \A k \in 0 .. n : IsFiniteSet(T(k))
  <2> SUFFICES ASSUME NEW k \in 0 .. n PROVE IsFiniteSet(T(k))
    OBVIOUS
  <2>1. IsFiniteSet(1 .. k) /\ T(k) \subseteq 1 .. k
    BY <1>1, FS_Interval
  <2> QED
    BY <2>1, FS_Subset
<1>3. \A k \in 0 .. n : Before(ds, k) \in Nat
  BY <1>2, FS_CardinalityType DEF Before
<1>4. Before(ds, 0) = 0
  <2>1. T(0) = {}
    OBVIOUS
  <2> QED
    BY <2>1, FS_EmptySet DEF Before
<1>6. \A k : Before(ds, k) = Cardinality(T(k))
  BY DEF Before
<1>5. ASSUME NEW k \in 0 .. n - 1
      PROVE  Before(ds, k + 1) = Before(ds, k) + (IF ds[k + 1].letter = "%" THEN 0 ELSE 1)
  <2>1. k \in 0 .. n /\ 1 .. k + 1 = (1 .. k) \cup {k + 1} /\ k + 1 \notin 1 .. k
    BY <1>1
  <2>2. CASE ds[k + 1].letter = "%"
    <3>1. T(k + 1) = T(k)
      BY <2>1, <2>2
    <3>2. Before(ds, k) \in Nat
      BY <1>3, <2>1
    <3>3. Before(ds, k + 1) = Before(ds, k)
      BY <1>6, <3>1
    <3> QED
      BY <2>2, <3>2, <3>3
  <2>3. CASE ds[k + 1].letter # "%"
    <3>1. T(k + 1) = T(k) \cup {k + 1} /\ k + 1 \notin T(k)
      BY <2>1, <2>3
    <3>3. IsFiniteSet(T(k))
      BY <1>2, <2>1
    <3>2. Cardinality(T(k) \cup {k + 1}) = Cardinality(T(k)) + 1
      <4> DEFINE U == T(k)
      <4>1. IsFiniteSet(U) /\ k + 1 \notin U
        BY <3>1, <3>3
      <4> HIDE DEF U
      <4>2. Cardinality(U \cup {k + 1}) = Cardinality(U) + 1
        BY <4>1, FS_AddElement
      <4> QED
        BY <4>2 DEF U
    <3>4. Before(ds, k + 1) = Before(ds, k) + 1
      BY <1>6, <3>1, <3>2
    <3> QED
      BY <2>3, <3>4
  <2> QED
    BY <2>2, <2>3
<1> QED
  BY <1>3, <1>4, <1>5 DEF n

\* No prefix of the directives takes more arguments than all of them.
LEMMA BeforeGrows ==
  ASSUME NEW C, NEW ds \in Seq(Directives(C)), NEW k \in 0 .. Len(ds)
  PROVE  Before(ds, k) <= Before(ds, Len(ds))
<1> DEFINE n == Len(ds)
           N == {i \in Nat : k + i <= n => Before(ds, k) <= Before(ds, k + i)}
<1>1. n \in Nat
  BY LenProperties
<1>2. /\ \A j \in 0 .. n : Before(ds, j) \in Nat
      /\ \A j \in 0 .. n - 1 : Before(ds, j + 1) = Before(ds, j) + (IF ds[j + 1].letter = "%" THEN 0 ELSE 1)
  BY BeforeIs
<1> HIDE DEF n
<1>3. 0 \in N
  BY <1>1, <1>2 DEF n
<1>4. ASSUME NEW i \in Nat, i \in N PROVE i + 1 \in N
  <2> SUFFICES ASSUME k + (i + 1) <= n PROVE Before(ds, k) <= Before(ds, k + (i + 1))
    OBVIOUS
  <2>1. k \in 0 .. n
    BY DEF n
  <2>2. k + i \in 0 .. n - 1 /\ k + i \in 0 .. n /\ k + (i + 1) = k + i + 1 /\ k + i <= n /\ k + i + 1 \in 0 .. n
    BY <1>1, <2>1
  <2>3. Before(ds, k) <= Before(ds, k + i)
    BY <1>4, <2>2
  <2>4. Before(ds, k + i + 1) >= Before(ds, k + i)
    BY <1>2, <2>2
  <2> QED
    BY <1>2, <2>1, <2>2, <2>3, <2>4
<1>5. Nat \subseteq N
  <2> HIDE DEF N
  <2> QED
    BY <1>3, <1>4, NatInduct
<1> DEFINE i == n - k
<1>6. i \in Nat /\ k + i = n /\ k + i <= n
  BY <1>1 DEF n
<1>7. Before(ds, k) <= Before(ds, k + i)
  BY <1>5, <1>6
<1> QED
  BY <1>6, <1>7 DEF n

\* The arguments that the directives after the first k take, and the first of them.
ArgsRest(ds, as, k) == SubSeq(as, Before(ds, k) + 1, Len(as))

\* Directive k + 1 takes its own argument, if any, off what is left of the arguments after k directives.
TakesOwn(ds, as, k) ==
  /\ ds[k + 1].letter = "%" => ArgsRest(ds, as, k + 1) = ArgsRest(ds, as, k)
  /\ ds[k + 1].letter # "%" => /\ ArgsRest(ds, as, k) # <<>>
                               /\ Head(ArgsRest(ds, as, k)) = ArgOf(ds, as, k + 1)
                               /\ Tail(ArgsRest(ds, as, k)) = ArgsRest(ds, as, k + 1)

\* Every directive takes its own argument.
LEMMA ArgsRestIs ==
  ASSUME NEW C, NEW ds, NEW as, Fits(ds, as, C), NEW k \in 0 .. Len(ds) - 1
  PROVE  TakesOwn(ds, as, k)
<1>1. ds \in Seq(Directives(C)) /\ as = [i \in 1 .. Before(ds, Len(ds)) |-> as[i]]
  BY DEF Fits
<1>2. Len(ds) \in Nat
  BY <1>1, LenProperties
<1>3. k \in 0 .. Len(ds) /\ k + 1 \in 0 .. Len(ds) /\ Len(ds) \in 0 .. Len(ds)
  BY <1>2
<1>4. /\ Before(ds, k) \in Nat /\ Before(ds, k + 1) \in Nat /\ Before(ds, Len(ds)) \in Nat
      /\ Before(ds, k + 1) = Before(ds, k) + (IF ds[k + 1].letter = "%" THEN 0 ELSE 1)
  BY <1>1, <1>3, BeforeIs
<1>5. Before(ds, k + 1) <= Before(ds, Len(ds))
  BY <1>1, <1>3, BeforeGrows
<1>6. PICK T : as \in Seq(T) /\ Len(as) = Before(ds, Len(ds))
  BY <1>1, <1>4, ListIsSeq
<1>7. ASSUME ds[k + 1].letter = "%" PROVE ArgsRest(ds, as, k + 1) = ArgsRest(ds, as, k)
  <2>1. Before(ds, k + 1) = Before(ds, k)
    BY <1>4, <1>7
  <2> QED
    BY <2>1 DEF ArgsRest
<1>8. ASSUME ds[k + 1].letter # "%"
      PROVE  /\ ArgsRest(ds, as, k) # <<>>
             /\ Head(ArgsRest(ds, as, k)) = ArgOf(ds, as, k + 1)
             /\ Tail(ArgsRest(ds, as, k)) = ArgsRest(ds, as, k + 1)
  <2> DEFINE m == Before(ds, k)
  <2>1. Before(ds, k + 1) = m + 1 /\ m \in 0 .. Len(as) - 1
    BY <1>4, <1>5, <1>6, <1>8
  <2>2. ArgsRest(ds, as, k) = SubSeq(as, m + 1, Len(as)) /\ ArgsRest(ds, as, k + 1) = SubSeq(as, m + 1 + 1, Len(as))
    BY <2>1 DEF ArgsRest
  <2>3. ArgOf(ds, as, k + 1) = as[m + 1]
    BY <1>8, <2>1 DEF ArgOf
  <2> HIDE DEF m
  <2> QED
    BY <1>6, <2>1, <2>2, <2>3, SubSeqSteps
<1> QED
  BY <1>7, <1>8 DEF TakesOwn

\* What a directive that takes an argument finds, and what it leaves.
LEMMA ArgsRestNext ==
  \A ds, as, k : Fits(ds, as, Character) /\ k \in 0 .. Len(ds) - 1 =>
    /\ ds[k + 1].letter = "%" => ArgsRest(ds, as, k + 1) = ArgsRest(ds, as, k)
    /\ ds[k + 1].letter # "%" => /\ ArgsRest(ds, as, k) # <<>>
                                 /\ Head(ArgsRest(ds, as, k)) = ArgOf(ds, as, k + 1)
                                 /\ Tail(ArgsRest(ds, as, k)) = ArgsRest(ds, as, k + 1)
<1> SUFFICES ASSUME NEW ds, NEW as, NEW k, Fits(ds, as, Character), k \in 0 .. Len(ds) - 1
             PROVE  /\ ds[k + 1].letter = "%" => ArgsRest(ds, as, k + 1) = ArgsRest(ds, as, k)
                    /\ ds[k + 1].letter # "%" => /\ ArgsRest(ds, as, k) # <<>>
                                                 /\ Head(ArgsRest(ds, as, k)) = ArgOf(ds, as, k + 1)
                                                 /\ Tail(ArgsRest(ds, as, k)) = ArgsRest(ds, as, k + 1)
  BY Zenon
<1>1. TakesOwn(ds, as, k)
  BY ArgsRestIs
<1> QED
  BY <1>1 DEF TakesOwn

LEMMA ArgsRestStarts ==
  ASSUME NEW C, NEW ds, NEW as, Fits(ds, as, C)
  PROVE  ArgsRest(ds, as, 0) = as
<1>1. ds \in Seq(Directives(C)) /\ as = [i \in 1 .. Before(ds, Len(ds)) |-> as[i]]
  BY DEF Fits
<1>2. Len(ds) \in 0 .. Len(ds)
  BY <1>1, LenProperties
<1>3. Before(ds, 0) = 0 /\ Before(ds, Len(ds)) \in Nat
  BY <1>1, <1>2, BeforeIs
<1>4. PICK T : as \in Seq(T) /\ Len(as) = Before(ds, Len(ds))
  BY <1>1, <1>3, ListIsSeq
<1>5. SubSeq(as, 1, Len(as)) = as
  BY <1>4, SubSeqFull
<1>6. Before(ds, 0) + 1 = 1
  BY <1>3
<1> QED
  BY <1>5, <1>6 DEF ArgsRest

-----------------------------------------------------------------------------
(* Numerals *)

Bases == {8, 10, 16}

\* Division by a base: how far it goes down, and that it undoes a multiplication.
LEMMA Quotients ==
  ASSUME NEW b \in Bases, NEW u \in Nat
  PROVE  /\ u \div b \in Nat /\ b * (u \div b) <= u /\ u < b * (u \div b) + b
         /\ (u # 0 => u \div b < u) /\ (u = 0 => u \div b = 0) /\ (b * u) \div b = u
<1>1. CASE b = 8
  BY <1>1
<1>2. CASE b = 10
  BY <1>2
<1>3. CASE b = 16
  BY <1>3
<1> QED
  BY <1>1, <1>2, <1>3 DEF Bases

\* A number is its quotient times the divisor and its remainder.
LEMMA DivMod ==
  ASSUME NEW u \in Nat, NEW p \in Nat \ {0}
  PROVE  u \div p \in Nat /\ u % p \in 0 .. p - 1 /\ u = (u \div p) * p + (u % p) /\ u % p <= u
<1>1. u \div p \in Nat /\ u % p \in 0 .. p - 1
  OBVIOUS
<1>2. u = (u \div p) * p + (u % p)
  OBVIOUS
<1>3. \A x \in Nat : x * p >= 0
  OBVIOUS
<1>4. (u \div p) * p >= 0
  BY <1>1, <1>3
<1> QED
  BY <1>1, <1>2, <1>4

\* The powers of the base.
Places(b) == {p \in Nat : \A S \in SUBSET Nat : 1 \in S /\ (\A x \in S : b * x \in S) => p \in S}

\* A set with 1 and b times each of its members holds every place.
LEMMA PlacesInduct ==
  ASSUME NEW b \in Bases, NEW S, 1 \in S, \A p \in Places(b) : p \in S => b * p \in S
  PROVE  Places(b) \subseteq S
<1> DEFINE T == S \cap Places(b)
<1>1. 1 \in Places(b)
  BY DEF Places
<1>2. ASSUME NEW p \in Places(b) PROVE b * p \in Places(b)
  <2>1. p \in Nat /\ b * p \in Nat
    BY DEF Places, Bases
  <2>2. ASSUME NEW R \in SUBSET Nat, 1 \in R, \A x \in R : b * x \in R PROVE b * p \in R
    <3>1. p \in R
      BY <2>2 DEF Places
    <3> QED
      BY <2>2, <3>1
  <2> QED
    BY <2>1, <2>2 DEF Places
<1>3. T \in SUBSET Nat /\ 1 \in T /\ \A x \in T : b * x \in T
  <2>1. Places(b) \subseteq Nat
    BY DEF Places
  <2> QED
    BY <1>1, <1>2, <2>1
<1> HIDE DEF T
<1>4. ASSUME NEW p \in Places(b) PROVE p \in T
  BY <1>3, <1>4 DEF Places
<1> QED
  BY <1>4 DEF T

\* 1 is a place, and b times a place is one.
LEMMA PlacesAre ==
  ASSUME NEW b \in Bases
  PROVE  /\ 1 \in Places(b)
         /\ \A p \in Places(b) : p \in Nat \ {0} /\ b * p \in Places(b) /\ b * p \in Nat \ {0}
<1>1. 1 \in Places(b)
  BY DEF Places
<1> DEFINE S == {p \in Nat : p # 0 /\ b * p # 0}
<1>2. 1 \in S /\ \A p \in Nat : p # 0 => b * p \in Nat /\ b * p # 0
  BY DEF Bases
<1>3. \A p \in Places(b) : p \in S => b * p \in S
  <2>1. \A p \in S : p \in Nat /\ p # 0 /\ b * p \in Nat /\ b * p # 0
    BY <1>2
  <2>2. \A p \in S : b * (b * p) # 0
    BY <1>2, <2>1
  <2> QED
    BY <2>1, <2>2
<1>4. Places(b) \subseteq S
  <2> HIDE DEF S
  <2> QED
    BY <1>2, <1>3, PlacesInduct
<1>5. ASSUME NEW p \in Places(b) PROVE b * p \in Places(b)
  <2>1. p \in Nat /\ b * p \in Nat
    BY <1>2, <1>4
  <2>2. ASSUME NEW R \in SUBSET Nat, 1 \in R, \A x \in R : b * x \in R PROVE b * p \in R
    <3>1. p \in R
      BY <2>2 DEF Places
    <3> QED
      BY <2>2, <3>1
  <2> QED
    BY <2>1, <2>2 DEF Places
<1>6. \A p \in Places(b) : p \in Nat \ {0} /\ b * p \in Nat \ {0}
  BY <1>2, <1>4
<1> QED
  BY <1>1, <1>5, <1>6

IsPlace(f, v, b) == f = [u \in 0 .. v |-> IF u \div b = 0 THEN 1 ELSE b * f[u \div b]]

\* There is a function that returns the highest place, for every number.
LEMMA PlaceExists ==
  ASSUME NEW b \in Bases, NEW v \in Nat
  PROVE  \E f : IsPlace(f, v, b)
<1> DEFINE N == {n \in Nat : \E f : IsPlace(f, n, b)}
<1>1. 0 \in N
  <2> DEFINE f == [u \in 0 .. 0 |-> 1]
  <2>1. \A u \in 0 .. 0 : u = 0
    OBVIOUS
  <2>2. 0 \div b = 0
    BY Quotients
  <2>3. IsPlace(f, 0, b)
    BY <2>1, <2>2 DEF IsPlace
  <2> HIDE DEF f
  <2> QED
    BY <2>3
<1>2. ASSUME NEW n \in Nat, n \in N PROVE n + 1 \in N
  <2>1. PICK f : IsPlace(f, n, b)
    BY <1>2
  <2> DEFINE e == [u \in 0 .. n + 1 |-> IF u \div b = 0 THEN 1 ELSE b * f[u \div b]]
  <2>2. \A u \in 0 .. n + 1 : u \div b # 0 => u \div b \in 0 .. n
    <3>1. \A u \in Nat : u \div b \in Nat /\ (u # 0 => u \div b < u) /\ (u = 0 => u \div b = 0)
      BY Quotients
    <3> QED
      BY <3>1
  <2>3. \A u \in 0 .. n : u \in 0 .. n + 1
    OBVIOUS
  <2>4. \A u \in 0 .. n : e[u] = f[u]
    BY <2>1, <2>3 DEF IsPlace
  <2>5. \A u \in 0 .. n + 1 : e[u] = IF u \div b = 0 THEN 1 ELSE b * e[u \div b]
    BY <2>2, <2>4
  <2>6. e = [u \in 0 .. n + 1 |-> e[u]]
    OBVIOUS
  <2> HIDE DEF e
  <2>7. IsPlace(e, n + 1, b)
    BY <2>5, <2>6 DEF IsPlace
  <2> QED
    BY <2>7
<1>3. Nat \subseteq N
  <2> HIDE DEF N
  <2> QED
    BY <1>1, <1>2, NatInduct
<1> QED
  BY <1>3

\* The place of the first digit: the number has no digit above it, and one there unless it is the last.
LEMMA PlaceIs ==
  ASSUME NEW b \in Bases, NEW v \in Nat
  PROVE  Place(v, b) \in Places(b) /\ v < b * Place(v, b) /\ (Place(v, b) # 1 => Place(v, b) <= v)
<1> DEFINE f == CHOOSE f : IsPlace(f, v, b)
<1>1. IsPlace(f, v, b)
  BY PlaceExists
<1>2. Place(v, b) = f[v]
  BY DEF Place, IsPlace
<1> HIDE DEF f
<1> DEFINE Good(u) == f[u] \in Places(b) /\ u < b * f[u] /\ (f[u] # 1 => f[u] <= u)
           N == {n \in Nat : \A u \in 0 .. n : u <= v => Good(u)}
<1>3. \A u \in 0 .. v : f[u] = IF u \div b = 0 THEN 1 ELSE b * f[u \div b]
  BY <1>1 DEF IsPlace
<1>4. ASSUME NEW u \in 0 .. v, u \div b # 0 => Good(u \div b) PROVE Good(u)
  <2>1. u \in Nat /\ u \div b \in Nat /\ b * (u \div b) <= u /\ u < b * (u \div b) + b
    BY Quotients
  <2>2. CASE u \div b = 0
    <3>1. f[u] = 1
      BY <1>3, <2>2
    <3>2. u < b
      BY <2>1, <2>2 DEF Bases
    <3> QED
      BY <3>1, <3>2, PlacesAre DEF Bases
  <2>3. CASE u \div b # 0
    <3> DEFINE q == u \div b
               p == f[q]
    <3>1. q \in Nat \ {0} /\ b * q <= u /\ u < b * q + b /\ f[u] = b * p /\ Good(q)
      BY <1>3, <1>4, <2>1, <2>3
    <3>2. p \in Places(b) /\ q < b * p /\ (p # 1 => p <= q) /\ p \in Nat \ {0} /\ b * p \in Places(b)
      BY <3>1, PlacesAre
    <3> HIDE DEF q, p
    <3>3. p <= q
      BY <3>1, <3>2
    <3>4. b * p <= u /\ u < b * (b * p)
      BY <3>1, <3>2, <3>3 DEF Bases
    <3> QED
      BY <3>1, <3>2, <3>4
  <2> QED
    BY <2>2, <2>3
<1> HIDE DEF Good
<1>5. 0 \in N
  <2>1. 0 \div b = 0 /\ 0 \in 0 .. v
    BY Quotients
  <2>2. Good(0)
    BY <1>4, <2>1
  <2>3. \A u \in 0 .. 0 : u = 0
    OBVIOUS
  <2> QED
    BY <2>2, <2>3
<1>6. ASSUME NEW n \in Nat, n \in N PROVE n + 1 \in N
  <2> SUFFICES ASSUME NEW u \in 0 .. n + 1, u <= v PROVE Good(u)
    OBVIOUS
  <2>1. u \in 0 .. v /\ u \in Nat
    OBVIOUS
  <2>2. u \div b \in Nat /\ (u # 0 => u \div b < u) /\ (u = 0 => u \div b = 0)
    BY <2>1, Quotients
  <2>3. u \div b # 0 => u \div b \in 0 .. n /\ u \div b <= v
    BY <2>1, <2>2
  <2>4. u \div b # 0 => Good(u \div b)
    BY <1>6, <2>3
  <2> QED
    BY <1>4, <2>1, <2>4
<1>7. Nat \subseteq N
  <2> HIDE DEF N
  <2> QED
    BY <1>5, <1>6, NatInduct
<1>8. Good(v)
  BY <1>7
<1> QED
  BY <1>2, <1>8 DEF Good

IsDigits(f, p, v, b) ==
  f = [x \in (0 .. p) \X (0 .. v) |->
         IF x[1] = 0 THEN <<>> ELSE Cat(<<x[2] \div x[1]>>, f[<<x[1] \div b, x[2] % x[1]>>])]

\* There is a function that returns the digits, for every number and place.
LEMMA DigitsExist ==
  ASSUME NEW b \in Bases, NEW p \in Nat, NEW v \in Nat
  PROVE  \E f : IsDigits(f, p, v, b)
<1> DEFINE N == {n \in Nat : \E f : IsDigits(f, n, v, b)}
<1>1. 0 \in N
  <2> DEFINE f == [x \in (0 .. 0) \X (0 .. v) |-> <<>>]
  <2>1. \A x \in (0 .. 0) \X (0 .. v) : x[1] = 0
    OBVIOUS
  <2>2. IsDigits(f, 0, v, b)
    BY <2>1 DEF IsDigits
  <2> HIDE DEF f
  <2> QED
    BY <2>2
<1>2. ASSUME NEW n \in Nat, n \in N PROVE n + 1 \in N
  <2>1. PICK f : IsDigits(f, n, v, b)
    BY <1>2
  <2> DEFINE D(k) == (0 .. k) \X (0 .. v)
             body(x, g) == IF x[1] = 0 THEN <<>> ELSE Cat(<<x[2] \div x[1]>>, g[<<x[1] \div b, x[2] % x[1]>>])
             e == [x \in D(n + 1) |-> body(x, f)]
  <2>2. ASSUME NEW x \in D(n + 1), x[1] # 0 PROVE <<x[1] \div b, x[2] % x[1]>> \in D(n)
    <3> DEFINE q == x[1]
               u == x[2]
    <3>1. q \in 0 .. n + 1 /\ q # 0 /\ u \in 0 .. v
      BY <2>2
    <3> HIDE DEF q, u
    <3>2. q \div b \in Nat /\ q \div b < q
      BY <3>1, Quotients
    <3>3. u % q \in Nat /\ u % q <= u
      <4>1. u \in Nat /\ q \in Nat \ {0}
        BY <3>1
      <4>2. u % q \in 0 .. q - 1 /\ u % q <= u
        BY <4>1, DivMod
      <4> QED
        BY <4>1, <4>2
    <3> QED
      BY <3>1, <3>2, <3>3 DEF q, u
  <2>3. D(n) \subseteq D(n + 1)
    OBVIOUS
  <2>4. f = [x \in D(n) |-> body(x, f)]
    BY <2>1 DEF IsDigits
  <2> HIDE DEF D
  <2>5. \A x \in D(n) : e[x] = f[x]
    <3>1. \A x \in D(n) : f[x] = body(x, f)
      BY <2>4
    <3>2. \A x \in D(n + 1) : e[x] = body(x, f)
      OBVIOUS
    <3> HIDE DEF body, e
    <3> QED
      BY <2>3, <3>1, <3>2
  <2>6. \A x \in D(n + 1) : body(x, f) = body(x, e)
    BY <2>2, <2>5
  <2>7. e = [x \in D(n + 1) |-> body(x, e)]
    <3> HIDE DEF body
    <3> QED
      BY <2>6
  <2> HIDE DEF e
  <2>8. IsDigits(e, n + 1, v, b)
    BY <2>7 DEF IsDigits, D
  <2> QED
    BY <2>8
<1>3. Nat \subseteq N
  <2> HIDE DEF N
  <2> QED
    BY <1>1, <1>2, NatInduct
<1> QED
  BY <1>3

\* What the digits of a number say, read from the first to the last after what came before them.
Adds(s, b, r) ==
  \A a \in Nat : \A g : g[0] = a /\ (\A i \in 1 .. Len(s) : g[i] = g[i - 1] * b + s[i]) => g[Len(s)] = a * r.step + r.rest

\* A product below a product of the same number.
LEMMA Below ==
  ASSUME NEW b \in Nat, NEW p \in Nat \ {0}, NEW x \in Nat, x * p < b * p
  PROVE  x < b
<1> SUFFICES ASSUME b <= x PROVE FALSE
  OBVIOUS
<1>1. PICK y \in Nat : x = b + y
  <2>1. x - b \in Nat /\ x = b + (x - b)
    OBVIOUS
  <2> QED
    BY <2>1
<1>2. x * p = b * p + y * p /\ y * p \in Nat /\ b * p \in Nat
  BY <1>1
<1> QED
  BY <1>2

\* One digit before the others.
LEMMA AddsOne ==
  ASSUME NEW b \in Bases, NEW d \in 0 .. b - 1, NEW t \in Seq(0 .. b - 1), NEW q \in Nat, NEW u \in Nat,
         Adds(t, b, [step |-> q, rest |-> u])
  PROVE  Adds(Cat(<<d>>, t), b, [step |-> b * q, rest |-> d * q + u])
<1> DEFINE s == Cat(<<d>>, t)
           C == 0 .. b - 1
<1>1. s \in Seq(C) /\ Len(s) = Len(t) + 1 /\ s[1] = d /\ Len(t) \in Nat /\ \A i \in 1 .. Len(t) : s[i + 1] = t[i]
  <2>1. s \in Seq(C) /\ s # <<>> /\ Head(s) = d /\ Tail(s) = t
    BY ConsIs
  <2>2. Len(t) = Len(s) - 1 /\ \A i \in 1 .. Len(t) : t[i] = s[i + 1]
    BY <2>1, HeadTailProperties
  <2> HIDE DEF s
  <2>3. Len(t) \in Nat /\ Len(s) \in Nat
    BY <2>1, LenProperties
  <2>4. s[1] = d
    BY <2>1, HeadTailProperties
  <2> QED
    BY <2>1, <2>2, <2>3, <2>4
<1> SUFFICES ASSUME NEW a \in Nat, NEW g, g[0] = a, \A i \in 1 .. Len(s) : g[i] = g[i - 1] * b + s[i]
             PROVE  g[Len(s)] = a * (b * q) + (d * q + u)
  BY DEF Adds
<1> HIDE DEF s, C
<1> DEFINE n == Len(t)
           h == [i \in 0 .. n |-> g[i + 1]]
           e == a * b + d
<1>2. g[1] = e /\ e \in Nat
  <2>1. 1 \in 1 .. Len(s) /\ 1 - 1 = 0
    BY <1>1
  <2>2. g[1] = a * b + d
    BY <1>1, <2>1
  <2>3. d \in Nat /\ b \in Nat
    BY DEF Bases
  <2> QED
    BY <2>2, <2>3, SMTT(60)
<1>3. h[0] = e
  BY <1>1, <1>2
<1>4. ASSUME NEW i \in 1 .. n PROVE h[i] = h[i - 1] * b + t[i]
  <2>1. i + 1 \in 1 .. Len(s) /\ i - 1 + 1 = i /\ i + 1 - 1 = i /\ i \in 0 .. n /\ i - 1 \in 0 .. n
    BY <1>1
  <2>2. g[i + 1] = g[i + 1 - 1] * b + s[i + 1]
    BY <2>1
  <2>3. h[i] = g[i + 1] /\ h[i - 1] = g[i]
    BY <2>1
  <2> HIDE DEF h
  <2> QED
    BY <1>1, <2>1, <2>2, <2>3
<1>5. h[n] = e * q + u
  <2> HIDE DEF h, e
  <2> QED
    BY <1>2, <1>3, <1>4 DEF Adds, n
<1>6. g[Len(s)] = e * q + u
  <2>1. n \in 0 .. n /\ n + 1 = Len(s)
    BY <1>1
  <2> QED
    BY <1>5, <2>1
<1>7. e * q = a * (b * q) + d * q
  <2>1. a \in Int /\ b \in Int /\ d \in Int /\ q \in Int
    BY DEF Bases
  <2> QED
    BY <2>1
<1>8. a * (b * q) \in Int /\ d * q \in Int
  BY DEF Bases
<1> QED
  BY <1>6, <1>7, <1>8

\* The digits of a number below the base times its place.
LEMMA DigitsAre ==
  ASSUME NEW b \in Bases, NEW v \in Nat, NEW p \in Places(b), v < b * p
  PROVE  /\ Digits(v, p, b) \in Seq(0 .. b - 1) /\ Len(Digits(v, p, b)) \in Nat \ {0}
         /\ Digits(v, p, b)[1] = v \div p /\ (p = 1 => Len(Digits(v, p, b)) = 1)
         /\ Adds(Digits(v, p, b), b, [step |-> b * p, rest |-> v])
<1> DEFINE f == CHOOSE f : IsDigits(f, p, v, b)
           C == 0 .. b - 1
<1>1. p \in Nat \ {0} /\ 0 \in C
  BY PlacesAre DEF Bases
<1>2. IsDigits(f, p, v, b)
  BY <1>1, DigitsExist
<1>3. Digits(v, p, b) = f[<<p, v>>]
  BY DEF Digits, IsDigits, Cat
<1> HIDE DEF f
<1>4. ASSUME NEW q \in 0 .. p, NEW u \in 0 .. v
      PROVE  f[<<q, u>>] = IF q = 0 THEN <<>> ELSE Cat(<<u \div q>>, f[<<q \div b, u % q>>])
  <2>1. <<q, u>> \in (0 .. p) \X (0 .. v) /\ <<q, u>>[1] = q /\ <<q, u>>[2] = u
    OBVIOUS
  <2> QED
    BY <1>2, <2>1 DEF IsDigits
<1> DEFINE Good(q, u) ==
             /\ f[<<q, u>>] \in Seq(C) /\ Len(f[<<q, u>>]) \in Nat \ {0}
             /\ f[<<q, u>>][1] = u \div q /\ (q = 1 => Len(f[<<q, u>>]) = 1)
             /\ Adds(f[<<q, u>>], b, [step |-> b * q, rest |-> u])
           S == {q \in Nat : \A u \in 0 .. v : q <= p /\ u < b * q => Good(q, u)}
<1>5. \A d \in C : \A t \in Seq(C) : /\ Cat(<<d>>, t) \in Seq(C) /\ Cat(<<d>>, t)[1] = d
                                     /\ Len(Cat(<<d>>, t)) = Len(t) + 1 /\ Len(t) \in Nat
  <2> SUFFICES ASSUME NEW d \in C, NEW t \in Seq(C)
               PROVE  /\ Cat(<<d>>, t) \in Seq(C) /\ Cat(<<d>>, t)[1] = d
                      /\ Len(Cat(<<d>>, t)) = Len(t) + 1 /\ Len(t) \in Nat
    OBVIOUS
  <2> DEFINE s == Cat(<<d>>, t)
  <2>1. s \in Seq(C) /\ s # <<>> /\ Head(s) = d /\ Tail(s) = t
    BY ConsIs
  <2> HIDE DEF s
  <2>2. Len(t) = Len(s) - 1 /\ Len(t) \in Nat /\ Len(s) \in Nat /\ s[1] = d
    BY <2>1, HeadTailProperties, LenProperties
  <2> QED
    BY <2>1, <2>2 DEF s
<1>6. 1 \in S
  <2> SUFFICES ASSUME NEW u \in 0 .. v, u < b * 1 PROVE Good(1, u)
    BY DEF S
  <2>1. 1 \in 0 .. p /\ u \in C /\ u \div 1 = u /\ u % 1 = 0 /\ 1 \div b = 0 /\ 0 \in 0 .. p /\ 0 \in 0 .. v
    BY <1>1 DEF Bases
  <2>2. f[<<0, 0>>] = <<>>
    BY <1>4, <2>1
  <2>3. f[<<1, u>>] = Cat(<<u>>, <<>>)
    BY <1>4, <2>1, <2>2
  <2>4. f[<<1, u>>] = <<u>> /\ <<u>> \in Seq(C) /\ Len(<<u>>) = 1 /\ <<u>>[1] = u
    <3>1. <<u>> \in Seq(C)
      BY <2>1
    <3>2. Cat(<<u>>, <<>>) = <<u>>
      BY <3>1, CatEmpty
    <3> QED
      BY <2>3, <3>1, <3>2
  <2>5. Adds(<<>>, b, [step |-> 1, rest |-> 0])
    BY DEF Adds
  <2>6. Adds(Cat(<<u>>, <<>>), b, [step |-> b * 1, rest |-> u * 1 + 0])
    BY <2>1, <2>5, AddsOne, EmptySeq
  <2>7. u * 1 + 0 = u
    BY <2>1
  <2>8. Adds(f[<<1, u>>], b, [step |-> b * 1, rest |-> u])
    BY <2>3, <2>6, <2>7
  <2>9. f[<<1, u>>] \in Seq(C) /\ Len(f[<<1, u>>]) = 1 /\ f[<<1, u>>][1] = u \div 1
    BY <2>1, <2>4
  <2> QED
    BY <2>8, <2>9
<1>7. ASSUME NEW q \in Places(b), q \in S PROVE b * q \in S
  <2>1. q \in Nat \ {0} /\ b * q \in Nat \ {0}
    BY PlacesAre
  <2> SUFFICES ASSUME NEW u \in 0 .. v, b * q <= p, u < b * (b * q) PROVE Good(b * q, u)
    BY <2>1
  <2> DEFINE r == b * q
             d == u \div r
             w == u % r
  <2>2. d \in Nat /\ w \in 0 .. r - 1 /\ u = d * r + w /\ w <= u
    <3>1. u \in Nat /\ r \in Nat \ {0}
      BY <2>1
    <3> HIDE DEF r
    <3> QED
      BY <3>1, DivMod
  <2>3. r \in 0 .. p /\ r # 0 /\ r # 1 /\ q <= p /\ r \div b = q /\ q \in 0 .. p /\ b \in Nat
    <3>1. b * q >= q /\ b * q # 1
      BY <2>1 DEF Bases
    <3>2. (b * q) \div b = q
      BY <2>1, Quotients
    <3> QED
      BY <1>1, <2>1, <3>1, <3>2 DEF Bases
  <2> HIDE DEF S
  <2>4. d \in C
    <3> HIDE DEF d, w, r
    <3>1. d * r < b * r
      <4>1. d * r \in Int /\ w \in Nat
        BY <2>2, <2>3
      <4>2. u < b * r
        BY DEF r
      <4>3. u \in Int /\ b * r \in Int
        BY <2>3
      <4> QED
        BY <2>2, <4>1, <4>2, <4>3
    <3>2. d < b
      BY <2>1, <2>2, <2>3, <3>1, Below
    <3> QED
      BY <2>2, <2>3, <3>2
  <2>5. w \in 0 .. v /\ w < b * q
    <3> HIDE DEF d, w
    <3>1. r \in Nat
      BY <2>1
    <3>2. w < r
      BY <2>2, <3>1
    <3>3. w \in 0 .. v
      BY <2>2, <3>1
    <3> QED
      BY <3>2, <3>3
  <2>6. Good(q, w)
    BY <1>7, <2>3, <2>5 DEF S
  <2> DEFINE t == f[<<q, w>>]
  <2>7. f[<<r, u>>] = Cat(<<d>>, t)
    BY <1>4, <2>3
  <2>8. t \in Seq(C) /\ Adds(t, b, [step |-> r, rest |-> w]) /\ Len(t) \in Nat
    BY <2>6
  <2> HIDE DEF t
  <2>9. Adds(Cat(<<d>>, t), b, [step |-> b * r, rest |-> u])
    <3> HIDE DEF d, r, w
    <3>1. Adds(Cat(<<d>>, t), b, [step |-> b * r, rest |-> d * r + w])
      BY <2>2, <2>3, <2>4, <2>8, AddsOne
    <3> QED
      BY <2>2, <3>1
  <2>10. Cat(<<d>>, t) \in Seq(C) /\ Cat(<<d>>, t)[1] = d /\ Len(Cat(<<d>>, t)) = Len(t) + 1
    BY <1>5, <2>4, <2>8
  <2> HIDE DEF d, w
  <2>11. Good(r, u)
    <3> HIDE DEF r
    <3>1. Len(t) + 1 \in Nat \ {0}
      BY <2>8
    <3> QED
      BY <2>3, <2>7, <2>9, <2>10, <3>1 DEF d
  <2> QED
    BY <2>11
<1>8. Places(b) \subseteq S
  <2> HIDE DEF S
  <2> QED
    BY <1>6, <1>7, PlacesInduct
<1>9. Good(p, v)
  BY <1>1, <1>8
<1> QED
  BY <1>3, <1>9

NumberLetters == {"d", "i", "u", "o", "x", "X"}
Shapes(letter) == IF letter = "X" THEN Upper ELSE Digit

\* The sixteen digits of a letter differ, the first is 0, and all are quiet.
LEMMA ShapesDiffer ==
  ASSUME NEW letter
  PROVE  /\ \A j, k \in 1 .. 16 : Shapes(letter)[j] = Shapes(letter)[k] => j = k
         /\ Shapes(letter)[1] = "0"
         /\ \A k \in 1 .. 16 : Shapes(letter)[k] \in Quiet
<1>1. \A j, k \in 1 .. 16 : Digit[j] = Digit[k] => j = k
  BY DEF Digit
<1>2. \A j, k \in 1 .. 16 : Upper[j] = Upper[k] => j = k
  BY DEF Upper
<1>3. Digit[1] = "0" /\ Upper[1] = "0"
  BY DEF Digit, Upper
<1>4. \A k \in 1 .. 16 : Digit[k] \in Quiet /\ Upper[k] \in Quiet
  <2>1. \A k \in 1 .. 16 : Digit[k] # "EOT" /\ Upper[k] # "EOT"
    BY DEF Digit, Upper
  <2> QED
    BY <2>1, DigitCharacters DEF Quiet
<1> QED
  BY <1>1, <1>2, <1>3, <1>4 DEF Shapes

IsValue(f, s, b) == f = [i \in 0 .. Len(s) |-> IF i = 0 THEN 0 ELSE f[i - 1] * b + s[i]]

\* There is a function that returns the value of a text's beginnings.
LEMMA ValueExists ==
  ASSUME NEW s, NEW b, Len(s) \in Nat
  PROVE  \E f : IsValue(f, s, b)
<1> DEFINE On(f, n) == f = [i \in 0 .. n |-> IF i = 0 THEN 0 ELSE f[i - 1] * b + s[i]]
           N == {n \in Nat : \E f : On(f, n)}
<1>1. 0 \in N
  <2> DEFINE f == [i \in 0 .. 0 |-> 0]
  <2>1. \A i \in 0 .. 0 : i = 0
    OBVIOUS
  <2>2. On(f, 0)
    BY <2>1
  <2> HIDE DEF On, f
  <2> QED
    BY <2>2
<1>2. ASSUME NEW n \in Nat, n \in N PROVE n + 1 \in N
  <2>1. PICK f : On(f, n)
    BY <1>2
  <2> DEFINE e == [i \in 0 .. n + 1 |-> IF i = 0 THEN 0 ELSE f[i - 1] * b + s[i]]
  <2>2. \A i \in 0 .. n : i \in 0 .. n + 1
    OBVIOUS
  <2>3. \A i \in 0 .. n : e[i] = f[i]
    BY <2>1, <2>2
  <2>4. \A i \in 0 .. n + 1 : i # 0 => i - 1 \in 0 .. n
    OBVIOUS
  <2>5. \A i \in 0 .. n + 1 : e[i] = IF i = 0 THEN 0 ELSE e[i - 1] * b + s[i]
    BY <2>3, <2>4
  <2>6. On(e, n + 1)
    BY <2>5
  <2> HIDE DEF On, e
  <2> QED
    BY <2>6
<1>3. Len(s) \in N
  <2> HIDE DEF N
  <2> QED
    BY <1>1, <1>2, NatInduct
<1> QED
  BY <1>3 DEF IsValue

\* Digits that say a number, without superfluous zeros, spell its numeral.
LEMMA DigitsSpell ==
  ASSUME NEW letter \in NumberLetters, NEW s \in Seq(0 .. Base(letter) - 1), s # <<>>, NEW f, IsValue(f, s, Base(letter)),
         Len(s) > 1 => s[1] # 0, NEW t, t = [i \in 1 .. Len(s) |-> Shapes(letter)[s[i] + 1]]
  PROVE  IsNumeral(t, letter, f[Len(s)]) /\ t \in Seq(Quiet) /\ Len(t) = Len(s)
<1> DEFINE b == Base(letter)
           h == Shapes(letter)
           C == 0 .. b - 1
<1>1. b \in Bases /\ b \in 1 .. 16
  BY DEF Base, Bases, NumberLetters
<1>2. s \in Seq(C) /\ Len(s) \in Nat \ {0}
  BY EmptySeq
<1>3. IsValue(f, s, b) /\ t = [i \in 1 .. Len(s) |-> h[s[i] + 1]]
  OBVIOUS
<1> HIDE DEF b, h
<1>4. \A i \in 1 .. Len(s) : s[i] \in C /\ s[i] + 1 \in 1 .. b /\ s[i] + 1 \in 1 .. 16 /\ s[i] \in Nat
  <2>1. \A i \in 1 .. Len(s) : s[i] \in C
    BY <1>2, ElementOfSeq
  <2>2. \A x \in C : x + 1 \in 1 .. b /\ x + 1 \in 1 .. 16 /\ x \in Nat
    BY <1>1
  <2> HIDE DEF C
  <2> QED
    BY <2>1, <2>2
<1>5. /\ \A j, k \in 1 .. 16 : h[j] = h[k] => j = k
      /\ h[1] = "0" /\ \A k \in 1 .. 16 : h[k] \in Quiet
  BY ShapesDiffer DEF h
<1>6. t \in Seq(Quiet) /\ Len(t) = Len(s) /\ \A i \in 1 .. Len(s) : t[i] = h[s[i] + 1]
  <2>1. t \in [1 .. Len(s) -> Quiet]
    BY <1>3, <1>4, <1>5
  <2> QED
    BY <1>2, <1>3, <2>1, FunctionIsSeq
<1> DEFINE digit(i) == CHOOSE k \in 0 .. b - 1 : h[k + 1] = t[i]
<1>7. \A i \in 1 .. Len(s) : digit(i) = s[i]
  <2> SUFFICES ASSUME NEW i \in 1 .. Len(s) PROVE digit(i) = s[i]
    OBVIOUS
  <2>1. s[i] \in 0 .. b - 1 /\ h[s[i] + 1] = t[i]
    BY <1>4, <1>6
  <2>2. \A k \in 0 .. b - 1 : h[k + 1] = t[i] => k = s[i]
    <3> SUFFICES ASSUME NEW k \in 0 .. b - 1, h[k + 1] = t[i] PROVE k = s[i]
      OBVIOUS
    <3>1. k + 1 \in 1 .. 16 /\ s[i] + 1 \in 1 .. 16 /\ s[i] \in Nat
      BY <1>1, <1>4
    <3>2. k + 1 = s[i] + 1
      BY <1>5, <2>1, <3>1
    <3> QED
      BY <3>1, <3>2
  <2> QED
    BY <2>1, <2>2
<1> HIDE DEF digit, C
<1> DEFINE value == CHOOSE g : g = [i \in 0 .. Len(t) |-> IF i = 0 THEN 0 ELSE g[i - 1] * b + digit(i)]
<1>8. value = [i \in 0 .. Len(t) |-> IF i = 0 THEN 0 ELSE value[i - 1] * b + digit(i)]
  <2>1. \A i \in 0 .. Len(s) : i # 0 => i \in 1 .. Len(s)
    BY <1>2
  <2>2. f = [i \in 0 .. Len(t) |-> IF i = 0 THEN 0 ELSE f[i - 1] * b + digit(i)]
    BY <1>3, <1>6, <1>7, <2>1, SMTT(60) DEF IsValue
  <2> QED
    BY <2>2
<1> HIDE DEF value
<1>9. value[Len(t)] = f[Len(s)]
  <2> DEFINE N == {n \in Nat : n <= Len(s) => value[n] = f[n]}
  <2>1. 0 \in N
    BY <1>2, <1>3, <1>6, <1>8 DEF IsValue
  <2>2. ASSUME NEW n \in Nat, n \in N PROVE n + 1 \in N
    <3> SUFFICES ASSUME n + 1 <= Len(s) PROVE value[n + 1] = f[n + 1]
      OBVIOUS
    <3>1. n + 1 \in 1 .. Len(s) /\ n + 1 \in 0 .. Len(s) /\ n + 1 # 0 /\ n + 1 - 1 = n /\ n <= Len(s)
      BY <1>2
    <3>2. value[n + 1] = value[n + 1 - 1] * b + digit(n + 1)
      BY <1>6, <1>8, <3>1
    <3>3. f[n + 1] = f[n + 1 - 1] * b + s[n + 1]
      BY <1>3, <3>1 DEF IsValue
    <3>4. value[n] = f[n] /\ digit(n + 1) = s[n + 1]
      BY <1>7, <2>2, <3>1
    <3> QED
      BY <3>1, <3>2, <3>3, <3>4
  <2>3. Len(s) \in N
    <3> HIDE DEF N
    <3> QED
      BY <1>2, <2>1, <2>2, NatInduct
  <2> QED
    BY <1>2, <1>6, <2>3
<1>10. Len(t) > 1 => t[1] # "0"
  <2> SUFFICES ASSUME Len(t) > 1, t[1] = "0" PROVE FALSE
    OBVIOUS
  <2>1. 1 \in 1 .. Len(s) /\ s[1] # 0
    BY <1>2, <1>6
  <2>2. h[s[1] + 1] = h[1] /\ s[1] + 1 \in 1 .. 16 /\ s[1] \in Nat
    BY <1>4, <1>5, <1>6, <2>1
  <2>3. s[1] + 1 = 1
    <3>1. 1 \in 1 .. 16
      OBVIOUS
    <3> QED
      BY <1>5, <2>2, <3>1
  <2> QED
    BY <2>1, <2>2, <2>3
<1>11. t # <<>>
  BY <1>2, <1>6, EmptySeq
<1>12. \A i \in 1 .. Len(t) : \E k \in 1 .. b : h[k] = t[i]
  BY <1>4, <1>6
<1> DEFINE n == f[Len(s)]
<1>13. value[Len(t)] = n
  BY <1>9
<1> HIDE DEF n
<1>14. IsNumeral(t, letter, n)
  BY <1>10, <1>11, <1>12, <1>13 DEF IsNumeral, value, digit, h, b, Shapes
<1> QED
  BY <1>6, <1>14 DEF n

\* The digits of a number in the characters of its letter.
Numeral(letter, v) ==
  LET s == Digits(v, Place(v, Base(letter)), Base(letter))
  IN [i \in 1 .. Len(s) |-> Shapes(letter)[s[i] + 1]]

\* A numeral is one: its digits have the value of the number, and the first is not 0 unless it is alone.
LEMMA NumeralIs ==
  ASSUME NEW letter \in NumberLetters, NEW v \in Nat
  PROVE  /\ IsNumeral(Numeral(letter, v), letter, v)
         /\ Numeral(letter, v) \in Seq(Quiet)
         /\ Len(Numeral(letter, v)) = Len(Digits(v, Place(v, Base(letter)), Base(letter)))
<1> DEFINE b == Base(letter)
           p == Place(v, b)
           ss == Digits(v, p, b)
           tt == Numeral(letter, v)
<1>1. b \in Bases
  BY DEF Base, Bases, NumberLetters
<1>2. tt = [i \in 1 .. Len(ss) |-> Shapes(letter)[ss[i] + 1]]
  BY DEF Numeral
<1> HIDE DEF tt
<1>3. p \in Places(b) /\ v < b * p /\ (p # 1 => p <= v) /\ p \in Nat \ {0}
  <2> HIDE DEF b
  <2> QED
    BY <1>1, PlaceIs, PlacesAre
<1> HIDE DEF p
<1>4. /\ ss \in Seq(0 .. b - 1) /\ Len(ss) \in Nat \ {0} /\ ss[1] = v \div p /\ (p = 1 => Len(ss) = 1)
      /\ Adds(ss, b, [step |-> b * p, rest |-> v])
  <2> HIDE DEF b
  <2> QED
    BY <1>1, <1>3, DigitsAre
<1> HIDE DEF ss
<1>5. PICK f : IsValue(f, ss, b)
  BY <1>4, ValueExists
<1>6. f[Len(ss)] = v
  <2>1. f[0] = 0 /\ \A i \in 1 .. Len(ss) : f[i] = f[i - 1] * b + ss[i]
    <3>1. 0 \in 0 .. Len(ss) /\ \A i \in 1 .. Len(ss) : i \in 0 .. Len(ss) /\ i # 0
      BY <1>4
    <3> QED
      BY <1>5, <3>1 DEF IsValue
  <2> HIDE DEF b
  <2>2. f[Len(ss)] = 0 * (b * p) + v
    BY <1>4, <2>1 DEF Adds
  <2>3. 0 * (b * p) = 0
    BY <1>1, <1>3 DEF Bases
  <2> QED
    BY <2>2, <2>3
<1>7. Len(ss) > 1 => ss[1] # 0
  <2> SUFFICES ASSUME Len(ss) > 1, ss[1] = 0 PROVE FALSE
    OBVIOUS
  <2>1. p # 1 /\ p <= v
    <3>1. Len(ss) # 1
      BY SMTT(60)
    <3> QED
      BY <1>3, <1>4, <3>1, Zenon
  <2>2. v = (v \div p) * p + (v % p) /\ v % p \in 0 .. p - 1
    BY <1>3, DivMod
  <2>3. v \div p = 0
    BY <1>4
  <2>4. v = v % p
    BY <1>3, <2>2, <2>3
  <2> QED
    BY <1>3, <2>1, <2>2, <2>4
<1>8. ss # <<>>
  BY <1>4, EmptySeq
<1>9. IsNumeral(tt, letter, f[Len(ss)]) /\ tt \in Seq(Quiet) /\ Len(tt) = Len(ss)
  BY <1>2, <1>4, <1>5, <1>7, <1>8, DigitsSpell
<1> QED
  BY <1>6, <1>9 DEF tt, ss, p

\* The list is the one and then the other, and both can be read back.
Splits(r, s, t) ==
  Len(r) = Len(s) + Len(t) /\ SubSeq(r, 1, Len(s)) = s /\ SubSeq(r, Len(s) + 1, Len(r)) = t

\* A joined list splits where it was joined.
LEMMA CatSplits ==
  ASSUME NEW C, NEW s \in Seq(C), NEW t \in Seq(C)
  PROVE  Splits(Cat(s, t), s, t)
<1> DEFINE w == Cat(s, t)
           m == Len(s)
           n == Len(t)
<1>1. /\ m \in Nat /\ n \in Nat /\ w \in Seq(C) /\ Len(w) = m + n /\ Len(s) = m /\ Len(t) = n
      /\ \A i \in 1 .. m + n : w[i] = IF i <= m THEN s[i] ELSE t[i - m]
  BY ConcatProperties, LenProperties DEF Cat
<1> HIDE DEF w, m, n
<1>2. \A i \in 1 .. m + n : w[i] \in C
  BY <1>1, ElementOfSeq
<1>3. SubSeq(w, 1, m) = s
  <2> DEFINE u == SubSeq(w, 1, m)
  <2>1. 1 \in Int /\ m \in Int /\ \A i \in 1 .. m : w[i] \in C
    BY <1>1, <1>2
  <2>2. /\ u \in Seq(C) /\ Len(u) = (IF 1 <= m THEN m - 1 + 1 ELSE 0)
        /\ \A i \in 1 .. m - 1 + 1 : u[i] = w[1 + i - 1]
    BY <2>1, SubSeqProperties
  <2> HIDE DEF u
  <2>3. Len(u) = m /\ \A i \in 1 .. m : i \in 1 .. m - 1 + 1 /\ i \in 1 .. m + n /\ i <= m /\ 1 + i - 1 = i
    BY <1>1, <2>2
  <2>4. \A i \in 1 .. m : u[i] = s[i]
    BY <1>1, <2>2, <2>3
  <2>5. u = s
    BY <1>1, <2>2, <2>3, <2>4, SeqEqual
  <2> QED
    BY <2>5 DEF u
<1>4. SubSeq(w, m + 1, m + n) = t
  <2> DEFINE u == SubSeq(w, m + 1, m + n)
  <2>2. /\ u \in Seq(C) /\ Len(u) = (IF m + 1 <= m + n THEN m + n - (m + 1) + 1 ELSE 0)
        /\ \A i \in 1 .. m + n - (m + 1) + 1 : u[i] = w[m + 1 + i - 1]
    <3> DEFINE j == m + 1
               k == m + n
    <3>1. j \in Int /\ k \in Int /\ \A i \in j .. k : w[i] \in C
      BY <1>1, <1>2
    <3> HIDE DEF j, k
    <3>2. /\ SubSeq(w, j, k) \in Seq(C) /\ Len(SubSeq(w, j, k)) = (IF j <= k THEN k - j + 1 ELSE 0)
          /\ \A i \in 1 .. k - j + 1 : SubSeq(w, j, k)[i] = w[j + i - 1]
      BY <3>1, SubSeqProperties
    <3> QED
      BY <1>1, <3>2 DEF j, k
  <2> HIDE DEF u
  <2>3. Len(u) = n /\ m + n - (m + 1) + 1 = n
    BY <1>1, <2>2
  <2>4. ASSUME NEW i \in 1 .. n PROVE u[i] = t[i]
    <3>1. m + 1 + i - 1 = m + i /\ m + i \in 1 .. m + n /\ ~(m + i <= m) /\ m + i - m = i
      BY <1>1
    <3>2. i \in 1 .. m + n - (m + 1) + 1
      BY <2>3
    <3>3. u[i] = w[m + i]
      BY <2>2, <3>1, <3>2
    <3>4. w[m + i] = t[m + i - m]
      <4> DEFINE j == m + i
      <4>1. j \in 1 .. m + n /\ ~(j <= m)
        BY <3>1
      <4> HIDE DEF j
      <4>2. w[j] = t[j - m]
        BY <1>1, <4>1
      <4> QED
        BY <1>1, <3>1, <4>2 DEF j
    <3> QED
      BY <3>1, <3>3, <3>4
  <2>5. u = t
    BY <1>1, <2>2, <2>3, <2>4, SeqEqual
  <2> QED
    BY <2>5 DEF u
<1> QED
  BY <1>1, <1>3, <1>4 DEF w, m, n, Splits

\* So many of a character, and none when the number is not positive.
LEMMA RepeatIs ==
  ASSUME NEW C, NEW c \in C, NEW r \in Int
  PROVE  /\ Repeat(c, r) \in Seq(C) /\ Len(Repeat(c, r)) = (IF r > 0 THEN r ELSE 0)
         /\ (r <= 0 => Repeat(c, r) = <<>>)
<1> DEFINE n == IF r > 0 THEN r ELSE 0
<1>1. n \in Nat
  OBVIOUS
<1>2. Repeat(c, r) = [i \in 1 .. n |-> c]
  BY DEF Repeat
<1> HIDE DEF n
<1>3. Repeat(c, r) \in [1 .. n -> C]
  BY <1>2
<1>4. Repeat(c, r) \in Seq(C) /\ Len(Repeat(c, r)) = n
  BY <1>1, <1>3, FunctionIsSeq
<1>5. r <= 0 => n = 0
  BY DEF n
<1>6. r <= 0 => Repeat(c, r) = <<>>
  BY <1>4, <1>5, EmptySeq
<1> QED
  BY <1>4, <1>6 DEF n

\* Words are split in two halves by their sign, and what is printed of one is a number.
LEMMA WordIs ==
  /\ 2 ^ Width \in Nat \ {0} /\ 2 ^ (Width - 1) \in Nat \ {0}
  /\ \A letter : \A v \in 0 .. 2 ^ Width - 1 : Magnitude(letter, v) \in Nat
<1>3. Width \in Nat \ {0}
  BY FormatsAssumption
<1>1. Width \in 0 .. Width + 3 /\ Width - 1 \in 0 .. Width + 3
  BY <1>3
<1>2. 2 ^ Width \in Nat \ {0} /\ 2 ^ (Width - 1) \in Nat \ {0}
  BY <1>1, FormatsAssumption
<1> QED
  BY <1>2 DEF Magnitude

\* The field width as alt_log_private_printf keeps it.
Field(d) == IF d.width > 0 THEN d.width ELSE -1
Conversion(d) == [Conversions[d.letter] EXCEPT !.zero = d.zero, !.before = Field(d)]

\* What a letter sets up: the base, the sign and the case of its conversion.
LEMMA ConversionsAre ==
  ASSUME NEW c \in NumberLetters
  PROVE  /\ Conversions[c].base = Base(c) /\ (Conversions[c].signed <=> c \in {"d", "i"})
         /\ (Conversions[c].upper <=> c = "X") /\ DOMAIN Conversions[c] = DOMAIN Blank
<1>1. CASE c = "d"
  <2>1. Conversions[c] = Blank
    BY <1>1 DEF Conversions
  <2> QED
    BY <1>1, <2>1 DEF Blank, Base
<1>2. CASE c = "i"
  <2>1. Conversions[c] = Blank
    BY <1>2 DEF Conversions
  <2> QED
    BY <1>2, <2>1 DEF Blank, Base
<1>3. CASE c = "u"
  <2>1. Conversions[c] = [Blank EXCEPT !.signed = FALSE]
    BY <1>3 DEF Conversions
  <2> QED
    BY <1>3, <2>1 DEF Blank, Base
<1>4. CASE c = "o"
  <2>1. Conversions[c] = [Blank EXCEPT !.signed = FALSE, !.base = 8]
    BY <1>4 DEF Conversions
  <2> QED
    BY <1>4, <2>1 DEF Blank, Base
<1>5. CASE c = "x"
  <2>1. Conversions[c] = [Blank EXCEPT !.signed = FALSE, !.base = 16]
    BY <1>5 DEF Conversions
  <2> QED
    BY <1>5, <2>1 DEF Blank, Base
<1>6. CASE c = "X"
  <2>1. Conversions[c] = [Blank EXCEPT !.signed = FALSE, !.base = 16, !.upper = TRUE]
    BY <1>6 DEF Conversions
  <2> QED
    BY <1>6, <2>1 DEF Blank, Base
<1> QED
  BY <1>1, <1>2, <1>3, <1>4, <1>5, <1>6 DEF NumberLetters

\* The same of a whole directive, with its field and its zero.
LEMMA ConversionIs ==
  ASSUME NEW d, d.letter \in NumberLetters
  PROVE  /\ Conversion(d).base = Base(d.letter) /\ (Conversion(d).signed <=> d.letter \in {"d", "i"})
         /\ (Conversion(d).upper <=> d.letter = "X") /\ Conversion(d).zero = d.zero /\ Conversion(d).before = Field(d)
<1> DEFINE f == Conversions[d.letter]
<1>1. /\ f.base = Base(d.letter) /\ (f.signed <=> d.letter \in {"d", "i"}) /\ (f.upper <=> d.letter = "X")
      /\ DOMAIN f = DOMAIN Blank
  BY ConversionsAre
<1>2. "zero" \in DOMAIN f /\ "before" \in DOMAIN f
  BY <1>1 DEF Blank
<1>3. Conversion(d) = [f EXCEPT !.zero = d.zero, !.before = Field(d)]
  BY DEF Conversion
<1> HIDE DEF f
<1>4. /\ Conversion(d).base = f.base /\ Conversion(d).signed = f.signed /\ Conversion(d).upper = f.upper
  BY <1>3
<1>5. Conversion(d).zero = d.zero /\ Conversion(d).before = Field(d)
  BY <1>2, <1>3
<1> QED
  BY <1>1, <1>4, <1>5

\* A list of one.
LEMMA SingletonIsSeq ==
  ASSUME NEW C, NEW c \in C
  PROVE  <<c>> \in Seq(C) /\ Len(<<c>>) = 1
OBVIOUS

\* What a conversion is padded and signed with is quiet.
LEMMA QuietIs ==
  /\ " " \in Quiet /\ "-" \in Quiet /\ "0" \in Quiet /\ "%" \in Quiet
BY DigitCharacters DEF Quiet

\* A number is converted as its directive says.
LEMMA NumberIs ==
  ASSUME NEW C, NEW d \in Directives(C), d.letter \in NumberLetters, NEW v \in 0 .. 2 ^ Width - 1
  PROVE  /\ Number(Conversion(d), v) \in Seq(Quiet)
         /\ Answers(Number(Conversion(d), v), d, v)
<1> DEFINE l == d.letter
           n == Magnitude(l, v)
           minus == IF Minus(l, v) THEN <<"-">> ELSE <<>>
           num == Numeral(l, n)
           room == Field(d) - Len(num) - (IF Minus(l, v) THEN 1 ELSE 0)
           r == IF room > 0 THEN room ELSE 0
           front == IF d.zero THEN Cat(minus, Repeat("0", room)) ELSE Cat(Repeat(" ", room), minus)
           t == Cat(front, num)
<1>1. d.zero \in BOOLEAN /\ d.width \in 0 .. 9 /\ d.letter # "%" /\ l \in Letters /\ n \in Nat
  <2>1. l \in Letters
    BY DEF NumberLetters, Letters
  <2> QED
    BY <2>1, DirectiveIs, WordIs
<1>2. IsNumeral(num, l, n) /\ num \in Seq(Quiet) /\ Len(num) = Len(Digits(n, Place(n, Base(l)), Base(l))) /\ Len(num) \in Nat
  <2>1. IsNumeral(num, l, n) /\ num \in Seq(Quiet) /\ Len(num) = Len(Digits(n, Place(n, Base(l)), Base(l)))
    BY <1>1, NumeralIs
  <2> QED
    BY <2>1, LenProperties
<1>3. Number(Conversion(d), v) = t
  <2> DEFINE f == Conversion(d)
             ds == Digits(n, Place(n, Base(l)), Base(l))
  <2>1. /\ f.base = Base(l) /\ (f.signed <=> l \in {"d", "i"}) /\ (f.upper <=> l = "X") /\ f.zero = d.zero
        /\ f.before = Field(d)
    BY ConversionIs
  <2> HIDE DEF f
  <2>2. (f.signed /\ v >= 2 ^ (Width - 1)) <=> Minus(l, v)
    BY <2>1 DEF Minus
  <2>3. n = IF Minus(l, v) THEN 2 ^ Width - v ELSE v
    BY DEF Magnitude
  <2>4. num = [i \in 1 .. Len(ds) |-> (IF f.upper THEN Upper ELSE Digit)[ds[i] + 1]]
    BY <2>1 DEF Numeral, Shapes
  <2>5. Len(ds) = Len(num)
    BY <1>2
  <2>6. Number(f, v) =
          (IF f.zero THEN minus \o Repeat("0", Field(d) - Len(ds) - (IF Minus(l, v) THEN 1 ELSE 0))
           ELSE Repeat(" ", Field(d) - Len(ds) - (IF Minus(l, v) THEN 1 ELSE 0)) \o minus)
            \o [i \in 1 .. Len(ds) |-> (IF f.upper THEN Upper ELSE Digit)[ds[i] + 1]]
    BY <2>1, <2>2, <2>3, Zenon DEF Number
  <2>7. Number(f, v) = (IF f.zero THEN minus \o Repeat("0", room) ELSE Repeat(" ", room) \o minus) \o num
    BY <2>4, <2>5, <2>6, Zenon
  <2> HIDE DEF room, num, minus
  <2>8. Number(f, v) = (IF d.zero THEN Cat(minus, Repeat("0", room)) ELSE Cat(Repeat(" ", room), minus)) \o num
    BY <2>1, <2>7, Zenon DEF Cat
  <2> QED
    BY <2>8, Zenon DEF Cat, f
<1> DEFINE k == IF Minus(l, v) THEN 1 ELSE 0
<1>4. minus \in Seq(Quiet) /\ Len(minus) = k /\ k \in Nat
  <2> DEFINE dash == "-"
  <2>1. dash \in Quiet
    BY QuietIs
  <2>2. minus = IF Minus(l, v) THEN <<dash>> ELSE <<>>
    OBVIOUS
  <2> HIDE DEF dash, minus
  <2>3. <<dash>> \in Seq(Quiet) /\ Len(<<dash>>) = 1
    BY <2>1, SingletonIsSeq
  <2>4. Len(<<>>) = 0 /\ <<>> \in Seq(Quiet)
    OBVIOUS
  <2> QED
    BY <2>2, <2>3, <2>4
<1>5. Field(d) \in Int /\ room \in Int /\ r \in Nat /\ room = Field(d) - Len(num) - k
  <2>1. Field(d) \in Int
    BY <1>1 DEF Field
  <2> HIDE DEF num
  <2> QED
    BY <1>2, <1>4, <2>1
<1> DEFINE space0 == Repeat("0", room)
           space1 == Repeat(" ", room)
<1>6. /\ space0 \in Seq(Quiet) /\ Len(space0) = r /\ (r = 0 => space0 = <<>>)
      /\ space1 \in Seq(Quiet) /\ Len(space1) = r /\ (r = 0 => space1 = <<>>)
  <2> DEFINE c0 == "0"
             c1 == " "
  <2>1. c0 \in Quiet /\ c1 \in Quiet /\ space0 = Repeat(c0, room) /\ space1 = Repeat(c1, room)
    BY QuietIs
  <2>2. r = IF room > 0 THEN room ELSE 0
    OBVIOUS
  <2> HIDE DEF c0, c1, space0, space1, room, r
  <2>3. space0 \in Seq(Quiet) /\ Len(space0) = r /\ (room <= 0 => space0 = <<>>)
    BY <1>5, <2>1, <2>2, RepeatIs
  <2>4. space1 \in Seq(Quiet) /\ Len(space1) = r /\ (room <= 0 => space1 = <<>>)
    BY <1>5, <2>1, <2>2, RepeatIs
  <2>5. r = 0 => room <= 0
    BY <1>5, <2>2
  <2> QED
    BY <2>3, <2>4, <2>5
<1>14. space0 = [i \in 1 .. r |-> "0"] /\ space1 = [i \in 1 .. r |-> " "]
  BY DEF Repeat
<1>15. (r = 0 => room <= 0) /\ (r > 0 => room = r)
  BY <1>5
<1> HIDE DEF minus, num, room, k, r, space0, space1
<1>7. front \in Seq(Quiet) /\ Len(front) = r + k
  <2>1. Cat(minus, space0) \in Seq(Quiet) /\ Len(Cat(minus, space0)) = k + r
    <3>1. Cat(minus, space0) \in Seq(Quiet) /\ Len(Cat(minus, space0)) = Len(minus) + Len(space0)
      BY <1>4, <1>6, CatType, CatSplits DEF Splits
    <3> QED
      BY <1>4, <1>6, <3>1
  <2>2. Cat(space1, minus) \in Seq(Quiet) /\ Len(Cat(space1, minus)) = r + k
    <3>1. Cat(space1, minus) \in Seq(Quiet) /\ Len(Cat(space1, minus)) = Len(space1) + Len(minus)
      BY <1>4, <1>6, CatType, CatSplits DEF Splits
    <3> QED
      BY <1>4, <1>6, <3>1
  <2>3. k + r = r + k
    BY <1>4, <1>5
  <2> QED
    BY <2>1, <2>2, <2>3 DEF space0, space1
<1> DEFINE fill == Len(front)
           blanks == IF d.zero THEN 0 ELSE r
           zeros == IF d.zero THEN r ELSE 0
<1>9. front = Cat(Cat([i \in 1 .. blanks |-> " "], minus), [i \in 1 .. zeros |-> "0"])
  <2>2. \A c : [i \in 1 .. 0 |-> c] = <<>>
    OBVIOUS
  <2>3. CASE d.zero
    <3>1. Cat(<<>>, minus) = minus
      BY <1>4, CatEmpty
    <3>2. blanks = 0 /\ zeros = r /\ front = Cat(minus, space0)
      BY <2>3 DEF space0
    <3> HIDE DEF blanks, zeros, front
    <3>3. [i \in 1 .. blanks |-> " "] = <<>> /\ [i \in 1 .. zeros |-> "0"] = space0
      BY <1>14, <2>2, <3>2
    <3> QED
      BY <3>1, <3>2, <3>3
  <2>4. CASE ~d.zero
    <3>1. Cat(Cat(space1, minus), <<>>) = Cat(space1, minus)
      BY <1>4, <1>6, CatEmpty, CatType
    <3>2. blanks = r /\ zeros = 0 /\ front = Cat(space1, minus)
      BY <2>4 DEF space1
    <3> HIDE DEF blanks, zeros, front
    <3>3. [i \in 1 .. zeros |-> "0"] = <<>> /\ [i \in 1 .. blanks |-> " "] = space1
      BY <1>14, <2>2, <3>2
    <3> QED
      BY <3>1, <3>2, <3>3
  <2> QED
    BY <2>3, <2>4
<1> HIDE DEF front
<1>8. t \in Seq(Quiet) /\ Len(t) = fill + Len(num) /\ SubSeq(t, 1, fill) = front /\ SubSeq(t, fill + 1, Len(t)) = num
  <2>1. t \in Seq(Quiet)
    BY <1>2, <1>7, CatType
  <2>2. Splits(t, front, num)
    BY <1>2, <1>7, CatSplits
  <2>3. Len(front) = fill
    BY <1>7
  <2> HIDE DEF t, fill
  <2> QED
    BY <2>1, <2>2, <2>3 DEF Splits
<1>16. fill = r + k
  BY <1>7
<1> HIDE DEF t, fill
<1>17. blanks \in Nat /\ zeros \in Nat /\ blanks + zeros = r
  BY <1>1, <1>5
<1> HIDE DEF blanks, zeros
<1>10. Len(minus) \in Nat /\ fill = blanks + Len(minus) + zeros /\ fill \in Nat
  BY <1>4, <1>5, <1>16, <1>17
<1>11. Len(t) >= d.width /\ (blanks + zeros > 0 => Len(t) = d.width)
  <2>1. Field(d) = IF d.width > 0 THEN d.width ELSE -1
    BY DEF Field
  <2> DEFINE wd == d.width
             x == Field(d)
             y == Len(num)
             z == Len(t)
  <2>2. wd \in Nat /\ x \in Int /\ y \in Nat /\ z = fill + y /\ room = x - y - k /\ x = IF wd > 0 THEN wd ELSE -1
    BY <1>1, <1>2, <1>5, <1>8, <2>1, SMTT(60)
  <2> HIDE DEF wd, x, y, z
  <2>3. z >= wd /\ (r > 0 => z = wd)
    BY <1>4, <1>5, <1>15, <1>16, <2>2, SMTT(60)
  <2> QED
    BY <1>17, <2>3 DEF wd, z
<1>12. blanks \in 0 .. Len(t) /\ zeros \in 0 .. Len(t) /\ fill <= Len(t)
  BY <1>2, <1>8, <1>10, <1>17
<1> HIDE DEF n
<1>13. front = [i \in 1 .. blanks |-> " "] \o minus \o [i \in 1 .. zeros |-> "0"]
  BY <1>9, Zenon DEF Cat
<1>18. \E bl, ze \in 0 .. Len(t) :
           LET sign == IF Minus(l, v) THEN <<"-">> ELSE <<>>
               fi == bl + Len(sign) + ze
           IN /\ fi <= Len(t)
              /\ SubSeq(t, 1, fi) = [i \in 1 .. bl |-> " "] \o sign \o [i \in 1 .. ze |-> "0"]
              /\ IsNumeral(SubSeq(t, fi + 1, Len(t)), l, n)
              /\ (d.zero => bl = 0) /\ (~d.zero => ze = 0)
              /\ Len(t) >= d.width /\ (bl + ze > 0 => Len(t) = d.width)
  <2>1. (d.zero => blanks = 0) /\ (~d.zero => zeros = 0)
    BY DEF blanks, zeros
  <2>2. IsNumeral(SubSeq(t, fill + 1, Len(t)), l, n)
    BY <1>2, <1>8
  <2>3. SubSeq(t, 1, fill) = [i \in 1 .. blanks |-> " "] \o minus \o [i \in 1 .. zeros |-> "0"]
    BY <1>8, <1>13
  <2>4. fill = blanks + Len(minus) + zeros
    BY <1>10
  <2>5. minus = IF Minus(l, v) THEN <<"-">> ELSE <<>>
    BY DEF minus
  <2> HIDE DEF l
  <2> QED
    BY <1>11, <1>12, <2>1, <2>2, <2>3, <2>4, <2>5, Zenon
<1>19. Answers(t, d, v)
  <2>1. d.letter # "%" /\ d.letter \notin {"c", "s"}
    BY DEF NumberLetters
  <2> QED
    BY <1>18, <2>1, Zenon DEF Answers, n
<1> QED
  BY <1>3, <1>8, <1>19

\* A string is filled with blanks on its left.
LEMMA StringIs ==
  ASSUME NEW C, NEW d \in Directives(C), d.letter \in {"c", "s"}, NEW arg,
         NEW s \in Seq(Quiet), s = IF d.letter = "c" THEN <<arg>> ELSE arg
  PROVE  LET t == Repeat(" ", Field(d) - Len(s)) \o s IN t \in Seq(Quiet) /\ Answers(t, d, arg)
<1> DEFINE n == Len(s)
           room == Field(d) - n
           blanks == IF d.width > n THEN d.width - n ELSE 0
           blank == " "
           b == Repeat(blank, room)
<1>1. d.width \in Nat /\ n \in Nat
  <2>1. d.letter \in Letters
    BY DEF Letters
  <2> QED
    BY <2>1, DirectiveIs, LenProperties
<1>2. room \in Int /\ blanks = IF room > 0 THEN room ELSE 0
  <2> HIDE DEF n
  <2> QED
    BY <1>1 DEF Field
<1>3. b = [i \in 1 .. blanks |-> " "]
  <2> HIDE DEF room, blanks
  <2> QED
    BY <1>2 DEF Repeat
<1>4. b \in Seq(Quiet)
  <2>1. blank \in Quiet
    BY QuietIs
  <2> HIDE DEF blank, room
  <2> QED
    BY <1>2, <2>1, RepeatIs
<1> DEFINE t == b \o s
<1>5. t \in Seq(Quiet)
  <2>1. Cat(b, s) \in Seq(Quiet)
    BY <1>4, CatType
  <2> QED
    BY <2>1, Zenon DEF Cat
<1>6. t = [i \in 1 .. blanks |-> " "] \o s
  BY <1>3, Zenon
<1>7. Answers(t, d, arg)
  <2>1. d.letter # "%"
    OBVIOUS
  <2> HIDE DEF t, b
  <2>2. t = [i \in 1 .. (IF d.width > Len(s) THEN d.width - Len(s) ELSE 0) |-> " "] \o s
    BY <1>6
  <2> HIDE DEF n, blanks, room
  <2> QED
    BY <2>1, <2>2, Zenon DEF Answers
<1> QED
  BY <1>5, <1>7

-----------------------------------------------------------------------------
(* A call of alt_log_private_printf *)

CallFields == {"w", "args", "state", "fmt", "out", "checked", "text", "directives", "given"}
FmtFields == {"zero", "base", "signed", "upper", "before", "after"}

\* A digit that is parsed has its value, and is no letter, sign or dot.
LEMMA DigitsDiffer ==
  \A k \in 1 .. 10 : /\ IsDigit(Digit[k]) /\ DigitValue(Digit[k]) = k - 1
                     /\ Digit[k] \notin {"%", ".", "l"} /\ (k # 1 => Digit[k] # "0")
<1>1. \A j, k \in 1 .. 10 : Digit[j] = Digit[k] => j = k
  BY DEF Digit
<1>2. \A k \in 1 .. 10 : Digit[k] \notin {"%", ".", "l"} /\ (k # 1 => Digit[k] # "0")
  BY DEF Digit
<1>3. ASSUME NEW k \in 1 .. 10 PROVE DigitValue(Digit[k]) = k - 1
  <2>1. (CHOOSE j \in 1 .. 10 : Digit[j] = Digit[k]) = k
    BY <1>1
  <2> QED
    BY <2>1 DEF DigitValue
<1> QED
  BY <1>2, <1>3 DEF IsDigit

\* A letter that ends a directive is no digit, sign or dot.
LEMMA LettersDiffer ==
  \A c \in Letters : ~IsDigit(c) /\ c \notin {"%", ".", "l", "0"}
<1>1. \A k \in 1 .. 10 : Digit[k] \notin Letters
  BY DEF Digit, Letters
<1> QED
  BY <1>1 DEF IsDigit, Letters

\* The digit of the width.
LEMMA WidthIs ==
  ASSUME NEW q, NEW w \in 1 .. 9, DOMAIN q = CallFields, DOMAIN q.fmt = FmtFields,
         q.fmt.before = -1, q.fmt.after = -1
  PROVE  LET r == OtherFmtChar(q, Digit[w + 1])
         IN /\ DOMAIN r = CallFields /\ DOMAIN r.fmt = FmtFields
            /\ r.state = "other" /\ r.fmt.before = w /\ r.fmt.after = -1 /\ r.fmt.zero = q.fmt.zero
            /\ r.w = q.w /\ r.args = q.args /\ r.out = q.out /\ r.checked = q.checked /\ r.text = q.text
            /\ r.directives = q.directives /\ r.given = q.given
<1> DEFINE c == Digit[w + 1]
           b == [q EXCEPT !.state = "other"]
           r == [b EXCEPT !.fmt.before = w]
<1>1. w + 1 \in 1 .. 10 /\ w + 1 # 1
  OBVIOUS
<1>2. IsDigit(c) /\ DigitValue(c) = w + 1 - 1 /\ c \notin {"%", ".", "l"}
  BY <1>1, DigitsDiffer
<1>3. DigitValue(c) = w
  BY <1>1, <1>2
<1>4. /\ q.fmt.after < 0 /\ ~(q.fmt.after >= 0)
      /\ (IF q.fmt.before < 0 THEN 0 ELSE 10 * q.fmt.before) + DigitValue(c) = w
  BY <1>3
<1> HIDE DEF c
<1>5. OtherFmtChar(q, c) = r
  BY <1>2, <1>4, Zenon DEF OtherFmtChar
<1>6. /\ DOMAIN b = CallFields /\ b.fmt = q.fmt /\ b.state = "other" /\ b.w = q.w /\ b.args = q.args /\ b.out = q.out
      /\ b.checked = q.checked /\ b.text = q.text /\ b.directives = q.directives /\ b.given = q.given
  BY DEF CallFields
<1> HIDE DEF b
<1>7. /\ DOMAIN r = CallFields /\ DOMAIN r.fmt = FmtFields
      /\ r.state = "other" /\ r.fmt.before = w /\ r.fmt.after = -1 /\ r.fmt.zero = q.fmt.zero
      /\ r.w = q.w /\ r.args = q.args /\ r.out = q.out /\ r.checked = q.checked /\ r.text = q.text
      /\ r.directives = q.directives /\ r.given = q.given
  <2> DEFINE f == [b.fmt EXCEPT !.before = w]
             x == [b EXCEPT !.fmt = f]
  <2>1. r = x
    OBVIOUS
  <2>2. DOMAIN f = FmtFields /\ f.before = w /\ f.after = -1 /\ f.zero = q.fmt.zero
    BY <1>6 DEF FmtFields
  <2> HIDE DEF f, r
  <2>3. /\ DOMAIN x = CallFields /\ x.fmt = f
        /\ x.state = b.state /\ x.w = b.w /\ x.args = b.args /\ x.out = b.out /\ x.checked = b.checked
        /\ x.text = b.text /\ x.directives = b.directives /\ x.given = b.given
    BY <1>6 DEF CallFields
  <2> HIDE DEF x
  <2> QED
    BY <1>6, <2>1, <2>2, <2>3
<1> QED
  BY <1>5, <1>7 DEF c

\* The letter, after its argument.
LEMMA LetterIs ==
  ASSUME NEW q, NEW d \in Directives(Quiet), d.letter \in Letters, NEW v, v \in Argument(d, Quiet),
         DOMAIN q = CallFields, DOMAIN q.fmt = FmtFields, Head(q.args) = v,
         q.fmt.before = Field(d), q.fmt.zero = d.zero
  PROVE  LET r == OtherFmtChar(q, d.letter)
         IN /\ DOMAIN r = CallFields /\ r.state = "chars" /\ r.fmt = q.fmt
            /\ r.w = q.w /\ r.args = Tail(q.args) /\ r.checked = q.checked
            /\ r.text = Append(q.text, r.out) /\ r.out \in Seq(Quiet) /\ Answers(r.out, d, v)
            /\ r.directives = q.directives /\ r.given = q.given
<1> DEFINE c == d.letter
           p == [q EXCEPT !.args = Tail(q.args)]
           R(s) == Emit(p, s, "chars")
<1>1. ~IsDigit(c) /\ c \notin {"%", ".", "l", "0"}
  BY LettersDiffer
<1>2. OtherFmtChar(q, c) = Letter(q, c)
  BY <1>1, Zenon DEF OtherFmtChar
<1>3. ASSUME NEW s, s \in Seq(Quiet), Answers(s, d, v), Letter(q, c) = R(s)
      PROVE  LET r == Letter(q, c)
             IN /\ DOMAIN r = CallFields /\ r.state = "chars" /\ r.fmt = q.fmt
                /\ r.w = q.w /\ r.args = Tail(q.args) /\ r.checked = q.checked
                /\ r.text = Append(q.text, r.out) /\ r.out \in Seq(Quiet) /\ Answers(r.out, d, v)
                /\ r.directives = q.directives /\ r.given = q.given
  <2> DEFINE u == Append(p.text, s)
  <2>1. /\ DOMAIN p = CallFields /\ p.fmt = q.fmt /\ p.w = q.w /\ p.args = Tail(q.args)
        /\ p.checked = q.checked /\ p.text = q.text /\ p.directives = q.directives /\ p.given = q.given
    BY DEF CallFields
  <2>2. R(s) = [p EXCEPT !.out = s, !.text = u, !.state = "chars"]
    BY DEF Emit
  <2> HIDE DEF p, u, R
  <2> DEFINE r == R(s)
  <2>3. /\ DOMAIN r = CallFields /\ r.state = "chars" /\ r.fmt = p.fmt
        /\ r.w = p.w /\ r.args = p.args /\ r.checked = p.checked
        /\ r.text = u /\ r.out = s /\ r.directives = p.directives /\ r.given = p.given
    BY <2>1, <2>2 DEF CallFields
  <2> HIDE DEF r
  <2> QED
    BY <1>3, <2>1, <2>3 DEF u, r
<1>4. CASE c \in NumberLetters
  <2>1. c \in DOMAIN Conversions /\ c # "c" /\ c # "s"
    BY <1>4 DEF Conversions, NumberLetters
  <2>2. v \in 0 .. 2 ^ Width - 1
    BY <1>4 DEF Argument, NumberLetters
  <2>3. Number(Conversion(d), v) \in Seq(Quiet) /\ Answers(Number(Conversion(d), v), d, v)
    BY <1>4, <2>2, NumberIs
  <2>4. Letter(q, c) = R(Number(Conversion(d), v))
    <3> DEFINE z == q.fmt.zero
               e == q.fmt.before
    <3>1. Letter(q, c) = R(Number([Conversions[c] EXCEPT !.zero = z, !.before = e], Head(q.args)))
      BY <2>1, Zenon DEF Letter
    <3>2. z = d.zero /\ e = Field(d)
      OBVIOUS
    <3> HIDE DEF z, e, R
    <3>3. [Conversions[c] EXCEPT !.zero = z, !.before = e] = Conversion(d)
      BY <3>2 DEF Conversion
    <3> QED
      BY <3>1, <3>3
  <2> HIDE DEF R
  <2> QED
    BY <1>2, <1>3, <2>3, <2>4
<1>5. CASE c = "c"
  <2>1. c \notin DOMAIN Conversions
    BY <1>5 DEF Conversions
  <2>2. v \in Quiet
    BY <1>5 DEF Argument
  <2>3. <<v>> \in Seq(Quiet) /\ Len(<<v>>) = 1
    BY <2>2, SingletonIsSeq
  <2> DEFINE s == Repeat(" ", Field(d) - Len(<<v>>)) \o <<v>>
  <2>4. s \in Seq(Quiet) /\ Answers(s, d, v)
    BY <1>5, <2>3, StringIs
  <2>5. Letter(q, c) = R(s)
    BY <1>5, <2>1, <2>3, Zenon DEF Letter
  <2> HIDE DEF R, s
  <2> QED
    BY <1>2, <1>3, <2>4, <2>5
<1>6. CASE c = "s"
  <2>1. c \notin DOMAIN Conversions /\ c # "c"
    BY <1>6 DEF Conversions
  <2>2. v \in Seq(Quiet)
    BY <1>6 DEF Argument
  <2> DEFINE s == Repeat(" ", Field(d) - Len(v)) \o v
  <2>4. s \in Seq(Quiet) /\ Answers(s, d, v)
    BY <1>6, <2>2, StringIs
  <2>5. Letter(q, c) = R(s)
    BY <1>6, <2>1, Zenon DEF Letter
  <2> HIDE DEF R, s
  <2> QED
    BY <1>2, <1>3, <2>4, <2>5
<1> QED
  BY <1>4, <1>5, <1>6 DEF Letters, NumberLetters

\* The directives converted so far are answered, and the arguments of the others are left.
Answered(p) ==
  /\ DOMAIN p = CallFields /\ Fits(p.directives, p.given, Quiet)
  /\ p.text \in Seq(Seq(Quiet)) /\ Len(p.text) <= Len(p.directives) /\ p.out \in Seq(Quiet)
  /\ \A i \in 1 .. Len(p.text) : Answers(p.text[i], p.directives[i], ArgOf(p.directives, p.given, i))
  /\ p.args = ArgsRest(p.directives, p.given, Len(p.text))

\* The directive the conversion is in, and the format after it.
Current(p) == p.directives[Len(p.text) + 1]
Beyond(p) == Rest(p.directives, Len(p.text) + 1)

Begun(p) == Len(p.text) < Len(p.directives) /\ DOMAIN p.fmt = FmtFields /\ p.fmt.after = -1

\* Where the conversion is in its directive.
Parsed(p) ==
  /\ Answered(p)
  /\ p.state \in {"chars", "first", "other"}
  /\ p.state = "chars" => p.w = Rest(p.directives, Len(p.text))
  /\ p.state = "first" => /\ Begun(p) /\ p.w = AfterPercent(Current(p), Beyond(p))
                          /\ Current(p).letter = "%" => Current(p).char = "%"
                          /\ p.fmt.before = -1 /\ p.fmt.zero = FALSE
  /\ p.state = "other" => /\ Begun(p) /\ Current(p).letter # "%" /\ p.fmt.zero = Current(p).zero
                          /\ \/ p.w = AfterZero(Current(p), Beyond(p)) /\ p.fmt.before = -1
                             \/ p.w = Cat(<<Current(p).letter>>, Beyond(p)) /\ p.fmt.before = Field(Current(p))

Same(r, q) == r.checked = q.checked /\ r.directives = q.directives /\ r.given = q.given

\* A list with one more at its end.
LEMMA AppendIs ==
  ASSUME NEW C, NEW s \in Seq(C), NEW x \in C
  PROVE  /\ Append(s, x) \in Seq(C) /\ Len(Append(s, x)) = Len(s) + 1 /\ Len(s) \in Nat
         /\ Append(s, x)[Len(s) + 1] = x /\ \A i \in 1 .. Len(s) : Append(s, x)[i] = s[i]
BY AppendProperties, LenProperties

\* What is known of the directive a conversion is in.
LEMMA CurrentIs ==
  ASSUME NEW p, Answered(p), Len(p.text) < Len(p.directives)
  PROVE  /\ Current(p) \in Directives(Quiet) /\ Beyond(p) \in Seq(Character)
         /\ Rest(p.directives, Len(p.text)) = Cat(Spelled(Current(p)), Beyond(p))
         /\ Len(p.text) \in 0 .. Len(p.directives) - 1 /\ p.directives \in Seq(Directives(Quiet))
         /\ Current(p).letter # "%" =>
              ArgOf(p.directives, p.given, Len(p.text) + 1) \in Argument(Current(p), Quiet)
<1> DEFINE ds == p.directives
           k == Len(p.text)
           n == Len(ds)
<1>1. ds \in Seq(Directives(Quiet)) /\ p.text \in Seq(Seq(Quiet))
  BY DEF Answered, Fits
<1>2. n \in Nat /\ k \in Nat /\ k < n
  BY <1>1, LenProperties
<1>3. k \in 0 .. n - 1 /\ k + 1 \in 0 .. n /\ k + 1 \in 1 .. n
  BY <1>2
<1>4. Quiet \subseteq Character
  BY DEF Quiet
<1> HIDE DEF ds, k, n
<1>5. ds[k + 1] \in Directives(Quiet)
  BY <1>1, <1>3, ElementOfSeq DEF n
<1>6. Rest(ds, k + 1) \in Seq(Character) /\ Rest(ds, k) = Cat(Spelled(ds[k + 1]), Rest(ds, k + 1))
  BY <1>1, <1>3, <1>4, RestIs DEF n
<1>7. ds[k + 1].letter # "%" => ArgOf(ds, p.given, k + 1) \in Argument(ds[k + 1], Quiet)
  BY <1>3 DEF Answered, Fits, ds, n
<1> QED
  BY <1>1, <1>3, <1>5, <1>6, <1>7 DEF Current, Beyond, ds, k, n

\* The end of a conversion: its text is added, and the format goes on after its directive.
LEMMA EmitIs ==
  ASSUME NEW p, NEW r, Answered(p), Len(p.text) < Len(p.directives), DOMAIN r = CallFields, Same(r, p),
         r.text = Append(p.text, r.out), r.out \in Seq(Quiet), r.state = "chars", r.w = Beyond(p),
         Answers(r.out, Current(p), ArgOf(p.directives, p.given, Len(p.text) + 1)),
         r.args = IF Current(p).letter = "%" THEN p.args ELSE Tail(p.args)
  PROVE  Parsed(r)
<1> DEFINE ds == p.directives
           k == Len(p.text)
           n == Len(ds)
           as == p.given
<1>1. /\ k \in 0 .. n - 1 /\ ds \in Seq(Directives(Quiet)) /\ Fits(ds, as, Quiet) /\ p.text \in Seq(Seq(Quiet))
      /\ p.args = ArgsRest(ds, as, k)
  BY CurrentIs DEF Answered
<1>2. r.directives = ds /\ r.given = as
  BY DEF Same
<1>3. /\ r.text \in Seq(Seq(Quiet)) /\ Len(r.text) = k + 1 /\ k \in Nat
      /\ r.text[k + 1] = r.out /\ \A i \in 1 .. k : r.text[i] = p.text[i]
  <2> DEFINE C == Seq(Quiet)
             s == p.text
             x == r.out
  <2>1. s \in Seq(C) /\ x \in C
    BY <1>1
  <2> HIDE DEF C, s, x
  <2>2. /\ Append(s, x) \in Seq(C) /\ Len(Append(s, x)) = Len(s) + 1 /\ Len(s) \in Nat
        /\ Append(s, x)[Len(s) + 1] = x /\ \A i \in 1 .. Len(s) : Append(s, x)[i] = s[i]
    BY <2>1, AppendIs
  <2> QED
    BY <2>2 DEF C, s, x
<1> DEFINE m == k + 1
<1>4. /\ ds[m].letter = "%" => ArgsRest(ds, as, m) = ArgsRest(ds, as, k)
      /\ ds[m].letter # "%" => Tail(ArgsRest(ds, as, k)) = ArgsRest(ds, as, m)
  BY <1>1, ArgsRestIs DEF TakesOwn
<1>5. r.args = ArgsRest(ds, as, m)
  BY <1>1, <1>4 DEF Current
<1>6. \A i \in 1 .. k : Answers(p.text[i], ds[i], ArgOf(ds, as, i))
  BY DEF Answered
<1>7. Answers(r.out, ds[m], ArgOf(ds, as, m))
  BY DEF Current
<1>8. Len(r.text) <= n /\ 1 .. m = (1 .. k) \cup {m}
  <2>1. n \in Nat
    BY <1>1, LenProperties
  <2> HIDE DEF k, n
  <2> QED
    BY <1>1, <1>3, <2>1
<1> HIDE DEF ds, k, n, as, m
<1>9. Len(r.text) = m /\ r.text[m] = r.out /\ \A i \in 1 .. k : r.text[i] = p.text[i]
  BY <1>3 DEF m
<1>10. \A i \in 1 .. m : Answers(r.text[i], ds[i], ArgOf(ds, as, i))
  BY <1>6, <1>7, <1>8, <1>9
<1>11. Answered(r)
  <2>1. \A i \in 1 .. Len(r.text) : Answers(r.text[i], r.directives[i], ArgOf(r.directives, r.given, i))
    BY <1>2, <1>9, <1>10
  <2>2. Len(r.text) <= Len(r.directives)
    BY <1>2, <1>8 DEF n
  <2>3. r.args = ArgsRest(r.directives, r.given, Len(r.text))
    BY <1>2, <1>5, <1>9
  <2>4. Fits(r.directives, r.given, Quiet)
    BY <1>1, <1>2
  <2> QED
    BY <1>3, <2>1, <2>2, <2>3, <2>4 DEF Answered
<1>12. r.w = Rest(r.directives, Len(r.text))
  BY <1>2, <1>9 DEF Beyond, ds, k, m
<1> QED
  BY <1>11, <1>12 DEF Parsed

\* The digit of the width, or the letter.
LEMMA OtherIs ==
  ASSUME NEW q, NEW c, Answered(q), Begun(q), Current(q).letter # "%", q.fmt.zero = Current(q).zero,
         \/ /\ Current(q).width > 0 /\ c = Digit[Current(q).width + 1]
            /\ q.w = Cat(<<Current(q).letter>>, Beyond(q)) /\ q.fmt.before = -1
         \/ c = Current(q).letter /\ q.w = Beyond(q) /\ q.fmt.before = Field(Current(q))
  PROVE  Parsed(OtherFmtChar(q, c)) /\ Same(OtherFmtChar(q, c), q)
<1> DEFINE d == Current(q)
           v == ArgOf(q.directives, q.given, Len(q.text) + 1)
           r == OtherFmtChar(q, c)
<1>1. Len(q.text) < Len(q.directives) /\ DOMAIN q.fmt = FmtFields /\ q.fmt.after = -1 /\ DOMAIN q = CallFields
  BY DEF Begun, Answered
<1>2. d \in Directives(Quiet) /\ (d.letter # "%" => v \in Argument(d, Quiet)) /\ Len(q.text) \in 0 .. Len(q.directives) - 1
  BY <1>1, CurrentIs
<1>3. d.letter \in Letters /\ d.width \in 0 .. 9 /\ v \in Argument(d, Quiet)
  BY <1>2, DirectiveIs
<1>4. CASE /\ d.width > 0 /\ c = Digit[d.width + 1]
           /\ q.w = Cat(<<d.letter>>, Beyond(q)) /\ q.fmt.before = -1
  <2>1. d.width \in 1 .. 9
    BY <1>3, <1>4
  <2>2. /\ DOMAIN r = CallFields /\ DOMAIN r.fmt = FmtFields
        /\ r.state = "other" /\ r.fmt.before = d.width /\ r.fmt.after = -1 /\ r.fmt.zero = q.fmt.zero
        /\ r.w = q.w /\ r.args = q.args /\ r.out = q.out /\ r.checked = q.checked /\ r.text = q.text
        /\ r.directives = q.directives /\ r.given = q.given
    <3> DEFINE w == d.width
    <3>1. w \in 1 .. 9 /\ c = Digit[w + 1] /\ q.fmt.before = -1
      BY <1>4, <2>1
    <3> HIDE DEF w, d
    <3>2. LET x == OtherFmtChar(q, Digit[w + 1])
          IN /\ DOMAIN x = CallFields /\ DOMAIN x.fmt = FmtFields
             /\ x.state = "other" /\ x.fmt.before = w /\ x.fmt.after = -1 /\ x.fmt.zero = q.fmt.zero
             /\ x.w = q.w /\ x.args = q.args /\ x.out = q.out /\ x.checked = q.checked /\ x.text = q.text
             /\ x.directives = q.directives /\ x.given = q.given
      BY <1>1, <3>1, WidthIs
    <3> QED
      BY <3>1, <3>2 DEF w
  <2> HIDE DEF r, d
  <2>3. Current(r) = d /\ Beyond(r) = Beyond(q)
    BY <2>2 DEF Current, Beyond, d
  <2>4. Answered(r)
    BY <2>2 DEF Answered
  <2>5. Begun(r)
    BY <1>1, <2>2 DEF Begun
  <2>6. r.fmt.before = Field(d) /\ r.fmt.zero = d.zero /\ d.letter # "%" /\ r.w = Cat(<<d.letter>>, Beyond(r))
    <3>1. q.fmt.zero = d.zero /\ d.letter # "%"
      BY DEF d
    <3> QED
      BY <1>4, <2>2, <2>3, <3>1 DEF Field
  <2> QED
    BY <2>2, <2>3, <2>4, <2>5, <2>6 DEF Parsed, Same, r
<1>5. CASE c = d.letter /\ q.w = Beyond(q) /\ q.fmt.before = Field(d)
  <2>1. Head(q.args) = v
    <3> DEFINE ds == q.directives
               as == q.given
               k == Len(q.text)
    <3>1. /\ Fits(ds, as, Quiet) /\ k \in 0 .. Len(ds) - 1 /\ ds[k + 1].letter # "%"
          /\ q.args = ArgsRest(ds, as, k) /\ v = ArgOf(ds, as, k + 1)
      BY <1>2 DEF Answered, Current
    <3>2. ds[k + 1].letter # "%" => /\ ArgsRest(ds, as, k) # <<>>
                                    /\ Head(ArgsRest(ds, as, k)) = ArgOf(ds, as, k + 1)
                                    /\ Tail(ArgsRest(ds, as, k)) = ArgsRest(ds, as, k + 1)
      BY <3>1, ArgsRestIs DEF TakesOwn
    <3> QED
      BY <3>1, <3>2
  <2>2. q.fmt.zero = d.zero /\ d.letter # "%"
    OBVIOUS
  <2>3. /\ DOMAIN r = CallFields /\ r.state = "chars" /\ r.fmt = q.fmt
        /\ r.w = q.w /\ r.args = Tail(q.args) /\ r.checked = q.checked
        /\ r.text = Append(q.text, r.out) /\ r.out \in Seq(Quiet) /\ Answers(r.out, d, v)
        /\ r.directives = q.directives /\ r.given = q.given
    <3> HIDE DEF v, d
    <3>1. q.fmt.before = Field(d) /\ c = d.letter
      BY <1>5
    <3>2. d \in Directives(Quiet) /\ d.letter \in Letters /\ v \in Argument(d, Quiet)
      BY <1>2, <1>3
    <3>3. LET x == OtherFmtChar(q, d.letter)
          IN /\ DOMAIN x = CallFields /\ x.state = "chars" /\ x.fmt = q.fmt
             /\ x.w = q.w /\ x.args = Tail(q.args) /\ x.checked = q.checked
             /\ x.text = Append(q.text, x.out) /\ x.out \in Seq(Quiet) /\ Answers(x.out, d, v)
             /\ x.directives = q.directives /\ x.given = q.given
      BY <1>1, <2>1, <2>2, <3>1, <3>2, LetterIs
    <3> QED
      BY <3>1, <3>3
  <2> HIDE DEF r
  <2>4. Same(r, q)
    BY <2>3 DEF Same
  <2>5. Parsed(r)
    BY <1>1, <1>5, <2>2, <2>3, <2>4, EmitIs
  <2> QED
    BY <2>4, <2>5 DEF r
<1> QED
  BY <1>4, <1>5

\* A call begins before its first directive.
LEMMA CallIs ==
  ASSUME NEW ds, NEW as, Fits(ds, as, Quiet)
  PROVE  Parsed(Call(ds, as)) /\ Call(ds, as).out = <<>> /\ Call(ds, as).checked = FALSE
<1> DEFINE p == Call(ds, as)
<1>1. /\ DOMAIN p = CallFields /\ p.w = Format(ds) /\ p.args = as /\ p.state = "chars" /\ p.out = <<>>
      /\ p.checked = FALSE /\ p.text = <<>> /\ p.directives = ds /\ p.given = as
  BY DEF Call, CallFields
<1> HIDE DEF p
<1>2. ds \in Seq(Directives(Quiet)) /\ Len(ds) \in Nat
  BY LenProperties DEF Fits
<1>3. Rest(ds, 0) = Format(ds)
  BY <1>2, RestIs DEF Quiet
<1>4. ArgsRest(ds, as, 0) = as
  BY ArgsRestStarts
<1>5. Len(p.text) = 0
  BY <1>1
<1>6. Answered(p)
  <2>1. p.text \in Seq(Seq(Quiet)) /\ p.out \in Seq(Quiet)
    BY <1>1
  <2>2. 1 .. Len(p.text) = {}
    BY <1>5
  <2>3. p.args = ArgsRest(p.directives, p.given, Len(p.text))
    BY <1>1, <1>4, <1>5
  <2>4. Len(p.text) <= Len(p.directives)
    BY <1>1, <1>2, <1>5
  <2>5. \A i \in 1 .. Len(p.text) : Answers(p.text[i], p.directives[i], ArgOf(p.directives, p.given, i))
    BY <2>2
  <2>6. Fits(p.directives, p.given, Quiet)
    BY <1>1
  <2> QED
    BY <1>1, <2>1, <2>3, <2>4, <2>5, <2>6 DEF Answered
<1>7. p.w = Rest(p.directives, Len(p.text))
  BY <1>1, <1>3, <1>5
<1> QED
  BY <1>1, <1>6, <1>7 DEF Parsed, p

\* One character of the format.
LEMMA ConvertedIs ==
  ASSUME NEW p, Parsed(p), p.out = <<>>, p.w # <<>>
  PROVE  Parsed(Converted(p)) /\ Same(Converted(p), p)
<1> DEFINE c == Head(p.w)
           rest == Tail(p.w)
           q == [p EXCEPT !.w = rest]
           r == Converted(p)
           d == Current(p)
           R == Beyond(p)
<1>1. Answered(p) /\ DOMAIN p = CallFields
  BY DEF Parsed, Answered
<1>2. /\ DOMAIN q = CallFields /\ q.w = rest /\ q.args = p.args /\ q.state = p.state /\ q.fmt = p.fmt /\ q.out = p.out
      /\ q.checked = p.checked /\ q.text = p.text /\ q.directives = p.directives /\ q.given = p.given
  BY <1>1 DEF CallFields
<1> HIDE DEF q
<1>3. Answered(q) /\ Current(q) = d /\ Beyond(q) = R
  BY <1>1, <1>2 DEF Answered, Current, Beyond
<1>4. Len(p.text) < Len(p.directives)
  <2>1. CASE p.state = "chars"
    <3> DEFINE ds == p.directives
    <3>1. ds \in Seq(Directives(Quiet)) /\ Len(p.text) <= Len(ds) /\ p.text \in Seq(Seq(Quiet))
      BY <1>1 DEF Answered, Fits
    <3>2. Rest(ds, Len(ds)) = <<>>
      BY <3>1, RestIs DEF Quiet
    <3>3. p.w = Rest(ds, Len(p.text))
      BY <2>1 DEF Parsed
    <3>4. Len(p.text) \in Nat /\ Len(ds) \in Nat
      BY <3>1, LenProperties
    <3>5. Len(p.text) # Len(ds)
      BY <3>2, <3>3
    <3> QED
      BY <3>1, <3>4, <3>5
  <2>2. CASE p.state # "chars"
    BY <2>2 DEF Parsed, Begun
  <2> QED
    BY <2>1, <2>2
<1>5. /\ d \in Directives(Quiet) /\ R \in Seq(Character)
      /\ Rest(p.directives, Len(p.text)) = Cat(Spelled(d), R)
  BY <1>1, <1>4, CurrentIs
<1>6. /\ d.letter = "%" \/ d.letter \in Letters
      /\ d.letter = "%" => d.char \in Quiet
      /\ d.letter \in Letters => d.zero \in BOOLEAN /\ d.width \in 0 .. 9 /\ d.letter # "%"
  BY <1>5, DirectiveIs
<1>7. \A x \in Character : /\ Head(Cat(<<x>>, R)) = x /\ Tail(Cat(<<x>>, R)) = R
  BY <1>5, ConsIs
\* A character that stands for itself.
<1>9. ASSUME d.letter = "%", p.w = Cat(<<d.char>>, R), r = Emit(q, <<d.char>>, "chars")
      PROVE  Parsed(r) /\ Same(r, p)
  <2>1. d.char \in Quiet /\ d.char \in Character
    BY <1>6, <1>9 DEF Quiet
  <2>2. rest = R
    BY <1>7, <1>9, <2>1
  <2> DEFINE t == <<d.char>>
             u == Append(q.text, t)
  <2>3. t \in Seq(Quiet)
    BY <2>1, SingletonIsSeq
  <2>4. r = [q EXCEPT !.out = t, !.text = u, !.state = "chars"]
    BY <1>9 DEF Emit
  <2>5. Answers(t, d, ArgOf(p.directives, p.given, Len(p.text) + 1))
    BY <1>9 DEF Answers
  <2> HIDE DEF t, u, r
  <2>6. /\ DOMAIN r = CallFields /\ r.out = t /\ r.text = u /\ r.state = "chars" /\ r.w = q.w /\ r.args = q.args
        /\ r.checked = q.checked /\ r.directives = q.directives /\ r.given = q.given
    BY <1>2, <2>4 DEF CallFields
  <2>7. Same(r, p)
    BY <1>2, <2>6 DEF Same
  <2>8. r.text = Append(p.text, r.out) /\ r.w = Beyond(p)
    BY <1>2, <2>2, <2>6 DEF u
  <2>9. r.args = IF Current(p).letter = "%" THEN p.args ELSE Tail(p.args)
    BY <1>2, <1>9, <2>6
  <2>10. r.out \in Seq(Quiet) /\ Answers(r.out, Current(p), ArgOf(p.directives, p.given, Len(p.text) + 1))
    BY <2>3, <2>5, <2>6
  <2> QED
    BY <1>1, <1>4, <2>6, <2>7, <2>8, <2>9, <2>10, EmitIs
<1>10. CASE p.state = "chars"
  <2>1. p.w = Cat(Spelled(d), R)
    BY <1>5, <1>10 DEF Parsed
  <2>2. r = IF c = "%" THEN StartFmt(q) ELSE Emit(q, <<c>>, "chars")
    BY <1>10 DEF Converted, q
  <2>3. /\ p.w = IF d.letter = "%" /\ d.char # "%" THEN Cat(<<d.char>>, R) ELSE Cat(<<"%">>, AfterPercent(d, R))
        /\ AfterPercent(d, R) \in Seq(Character)
    <3>1. Quiet \subseteq Character
      BY DEF Quiet
    <3> QED
      BY <1>5, <2>1, <3>1, SpelledIs
  <2>4. CASE d.letter = "%" /\ d.char # "%"
    <3>1. p.w = Cat(<<d.char>>, R)
      BY <2>3, <2>4
    <3>2. c = d.char
      BY <1>6, <1>7, <2>4, <3>1 DEF Quiet
    <3>3. r = Emit(q, <<d.char>>, "chars")
      BY <2>2, <2>4, <3>2
    <3> QED
      BY <1>9, <2>4, <3>1, <3>3
  <2>5. CASE ~(d.letter = "%" /\ d.char # "%")
    <3>1. p.w = Cat(<<"%">>, AfterPercent(d, R))
      BY <2>3, <2>5
    <3>2. c = "%" /\ rest = AfterPercent(d, R)
      <4> DEFINE x == "%"
                 y == AfterPercent(d, R)
      <4>1. x \in Character
        BY DigitCharacters
      <4>2. p.w = Cat(<<x>>, y) /\ y \in Seq(Character)
        BY <2>3, <3>1
      <4> HIDE DEF x, y
      <4>3. Head(p.w) = x /\ Tail(p.w) = y
        BY <4>1, <4>2, ConsIs
      <4> QED
        BY <4>3 DEF x, y
    <3>3. r = [q EXCEPT !.fmt = Blank, !.state = "first"]
      BY <2>2, <3>2 DEF StartFmt
    <3> HIDE DEF r
    <3>4. /\ DOMAIN r = CallFields /\ r.fmt = Blank /\ r.state = "first" /\ r.w = q.w /\ r.args = q.args /\ r.out = q.out
          /\ r.checked = q.checked /\ r.text = q.text /\ r.directives = q.directives /\ r.given = q.given
      BY <1>2, <3>3 DEF CallFields
    <3>5. DOMAIN r.fmt = FmtFields /\ r.fmt.after = -1 /\ r.fmt.before = -1 /\ r.fmt.zero = FALSE
      BY <3>4 DEF Blank, FmtFields
    <3>6. Answered(r) /\ Current(r) = d /\ Beyond(r) = R /\ Begun(r) /\ Same(r, p)
      BY <1>1, <1>2, <1>4, <3>4, <3>5 DEF Answered, Current, Beyond, Begun, Same
    <3>7. r.w = AfterPercent(d, R)
      BY <1>2, <3>2, <3>4
    <3> QED
      BY <2>5, <3>4, <3>5, <3>6, <3>7 DEF Parsed, r
  <2> QED
    BY <2>4, <2>5
\* The letter, or the width before it.
<1>11. ASSUME Begun(p), d.letter # "%", p.fmt.zero = d.zero, r = OtherFmtChar(q, c),
              \/ p.w = AfterZero(d, R) /\ p.fmt.before = -1
              \/ p.w = Cat(<<d.letter>>, R) /\ p.fmt.before = Field(d)
       PROVE  Parsed(r) /\ Same(r, p)
  <2>1. d.letter \in Letters /\ d.letter \in Character /\ d.width \in 0 .. 9
    BY <1>6, <1>11, DigitCharacters
  <2>2. Begun(q)
    BY <1>2, <1>11 DEF Begun
  <2>3. CASE d.width > 0 /\ p.w = AfterZero(d, R) /\ p.fmt.before = -1
    <3> DEFINE x == Digit[d.width + 1]
               y == Cat(<<d.letter>>, R)
    <3>1. x \in Character
      <4>1. d.width + 1 \in 1 .. 16
        BY <2>1
      <4> QED
        BY <4>1, DigitCharacters
    <3>2. p.w = Cat(<<x>>, y)
      BY <2>3 DEF AfterZero
    <3>3. y \in Seq(Character)
      BY <1>5, <2>1, ConsIs
    <3> HIDE DEF x, y
    <3>4. c = x /\ rest = y
      BY <3>1, <3>2, <3>3, ConsIs
    <3>5. /\ Current(q).width > 0 /\ c = Digit[Current(q).width + 1]
          /\ q.w = Cat(<<Current(q).letter>>, Beyond(q)) /\ q.fmt.before = -1
      BY <1>2, <1>3, <2>3, <3>4 DEF x, y
    <3>6. Parsed(OtherFmtChar(q, c)) /\ Same(OtherFmtChar(q, c), q)
      <4>1. Current(q).letter # "%" /\ q.fmt.zero = Current(q).zero
        BY <1>2, <1>3, <1>11
      <4> HIDE DEF c
      <4> QED
        BY <1>3, <2>2, <3>5, <4>1, OtherIs
    <3> QED
      BY <1>2, <1>11, <3>6 DEF Same
  <2>4. CASE p.w = Cat(<<d.letter>>, R) /\ p.fmt.before = Field(d)
    <3>1. c = d.letter /\ rest = R
      BY <1>7, <2>1, <2>4
    <3>2. c = Current(q).letter /\ q.w = Beyond(q) /\ q.fmt.before = Field(Current(q))
      BY <1>2, <1>3, <2>4, <3>1
    <3>3. Parsed(OtherFmtChar(q, c)) /\ Same(OtherFmtChar(q, c), q)
      <4>1. Current(q).letter # "%" /\ q.fmt.zero = Current(q).zero
        BY <1>2, <1>3, <1>11
      <4> HIDE DEF c
      <4> QED
        BY <1>3, <2>2, <3>2, <4>1, OtherIs
    <3> QED
      BY <1>2, <1>11, <3>3 DEF Same
  <2>5. CASE ~(d.width > 0) /\ p.w = AfterZero(d, R) /\ p.fmt.before = -1
    BY <2>4, <2>5 DEF AfterZero, Field
  <2> QED
    BY <1>11, <2>3, <2>4, <2>5
<1>12. CASE p.state = "first"
  <2>1. /\ Begun(p) /\ p.w = AfterPercent(d, R) /\ (d.letter = "%" => d.char = "%")
        /\ p.fmt.before = -1 /\ p.fmt.zero = FALSE
    BY <1>12 DEF Parsed
  <2>2. r = FirstFmtChar(q, c)
    BY <1>12 DEF Converted, q
  <2>3. CASE d.letter = "%"
    <3>1. d.char = "%" /\ p.w = Cat(<<d.char>>, R)
      BY <2>1, <2>3 DEF AfterPercent
    <3>2. c = "%"
      BY <1>6, <1>7, <2>3, <3>1 DEF Quiet
    <3>3. r = Emit(q, <<d.char>>, "chars")
      BY <2>2, <3>1, <3>2 DEF FirstFmtChar
    <3> QED
      BY <1>9, <2>3, <3>1, <3>3
  <2>4. CASE d.letter # "%" /\ d.zero
    <3>1. p.w = Cat(<<"0">>, AfterZero(d, R)) /\ AfterZero(d, R) \in Seq(Character)
      <4>1. Quiet \subseteq Character
        BY DEF Quiet
      <4>2. AfterZero(d, R) \in Seq(Character)
        BY <1>5, <4>1, SpelledIs
      <4> QED
        BY <2>1, <2>4, <4>2 DEF AfterPercent
    <3>2. c = "0" /\ rest = AfterZero(d, R)
      <4> DEFINE x == "0"
      <4>1. x \in Character
        BY DigitCharacters
      <4>2. p.w = Cat(<<x>>, AfterZero(d, R))
        BY <3>1
      <4> HIDE DEF x
      <4>3. Head(p.w) = x /\ Tail(p.w) = AfterZero(d, R)
        BY <3>1, <4>1, <4>2, ConsIs
      <4> QED
        BY <4>3 DEF x
    <3> DEFINE f == [q.fmt EXCEPT !.zero = TRUE]
    <3>3. r = [q EXCEPT !.fmt = f, !.state = "other"]
      <4>1. r = [q EXCEPT !.fmt.zero = TRUE, !.state = "other"]
        BY <2>2, <3>2 DEF FirstFmtChar
      <4> QED
        BY <4>1
    <3>4. DOMAIN f = FmtFields /\ f.zero = TRUE /\ f.before = -1 /\ f.after = -1
      BY <1>2, <2>1 DEF Begun, FmtFields
    <3> HIDE DEF r, f
    <3>5. /\ DOMAIN r = CallFields /\ r.fmt = f /\ r.state = "other" /\ r.w = q.w /\ r.args = q.args /\ r.out = q.out
          /\ r.checked = q.checked /\ r.text = q.text /\ r.directives = q.directives /\ r.given = q.given
      BY <1>2, <3>3 DEF CallFields
    <3>6. Answered(r) /\ Current(r) = d /\ Beyond(r) = R /\ Begun(r) /\ Same(r, p)
      BY <1>1, <1>2, <1>4, <3>4, <3>5 DEF Answered, Current, Beyond, Begun, Same
    <3>7. r.w = AfterZero(d, R) /\ r.fmt.before = -1
      BY <1>2, <3>2, <3>4, <3>5
    <3>8. d.zero = TRUE
      BY <1>6, <2>4
    <3> QED
      BY <2>4, <3>4, <3>5, <3>6, <3>7, <3>8 DEF Parsed, r
  <2>5. CASE d.letter # "%" /\ ~d.zero
    <3>1. p.w = AfterZero(d, R)
      BY <2>1, <2>5 DEF AfterPercent
    <3>2. d.letter \in Letters /\ d.zero = FALSE /\ d.width \in 0 .. 9
      BY <1>6, <2>5
    <3>3. c \notin {"0", "%"}
      <4>1. CASE d.width > 0
        <5> DEFINE k == d.width + 1
                   x == Digit[k]
        <5>1. k \in 1 .. 10 /\ k # 1 /\ k \in 1 .. 16
          BY <3>2, <4>1
        <5>2. x \in Character /\ x \notin {"0", "%"}
          BY <5>1, DigitCharacters, DigitsDiffer
        <5>3. p.w = Cat(<<x>>, Cat(<<d.letter>>, R))
          BY <3>1, <4>1 DEF AfterZero
        <5>4. Cat(<<d.letter>>, R) \in Seq(Character)
          BY <1>5, <3>2, ConsIs, DigitCharacters
        <5> HIDE DEF k, x
        <5>5. c = x
          BY <5>2, <5>3, <5>4, ConsIs
        <5> QED
          BY <5>2, <5>5
      <4>2. CASE ~(d.width > 0)
        <5>1. p.w = Cat(<<d.letter>>, R)
          BY <3>1, <4>2 DEF AfterZero
        <5>2. c = d.letter
          BY <1>7, <3>2, <5>1, DigitCharacters
        <5> QED
          BY <3>2, <5>2, LettersDiffer
      <4> QED
        BY <4>1, <4>2
    <3>4. r = OtherFmtChar(q, c)
      BY <2>2, <3>3, Zenon DEF FirstFmtChar
    <3> QED
      BY <1>11, <2>1, <2>5, <3>1, <3>2, <3>4
  <2> QED
    BY <2>3, <2>4, <2>5
<1>13. CASE p.state = "other"
  <2>1. r = OtherFmtChar(q, c)
    BY <1>13 DEF Converted, q
  <2>2. /\ Begun(p) /\ d.letter # "%" /\ p.fmt.zero = d.zero
        /\ \/ p.w = AfterZero(d, R) /\ p.fmt.before = -1
           \/ p.w = Cat(<<d.letter>>, R) /\ p.fmt.before = Field(d)
    BY <1>13 DEF Parsed
  <2> QED
    BY <1>11, <2>1, <2>2
<1> QED
  BY <1>10, <1>12, <1>13 DEF Parsed

-----------------------------------------------------------------------------
(* What the HAL logs itself *)

\* A letter alone is a directive.
LEMMA PlainIs ==
  ASSUME NEW l \in Letters, NEW C
  PROVE  Plain(l) \in Directives(C) /\ Plain(l).letter = l /\ Plain(l).letter # "%"
<1>1. Plain(l) = Directive(l, FALSE, 0) /\ Plain(l).letter = l
  BY DEF Plain, Directive
<1>2. l # "%"
  BY DEF Letters
<1>3. FALSE \in BOOLEAN /\ 0 \in 0 .. 9
  OBVIOUS
<1> DEFINE L == {Literal(c) : c \in C}
           D == {Directive(k, z, w) : k \in Letters, z \in BOOLEAN, w \in 0 .. 9}
<1>4. Directive(l, FALSE, 0) \in D
  <2>1. \E k \in Letters, z \in BOOLEAN, w \in 0 .. 9 : Directive(l, FALSE, 0) = Directive(k, z, w)
    BY <1>3, Zenon
  <2> QED
    BY <2>1 DEF Directive
<1>6. Directives(C) = L \cup D
  BY DEF Directives
<1> HIDE DEF L, D
<1>5. Directive(l, FALSE, 0) \in Directives(C)
  BY <1>4, <1>6
<1> QED
  BY <1>1, <1>2, <1>5

\* Directives that all take an argument.
LEMMA FitsPlain ==
  ASSUME NEW n \in Nat, NEW ds \in [1 .. n -> Directives(Quiet)], NEW as, as = [i \in 1 .. n |-> as[i]],
         \A i \in 1 .. n : ds[i].letter # "%" /\ as[i] \in Argument(ds[i], Quiet)
  PROVE  Fits(ds, as, Quiet)
<1>1. ds \in Seq(Directives(Quiet)) /\ Len(ds) = n
  OBVIOUS
<1>2. /\ Before(ds, 0) = 0
      /\ \A k \in 0 .. n : Before(ds, k) \in Nat
      /\ \A k \in 0 .. n - 1 : Before(ds, k + 1) = Before(ds, k) + (IF ds[k + 1].letter = "%" THEN 0 ELSE 1)
  BY <1>1, BeforeIs
<1> DEFINE N == {k \in Nat : k <= n => Before(ds, k) = k}
<1>3. 0 \in N
  BY <1>2
<1>4. ASSUME NEW k \in Nat, k \in N PROVE k + 1 \in N
  <2> SUFFICES ASSUME k + 1 <= n PROVE Before(ds, k + 1) = k + 1
    OBVIOUS
  <2>1. k \in 0 .. n - 1 /\ k + 1 \in 1 .. n /\ Before(ds, k) = k
    BY <1>4
  <2>2. ds[k + 1].letter # "%"
    BY <2>1
  <2> QED
    BY <1>2, <2>1, <2>2
<1>5. Nat \subseteq N
  <2> HIDE DEF N
  <2> QED
    BY <1>3, <1>4, NatInduct
<1>6. \A i \in 1 .. n : Before(ds, i) = i
  BY <1>5
<1>7. Before(ds, Len(ds)) = n
  BY <1>1, <1>5
<1>8. \A i \in 1 .. n : ArgOf(ds, as, i) = as[i]
  BY <1>6 DEF ArgOf
<1> QED
  BY <1>1, <1>7, <1>8 DEF Fits

\* One argument fits a directive of one letter.
LEMMA FitsOne ==
  ASSUME NEW l \in Letters, NEW v, v \in Argument(Plain(l), Quiet)
  PROVE  Fits(<<Plain(l)>>, <<v>>, Quiet)
<1> DEFINE d == Plain(l)
           ds == <<d>>
           as == <<v>>
<1>1. d \in Directives(Quiet) /\ d.letter # "%"
  BY PlainIs
<1> HIDE DEF d
<1>2. ds \in [1 .. 1 -> Directives(Quiet)] /\ as = [i \in 1 .. 1 |-> as[i]]
  BY <1>1
<1>3. \A i \in 1 .. 1 : ds[i].letter # "%" /\ as[i] \in Argument(ds[i], Quiet)
  BY <1>1 DEF d
<1>4. 1 \in Nat
  OBVIOUS
<1> HIDE DEF ds, as
<1>5. Fits(ds, as, Quiet)
  BY <1>2, <1>3, <1>4, FitsPlain
<1> QED
  BY <1>5 DEF ds, as, d

\* The arguments of a message of alt_log_system_clock or of a similar macro fit its three directives.
LEMMA FitsThree ==
  ASSUME NEW h \in Seq(Quiet), NEW u \in 0 .. 2 ^ Width - 1, NEW v \in 0 .. 2 ^ Width - 1
  PROVE  Fits(<<Plain("s"), Plain("d"), Plain("d")>>, <<h, u, v>>, Quiet)
<1> DEFINE d == Plain("s")
           e == Plain("d")
           ds == <<d, e, e>>
           as == <<h, u, v>>
<1>1. /\ d \in Directives(Quiet) /\ d.letter = "s" /\ d.letter # "%"
      /\ e \in Directives(Quiet) /\ e.letter = "d" /\ e.letter # "%"
  BY PlainIs DEF Letters
<1>2. h \in Argument(d, Quiet) /\ u \in Argument(e, Quiet) /\ v \in Argument(e, Quiet)
  BY <1>1 DEF Argument
<1> HIDE DEF d, e
<1>3. ds \in [1 .. 3 -> Directives(Quiet)] /\ as = [i \in 1 .. 3 |-> as[i]]
  BY <1>1
<1>4. \A i \in 1 .. 3 : ds[i].letter # "%" /\ as[i] \in Argument(ds[i], Quiet)
  BY <1>1, <1>2
<1>5. 3 \in Nat
  OBVIOUS
<1> HIDE DEF ds, as
<1>6. Fits(ds, as, Quiet)
  BY <1>3, <1>4, <1>5, FitsPlain
<1> QED
  BY <1>6 DEF ds, as, d, e

\* The echo of a write ends no connection.
LEMMA EchoIs ==
  ASSUME NEW s \in Seq(Character \cup {"NUL"}), Len(s) >= 2, EchoLen >= 2
  PROVE  EchoString(s) \in Seq(Quiet)
<1> DEFINE b == EchoBuffer(s)
           n == IF Len(s) < EchoLen THEN Len(s) ELSE EchoLen
           C == Character \cup {"NUL"}
           First(k) == k \in 1 .. Len(b) /\ b[k] = "NUL" /\ \A m \in 1 .. k - 1 : b[m] # "NUL"
           end == CHOOSE k \in 1 .. Len(b) : b[k] = "NUL" /\ \A m \in 1 .. k - 1 : b[m] # "NUL"
<1>1. n \in Nat /\ n <= Len(s) /\ Len(s) \in Nat
  BY LogAssumption, LenProperties
<1>2. b = [i \in 1 .. n + 2 |->
             IF i < n THEN EchoEscape(s[i]) ELSE IF i = n THEN "\n" ELSE IF i = n + 1 THEN "\r" ELSE "NUL"]
  BY DEF EchoBuffer
<1> HIDE DEF b, n
<1>3. ASSUME NEW i \in 1 .. n + 2 PROVE b[i] \in Quiet \cup {"NUL"}
  <2>1. {"D", "\n", "\r"} \subseteq Character
    BY LogAssumption
  <2>2. {"D", "\n", "\r"} \subseteq Quiet
    BY <2>1 DEF Quiet
  <2>3. i < n => s[i] \in C
    <3>1. i < n => i \in 1 .. Len(s)
      BY <1>1
    <3> QED
      BY <3>1, ElementOfSeq
  <2>4. i < n => EchoEscape(s[i]) \in Quiet \cup {"NUL"}
    BY <2>2, <2>3 DEF EchoEscape, Quiet
  <2> QED
    BY <1>2, <2>2, <2>4
<1>4. b[n + 2] = "NUL" /\ n + 2 \in 1 .. n + 2
  BY <1>1, <1>2
<1>5. b \in Seq(Quiet \cup {"NUL"}) /\ Len(b) = n + 2
  <2>1. b \in [1 .. n + 2 -> Quiet \cup {"NUL"}] /\ n + 2 \in Nat
    BY <1>1, <1>2, <1>3
  <2> QED
    BY <2>1, FunctionIsSeq
<1>6. \E k : First(k)
  <2> SUFFICES ASSUME \A k : ~First(k) PROVE FALSE
    OBVIOUS
  <2> DEFINE N == {k \in Nat : k <= Len(b) => \A m \in 1 .. k : b[m] # "NUL"}
  <2>1. 0 \in N
    OBVIOUS
  <2>2. ASSUME NEW k \in Nat, k \in N PROVE k + 1 \in N
    <3> SUFFICES ASSUME k + 1 <= Len(b), NEW m \in 1 .. k + 1 PROVE b[m] # "NUL"
      OBVIOUS
    <3>1. k <= Len(b) /\ k + 1 \in 1 .. Len(b) /\ k + 1 - 1 = k
      BY <1>1, <1>5
    <3>2. \A j \in 1 .. k : b[j] # "NUL"
      BY <2>2, <3>1
    <3>3. b[k + 1] # "NUL"
      <4>1. ~First(k + 1)
        OBVIOUS
      <4> QED
        BY <3>1, <3>2, <4>1
    <3> QED
      BY <3>2, <3>3
  <2>3. Nat \subseteq N
    <3> HIDE DEF N
    <3> QED
      BY <2>1, <2>2, NatInduct
  <2>4. \A m \in 1 .. n + 2 : b[m] # "NUL"
    <3>1. n + 2 \in Nat /\ n + 2 <= Len(b)
      BY <1>1, <1>5
    <3> QED
      BY <2>3, <3>1
  <2> QED
    BY <1>4, <2>4
<1>7. First(end)
  <2>1. PICK k : First(k)
    BY <1>6
  <2>2. \E j \in 1 .. Len(b) : b[j] = "NUL" /\ \A m \in 1 .. j - 1 : b[m] # "NUL"
    BY <2>1
  <2> QED
    BY <2>2
<1>8. EchoString(s) = SubSeq(b, 1, end - 1)
  BY DEF EchoString, b
<1> HIDE DEF end
<1>9. end \in Nat /\ end - 1 \in Int /\ 1 \in Int
  BY <1>1, <1>5, <1>7
<1>10. \A i \in 1 .. end - 1 : b[i] \in Quiet
  <2>1. \A i \in 1 .. end - 1 : i \in 1 .. n + 2
    BY <1>1, <1>5, <1>7
  <2> QED
    BY <1>3, <1>7, <2>1
<1> DEFINE e == end - 1
<1>11. e \in Int /\ \A i \in 1 .. e : b[i] \in Quiet
  BY <1>9, <1>10
<1> HIDE DEF e
<1>12. SubSeq(b, 1, e) \in Seq(Quiet)
  BY <1>9, <1>11, SubSeqProperties
<1> QED
  BY <1>8, <1>12 DEF e

-----------------------------------------------------------------------------

\* What says how far a call has parsed does not depend on what it has printed.
LEMMA ParsedSame ==
  ASSUME NEW p, Parsed(p), NEW r, DOMAIN r = CallFields, r.out \in Seq(Quiet),
         r.w = p.w, r.args = p.args, r.state = p.state, r.fmt = p.fmt, r.text = p.text,
         r.directives = p.directives, r.given = p.given
  PROVE  Parsed(r)
<1>1. Answered(r) /\ Current(r) = Current(p) /\ Beyond(r) = Beyond(p)
  BY DEF Parsed, Answered, Current, Beyond
<1>2. Begun(p) => Begun(r)
  BY DEF Begun
<1> QED
  BY <1>1, <1>2 DEF Parsed

\* At the end of the format all directives are answered.
LEMMA ParsedEnds ==
  ASSUME NEW p, Parsed(p), p.w = <<>>
  PROVE  Len(p.text) = Len(p.directives)
<1> DEFINE d == Current(p)
           R == Beyond(p)
<1>1. Answered(p)
  BY DEF Parsed
<1>2. Len(p.text) <= Len(p.directives) /\ Len(p.text) \in Nat /\ Len(p.directives) \in Nat
  BY <1>1, LenProperties DEF Answered, Fits
<1> SUFFICES ASSUME Len(p.text) < Len(p.directives) PROVE FALSE
  BY <1>2
<1>3. d \in Directives(Quiet) /\ R \in Seq(Character) /\ Rest(p.directives, Len(p.text)) = Cat(Spelled(d), R)
  BY <1>1, CurrentIs
<1>4. Quiet \subseteq Character
  BY DEF Quiet
<1>5. /\ d.letter = "%" \/ d.letter \in Letters
      /\ d.letter = "%" => d.char \in Character
      /\ d.letter \in Letters => d.width \in 0 .. 9
  BY <1>3, <1>4, DirectiveIs
<1> DEFINE Some(w) == \E x \in Character, y \in Seq(Character) : w = Cat(<<x>>, y)
<1>6. \A w : Some(w) => w # <<>>
  BY ConsIs
<1>7. "%" \in Character /\ "0" \in Character /\ d.letter \in Character
  BY <1>5, DigitCharacters
<1>8. AfterZero(d, R) \in Seq(Character) /\ AfterPercent(d, R) \in Seq(Character)
  BY <1>3, <1>4, SpelledIs
<1>9. Some(Cat(<<d.letter>>, R))
  BY <1>3, <1>7
<1>10. d.letter # "%" => Some(AfterZero(d, R))
  <2>1. CASE d.width > 0 /\ d.letter # "%"
    <3>1. d.width + 1 \in 1 .. 16
      BY <1>5, <2>1, SMTT(60)
    <3>2. Digit[d.width + 1] \in Character
      BY <3>1, DigitCharacters
    <3>3. Cat(<<d.letter>>, R) \in Seq(Character)
      BY <1>3, <1>7, ConsIs
    <3> QED
      BY <2>1, <3>2, <3>3 DEF AfterZero
  <2>2. CASE ~(d.width > 0)
    BY <1>9, <2>2 DEF AfterZero
  <2> QED
    BY <2>1, <2>2
<1>11. Some(AfterPercent(d, R))
  BY <1>3, <1>7, <1>8, <1>10 DEF AfterPercent
<1>12. Some(Cat(Spelled(d), R))
  <2>1. Cat(Spelled(d), R) = IF d.letter = "%" /\ d.char # "%" THEN Cat(<<d.char>>, R) ELSE Cat(<<"%">>, AfterPercent(d, R))
    BY <1>3, <1>4, SpelledIs
  <2> QED
    BY <1>3, <1>5, <1>7, <1>8, <2>1
<1> HIDE DEF Some
<1>13. Some(p.w)
  BY <1>3, <1>9, <1>10, <1>11, <1>12 DEF Parsed
<1> QED
  BY <1>6, <1>13

\* What is left of the program's call, and what the log has.
Balance(left) == Len(log) + Len(left) + lost = Len(meant) /\ (lost = 0 => log \o left = meant)

LogTypes ==
  /\ space \in 0 .. Depth /\ lost \in Nat /\ interrupts \in Nat /\ lost <= interrupts
  /\ log \in Seq(Quiet) /\ meant \in Seq(Quiet) /\ clock_in_sec \in 0 .. 2 ^ Width - 1

Fine(p) == Parsed(p) /\ p.checked \in BOOLEAN /\ (p.checked => p.out # <<>>)
Alone(p) == Fine(p) /\ Balance(p.out) /\ (p.checked /\ space = 0 => lost < interrupts)
Nested(p, q) ==
  Fine(p) /\ Fine(q) /\ Balance(p.out) /\ (p.checked => lost < interrupts) /\ (q.checked => space > 0)

LogInv ==
  /\ LogTypes
  /\ \/ calls = <<>> /\ Balance(<<>>)
     \/ \E p : calls = <<p>> /\ Alone(p)
     \/ \E p, q : calls = <<p, q>> /\ Nested(p, q)


\* A stack of one call and of two.
LEMMA TopIs ==
  ASSUME NEW p, NEW q, NEW r
  PROVE  /\ Len(<<p>>) = 1 /\ Len(<<p, q>>) = 2 /\ <<p>>[1] = p /\ <<p, q>>[2] = q /\ <<p>> # <<>> /\ <<p, q>> # <<>>
         /\ [<<p>> EXCEPT ![1] = r] = <<r>> /\ [<<p, q>> EXCEPT ![2] = r] = <<p, r>>
         /\ Append(<<p>>, r) = <<p, r>>
         /\ Front(<<p>>) = <<>> /\ Front(<<p, q>>) = <<p>>
<1>1. Front(<<p>>) = <<>>
  <2>1. Front(<<p>>) = SubSeq(<<p>>, 1, 0)
    BY DEF Front
  <2> QED
    BY <2>1, SubSeqEmpty
<1>2. Front(<<p, q>>) = <<p>>
  <2> DEFINE s == <<p, q>>
             f == SubSeq(s, 1, 1)
             C == {p, q}
  <2>1. Front(s) = f
    BY DEF Front
  <2>2. \A i \in 1 .. 1 : s[i] \in C
    OBVIOUS
  <2>3. s[1] = p
    OBVIOUS
  <2> HIDE DEF s, C, f
  <2>4. f \in Seq(C) /\ Len(f) = 1 /\ f[1] = s[1]
    BY <2>2, SubSeqProperties DEF f
  <2> QED
    BY <2>1, <2>3, <2>4 DEF s
<1>3. Len(<<p>>) = 1 /\ Len(<<p, q>>) = 2 /\ <<p>>[1] = p /\ <<p, q>>[2] = q /\ <<p>> # <<>> /\ <<p, q>> # <<>>
  OBVIOUS
<1>4. [<<p>> EXCEPT ![1] = r] = <<r>>
  OBVIOUS
<1>5. [<<p, q>> EXCEPT ![2] = r] = <<p, r>>
  <2> DEFINE s == <<p, q>>
             t == <<p, r>>
             e == [s EXCEPT ![2] = r]
  <2>1. DOMAIN s = 1 .. 2 /\ s[1] = p /\ t = [i \in 1 .. 2 |-> IF i = 1 THEN p ELSE r]
    OBVIOUS
  <2> HIDE DEF s, t
  <2>2. e = [i \in 1 .. 2 |-> IF i = 2 THEN r ELSE s[i]]
    BY <2>1
  <2>3. \A i \in 1 .. 2 : (IF i = 2 THEN r ELSE s[i]) = (IF i = 1 THEN p ELSE r)
    BY <2>1
  <2> QED
    BY <2>1, <2>2, <2>3 DEF s, t
<1>6. Append(<<p>>, r) = <<p, r>>
  <2> DEFINE K == {p, r}
             u == <<p>>
             v == <<p, r>>
             a == Append(u, r)
  <2>1. /\ u \in Seq(K) /\ r \in K /\ Len(u) = 1 /\ u[1] = p
        /\ v \in Seq(K) /\ Len(v) = 2 /\ v[1] = p /\ v[2] = r
    OBVIOUS
  <2> HIDE DEF K, u, v
  <2>2. a \in Seq(K) /\ Len(a) = 2 /\ a[2] = r /\ a[1] = p
    <3>1. a \in Seq(K) /\ Len(a) = Len(u) + 1 /\ a[Len(u) + 1] = r /\ \A i \in 1 .. Len(u) : a[i] = u[i]
      <4>1. u \in Seq(K) /\ r \in K
        BY <2>1
      <4>2. /\ Append(u, r) \in Seq(K) /\ Len(Append(u, r)) = Len(u) + 1
            /\ Append(u, r)[Len(u) + 1] = r /\ \A i \in 1 .. Len(u) : Append(u, r)[i] = u[i]
        BY <4>1, AppendProperties
      <4> QED
        BY <4>2
    <3> HIDE DEF a
    <3>2. 1 \in 1 .. Len(u) /\ Len(u) + 1 = 2
      BY <2>1
    <3> QED
      BY <2>1, <3>1, <3>2
  <2> HIDE DEF a
  <2>3. \A i \in 1 .. 2 : i = 1 \/ i = 2
    OBVIOUS
  <2>4. Len(a) = Len(v) /\ \A i \in 1 .. Len(a) : a[i] = v[i]
    BY <2>1, <2>2, <2>3
  <2>5. a = v
    BY <2>1, <2>2, <2>4, SeqEqual
  <2> QED
    BY <2>5 DEF a, u, v
<1> QED
  BY <1>1, <1>2, <1>3, <1>4, <1>5, <1>6

\* What the program has converted is to be logged.
LEMMA BalanceConverts ==
  ASSUME NEW a \in Seq(Quiet), NEW m \in Seq(Quiet), NEW out \in Seq(Quiet), NEW n \in Nat,
         Len(a) + Len(<<>>) + n = Len(m), n = 0 => a \o <<>> = m
  PROVE  m \o out \in Seq(Quiet) /\ Len(a) + Len(out) + n = Len(m \o out) /\ (n = 0 => a \o out = m \o out)
<1>1. a \o <<>> = a /\ Len(<<>>) = 0
  BY CatEmpty DEF Cat
<1>2. m \o out \in Seq(Quiet) /\ Len(m \o out) = Len(m) + Len(out) /\ Len(a) \in Nat /\ Len(m) \in Nat /\ Len(out) \in Nat
  BY ConcatProperties, LenProperties
<1> QED
  BY <1>1, <1>2, SMTT(60)

\* A character goes from the call to the log, or is lost.
LEMMA BalancePuts ==
  ASSUME NEW a \in Seq(Quiet), NEW out \in Seq(Quiet), out # <<>>
  PROVE  /\ Append(a, Head(out)) \in Seq(Quiet) /\ Tail(out) \in Seq(Quiet)
         /\ Append(a, Head(out)) \o Tail(out) = a \o out
         /\ Len(Append(a, Head(out))) = Len(a) + 1 /\ Len(Tail(out)) = Len(out) - 1
         /\ Len(a) \in Nat /\ Len(out) \in Nat
<1>1. Head(out) \in Quiet /\ Tail(out) \in Seq(Quiet) /\ Len(Tail(out)) = Len(out) - 1 /\ Len(a) \in Nat /\ Len(out) \in Nat
  BY HeadTailProperties, LenProperties
<1>2. Append(a, Head(out)) \in Seq(Quiet) /\ Len(Append(a, Head(out))) = Len(a) + 1
  BY <1>1, AppendIs
<1> DEFINE x == Head(out)
           t == Tail(out)
           o == <<x>>
<1>3. o \in Seq(Quiet)
  BY <1>1, SingletonIsSeq
<1>4. Append(a, x) = a \o o
  BY <1>1, AppendIsConcat
<1>5. out = o \o t
  <2>1. Len(out) \in Nat \ {0}
    BY EmptySeq
  <2>2. 1 \in 1 .. Len(out) /\ Len(out) \in 1 .. Len(out) /\ out[1] = x
    BY <2>1
  <2>3. SubSeq(out, 1, Len(out)) = <<out[1]>> \o SubSeq(out, 1 + 1, Len(out))
    BY <2>2, SubSeqRecursiveFirst
  <2>4. SubSeq(out, 1, Len(out)) = out /\ t = SubSeq(out, 2, Len(out))
    BY SubSeqFull, TailIsSubSeq
  <2> QED
    BY <2>2, <2>3, <2>4
<1>6. (a \o o) \o t = a \o (o \o t)
  <2>1. t \in Seq(Quiet)
    BY <1>1
  <2> HIDE DEF o, t
  <2> QED
    BY <1>3, <2>1, ConcatAssociative
<1> QED
  BY <1>1, <1>2, <1>4, <1>5, <1>6

\* A call that is converted, checked or put stays the one it was.
LEMMA FineIs ==
  ASSUME NEW p, Fine(p)
  PROVE  /\ p.out = <<>> => p.checked = FALSE
         /\ p.out \in Seq(Quiet)
         /\ p.out = <<>> /\ p.w # <<>> => Fine(Converted(p)) /\ Converted(p).checked = FALSE /\ Converted(p).out \in Seq(Quiet)
         /\ LET r == [p EXCEPT !.checked = TRUE]
            IN p.out # <<>> => Fine(r) /\ r.checked = TRUE /\ r.out = p.out
         /\ LET r == [p EXCEPT !.checked = FALSE, !.out = Tail(p.out)]
            IN p.checked => Fine(r) /\ r.checked = FALSE /\ r.out = Tail(p.out)
<1>1. Parsed(p) /\ p.checked \in BOOLEAN /\ (p.checked => p.out # <<>>) /\ DOMAIN p = CallFields /\ p.out \in Seq(Quiet)
  BY DEF Fine, Parsed, Answered
<1>2. p.out = <<>> => p.checked = FALSE
  BY <1>1
<1>3. ASSUME p.out = <<>>, p.w # <<>>
      PROVE  Fine(Converted(p)) /\ Converted(p).checked = FALSE /\ Converted(p).out \in Seq(Quiet)
  <2>1. Parsed(Converted(p)) /\ Same(Converted(p), p)
    BY <1>1, <1>3, ConvertedIs
  <2> DEFINE r == Converted(p)
  <2> HIDE DEF r
  <2>2. r.checked = FALSE /\ r.out \in Seq(Quiet) /\ Parsed(r)
    BY <1>2, <1>3, <2>1 DEF r, Same, Parsed, Answered
  <2> QED
    BY <2>2 DEF Fine, r
<1>4. ASSUME p.out # <<>>
      PROVE  LET r == [p EXCEPT !.checked = TRUE] IN Fine(r) /\ r.checked = TRUE /\ r.out = p.out
  <2> DEFINE r == [p EXCEPT !.checked = TRUE]
  <2>1. /\ DOMAIN r = CallFields /\ r.checked = TRUE /\ r.out = p.out /\ r.w = p.w /\ r.args = p.args /\ r.state = p.state
        /\ r.fmt = p.fmt /\ r.text = p.text /\ r.directives = p.directives /\ r.given = p.given
    BY <1>1 DEF CallFields
  <2> HIDE DEF r
  <2>2. Parsed(r)
    BY <1>1, <2>1, ParsedSame
  <2>3. Fine(r)
    BY <1>4, <2>1, <2>2 DEF Fine
  <2> QED
    BY <2>1, <2>3 DEF r
<1>5. ASSUME p.checked
      PROVE  LET r == [p EXCEPT !.checked = FALSE, !.out = Tail(p.out)]
             IN Fine(r) /\ r.checked = FALSE /\ r.out = Tail(p.out)
  <2> DEFINE t == Tail(p.out)
             r == [p EXCEPT !.checked = FALSE, !.out = t]
  <2>1. t \in Seq(Quiet)
    BY <1>1, <1>5, HeadTailProperties
  <2> HIDE DEF t
  <2>2. /\ DOMAIN r = CallFields /\ r.checked = FALSE /\ r.out = t /\ r.w = p.w /\ r.args = p.args /\ r.state = p.state
        /\ r.fmt = p.fmt /\ r.text = p.text /\ r.directives = p.directives /\ r.given = p.given
    BY <1>1 DEF CallFields
  <2> HIDE DEF r
  <2>3. Parsed(r)
    BY <1>1, <2>1, <2>2, ParsedSame
  <2>4. Fine(r)
    BY <2>2, <2>3 DEF Fine
  <2> QED
    BY <2>2, <2>4 DEF r, t
<1> QED
  BY <1>1, <1>2, <1>3, <1>4, <1>5

\* A call that begins is fine: nothing is parsed, printed or checked.
LEMMA FineCall ==
  ASSUME NEW ds, NEW as, Fits(ds, as, Quiet)
  PROVE  Fine(Call(ds, as)) /\ Call(ds, as).out = <<>> /\ Call(ds, as).checked = FALSE
BY CallIs DEF Fine

-----------------------------------------------------------------------------

\* The next directive is converted: what is printed answers it, and the format left is the next one's.
LEMMA LogConvert ==
  ASSUME LogInv, Convert
  PROVE  LogInv'
<1>1. /\ LogTypes /\ calls # <<>> /\ Top.out = <<>> /\ Top.w # <<>>
      /\ calls' = [calls EXCEPT ![Len(calls)] = Converted(Top)]
      /\ meant' = (IF Interrupted THEN meant ELSE meant \o Converted(Top).out)
      /\ UNCHANGED <<space, log, lost, interrupts, clock_in_sec>>
  BY DEF LogInv, Convert, Step
<1>2. CASE \E p : calls = <<p>> /\ Alone(p)
  <2>1. PICK p : calls = <<p>> /\ Alone(p)
    BY <1>2
  <2> DEFINE r == Converted(p)
  <2>2. Top = p /\ ~Interrupted /\ [calls EXCEPT ![Len(calls)] = r] = <<r>>
    BY <2>1, TopIs DEF Top, Interrupted
  <2>3. Fine(p) /\ Balance(p.out) /\ p.out = <<>> /\ p.w # <<>>
    BY <1>1, <2>1, <2>2 DEF Alone
  <2>4. Fine(r) /\ r.checked = FALSE /\ r.out \in Seq(Quiet)
    BY <2>3, FineIs
  <2> HIDE DEF r
  <2>5. calls' = <<r>> /\ meant' = meant \o r.out
    BY <1>1, <2>2 DEF r
  <2>6. /\ meant \o r.out \in Seq(Quiet) /\ Len(log) + Len(r.out) + lost = Len(meant \o r.out)
        /\ lost = 0 => log \o r.out = meant \o r.out
    <3>1. Len(log) + Len(<<>>) + lost = Len(meant) /\ (lost = 0 => log \o <<>> = meant)
      BY <2>3 DEF Balance
    <3> QED
      <4> DEFINE o == r.out
      <4>1. log \in Seq(Quiet) /\ meant \in Seq(Quiet) /\ lost \in Nat /\ o \in Seq(Quiet)
        BY <1>1, <2>4 DEF LogTypes
      <4> HIDE DEF o
      <4>2. /\ meant \o o \in Seq(Quiet) /\ Len(log) + Len(o) + lost = Len(meant \o o)
            /\ lost = 0 => log \o o = meant \o o
        BY <3>1, <4>1, BalanceConverts, SMTT(60)
      <4> QED
        BY <4>2 DEF o
  <2>7. LogTypes'
    BY <1>1, <2>5, <2>6 DEF LogTypes
  <2>8. Balance(r.out)'
    BY <1>1, <2>5, <2>6 DEF Balance
  <2>9. Alone(r)'
    BY <2>4, <2>8 DEF Alone
  <2> QED
    BY <2>5, <2>7, <2>9 DEF LogInv
<1>3. CASE \E p, q : calls = <<p, q>> /\ Nested(p, q)
  <2>1. PICK p, q : calls = <<p, q>> /\ Nested(p, q)
    BY <1>3
  <2> DEFINE r == Converted(q)
  <2>2. Top = q /\ Interrupted /\ [calls EXCEPT ![Len(calls)] = r] = <<p, r>>
    BY <2>1, TopIs DEF Top, Interrupted
  <2>3. Fine(q) /\ q.out = <<>> /\ q.w # <<>>
    BY <1>1, <2>1, <2>2 DEF Nested
  <2>4. Fine(r) /\ r.checked = FALSE
    BY <2>3, FineIs
  <2> HIDE DEF r
  <2>5. calls' = <<p, r>> /\ meant' = meant
    BY <1>1, <2>2 DEF r
  <2>6. Nested(p, r)' /\ LogTypes'
    BY <1>1, <2>1, <2>4, <2>5 DEF Nested, LogTypes, Balance
  <2> QED
    BY <2>5, <2>6 DEF LogInv
<1> QED
  BY <1>1, <1>2, <1>3 DEF LogInv

\* The space in the JTAG UART is read, and may be stale by the time it is used.
LEMMA LogCheck ==
  ASSUME LogInv, Check
  PROVE  LogInv'
<1>1. /\ LogTypes /\ calls # <<>> /\ Top.out # <<>> /\ space > 0
      /\ calls' = [calls EXCEPT ![Len(calls)] = [Top EXCEPT !.checked = TRUE]]
      /\ UNCHANGED <<space, log, lost, meant, interrupts, clock_in_sec>>
  BY DEF LogInv, Check, Step, MayPut
<1>2. CASE \E p : calls = <<p>> /\ Alone(p)
  <2>1. PICK p : calls = <<p>> /\ Alone(p)
    BY <1>2
  <2> DEFINE e == [p EXCEPT !.checked = TRUE]
  <2>2. Top = p /\ [calls EXCEPT ![Len(calls)] = e] = <<e>>
    <3> HIDE DEF e
    <3> QED
      BY <2>1, TopIs DEF Top
  <2>3. Fine(e) /\ e.out = p.out
    BY <1>1, <2>1, <2>2, FineIs DEF Alone
  <2> HIDE DEF e
  <2>4. calls' = <<e>>
    BY <1>1, <2>2 DEF e
  <2>5. Alone(e)' /\ LogTypes'
    BY <1>1, <2>1, <2>3 DEF Alone, LogTypes, Balance
  <2> QED
    BY <2>4, <2>5 DEF LogInv
<1>3. CASE \E p, q : calls = <<p, q>> /\ Nested(p, q)
  <2>1. PICK p, q : calls = <<p, q>> /\ Nested(p, q)
    BY <1>3
  <2> DEFINE e == [q EXCEPT !.checked = TRUE]
  <2>2. Top = q /\ [calls EXCEPT ![Len(calls)] = e] = <<p, e>>
    <3> HIDE DEF e
    <3> QED
      BY <2>1, TopIs DEF Top
  <2>3. Fine(e)
    BY <1>1, <2>1, <2>2, FineIs DEF Nested
  <2> HIDE DEF e
  <2>4. calls' = <<p, e>>
    BY <1>1, <2>2 DEF e
  <2>5. Nested(p, e)' /\ LogTypes'
    BY <1>1, <2>1, <2>3 DEF Nested, LogTypes, Balance
  <2> QED
    BY <2>4, <2>5 DEF LogInv
<1> QED
  BY <1>1, <1>2, <1>3 DEF LogInv

\* A character is written, or lost because an interrupt filled the FIFO meanwhile.
LEMMA LogPut ==
  ASSUME LogInv, Put1
  PROVE  LogInv'
<1>1. /\ LogTypes /\ calls # <<>> /\ Top.checked
      /\ calls' = [calls EXCEPT ![Len(calls)] = [Top EXCEPT !.checked = FALSE, !.out = Tail(Top.out)]]
      /\ space > 0 => /\ space' = space - 1 /\ lost' = lost
                      /\ log' = (IF Interrupted THEN log ELSE Append(log, Head(Top.out)))
      /\ ~(space > 0) => lost' = lost + 1 /\ space' = space /\ log' = log
      /\ UNCHANGED <<meant, interrupts, clock_in_sec>>
  BY DEF LogInv, Put1, Step
<1>2. CASE \E p : calls = <<p>> /\ Alone(p)
  <2>1. PICK p : calls = <<p>> /\ Alone(p)
    BY <1>2
  <2> DEFINE r == [p EXCEPT !.checked = FALSE, !.out = Tail(p.out)]
  <2>2. Top = p /\ ~Interrupted /\ [calls EXCEPT ![Len(calls)] = r] = <<r>>
    BY <2>1, TopIs DEF Top, Interrupted
  <2>3. Fine(p) /\ Balance(p.out) /\ p.checked /\ (space = 0 => lost < interrupts)
    BY <1>1, <2>1, <2>2 DEF Alone
  <2>4. Fine(r) /\ r.checked = FALSE /\ r.out = Tail(p.out) /\ p.out \in Seq(Quiet) /\ p.out # <<>>
    BY <2>3, FineIs DEF Fine
  <2> HIDE DEF r
  <2>5. calls' = <<r>>
    BY <1>1, <2>2 DEF r
  <2> DEFINE a == Append(log, Head(p.out))
             t == Tail(p.out)
  <2>6. /\ a \in Seq(Quiet) /\ t \in Seq(Quiet) /\ a \o t = log \o p.out
        /\ Len(a) = Len(log) + 1 /\ Len(t) = Len(p.out) - 1 /\ Len(log) \in Nat /\ Len(p.out) \in Nat
    BY <1>1, <2>4, BalancePuts DEF LogTypes
  <2>7. /\ space > 0 => log' = a
        /\ r.out = t
    BY <1>1, <2>2, <2>4
  <2> HIDE DEF a, t
  <2>8. Depth \in Nat
    BY LogAssumption
  <2>9. LogTypes'
    BY <1>1, <2>3, <2>6, <2>7, <2>8, SMTT(60) DEF LogTypes
  <2>10. Balance(r.out)'
    <3>1. CASE space > 0
      <4>1. lost' = lost /\ meant' = meant /\ log' = a /\ lost \in Nat
        BY <1>1, <2>7, <3>1 DEF LogTypes
      <4>2. Len(log) + Len(p.out) + lost = Len(meant) /\ (lost = 0 => log \o p.out = meant)
        BY <2>3 DEF Balance
      <4>3. Len(a) + Len(t) + lost = Len(meant) /\ (lost = 0 => a \o t = meant)
        <5>1. lost = 0 => a \o t = meant
          BY <2>6, <4>2
        <5>2. Len(a) + Len(t) + lost = Len(log) + Len(p.out) + lost
          <6> DEFINE la == Len(a)
                     lt == Len(t)
                     lg == Len(log)
                     lo == Len(p.out)
          <6>1. la = lg + 1 /\ lt = lo - 1 /\ lg \in Nat /\ lo \in Nat /\ lost \in Nat
            BY <2>6, <4>1
          <6> HIDE DEF la, lt, lg, lo
          <6>2. la + lt + lost = lg + lo + lost
            BY <6>1
          <6> QED
            BY <6>2 DEF la, lt, lg, lo
        <5> QED
          BY <4>2, <5>1, <5>2
      <4> QED
        BY <2>7, <4>1, <4>3 DEF Balance
    <3>2. CASE ~(space > 0)
      <4>1. lost' # 0
        BY <1>1, <3>2 DEF LogTypes
      <4>2. Len(log) + Len(t) + (lost + 1) = Len(meant)
        <5>1. Len(log) + Len(p.out) + lost = Len(meant) /\ lost \in Nat
          BY <1>1, <2>3 DEF LogTypes, Balance
        <5> DEFINE lt == Len(t)
                   lg == Len(log)
                   lo == Len(p.out)
                   lm == Len(meant)
        <5>2. lt = lo - 1 /\ lg \in Nat /\ lo \in Nat /\ lg + lo + lost = lm
          BY <2>6, <5>1
        <5> HIDE DEF lt, lg, lo, lm
        <5>3. lg + lt + (lost + 1) = lm
          BY <5>1, <5>2
        <5> QED
          BY <5>3 DEF lt, lg, lm
      <4> QED
        BY <1>1, <2>7, <3>2, <4>1, <4>2 DEF Balance
    <3> QED
      BY <3>1, <3>2
  <2>11. Alone(r)'
    BY <2>4, <2>10 DEF Alone
  <2> QED
    BY <2>5, <2>9, <2>11 DEF LogInv
<1>3. CASE \E p, q : calls = <<p, q>> /\ Nested(p, q)
  <2>1. PICK p, q : calls = <<p, q>> /\ Nested(p, q)
    BY <1>3
  <2> DEFINE r == [q EXCEPT !.checked = FALSE, !.out = Tail(q.out)]
  <2>2. Top = q /\ Interrupted /\ [calls EXCEPT ![Len(calls)] = r] = <<p, r>>
    BY <2>1, TopIs DEF Top, Interrupted
  <2>3. Fine(q) /\ q.checked /\ space > 0
    BY <1>1, <2>1, <2>2 DEF Nested
  <2>4. Fine(r) /\ r.checked = FALSE
    BY <2>3, FineIs
  <2> HIDE DEF r
  <2>5. calls' = <<p, r>>
    BY <1>1, <2>2 DEF r
  <2>6. Depth \in Nat
    BY LogAssumption
  <2>7. Nested(p, r)' /\ LogTypes'
    BY <1>1, <2>1, <2>2, <2>3, <2>4, <2>6 DEF Nested, LogTypes, Balance
  <2> QED
    BY <2>5, <2>7 DEF LogInv
<1> QED
  BY <1>1, <1>2, <1>3 DEF LogInv

\* A call returns, to the one it interrupted if there is one.
LEMMA LogReturn ==
  ASSUME LogInv, Return
  PROVE  LogInv'
<1>1. /\ LogTypes /\ calls # <<>> /\ Top.out = <<>> /\ calls' = Front(calls)
      /\ UNCHANGED <<space, log, lost, meant, interrupts, clock_in_sec>>
  BY DEF LogInv, Return
<1>2. CASE \E p : calls = <<p>> /\ Alone(p)
  <2>1. PICK p : calls = <<p>> /\ Alone(p)
    BY <1>2
  <2>2. Top = p /\ calls' = <<>>
    BY <1>1, <2>1, TopIs DEF Top
  <2>3. Balance(<<>>)' /\ LogTypes'
    BY <1>1, <2>1, <2>2 DEF Alone, LogTypes, Balance
  <2> QED
    BY <2>2, <2>3 DEF LogInv
<1>3. CASE \E p, q : calls = <<p, q>> /\ Nested(p, q)
  <2>1. PICK p, q : calls = <<p, q>> /\ Nested(p, q)
    BY <1>3
  <2>2. calls' = <<p>>
    BY <1>1, <2>1, TopIs
  <2>3. Alone(p)' /\ LogTypes'
    BY <1>1, <2>1 DEF Alone, Nested, LogTypes, Balance
  <2> QED
    BY <2>2, <2>3 DEF LogInv
<1> QED
  BY <1>1, <1>2, <1>3 DEF LogInv

\* The host empties the FIFO of some characters: there is more space than was read.
LEMMA LogHostReads ==
  ASSUME LogInv, HostReads
  PROVE  LogInv'
<1>1. /\ LogTypes /\ space < Depth /\ space' = space + 1
      /\ UNCHANGED <<calls, log, lost, meant, interrupts, clock_in_sec>>
  BY DEF LogInv, HostReads
<1>2. Depth \in Nat
  BY LogAssumption
<1>3. LogTypes'
  BY <1>1, <1>2 DEF LogTypes
<1>4. \A left : Balance(left)' <=> Balance(left)
  BY <1>1 DEF Balance
<1>5. \A p : Alone(p) => Alone(p)'
  BY <1>1, <1>4 DEF Alone, LogTypes
<1>6. \A p, q : Nested(p, q) => Nested(p, q)'
  BY <1>1, <1>4 DEF Nested, LogTypes
<1> QED
  BY <1>1, <1>3, <1>4, <1>5, <1>6 DEF LogInv

-----------------------------------------------------------------------------

\* Nothing of the log changes.
LEMMA LogStays ==
  ASSUME LogInv, UNCHANGED <<calls, space, log, lost, meant, interrupts, clock_in_sec>>
  PROVE  LogInv'
BY DEF LogInv, LogTypes, Alone, Nested, Balance

\* What the program logs begins a call that has nothing to interrupt.
LEMMA LogCalls ==
  ASSUME LogInv, NEW on \in BOOLEAN, NEW ds, NEW as, on => Fits(ds, as, Quiet), Calls(on, ds, as)
  PROVE  LogInv'
<1>1. /\ calls = <<>> /\ calls' = (IF on THEN <<Call(ds, as)>> ELSE <<>>)
      /\ UNCHANGED <<space, log, lost, meant, interrupts, clock_in_sec>>
  BY DEF Calls
<1>2. LogTypes' /\ Balance(<<>>)
  <2>1. \A p, q : <<>> # <<p>> /\ <<>> # <<p, q>>
    OBVIOUS
  <2> QED
    BY <1>1, <2>1 DEF LogInv, LogTypes
<1>3. CASE on
  <2> DEFINE c == Call(ds, as)
  <2>1. Fine(c) /\ c.out = <<>> /\ c.checked = FALSE
    BY <1>3, FineCall
  <2> HIDE DEF c
  <2>2. Alone(c)'
    BY <1>1, <1>2, <2>1 DEF Alone, Balance
  <2>3. calls' = <<c>>
    BY <1>1, <1>3 DEF c
  <2> QED
    BY <1>2, <2>2, <2>3 DEF LogInv
<1>4. CASE ~on
  BY <1>1, <1>2, <1>4 DEF LogInv, Balance
<1> QED
  BY <1>3, <1>4

\* An interrupt logs in the middle of what the program logs.
LEMMA LogInterrupts ==
  ASSUME LogInv, Busy, NEW ds, NEW as, Fits(ds, as, Quiet), Interrupts(Call(ds, as)),
         clock_in_sec' \in 0 .. 2 ^ Width - 1
  PROVE  LogInv'
<1> DEFINE c == Call(ds, as)
<1>1. /\ ~Interrupted /\ interrupts' = interrupts + 1 /\ calls' = Append(calls, c) /\ calls # <<>>
      /\ UNCHANGED <<space, log, lost, meant>>
  BY DEF Interrupts, Busy
<1>2. Fine(c) /\ c.checked = FALSE
  BY FineCall
<1> HIDE DEF c
<1>3. PICK p : calls = <<p>> /\ Alone(p)
  <2>1. \A p, q : calls = <<p, q>> => Len(calls) = 2
    BY TopIs
  <2> QED
    BY <1>1, <2>1 DEF LogInv, Interrupted
<1>4. calls' = <<p, c>>
  BY <1>1, <1>3, TopIs
<1>5. LogTypes'
  BY <1>1 DEF LogInv, LogTypes
<1>6. Nested(p, c)'
  <2>1. lost \in Nat /\ interrupts \in Nat /\ lost <= interrupts
    BY DEF LogInv, LogTypes
  <2> QED
    BY <1>1, <1>2, <1>3, <2>1 DEF Alone, Nested, Balance
<1> QED
  BY <1>4, <1>5, <1>6 DEF LogInv

\* A message of the control register: how much room there is and what is left in the ring.
LEMMA RegisterIs ==
  ASSUME LogTypes, NEW h \in Seq(Quiet), NEW ring \in 0 .. 2 ^ Width - 1
  PROVE  LET p == print_control_reg(h, ring)
         IN p = Call(p.directives, p.given) /\ Fits(p.directives, p.given, Quiet)
<1> DEFINE ds == <<Plain("s"), Plain("d"), Plain("d")>>
           as == <<h, ring, space>>
           p == print_control_reg(h, ring)
<1>1. p = Call(ds, as)
  BY DEF print_control_reg
<1>2. p.directives = ds /\ p.given = as
  BY DEF print_control_reg, Call
<1>3. space \in 0 .. 2 ^ Width - 1
  BY LogAssumption, WordIs DEF LogTypes
<1>4. Fits(ds, as, Quiet)
  BY <1>3, FitsThree
<1> QED
  BY <1>1, <1>2, <1>4

\* Every step of the log.
LEMMA LogSteps ==
  ASSUME LogInv, LogNext
  PROVE  LogInv'
<1>1. LogTypes
  BY DEF LogInv
<1>2. CASE PrintBoot
  <2>1. PICK r \in Logged : Calls(boot_on, r.directives, r.args)
    BY <1>2 DEF PrintBoot
  <2>2. Fits(r.directives, r.args, Quiet) /\ boot_on \in BOOLEAN
    BY LogAssumption DEF boot_on
  <2> QED
    BY <2>1, <2>2, LogCalls
<1>3. CASE startup_info
  <2>1. PICK ring \in {0, 2 ^ Width - 1} :
          LET p == print_control_reg(<<"S">>, ring) IN Calls(startup_info_on, p.directives, p.given)
    BY <1>3 DEF startup_info
  <2>2. <<"S">> \in Seq(Quiet)
    BY LogAssumption DEF Quiet
  <2>3. ring \in 0 .. 2 ^ Width - 1
    BY WordIs
  <2> DEFINE p == print_control_reg(<<"S">>, ring)
  <2>4. Fits(p.directives, p.given, Quiet)
    BY <1>1, <2>2, <2>3, RegisterIs
  <2>5. startup_info_on \in BOOLEAN
    BY DEF startup_info_on
  <2>6. Calls(startup_info_on, p.directives, p.given)
    BY <2>1
  <2> HIDE DEF p
  <2> QED
    BY <2>4, <2>5, <2>6, LogCalls
<1>4. CASE \E s \in Writes : alt_log_write(s)
  <2>1. PICK s \in Writes : alt_log_write(s)
    BY <1>4
  <2> DEFINE ds == <<Plain("s")>>
             on == write_on /\ Len(s) >= 2 /\ EchoLen >= 2
             arg == IF Len(s) >= 2 /\ EchoLen >= 2 THEN EchoString(s) ELSE <<>>
             as == <<arg>>
  <2>2. Calls(on, ds, as)
    BY <2>1 DEF alt_log_write
  <2>3. on \in BOOLEAN
    OBVIOUS
  <2>4. on => Fits(ds, as, Quiet)
    <3> SUFFICES ASSUME on PROVE Fits(ds, as, Quiet)
      OBVIOUS
    <3>1. s \in Seq(Character \cup {"NUL"})
      BY LogAssumption
    <3>2. arg \in Seq(Quiet)
      BY <3>1, EchoIs
    <3>3. "s" \in Letters /\ Plain("s").letter = "s"
      BY DEF Letters, Plain, Directive
    <3>4. arg \in Argument(Plain("s"), Quiet)
      BY <3>2, <3>3 DEF Argument
    <3> HIDE DEF arg
    <3> QED
      BY <3>3, <3>4, FitsOne
  <2> HIDE DEF ds, on, as
  <2> QED
    BY <2>2, <2>3, <2>4, LogCalls
<1>5. ASSUME NEW h, h \in {<<"I">>, <<"A">>}, Busy, Interrupts(print_control_reg(h, 0)), clock_in_sec' = clock_in_sec
      PROVE  LogInv'
  <2>1. h \in Seq(Quiet)
    <3>1. "I" \in Quiet /\ "A" \in Quiet
      BY LogAssumption DEF Quiet
    <3> QED
      BY <1>5, <3>1, SingletonIsSeq
  <2>2. 0 \in 0 .. 2 ^ Width - 1
    BY WordIs
  <2> DEFINE p == print_control_reg(h, 0)
  <2>3. p = Call(p.directives, p.given) /\ Fits(p.directives, p.given, Quiet)
    BY <1>1, <2>1, <2>2, RegisterIs
  <2> HIDE DEF p
  <2>4. Interrupts(Call(p.directives, p.given))
    BY <1>5, <2>3 DEF p
  <2>5. clock_in_sec' \in 0 .. 2 ^ Width - 1
    BY <1>1, <1>5 DEF LogTypes
  <2> QED
    BY <1>5, <2>3, <2>4, <2>5, LogInterrupts
<1>6. CASE isr_proc \/ report_log
  BY <1>5, <1>6 DEF isr_proc, report_log
<1>7. CASE alt_log_system_clock
  <2>1. CASE sys_clk_count + 1 > Interval
    <3>1. Busy /\ Interrupts(Call(<<Plain("u")>>, <<clock_in_sec>>)) /\ clock_in_sec' = (clock_in_sec + 1) % (2 ^ Width)
      BY <1>7, <2>1 DEF alt_log_system_clock
    <3>2. clock_in_sec \in 0 .. 2 ^ Width - 1
      BY <1>1 DEF LogTypes
    <3>3. clock_in_sec' \in 0 .. 2 ^ Width - 1
      <4> DEFINE m == 2 ^ Width
      <4>1. m \in Nat \ {0} /\ clock_in_sec \in 0 .. m - 1 /\ clock_in_sec' = (clock_in_sec + 1) % m
        BY <3>1, <3>2, WordIs
      <4> HIDE DEF m
      <4>2. clock_in_sec' \in 0 .. m - 1
        BY <4>1
      <4> QED
        BY <4>2 DEF m
    <3>4. "u" \in Letters /\ Plain("u").letter = "u"
      BY DEF Letters, Plain, Directive
    <3>5. clock_in_sec \in Argument(Plain("u"), Quiet)
      BY <3>2, <3>4 DEF Argument
    <3>6. Fits(<<Plain("u")>>, <<clock_in_sec>>, Quiet)
      BY <3>4, <3>5, FitsOne
    <3> QED
      BY <3>1, <3>3, <3>6, LogInterrupts
  <2>2. CASE ~(sys_clk_count + 1 > Interval)
    <3>1. UNCHANGED <<calls, space, log, lost, meant, interrupts, clock_in_sec>>
      BY <1>7, <2>2 DEF alt_log_system_clock
    <3> QED
      BY <3>1, LogStays
  <2> QED
    BY <2>1, <2>2
<1> QED
  BY <1>2, <1>3, <1>4, <1>6, <1>7, LogConvert, LogCheck, LogPut, LogReturn, LogHostReads DEF LogNext, Prints

\* The log starts empty, with nothing to print.
LEMMA LogStarts ==
  ASSUME LogInit
  PROVE  LogInv
<1>1. 0 \in 0 .. 2 ^ Width - 1 /\ Depth \in 0 .. Depth
  BY LogAssumption, WordIs
<1>2. LogTypes
  BY <1>1 DEF LogInit, LogTypes
<1>3. Balance(<<>>)
  BY CatEmpty DEF LogInit, Balance, Cat
<1> QED
  BY <1>2, <1>3 DEF LogInit, LogInv

\* In every state of the log.
LEMMA LogInvHolds == LogSpec => []LogInv
<1>1. LogInv /\ [LogNext]_logVars => LogInv'
  <2>1. LogInv /\ UNCHANGED logVars => LogInv'
    BY LogStays DEF logVars
  <2> QED
    BY <2>1, LogSteps
<1> QED
  BY <1>1, LogStarts, PTL DEF LogSpec

\* What alt_log_txchar leaves of a message is complete: a character that was to be printed and is missing from it was
\* lost to an interrupt that logged between the check of the space and the write.
THEOREM LogLosesOnlyToInterrupts == LogSpec => []LogIsComplete
<1>1. LogInv => LogIsComplete
  <2> SUFFICES ASSUME LogInv PROVE LogIsComplete
    OBVIOUS
  <2> DEFINE left == IF calls = <<>> THEN <<>> ELSE calls[1].out
  <2>1. Balance(left)
    <3>1. CASE calls = <<>> /\ Balance(<<>>)
      BY <3>1
    <3>2. CASE \E p : calls = <<p>> /\ Alone(p)
      BY <3>2, TopIs DEF Alone
    <3>3. CASE \E p, q : calls = <<p, q>> /\ Nested(p, q)
      <4>1. PICK p, q : calls = <<p, q>> /\ Nested(p, q)
        BY <3>3
      <4>2. calls # <<>> /\ calls[1] = p
        BY <4>1
      <4> QED
        BY <4>1, <4>2 DEF Nested
    <3> QED
      BY <3>1, <3>2, <3>3 DEF LogInv
  <2>2. lost <= interrupts /\ \A i \in 1 .. Len(log) : log[i] # "EOT"
    <3>1. lost <= interrupts /\ log \in Seq(Quiet)
      BY DEF LogInv, LogTypes
    <3>2. \A i \in 1 .. Len(log) : log[i] \in Quiet
      BY <3>1, ElementOfSeq
    <3> QED
      BY <3>1, <3>2 DEF Quiet
  <2> QED
    BY <2>1, <2>2 DEF Balance, LogIsComplete
<1> QED
  BY <1>1, LogInvHolds, PTL

\* What a call of alt_log_printf_proc has converted when it returns, with its fields and zeros, answers its
\* directives one by one as the C standard has them, for words of any width and arguments of any value.
THEOREM LogPrintsAsAsked == LogSpec => []ConvertsAsAsked
<1>1. LogInv => ConvertsAsAsked
  <2> SUFFICES ASSUME LogInv, NEW n \in 1 .. Len(calls), calls[n].w = <<>>
               PROVE  /\ Len(calls[n].text) = Len(calls[n].directives)
                      /\ \A i \in 1 .. Len(calls[n].text) :
                           Answers(calls[n].text[i], calls[n].directives[i],
                                   ArgOf(calls[n].directives, calls[n].given, i))
    BY DEF ConvertsAsAsked
  <2>1. Fine(calls[n])
    <3>1. calls # <<>>
      OBVIOUS
    <3>2. CASE \E p : calls = <<p>> /\ Alone(p)
      <4>1. PICK p : calls = <<p>> /\ Alone(p)
        BY <3>2
      <4>2. n = 1 /\ calls[n] = p
        BY <4>1
      <4> QED
        BY <4>1, <4>2 DEF Alone
    <3>3. CASE \E p, q : calls = <<p, q>> /\ Nested(p, q)
      <4>1. PICK p, q : calls = <<p, q>> /\ Nested(p, q)
        BY <3>3
      <4>2. calls[n] = p \/ calls[n] = q
        BY <4>1
      <4> QED
        BY <4>1, <4>2 DEF Nested
    <3> QED
      BY <3>1, <3>2, <3>3 DEF LogInv
  <2> QED
    BY <2>1, ParsedEnds DEF Fine, Parsed, Answered
<1> QED
  BY <1>1, LogInvHolds, PTL

IsReads(f, t, ds, as) ==
  f = [x \in (0 .. Len(ds)) \X (0 .. Len(t)) |->
         IF x[1] = Len(ds) THEN x[2] = Len(t)
         ELSE \E n \in x[2] .. Len(t) :
                Answers(SubSeq(t, x[2] + 1, n), ds[x[1] + 1], ArgOf(ds, as, x[1] + 1)) /\ f[<<x[1] + 1, n>>]]

\* There is a function that says which texts are read back to which directives.
LEMMA ReadsExist ==
  ASSUME NEW t, NEW ds, NEW as, Len(ds) \in Nat, Len(t) \in Nat
  PROVE  \E f : IsReads(f, t, ds, as)
<1> DEFINE l == Len(ds)
           m == Len(t)
           ok(x, n) == Answers(SubSeq(t, x[2] + 1, n), ds[x[1] + 1], ArgOf(ds, as, x[1] + 1))
           body(x, g) == IF x[1] = l THEN x[2] = m ELSE \E n \in x[2] .. m : ok(x, n) /\ g[<<x[1] + 1, n>>]
           D(k) == {x \in (0 .. l) \X (0 .. m) : l - x[1] <= k}
           On(f, k) == f = [x \in D(k) |-> body(x, f)]
           N == {k \in Nat : \E f : On(f, k)}
<1>1. l \in Nat /\ m \in Nat
  OBVIOUS
<1>2. IsReads([x \in (0 .. l) \X (0 .. m) |-> TRUE], t, ds, as) \in BOOLEAN
  BY DEF IsReads
<1> HIDE DEF l, m, ok
<1>3. \A x \in D(0) : x[1] = l
  BY <1>1
<1>4. 0 \in N
  <2> DEFINE f == [x \in D(0) |-> x[2] = m]
  <2>1. f = [x \in D(0) |-> body(x, f)]
    BY <1>3
  <2> HIDE DEF f, body, D
  <2> QED
    BY <2>1
<1>5. ASSUME NEW k \in Nat, k \in N PROVE k + 1 \in N
  <2>1. PICK f : On(f, k)
    BY <1>5
  <2> DEFINE e == [x \in D(k + 1) |-> body(x, f)]
  <2>2. D(k) \subseteq D(k + 1)
    BY <1>1
  <2>3. \A x \in D(k + 1) : x[1] # l => \A n \in x[2] .. m : <<x[1] + 1, n>> \in D(k)
    BY <1>1
  <2>4. \A x \in D(k) : e[x] = f[x]
    <3>1. \A x \in D(k) : f[x] = body(x, f)
      BY <2>1
    <3>2. \A x \in D(k + 1) : e[x] = body(x, f)
      OBVIOUS
    <3> HIDE DEF body, e, D
    <3> QED
      BY <2>2, <3>1, <3>2
  <2>5. \A x \in D(k + 1) : body(x, f) = body(x, e)
    <3> HIDE DEF e, D
    <3> QED
      BY <2>3, <2>4
  <2>6. e = [x \in D(k + 1) |-> body(x, e)]
    <3> HIDE DEF body
    <3> QED
      BY <2>5
  <2> HIDE DEF e, body, D
  <2> QED
    BY <2>6
<1>6. l \in N
  <2> HIDE DEF N
  <2> QED
    BY <1>1, <1>4, <1>5, NatInduct
<1>7. PICK f : On(f, l)
  BY <1>6
<1>8. D(l) = (0 .. l) \X (0 .. m)
  BY <1>1
<1>9. f = [x \in (0 .. l) \X (0 .. m) |-> body(x, f)]
  BY <1>7, <1>8
<1>10. IsReads(f, t, ds, as)
  BY <1>9 DEF IsReads, l, m, ok
<1> QED
  BY <1>10

\* A text is cut into answers to the first k directives.
Cuts(c, w, ds, as, k) ==
  /\ c \in [0 .. k -> 0 .. Len(w)] /\ c[0] = 0 /\ c[k] = Len(w)
  /\ \A i \in 0 .. k - 1 : /\ c[i] <= c[i + 1]
                           /\ Answers(SubSeq(w, c[i] + 1, c[i + 1]), ds[i + 1], ArgOf(ds, as, i + 1))

\* A text that is cut at c into answers to all the directives is read back as them.
LEMMA CutsRead ==
  ASSUME NEW c, NEW w, NEW ds, NEW as, Len(ds) \in Nat, Len(w) \in Nat, Cuts(c, w, ds, as, Len(ds))
  PROVE  Reads(w, ds, as)
<1> DEFINE l == Len(ds)
           m == Len(w)
           g == CHOOSE f : IsReads(f, w, ds, as)
           N == {j \in Nat : j <= l => g[<<l - j, c[l - j]>>]}
<1>1. IsReads(g, w, ds, as)
  BY ReadsExist
<1>2. Reads(w, ds, as) = g[<<0, 0>>]
  BY DEF Reads, IsReads
<1>3. /\ c \in [0 .. l -> 0 .. m] /\ c[0] = 0 /\ c[l] = m /\ l \in Nat /\ m \in Nat
      /\ \A i \in 0 .. l - 1 : /\ c[i] <= c[i + 1]
                               /\ Answers(SubSeq(w, c[i] + 1, c[i + 1]), ds[i + 1], ArgOf(ds, as, i + 1))
  BY DEF Cuts
<1> HIDE DEF g
<1>4. ASSUME NEW k \in 0 .. l, NEW u \in 0 .. m
      PROVE  g[<<k, u>>] = IF k = l THEN u = m
                           ELSE \E n \in u .. m :
                                  Answers(SubSeq(w, u + 1, n), ds[k + 1], ArgOf(ds, as, k + 1)) /\ g[<<k + 1, n>>]
  <2> DEFINE ok(x, n) == Answers(SubSeq(w, x[2] + 1, n), ds[x[1] + 1], ArgOf(ds, as, x[1] + 1))
             body(x) == IF x[1] = l THEN x[2] = m ELSE \E n \in x[2] .. m : ok(x, n) /\ g[<<x[1] + 1, n>>]
             D == (0 .. l) \X (0 .. m)
             y == <<k, u>>
  <2>1. g = [x \in D |-> body(x)]
    BY <1>1 DEF IsReads
  <2>2. y \in D /\ y[1] = k /\ y[2] = u
    OBVIOUS
  <2>3. g[y] = body(y)
    <3> HIDE DEF body, D, y
    <3> QED
      BY <2>1, <2>2
  <2> HIDE DEF D
  <2> QED
    BY <2>2, <2>3
<1> HIDE DEF l, m
<1>5. 0 \in N
  <2>1. l \in 0 .. l /\ m \in 0 .. m /\ l - 0 = l
    BY <1>3
  <2>2. g[<<l, m>>]
    BY <1>4, <2>1
  <2> QED
    BY <1>3, <2>1, <2>2
<1>6. ASSUME NEW j \in Nat, j \in N PROVE j + 1 \in N
  <2> SUFFICES ASSUME j + 1 <= l PROVE g[<<l - (j + 1), c[l - (j + 1)]>>]
    OBVIOUS
  <2> DEFINE i == l - (j + 1)
  <2>1. i \in 0 .. l - 1 /\ i + 1 = l - j /\ i # l /\ i \in 0 .. l /\ i + 1 \in 0 .. l /\ j <= l
    BY <1>3
  <2> HIDE DEF i
  <2>2. g[<<i + 1, c[i + 1]>>]
    BY <1>6, <2>1
  <2>3. c[i] \in 0 .. m /\ c[i + 1] \in c[i] .. m
    <3>1. c[i] \in 0 .. m /\ c[i + 1] \in 0 .. m
      BY <1>3, <2>1
    <3>2. c[i] <= c[i + 1]
      BY <1>3, <2>1
    <3> QED
      BY <1>3, <3>1, <3>2
  <2>4. Answers(SubSeq(w, c[i] + 1, c[i + 1]), ds[i + 1], ArgOf(ds, as, i + 1))
    BY <1>3, <2>1
  <2>5. g[<<i, c[i]>>]
    BY <1>4, <2>1, <2>2, <2>3, <2>4
  <2> QED
    BY <2>5 DEF i
<1>7. l \in N
  <2> HIDE DEF N
  <2> QED
    BY <1>3, <1>5, <1>6, NatInduct
<1>8. g[<<0, 0>>]
  <2>1. l - l = 0 /\ l <= l
    BY <1>3
  <2> QED
    BY <1>3, <1>7, <2>1
<1> QED
  BY <1>2, <1>8

\* A piece of the beginning.
LEMMA SubSeqBegins ==
  ASSUME NEW C, NEW v \in Seq(C), NEW w \in Seq(C), Len(w) <= Len(v), SubSeq(v, 1, Len(w)) = w,
         NEW i \in 0 .. Len(w), NEW j \in 0 .. Len(w)
  PROVE  SubSeq(v, i + 1, j) = SubSeq(w, i + 1, j)
<1> DEFINE x == SubSeq(v, i + 1, j)
           y == SubSeq(w, i + 1, j)
           n == Len(w)
<1>1. n \in Nat /\ Len(v) \in Nat
  BY LenProperties
<1>2. \A k \in 1 .. n : v[k] = w[k]
  <2>1. 1 \in Int /\ n \in Int /\ \A k \in 1 .. n : v[k] \in C
    BY <1>1, ElementOfSeq
  <2>2. \A k \in 1 .. n - 1 + 1 : SubSeq(v, 1, n)[k] = v[1 + k - 1]
    BY <2>1, SubSeqProperties
  <2>3. n - 1 + 1 = n /\ \A k \in 1 .. n : 1 + k - 1 = k
    BY <1>1
  <2> HIDE DEF n
  <2>4. \A k \in 1 .. n : SubSeq(v, 1, n)[k] = v[k]
    BY <2>2, <2>3
  <2> QED
    BY <2>4 DEF n
<1>3. /\ i + 1 \in Int /\ j \in Int
      /\ \A k \in i + 1 .. j : k \in 1 .. n /\ v[k] \in C /\ w[k] \in C
  BY <1>1, ElementOfSeq
<1>4. /\ x \in Seq(C) /\ Len(x) = (IF i + 1 <= j THEN j - (i + 1) + 1 ELSE 0)
      /\ \A k \in 1 .. j - (i + 1) + 1 : x[k] = v[i + 1 + k - 1]
  BY <1>3, SubSeqProperties
<1>5. /\ y \in Seq(C) /\ Len(y) = (IF i + 1 <= j THEN j - (i + 1) + 1 ELSE 0)
      /\ \A k \in 1 .. j - (i + 1) + 1 : y[k] = w[i + 1 + k - 1]
  BY <1>3, SubSeqProperties
<1>6. \A k \in 1 .. j - (i + 1) + 1 : i + 1 + k - 1 \in 1 .. n
  BY <1>1
<1> HIDE DEF x, y, n
<1>7. \A k \in 1 .. Len(x) : x[k] = y[k]
  <2>1. \A k \in 1 .. Len(x) : k \in 1 .. j - (i + 1) + 1
    BY <1>4
  <2> QED
    BY <1>2, <1>4, <1>5, <1>6, <2>1
<1>8. Len(x) = Len(y)
  BY <1>4, <1>5
<1> QED
  BY <1>4, <1>5, <1>7, <1>8, SeqEqual DEF x, y

\* Another answer.
LEMMA CutsGrow ==
  ASSUME NEW C, NEW w \in Seq(C), NEW t \in Seq(C), NEW c, NEW ds, NEW as, NEW k \in Nat,
         Cuts(c, w, ds, as, k), Answers(t, ds[k + 1], ArgOf(ds, as, k + 1))
  PROVE  \E e : Cuts(e, Cat(w, t), ds, as, k + 1)
<1> DEFINE tx == Cat(w, t)
           e == [i \in 0 .. k + 1 |-> IF i = k + 1 THEN Len(tx) ELSE c[i]]
<1>1. tx \in Seq(C) /\ Len(tx) = Len(w) + Len(t) /\ SubSeq(tx, 1, Len(w)) = w /\ SubSeq(tx, Len(w) + 1, Len(tx)) = t
  <2>1. Cat(w, t) \in Seq(C)
    BY CatType
  <2>2. /\ Len(Cat(w, t)) = Len(w) + Len(t)
        /\ SubSeq(Cat(w, t), 1, Len(w)) = w
        /\ SubSeq(Cat(w, t), Len(w) + 1, Len(Cat(w, t))) = t
    <3>1. Splits(Cat(w, t), w, t)
      BY CatSplits
    <3> QED
      BY <3>1 DEF Splits
  <2> QED
    BY <2>1, <2>2
<1>2. Len(w) \in Nat /\ Len(t) \in Nat
  BY LenProperties
<1> HIDE DEF tx
<1>3. /\ c \in [0 .. k -> 0 .. Len(w)] /\ c[0] = 0 /\ c[k] = Len(w)
      /\ \A i \in 0 .. k - 1 : c[i] <= c[i + 1] /\ Answers(SubSeq(w, c[i] + 1, c[i + 1]), ds[i + 1], ArgOf(ds, as, i + 1))
  BY DEF Cuts
<1>4. \A i \in 0 .. k : e[i] = c[i]
  OBVIOUS
<1>5. e[k + 1] = Len(tx)
  OBVIOUS
<1>6. e \in [0 .. k + 1 -> 0 .. Len(tx)]
  <2>1. \A i \in 0 .. k + 1 : i # k + 1 => i \in 0 .. k
    OBVIOUS
  <2>2. \A i \in 0 .. k + 1 : (IF i = k + 1 THEN Len(tx) ELSE c[i]) \in 0 .. Len(tx)
    BY <1>1, <1>2, <1>3, <2>1
  <2> QED
    BY <2>2
<1> HIDE DEF e
<1>7. ASSUME NEW i \in 0 .. k
      PROVE  e[i] <= e[i + 1] /\ Answers(SubSeq(tx, e[i] + 1, e[i + 1]), ds[i + 1], ArgOf(ds, as, i + 1))
  <2>1. CASE i = k
    <3>1. e[i] = Len(w) /\ e[i + 1] = Len(tx)
      BY <1>3, <1>4, <1>5, <2>1
    <3>2. SubSeq(tx, e[i] + 1, e[i + 1]) = t
      BY <1>1, <3>1
    <3>3. e[i] <= e[i + 1]
      BY <1>1, <1>2, <3>1
    <3>4. Answers(SubSeq(tx, e[i] + 1, e[i + 1]), ds[i + 1], ArgOf(ds, as, i + 1))
      BY <2>1, <3>2
    <3> QED
      BY <3>3, <3>4
  <2>2. CASE i # k
    <3>1. i \in 0 .. k - 1 /\ i + 1 \in 0 .. k
      BY <2>2
    <3>2. e[i] = c[i] /\ e[i + 1] = c[i + 1] /\ c[i] \in 0 .. Len(w) /\ c[i + 1] \in 0 .. Len(w)
      BY <1>3, <1>4, <3>1
    <3>3. SubSeq(tx, c[i] + 1, c[i + 1]) = SubSeq(w, c[i] + 1, c[i + 1])
      <4> DEFINE m == c[i]
                 n == c[i + 1]
      <4>1. m \in 0 .. Len(w) /\ n \in 0 .. Len(w)
        BY <3>2
      <4> HIDE DEF m, n
      <4>2. Len(w) <= Len(tx)
        BY <1>1, <1>2
      <4>3. SubSeq(tx, m + 1, n) = SubSeq(w, m + 1, n)
        BY <1>1, <4>1, <4>2, SubSeqBegins
      <4> QED
        BY <4>3 DEF m, n
    <3> QED
      BY <1>3, <3>1, <3>2, <3>3
  <2> QED
    BY <2>1, <2>2
<1>8. Cuts(e, tx, ds, as, k + 1)
  <2>1. e[0] = 0 /\ k + 1 - 1 = k
    BY <1>3, <1>4
  <2> DEFINE n == k + 1
  <2>3. e \in [0 .. n -> 0 .. Len(tx)] /\ e[0] = 0 /\ e[n] = Len(tx) /\ n - 1 = k
    BY <1>5, <1>6, <2>1
  <2> HIDE DEF n
  <2>4. \A i \in 0 .. n - 1 : /\ e[i] <= e[i + 1]
                             /\ Answers(SubSeq(tx, e[i] + 1, e[i + 1]), ds[i + 1], ArgOf(ds, as, i + 1))
    BY <1>7, <2>3
  <2>5. Cuts(e, tx, ds, as, n)
    BY <2>3, <2>4, Zenon DEF Cuts
  <2> QED
    BY <2>5 DEF n
<1> QED
  BY <1>8 DEF tx

\* Directives that begin as the others do.
LEMMA CutsKeep ==
  ASSUME NEW c, NEW w, NEW ds, NEW as, NEW es, NEW bs, NEW k \in Nat, Cuts(c, w, ds, as, k),
         \A i \in 1 .. k : es[i] = ds[i] /\ ArgOf(es, bs, i) = ArgOf(ds, as, i)
  PROVE  Cuts(c, w, es, bs, k)
<1>1. \A i \in 0 .. k - 1 : i + 1 \in 1 .. k
  OBVIOUS
<1> QED
  BY <1>1 DEF Cuts

\* A quotient is known by where it lies.
LEMMA QuotientIs ==
  ASSUME NEW v \in Nat, NEW p \in Nat \ {0}, NEW q \in Nat, q * p <= v, v < (q + 1) * p
  PROVE  v \div p = q
<1> DEFINE w == v \div p
           r == v % p
<1>1. w \in Nat /\ r \in 0 .. p - 1 /\ v = w * p + r
  BY DivMod
<1> HIDE DEF w, r
<1>2. w * p \in Nat /\ q * p \in Nat /\ (q + 1) * p \in Nat /\ (w + 1) * p = w * p + p
  BY <1>1
<1>3. w * p < (q + 1) * p /\ q * p < (w + 1) * p
  BY <1>1, <1>2
<1>4. w < q + 1 /\ q < w + 1
  BY <1>1, <1>3, Below
<1> QED
  BY <1>1, <1>4 DEF w

\* Multiplication keeps the order.
LEMMA TimesGrows ==
  ASSUME NEW a \in Nat, NEW b \in Nat, NEW p \in Nat, a <= b
  PROVE  a * p <= b * p
<1>1. PICK c \in Nat : b = a + c
  <2>1. b - a \in Nat /\ b = a + (b - a)
    OBVIOUS
  <2> QED
    BY <2>1
<1>2. b * p = a * p + c * p /\ c * p \in Nat /\ a * p \in Nat
  BY <1>1
<1> QED
  BY <1>2

\* A quotient by 16 times p is one by p and one by 16.
LEMMA QuotientOfQuotient ==
  ASSUME NEW v \in Nat, NEW p \in Nat \ {0}
  PROVE  v \div (p * 16) = (v \div p) \div 16
<1> DEFINE u == v \div p
           q == u \div 16
<1>1. u \in Nat /\ v % p \in 0 .. p - 1 /\ v = u * p + (v % p)
  BY DivMod
<1>2. u * p <= v /\ v < (u + 1) * p
  <2>1. u * p \in Nat /\ (u + 1) * p = u * p + p
    BY <1>1
  <2> QED
    BY <1>1, <2>1
<1> HIDE DEF u
<1>3. q \in Nat /\ 16 * q <= u /\ u + 1 <= 16 * (q + 1)
  BY <1>1
<1> HIDE DEF q
<1>4. (16 * q) * p <= u * p /\ (u + 1) * p <= (16 * (q + 1)) * p
  BY <1>1, <1>3, TimesGrows
<1>5. (16 * q) * p = q * (p * 16) /\ (16 * (q + 1)) * p = (q + 1) * (p * 16)
  BY <1>3
<1>6. q * (p * 16) <= v /\ v < (q + 1) * (p * 16)
  <2>1. u * p \in Nat /\ (u + 1) * p \in Nat /\ q * (p * 16) \in Nat /\ (q + 1) * (p * 16) \in Nat
    BY <1>1, <1>3
  <2> QED
    BY <1>2, <1>4, <1>5, <2>1
<1>7. p * 16 \in Nat \ {0}
  OBVIOUS
<1>8. v \div (p * 16) = q
  <2> DEFINE m == p * 16
  <2>1. m \in Nat \ {0} /\ q * m <= v /\ v < (q + 1) * m
    BY <1>6, <1>7
  <2> HIDE DEF m
  <2>2. v \div m = q
    BY <1>3, <2>1, QuotientIs
  <2> QED
    BY <2>2 DEF m
<1> QED
  BY <1>8 DEF q, u

-----------------------------------------------------------------------------
(* The hexadecimal digits of alt_printf *)

Nibbles == (Width - 1) \div 4 + 1
Up(v, j) == v \div (2 ^ (4 * j))

\* What is left above j nibbles of a word: all of it, nothing, and the next nibble below the rest.
LEMMA UpIs ==
  ASSUME NEW v \in 0 .. 2 ^ Width - 1
  PROVE  /\ Nibbles \in Nat \ {0} /\ Up(v, 0) = v /\ Up(v, Nibbles) = 0
         /\ \A j \in 0 .. Nibbles : Up(v, j) \in Nat
         /\ \A j \in 0 .. Nibbles - 1 : Up(v, j) = Up(v, j + 1) * 16 + (Up(v, j) % 16)
<1> DEFINE P(j) == 2 ^ (4 * j)
           J == Nibbles
<1>1. Width \in Nat \ {0} /\ v \in Nat /\ 2 ^ Width \in Nat \ {0}
  <2>1. Width \in Nat \ {0}
    BY FormatsAssumption
  <2>2. 2 ^ Width \in Nat \ {0}
    BY WordIs
  <2> DEFINE m == 2 ^ Width
  <2>3. v \in 0 .. m - 1 /\ m \in Nat
    BY <2>2
  <2> HIDE DEF m
  <2>4. v \in Nat
    BY <2>3
  <2> QED
    BY <2>1, <2>2, <2>4
<1>2. J \in Nat \ {0} /\ 4 * J <= Width + 3 /\ Width <= 4 * J
  BY <1>1 DEF Nibbles
<1> HIDE DEF J
<1>3. /\ 2 ^ 0 = 1 /\ 2 ^ 1 = 2
      /\ \A i, k \in 0 .. Width + 3 : 2 ^ i \in Nat \ {0} /\ (i + k <= Width + 3 => 2 ^ (i + k) = 2 ^ i * 2 ^ k)
  BY FormatsAssumption
<1>4. 2 ^ 4 = 16
  <2>1. 1 \in 0 .. Width + 3 /\ 2 \in 0 .. Width + 3 /\ 1 + 1 <= Width + 3 /\ 2 + 2 <= Width + 3
    BY <1>1
  <2>2. 2 ^ (1 + 1) = 2 ^ 1 * 2 ^ 1 /\ 2 ^ (2 + 2) = 2 ^ 2 * 2 ^ 2
    BY <1>3, <2>1
  <2>3. 2 ^ 2 = 4
    BY <1>3, <2>2
  <2> QED
    BY <2>2, <2>3
<1>5. \A j \in 0 .. J : P(j) \in Nat \ {0}
  <2> SUFFICES ASSUME NEW j \in 0 .. J PROVE P(j) \in Nat \ {0}
    OBVIOUS
  <2>1. 4 * j \in 0 .. Width + 3
    BY <1>1, <1>2
  <2> QED
    BY <1>3, <2>1
<1>6. \A j \in 0 .. J - 1 : P(j + 1) = P(j) * 16
  <2> SUFFICES ASSUME NEW j \in 0 .. J - 1 PROVE P(j + 1) = P(j) * 16
    OBVIOUS
  <2>1. 4 * j \in 0 .. Width + 3 /\ 4 \in 0 .. Width + 3 /\ 4 * j + 4 <= Width + 3 /\ 4 * (j + 1) = 4 * j + 4
    BY <1>1, <1>2
  <2>2. 2 ^ (4 * j + 4) = 2 ^ (4 * j) * 2 ^ 4
    BY <1>3, <2>1
  <2> QED
    BY <1>4, <2>1, <2>2
<1>7. P(0) = 1 /\ v < P(J)
  <2>1. P(0) = 1
    BY <1>3
  <2> DEFINE e == 4 * J - Width
  <2>2. e \in 0 .. Width + 3 /\ Width \in 0 .. Width + 3 /\ Width + e = 4 * J
    BY <1>1, <1>2
  <2> HIDE DEF e
  <2>3. 2 ^ (Width + e) = 2 ^ Width * 2 ^ e /\ 2 ^ e \in Nat \ {0}
    BY <1>2, <1>3, <2>2
  <2>4. 2 ^ Width * 1 <= 2 ^ Width * 2 ^ e
    <3> DEFINE a == 2 ^ Width
               k == 2 ^ e
    <3>1. a \in Nat \ {0} /\ k \in Nat /\ 1 <= k
      BY <1>1, <2>3
    <3> HIDE DEF a, k
    <3>2. 1 * a <= k * a
      BY <3>1, TimesGrows
    <3>3. 1 * a = a * 1 /\ k * a = a * k
      BY <3>1
    <3> QED
      BY <3>2, <3>3 DEF a, k
  <2> QED
    BY <1>1, <2>1, <2>2, <2>3, <2>4
<1> HIDE DEF P
<1>8. \A j \in 0 .. J : Up(v, j) = v \div P(j) /\ Up(v, j) \in Nat
  <2>1. \A j : Up(v, j) = v \div P(j)
    BY DEF Up, P
  <2>2. \A j \in 0 .. J : v \div P(j) \in Nat
    BY <1>1, <1>5, DivMod
  <2> QED
    BY <2>1, <2>2
<1>9. ASSUME NEW j \in 0 .. J - 1 PROVE Up(v, j) = Up(v, j + 1) * 16 + (Up(v, j) % 16)
  <2>1. j \in 0 .. J /\ j + 1 \in 0 .. J
    BY <1>2
  <2> DEFINE q == P(j)
             u == Up(v, j)
  <2>2. q \in Nat \ {0} /\ P(j + 1) = q * 16 /\ u \in Nat /\ u = v \div q
    BY <1>5, <1>6, <1>8, <2>1
  <2> HIDE DEF q, u
  <2>3. Up(v, j + 1) = u \div 16
    <3>1. v \div (q * 16) = (v \div q) \div 16
      BY <1>1, <2>2, QuotientOfQuotient
    <3> QED
      BY <1>8, <2>1, <2>2, <3>1
  <2>4. u = (u \div 16) * 16 + (u % 16)
    BY <2>2
  <2> QED
    BY <2>3, <2>4 DEF u
<1>10. Up(v, 0) = v
  <2>1. 0 * 1 <= v /\ v = v * 1 /\ v < (v + 1) * 1
    BY <1>1
  <2>2. v \div 1 = v
    BY <1>1, <2>1, QuotientIs
  <2>3. 0 \in 0 .. J
    BY <1>2
  <2> QED
    BY <1>7, <1>8, <2>2, <2>3
<1>11. Up(v, J) = 0
  <2>1. J \in 0 .. J
    BY <1>2
  <2> DEFINE q == P(J)
  <2>2. q \in Nat \ {0} /\ 0 * q = 0 /\ (0 + 1) * q = q /\ v < q
    BY <1>5, <1>7, <2>1
  <2> HIDE DEF q
  <2>3. v \div q = 0
    BY <1>1, <2>2, QuotientIs
  <2> QED
    BY <1>8, <2>1, <2>3 DEF q
<1> QED
  BY <1>2, <1>8, <1>9, <1>10, <1>11 DEF J

\* The digits of Hex are those from the first that is not zero, and they say the number.
LEMMA HexIs ==
  ASSUME NEW v \in 0 .. 2 ^ Width - 1
  PROVE  IsNumeral(Hex(v), "x", v) /\ Hex(v) \in Seq(Quiet)
<1> DEFINE J == Nibbles
           U(j) == Up(v, j)
           h == Shapes("x")
<1>1. /\ J \in Nat \ {0} /\ U(0) = v /\ U(J) = 0
      /\ \A j \in 0 .. J : U(j) \in Nat
      /\ \A j \in 0 .. J - 1 : U(j) = U(j + 1) * 16 + (U(j) % 16)
  BY UpIs
<1>2. "x" \in NumberLetters /\ Base("x") = 16 /\ h = Digit
  BY DEF NumberLetters, Base, Shapes
<1>3. \A j : Nibble(v, 4 * j) = U(j) % 16
  BY DEF Nibble, Up
<1>4. Shifts = {4 * i : i \in 0 .. J - 1}
  <2>1. Width \in Nat \ {0}
    BY FormatsAssumption
  <2>2. (Width - 1) \div 4 = J - 1
    BY <2>1 DEF Nibbles
  <2> QED
    BY <2>2 DEF Shifts
<1> HIDE DEF J, U
<1>5. CASE v = 0
  <2> DEFINE ss == <<0>>
             tt == <<"0">>
             f == [i \in 0 .. 1 |-> 0]
  <2>1. ss \in Seq(0 .. 16 - 1) /\ ss # <<>> /\ Len(ss) = 1
    OBVIOUS
  <2>2. IsValue(f, ss, 16) /\ f[Len(ss)] = 0
    BY DEF IsValue
  <2>3. tt = [i \in 1 .. Len(ss) |-> h[ss[i] + 1]]
    BY <1>2 DEF Digit
  <2>4. Hex(v) = tt
    BY <1>5 DEF Hex
  <2> HIDE DEF ss, tt, f
  <2>5. IsNumeral(tt, "x", f[Len(ss)]) /\ tt \in Seq(Quiet)
    <3>1. Len(ss) > 1 => ss[1] # 0
      BY <2>1
    <3>2. ss \in Seq(0 .. 16 - 1) /\ ss # <<>>
      BY <2>1
    <3>3. IsValue(f, ss, 16)
      BY <2>2
    <3> QED
      BY <1>2, <2>3, <3>1, <3>2, <3>3, DigitsSpell DEF h
  <2> QED
    BY <1>5, <2>2, <2>4, <2>5
<1>6. CASE v # 0
  <2>1. \E j \in 0 .. J - 1 : U(j) # 0 /\ U(j + 1) = 0
    <3> SUFFICES ASSUME \A j \in 0 .. J - 1 : U(j) # 0 => U(j + 1) # 0 PROVE FALSE
      OBVIOUS
    <3> DEFINE N == {n \in Nat : n <= J => U(n) # 0}
    <3>1. 0 \in N
      BY <1>1, <1>6
    <3>2. ASSUME NEW n \in Nat, n \in N PROVE n + 1 \in N
      <4>1. n + 1 <= J => n \in 0 .. J - 1 /\ n <= J
        BY <1>1
      <4> QED
        BY <3>2, <4>1
    <3>3. J \in N
      <4> HIDE DEF N
      <4> QED
        BY <1>1, <3>1, <3>2, NatInduct
    <3> QED
      BY <1>1, <3>3
  <2>2. PICK j \in 0 .. J - 1 : U(j) # 0 /\ U(j + 1) = 0
    BY <2>1
  <2>3. \A i \in 0 .. J - 1 : i > j => U(i) = 0
    <3> DEFINE N == {n \in Nat : j + 1 + n <= J => U(j + 1 + n) = 0}
    <3>1. 0 \in N
      BY <2>2
    <3>2. ASSUME NEW n \in Nat, n \in N PROVE n + 1 \in N
      <4> SUFFICES ASSUME j + 1 + (n + 1) <= J PROVE U(j + 1 + (n + 1)) = 0
        OBVIOUS
      <4> DEFINE m == j + 1 + n
      <4>1. m \in 0 .. J - 1 /\ m + 1 \in 0 .. J /\ m + 1 = j + 1 + (n + 1) /\ m <= J /\ m \in 0 .. J
        BY <1>1
      <4>2. U(m) = 0
        BY <3>2, <4>1
      <4> HIDE DEF m
      <4> DEFINE x == U(m + 1)
                 y == U(m) % 16
      <4>3. x \in Nat /\ y \in Nat /\ 0 = x * 16 + y
        BY <1>1, <4>1, <4>2
      <4> HIDE DEF x, y
      <4>4. x = 0
        BY <4>3
      <4> QED
        BY <4>1, <4>4 DEF x
    <3>3. Nat \subseteq N
      <4> HIDE DEF N
      <4> QED
        BY <3>1, <3>2, NatInduct
    <3> SUFFICES ASSUME NEW i \in 0 .. J - 1, i > j PROVE U(i) = 0
      OBVIOUS
    <3>4. i - (j + 1) \in Nat /\ j + 1 + (i - (j + 1)) = i /\ i <= J
      BY <1>1
    <3>5. i - (j + 1) \in N
      BY <3>3, <3>4
    <3> QED
      BY <3>4, <3>5
  <2>4. U(j) % 16 # 0
    <3>1. j \in 0 .. J - 1 /\ U(j) = U(j + 1) * 16 + (U(j) % 16) /\ U(j) \in Nat
      BY <1>1
    <3> QED
      BY <2>2, <3>1
  <2> DEFINE First(s) == Nibble(v, s) # 0 /\ \A t \in Shifts : t > s => Nibble(v, t) = 0
             top == CHOOSE s \in Shifts : Nibble(v, s) # 0 /\ \A t \in Shifts : t > s => Nibble(v, t) = 0
  <2>5. 4 * j \in Shifts /\ First(4 * j)
    <3>1. 4 * j \in Shifts /\ Nibble(v, 4 * j) # 0
      BY <1>3, <1>4, <2>4
    <3>2. ASSUME NEW t \in Shifts, t > 4 * j PROVE Nibble(v, t) = 0
      <4>1. PICK i \in 0 .. J - 1 : t = 4 * i
        BY <1>4
      <4>2. i > j
        BY <3>2, <4>1
      <4>3. Nibble(v, t) = U(i) % 16
        BY <1>3, <4>1
      <4> QED
        BY <2>3, <4>2, <4>3
    <3> QED
      BY <3>1, <3>2
  <2>6. \A s \in Shifts : First(s) => s = 4 * j
    <3>1. \A s \in Shifts : s \in Int
      BY <1>4
    <3> QED
      BY <2>5, <3>1
  <2>7. top = 4 * j
    <3>1. top \in Shifts /\ First(top)
      BY <2>5
    <3> QED
      BY <2>6, <3>1
  <2>8. Hex(v) = [i \in 1 .. top \div 4 + 1 |-> Digit[Nibble(v, top - 4 * (i - 1)) + 1]]
    BY <1>6 DEF Hex
  <2> HIDE DEF top, First
  <2> DEFINE n == j + 1
             ss == [i \in 1 .. n |-> U(n - i) % 16]
             tt == [i \in 1 .. n |-> h[ss[i] + 1]]
             f == [i \in 0 .. n |-> U(n - i)]
  <2>9. Hex(v) = tt
    <3>1. top \div 4 + 1 = n
      BY <2>7
    <3>2. \A i \in 1 .. n : top - 4 * (i - 1) = 4 * (n - i)
      BY <2>7
    <3>3. \A i \in 1 .. n : Nibble(v, top - 4 * (i - 1)) = ss[i]
      BY <1>3, <3>2
    <3> HIDE DEF n, ss
    <3> QED
      BY <1>2, <2>8, <3>1, <3>3
  <2>10. n \in Nat \ {0} /\ n - 1 = j /\ n - n = 0 /\ n <= J
    BY <1>1
  <2>11. \A i \in 0 .. n : n - i \in 0 .. J /\ U(n - i) \in Nat
    BY <1>1
  <2>12. ss \in Seq(0 .. 16 - 1) /\ Len(ss) = n
    <3>1. \A i \in 1 .. n : U(n - i) % 16 \in 0 .. 16 - 1
      <4>1. \A i \in 1 .. n : U(n - i) \in Nat
        BY <2>11
      <4> QED
        BY <4>1
    <3>2. ss \in [1 .. n -> 0 .. 16 - 1]
      BY <3>1
    <3> HIDE DEF ss
    <3> QED
      BY <2>10, <3>2, FunctionIsSeq
  <2>13. ss[1] = U(j) % 16 /\ ss # <<>>
    <3>1. 1 \in 1 .. n
      OBVIOUS
    <3>2. ss[1] = U(j) % 16
      BY <3>1
    <3>3. ss # <<>>
      <4> HIDE DEF ss, n
      <4> QED
        BY <2>10, <2>12, EmptySeq
    <3> QED
      BY <3>2, <3>3
  <2>14. \A i \in 1 .. n : U(n - i) = U(n - (i - 1)) * 16 + ss[i]
    <3> SUFFICES ASSUME NEW i \in 1 .. n PROVE U(n - i) = U(n - (i - 1)) * 16 + ss[i]
      OBVIOUS
    <3>1. n - i \in 0 .. J - 1 /\ n - i + 1 = n - (i - 1)
      BY <1>1
    <3>2. ss[i] = U(n - i) % 16
      OBVIOUS
    <3> HIDE DEF ss
    <3> QED
      BY <1>1, <3>1, <3>2
  <2>15. U(n - 0) = 0 /\ U(n - n) = v
    BY <1>1, <2>2
  <2>16. f = [i \in 0 .. n |-> IF i = 0 THEN 0 ELSE f[i - 1] * 16 + ss[i]]
    <3> HIDE DEF ss
    <3>1. \A i \in 0 .. n : i # 0 => i \in 1 .. n /\ i - 1 \in 0 .. n
      OBVIOUS
    <3>2. \A i \in 0 .. n : f[i] = IF i = 0 THEN 0 ELSE f[i - 1] * 16 + ss[i]
      BY <2>14, <2>15, <3>1
    <3> HIDE DEF n
    <3> QED
      BY <3>2
  <2>17. f[n] = v
    BY <2>15
  <2>18. IsValue(f, ss, 16) /\ tt = [i \in 1 .. Len(ss) |-> h[ss[i] + 1]]
    <3> HIDE DEF f, ss, n
    <3> QED
      BY <2>12, <2>16 DEF IsValue
  <2>19. Len(ss) > 1 => ss[1] # 0
    BY <2>4, <2>13
  <2> HIDE DEF n, ss, tt, f
  <2>20. IsNumeral(tt, "x", f[Len(ss)]) /\ tt \in Seq(Quiet)
    BY <1>2, <2>12, <2>13, <2>18, <2>19, DigitsSpell DEF h
  <2> QED
    BY <2>9, <2>12, <2>17, <2>20
<1> QED
  BY <1>5, <1>6

\* At the end no argument is left.
LEMMA ArgsRestEnds ==
  ASSUME NEW C, NEW ds, NEW as, Fits(ds, as, C)
  PROVE  ArgsRest(ds, as, Len(ds)) = <<>>
<1>1. ds \in Seq(Directives(C)) /\ as = [i \in 1 .. Before(ds, Len(ds)) |-> as[i]]
  BY DEF Fits
<1>2. Before(ds, Len(ds)) \in Nat
  BY <1>1, LenProperties, BeforeIs
<1>3. PICK T : as \in Seq(T) /\ Len(as) = Before(ds, Len(ds))
  BY <1>1, <1>2, ListIsSeq
<1> DEFINE m == Len(as)
           s == SubSeq(as, m + 1, m)
<1>4. m \in Nat /\ m + 1 \in Int /\ m \in Int /\ ~(m + 1 <= m)
  BY <1>2, <1>3
<1>5. \A i \in m + 1 .. m : as[i] \in T
  <2> HIDE DEF m
  <2> QED
    BY <1>4
<1> HIDE DEF m
<1>6. s \in Seq(T) /\ Len(s) = 0
  <2>1. SubSeq(as, m + 1, m) \in Seq(T) /\ Len(SubSeq(as, m + 1, m)) = (IF m + 1 <= m THEN m - (m + 1) + 1 ELSE 0)
    <3> DEFINE k == m + 1
    <3>1. k \in Int /\ m \in Int /\ \A i \in k .. m : as[i] \in T
      BY <1>4, <1>5
    <3> HIDE DEF k
    <3>2. SubSeq(as, k, m) \in Seq(T) /\ Len(SubSeq(as, k, m)) = (IF k <= m THEN m - k + 1 ELSE 0)
      BY <3>1, SubSeqProperties
    <3> QED
      BY <3>2 DEF k
  <2> QED
    BY <1>4, <2>1
<1>7. s = <<>>
  <2> HIDE DEF s
  <2> QED
    BY <1>6, EmptySeq
<1> QED
  BY <1>3, <1>7 DEF ArgsRest, m

\* The argument of a directive that takes one.
LEMMA ArgumentExists ==
  ASSUME NEW C, NEW ds \in Seq(Directives(C)), NEW i \in 1 .. Len(ds), ds[i].letter # "%"
  PROVE  Before(ds, i) \in 1 .. Before(ds, Len(ds))
<1> DEFINE k == i - 1
           n == Len(ds)
<1>1. n \in Nat /\ k \in 0 .. n - 1 /\ k \in 0 .. n /\ k + 1 = i /\ i \in 0 .. n
  BY LenProperties
<1> HIDE DEF k, n
<1>2. Before(ds, k) \in Nat /\ Before(ds, k + 1) = Before(ds, k) + (IF ds[k + 1].letter = "%" THEN 0 ELSE 1)
  BY <1>1, BeforeIs DEF n
<1>3. Before(ds, i) \in Nat \ {0}
  BY <1>1, <1>2
<1>4. Before(ds, i) <= Before(ds, n) /\ Before(ds, n) \in Nat
  <2>1. n \in 0 .. n
    BY <1>1
  <2> QED
    BY <1>1, <2>1, BeforeGrows, BeforeIs DEF n
<1> QED
  BY <1>3, <1>4 DEF n

\* The list is the one and then the other.
Follow(r, s, t) ==
  /\ Len(s) \in Nat /\ Len(t) \in Nat /\ Len(r) = Len(s) + Len(t)
  /\ \A i \in 1 .. Len(s) : r[i] = s[i]
  /\ \A i \in 1 .. Len(t) : r[Len(s) + i] = t[i]

\* The elements of two sequences, one after the other.
LEMMA CatElements ==
  ASSUME NEW C, NEW s \in Seq(C), NEW t \in Seq(C)
  PROVE  Follow(Cat(s, t), s, t)
<1> DEFINE m == Len(s)
           n == Len(t)
           w == Cat(s, t)
<1>1. m \in Nat /\ n \in Nat /\ Len(w) = m + n /\ \A i \in 1 .. m + n : w[i] = IF i <= m THEN s[i] ELSE t[i - m]
  BY ConcatProperties, LenProperties DEF Cat
<1> HIDE DEF m, n, w
<1>2. \A i \in 1 .. m : w[i] = s[i]
  BY <1>1
<1>3. \A i \in 1 .. n : w[m + i] = t[i]
  <2>1. \A i \in 1 .. n : m + i \in 1 .. m + n /\ ~(m + i <= m) /\ m + i - m = i
    BY <1>1
  <2> QED
    BY <1>1, <2>1
<1> QED
  BY <1>1, <1>2, <1>3 DEF m, n, w, Follow

\* The arguments that the directives of two formats take, one after the other.
LEMMA BeforeCat ==
  ASSUME NEW C, NEW ds \in Seq(Directives(C)), NEW es \in Seq(Directives(C))
  PROVE  /\ \A i \in 0 .. Len(ds) : Before(Cat(ds, es), i) = Before(ds, i)
         /\ \A j \in 0 .. Len(es) : Before(Cat(ds, es), Len(ds) + j) = Before(ds, Len(ds)) + Before(es, j)
<1>0. Follow(Cat(ds, es), ds, es)
  BY CatElements
<1> DEFINE n == Len(ds)
           m == Len(es)
           fs == Cat(ds, es)
           N == {j \in Nat : j <= m => Before(fs, n + j) = Before(ds, n) + Before(es, j)}
<1>1. /\ n \in Nat /\ m \in Nat /\ Len(fs) = n + m
      /\ \A i \in 1 .. n : fs[i] = ds[i]
      /\ \A i \in 1 .. m : fs[n + i] = es[i]
  BY <1>0 DEF Follow
<1>2. fs \in Seq(Directives(C))
  BY CatType
<1> HIDE DEF fs
<1>3. \A i \in 0 .. n : Before(fs, i) = Before(ds, i)
  <2> SUFFICES ASSUME NEW i \in 0 .. n PROVE Before(fs, i) = Before(ds, i)
    OBVIOUS
  <2>1. \A j \in 1 .. i : fs[j] = ds[j]
    BY <1>1
  <2>2. {j \in 1 .. i : fs[j].letter # "%"} = {j \in 1 .. i : ds[j].letter # "%"}
    BY <2>1
  <2> QED
    BY <2>2 DEF Before
<1>4. /\ Before(es, 0) = 0 /\ \A j \in 0 .. m : Before(es, j) \in Nat
      /\ \A j \in 0 .. m - 1 : Before(es, j + 1) = Before(es, j) + (IF es[j + 1].letter = "%" THEN 0 ELSE 1)
      /\ Before(ds, n) \in Nat
  <2>1. n \in 0 .. n
    BY <1>1
  <2>2. /\ Before(es, 0) = 0 /\ \A j \in 0 .. Len(es) : Before(es, j) \in Nat
        /\ \A j \in 0 .. Len(es) - 1 : Before(es, j + 1) = Before(es, j) + (IF es[j + 1].letter = "%" THEN 0 ELSE 1)
    BY BeforeIs
  <2>3. \A j \in 0 .. Len(ds) : Before(ds, j) \in Nat
    BY BeforeIs
  <2> QED
    BY <2>1, <2>2, <2>3
<1>5. \A k \in 0 .. n + m - 1 : Before(fs, k + 1) = Before(fs, k) + (IF fs[k + 1].letter = "%" THEN 0 ELSE 1)
  <2>1. \A k \in 0 .. Len(fs) - 1 : Before(fs, k + 1) = Before(fs, k) + (IF fs[k + 1].letter = "%" THEN 0 ELSE 1)
    BY <1>2, BeforeIs
  <2> HIDE DEF n, m
  <2> QED
    BY <1>1, <2>1
<1> HIDE DEF n, m
<1>6. 0 \in N
  <2>1. n + 0 = n /\ n \in 0 .. n
    BY <1>1
  <2> QED
    BY <1>3, <1>4, <2>1
<1>7. ASSUME NEW j \in Nat, j \in N PROVE j + 1 \in N
  <2> SUFFICES ASSUME j + 1 <= m PROVE Before(fs, n + (j + 1)) = Before(ds, n) + Before(es, j + 1)
    OBVIOUS
  <2>1. j \in 0 .. m - 1 /\ n + j \in 0 .. n + m - 1 /\ n + (j + 1) = n + j + 1 /\ j <= m /\ j \in 0 .. m /\ j + 1 \in 1 .. m
    BY <1>1
  <2>2. Before(fs, n + j) = Before(ds, n) + Before(es, j)
    BY <1>7, <2>1
  <2>3. Before(fs, n + j + 1) = Before(fs, n + j) + (IF fs[n + j + 1].letter = "%" THEN 0 ELSE 1)
    BY <1>5, <2>1
  <2>4. fs[n + j + 1] = es[j + 1]
    <3>1. fs[n + (j + 1)] = es[j + 1]
      BY <1>1, <2>1
    <3> QED
      BY <2>1, <3>1
  <2>5. Before(es, j + 1) = Before(es, j) + (IF es[j + 1].letter = "%" THEN 0 ELSE 1)
    BY <1>4, <2>1
  <2>6. Before(es, j) \in Nat /\ Before(ds, n) \in Nat
    BY <1>4, <2>1
  <2> DEFINE a == Before(ds, n)
             b == Before(es, j)
             e == IF es[j + 1].letter = "%" THEN 0 ELSE 1
  <2>7. e \in {0, 1} /\ a \in Nat /\ b \in Nat
    BY <2>6
  <2>8. Before(fs, n + j + 1) = a + b + e /\ Before(es, j + 1) = b + e
    BY <2>2, <2>3, <2>4, <2>5
  <2> HIDE DEF a, b, e
  <2>9. a + b + e = a + (b + e)
    BY <2>7
  <2> QED
    BY <2>1, <2>8, <2>9 DEF a
<1>8. Nat \subseteq N
  <2> HIDE DEF N
  <2> QED
    BY <1>6, <1>7, NatInduct
<1>9. \A j \in 0 .. m : Before(fs, n + j) = Before(ds, n) + Before(es, j)
  <2>1. \A j \in 0 .. m : j \in Nat /\ j <= m
    BY <1>1
  <2> QED
    BY <1>8, <2>1
<1> QED
  BY <1>3, <1>9 DEF n, m, fs

\* Two requests with their arguments are one.
Joined(ds, as, es, bs, fs, cs, C) ==
  /\ Fits(fs, cs, C)
  /\ \A i \in 1 .. Len(ds) : fs[i] = ds[i] /\ ArgOf(fs, cs, i) = ArgOf(ds, as, i)
  /\ \A i \in 1 .. Len(es) : fs[Len(ds) + i] = es[i]
  /\ Rest(fs, Len(ds)) = Format(es) /\ ArgsRest(fs, cs, Len(ds)) = bs
  /\ Len(fs) = Len(ds) + Len(es) /\ Len(ds) \in Nat /\ Len(es) \in Nat

\* Arguments that fit two lists of directives fit them joined.
LEMMA FitsCat ==
  ASSUME NEW C, NEW T, NEW ds, NEW as \in Seq(T), NEW es, NEW bs \in Seq(T), Fits(ds, as, C), Fits(es, bs, C)
  PROVE  Joined(ds, as, es, bs, Cat(ds, es), Cat(as, bs), C)
<1> DEFINE n == Len(ds)
           m == Len(es)
           fs == Cat(ds, es)
           cs == Cat(as, bs)
<1>1. /\ ds \in Seq(Directives(C)) /\ es \in Seq(Directives(C))
      /\ as = [i \in 1 .. Before(ds, n) |-> as[i]] /\ bs = [i \in 1 .. Before(es, m) |-> bs[i]]
      /\ \A i \in 1 .. n : ds[i].letter # "%" => ArgOf(ds, as, i) \in Argument(ds[i], C)
      /\ \A i \in 1 .. m : es[i].letter # "%" => ArgOf(es, bs, i) \in Argument(es[i], C)
  BY DEF Fits
<1>2. /\ n \in Nat /\ m \in Nat /\ Len(fs) = n + m /\ fs \in Seq(Directives(C))
      /\ \A i \in 1 .. n : fs[i] = ds[i]
      /\ \A i \in 1 .. m : fs[n + i] = es[i]
  <2> DEFINE D == Directives(C)
  <2>1. ds \in Seq(D) /\ es \in Seq(D)
    BY <1>1
  <2> HIDE DEF D
  <2>2. /\ Len(ds) \in Nat /\ Len(es) \in Nat /\ Len(Cat(ds, es)) = Len(ds) + Len(es)
        /\ \A i \in 1 .. Len(ds) : Cat(ds, es)[i] = ds[i]
        /\ \A i \in 1 .. Len(es) : Cat(ds, es)[Len(ds) + i] = es[i]
    BY <2>1, CatElements DEF Follow
  <2>3. Cat(ds, es) \in Seq(D)
    BY <2>1, CatType
  <2> QED
    BY <2>2, <2>3 DEF D
<1>3. /\ Before(ds, n) \in Nat /\ Before(es, m) \in Nat
  <2>1. n \in 0 .. n /\ m \in 0 .. m
    BY <1>2
  <2> QED
    BY <1>1, <2>1, BeforeIs
<1>4. Len(as) = Before(ds, n) /\ Len(bs) = Before(es, m)
  <2>1. ASSUME NEW N \in Nat, NEW s \in Seq(T), s = [i \in 1 .. N |-> s[i]] PROVE Len(s) = N
    <3>1. \E U : s \in Seq(U) /\ Len(s) = N
      BY <2>1, ListIsSeq
    <3> QED
      BY <3>1
  <2> QED
    BY <1>1, <1>3, <2>1
<1>5. /\ Len(as) \in Nat /\ Len(bs) \in Nat /\ Len(cs) = Len(as) + Len(bs) /\ cs \in Seq(T)
      /\ \A i \in 1 .. Len(as) : cs[i] = as[i]
      /\ \A i \in 1 .. Len(bs) : cs[Len(as) + i] = bs[i]
  <2> HIDE DEF n, m, fs, cs
  <2> DEFINE ss == as
             tt == bs
  <2>3. ss \in Seq(T) /\ tt \in Seq(T)
    OBVIOUS
  <2> HIDE DEF ss, tt
  <2>4. /\ Len(ss) \in Nat /\ Len(tt) \in Nat /\ Len(Cat(ss, tt)) = Len(ss) + Len(tt)
        /\ \A i \in 1 .. Len(ss) : Cat(ss, tt)[i] = ss[i]
        /\ \A i \in 1 .. Len(tt) : Cat(ss, tt)[Len(ss) + i] = tt[i]
    BY <2>3, CatElements DEF Follow
  <2>1. /\ Len(as) \in Nat /\ Len(bs) \in Nat /\ Len(Cat(as, bs)) = Len(as) + Len(bs)
        /\ \A i \in 1 .. Len(as) : Cat(as, bs)[i] = as[i]
        /\ \A i \in 1 .. Len(bs) : Cat(as, bs)[Len(as) + i] = bs[i]
    BY <2>4 DEF ss, tt
  <2>2. Cat(as, bs) \in Seq(T)
    BY CatType
  <2> QED
    BY <2>1, <2>2 DEF cs
<1>6. /\ \A i \in 0 .. n : Before(fs, i) = Before(ds, i)
      /\ \A j \in 0 .. m : Before(fs, n + j) = Len(as) + Before(es, j)
  <2>1. /\ \A i \in 0 .. Len(ds) : Before(Cat(ds, es), i) = Before(ds, i)
        /\ \A j \in 0 .. Len(es) : Before(Cat(ds, es), Len(ds) + j) = Before(ds, Len(ds)) + Before(es, j)
    BY <1>1, BeforeCat
  <2> QED
    BY <1>4, <2>1
<1>7. Rest(fs, n) = Format(es)
  <2>1. SubSeq(fs, n + 1, Len(fs)) = es
    BY <1>1, CatSplits DEF Splits
  <2> QED
    BY <2>1 DEF Rest
<1>8. ArgsRest(fs, cs, n) = bs
  <2>1. SubSeq(cs, Len(as) + 1, Len(cs)) = bs
    <3>1. Splits(cs, as, bs)
      BY CatSplits
    <3> QED
      BY <3>1 DEF Splits
  <2>2. Before(fs, n) = Len(as)
    BY <1>2, <1>4, <1>6
  <2> QED
    BY <2>1, <2>2 DEF ArgsRest
<1> HIDE DEF n, m, fs, cs
<1>9. \A i \in 1 .. n : ArgOf(fs, cs, i) = ArgOf(ds, as, i)
  <2> SUFFICES ASSUME NEW i \in 1 .. n PROVE ArgOf(fs, cs, i) = ArgOf(ds, as, i)
    OBVIOUS
  <2>1. fs[i] = ds[i] /\ Before(fs, i) = Before(ds, i)
    <3>1. i \in 0 .. n
      BY <1>2
    <3> QED
      BY <1>2, <1>6, <3>1
  <2>2. ASSUME ds[i].letter # "%" PROVE cs[Before(ds, i)] = as[Before(ds, i)]
    <3>1. Before(ds, i) \in 1 .. Before(ds, n)
      BY <1>1, <2>2, ArgumentExists DEF n
    <3> QED
      BY <1>4, <1>5, <3>1
  <2> QED
    BY <2>1, <2>2 DEF ArgOf
<1>10. \A i \in 1 .. m : ArgOf(fs, cs, n + i) = ArgOf(es, bs, i)
  <2> SUFFICES ASSUME NEW i \in 1 .. m PROVE ArgOf(fs, cs, n + i) = ArgOf(es, bs, i)
    OBVIOUS
  <2>1. fs[n + i] = es[i] /\ Before(fs, n + i) = Len(as) + Before(es, i)
    <3>1. i \in 0 .. m
      BY <1>2
    <3> QED
      BY <1>2, <1>6, <3>1
  <2>2. ASSUME es[i].letter # "%" PROVE cs[Len(as) + Before(es, i)] = bs[Before(es, i)]
    <3>1. Before(es, i) \in 1 .. Before(es, m)
      BY <1>1, <2>2, ArgumentExists DEF m
    <3> QED
      BY <1>4, <1>5, <3>1
  <2> QED
    BY <2>1, <2>2 DEF ArgOf
<1>11. Fits(fs, cs, C)
  <2>1. Before(fs, Len(fs)) = Len(as) + Before(es, m)
    <3>1. m \in 0 .. m
      BY <1>2
    <3> QED
      BY <1>2, <1>6, <3>1
  <2>2. Len(cs) = Before(fs, Len(fs))
    BY <1>4, <1>5, <2>1
  <2>3. cs = [i \in 1 .. Before(fs, Len(fs)) |-> cs[i]]
    <3>1. cs \in [1 .. Len(cs) -> T]
      BY <1>5, LenProperties
    <3> QED
      BY <2>2, <3>1
  <2>4. ASSUME NEW i \in 1 .. Len(fs), fs[i].letter # "%" PROVE ArgOf(fs, cs, i) \in Argument(fs[i], C)
    <3>1. CASE i \in 1 .. n
      BY <1>1, <1>2, <1>9, <2>4, <3>1 DEF n
    <3>2. CASE i \notin 1 .. n
      <4> DEFINE j == i - n
      <4>1. j \in 1 .. m /\ n + j = i
        BY <1>2, <3>2
      <4> HIDE DEF j
      <4>2. fs[i] = es[j] /\ ArgOf(fs, cs, i) = ArgOf(es, bs, j)
        BY <1>2, <1>10, <4>1
      <4>3. ArgOf(es, bs, j) \in Argument(es[j], C)
        BY <1>1, <2>4, <4>1, <4>2 DEF m
      <4> QED
        BY <4>2, <4>3
    <3> QED
      BY <3>1, <3>2
  <2> QED
    BY <1>2, <2>3, <2>4 DEF Fits
<1> QED
  BY <1>2, <1>7, <1>8, <1>9, <1>11 DEF n, m, fs, cs, Joined

\* A text as it stands in the format after a conversion: what it puts is never taken for a directive.
Mark(c) == IF c = "%" THEN "%%" ELSE c
Marked(u) == [i \in 1 .. Len(u) |-> Mark(u[i])]

\* A marked text: its first character, marked, before the rest, marked.
LEMMA MarkedIs ==
  ASSUME NEW u \in Seq(Character)
  PROVE  /\ Marked(u) \in Seq(Character \cup {"%%"}) /\ Marked(<<>>) = <<>>
         /\ u # <<>> => /\ Head(u) \in Character /\ Tail(u) \in Seq(Character) /\ Mark(Head(u)) # "%"
                        /\ Marked(u) = Cat(<<Mark(Head(u))>>, Marked(Tail(u)))
                        /\ Marked(Tail(u)) \in Seq(Character \cup {"%%"})
                        /\ u = Cat(<<Head(u)>>, Tail(u))
<1> DEFINE C == Character \cup {"%%"}
           pc == "%"
           pp == "%%"
<1>1. pp # pc /\ \A c \in Character : c \in C /\ Mark(c) \in C
  BY DEF Mark
<1>2. pp \in C
  OBVIOUS
<1>3. \A v \in Seq(Character) : Marked(v) \in Seq(C) /\ Len(Marked(v)) = Len(v) /\ Len(v) \in Nat /\ \A i \in 1 .. Len(v) : Marked(v)[i] = Mark(v[i])
  <2> SUFFICES ASSUME NEW v \in Seq(Character)
               PROVE  Marked(v) \in Seq(C) /\ Len(Marked(v)) = Len(v) /\ Len(v) \in Nat /\ \A i \in 1 .. Len(v) : Marked(v)[i] = Mark(v[i])
    OBVIOUS
  <2> DEFINE n == Len(v)
             s == Marked(v)
  <2>1. n \in Nat /\ \A i \in 1 .. n : v[i] \in Character
    BY LenProperties, ElementOfSeq
  <2>2. s = [i \in 1 .. n |-> Mark(v[i])]
    BY DEF Marked
  <2> HIDE DEF n, s
  <2>3. s \in [1 .. n -> C] /\ \A i \in 1 .. n : s[i] = Mark(v[i])
    BY <1>1, <2>1, <2>2
  <2> HIDE DEF C
  <2>4. s \in Seq(C) /\ Len(s) = n
    BY <2>1, <2>3, FunctionIsSeq
  <2> QED
    BY <2>1, <2>3, <2>4 DEF n, s
<1>4. Marked(<<>>) = <<>>
  <2>1. <<>> \in Seq(Character) /\ Len(<<>>) = 0
    BY EmptySeq
  <2> DEFINE s == Marked(<<>>)
  <2>2. s \in Seq(C) /\ Len(s) = 0
    BY <1>3, <2>1
  <2> HIDE DEF s, C
  <2>3. s = <<>>
    BY <2>2, EmptySeq
  <2> QED
    BY <2>3 DEF s
<1>5. ASSUME u # <<>>
      PROVE  /\ Head(u) \in Character /\ Tail(u) \in Seq(Character) /\ Mark(Head(u)) # "%"
             /\ Marked(u) = Cat(<<Mark(Head(u))>>, Marked(Tail(u)))
             /\ u = Cat(<<Head(u)>>, Tail(u))
  <2> DEFINE x == Head(u)
             t == Tail(u)
             m == Mark(x)
             v == Cat(<<m>>, Marked(t))
             w == Cat(<<x>>, t)
  <2>1. /\ x \in Character /\ t \in Seq(Character) /\ Len(t) = Len(u) - 1 /\ Len(u) \in Nat /\ Len(u) # 0
        /\ \A i \in 1 .. Len(t) : t[i] = u[i + 1]
    BY <1>5, HeadTailProperties, LenProperties, EmptySeq
  <2>2. x = u[1]
    BY <1>5
  <2>3. m # "%" /\ m \in C
    BY <1>1, <2>1 DEF Mark
  <2>4. <<m>> \in Seq(C) /\ Len(<<m>>) = 1 /\ <<m>>[1] = m
    BY <2>3
  <2>5. <<x>> \in Seq(Character) /\ Len(<<x>>) = 1 /\ <<x>>[1] = x
    BY <2>1
  <2> DEFINE ms == <<m>>
             xs == <<x>>
             mt == Marked(t)
             mu == Marked(u)
  <2>6. ms \in Seq(C) /\ Len(ms) = 1 /\ ms[1] = m /\ xs \in Seq(Character) /\ Len(xs) = 1 /\ xs[1] = x
    BY <2>4, <2>5
  <2>7. /\ mt \in Seq(C) /\ Len(mt) = Len(t) /\ Len(t) \in Nat /\ \A i \in 1 .. Len(t) : mt[i] = Mark(t[i])
        /\ mu \in Seq(C) /\ Len(mu) = Len(u) /\ \A i \in 1 .. Len(u) : mu[i] = Mark(u[i])
    <3> HIDE DEF C, t
    <3> QED
      BY <1>3, <2>1
  <2> HIDE DEF ms, xs, mt, mu, m, x, t, C
  <2>8. Cat(ms, mt) \in Seq(C) /\ Len(Cat(ms, mt)) = 1 + Len(t) /\ \A i \in 1 .. 1 + Len(t) : Cat(ms, mt)[i] = IF i <= 1 THEN ms[i] ELSE mt[i - 1]
    <3>1. ms \in Seq(C) /\ mt \in Seq(C) /\ Len(ms) = 1 /\ Len(mt) = Len(t)
      BY <2>6, <2>7
    <3>2. /\ ms \o mt \in Seq(C) /\ Len(ms \o mt) = Len(ms) + Len(mt)
          /\ \A i \in 1 .. Len(ms) + Len(mt) : (ms \o mt)[i] = IF i <= Len(ms) THEN ms[i] ELSE mt[i - Len(ms)]
      BY ONLY <3>1, ConcatProperties, ZenonT(180)
    <3> QED
      BY <3>1, <3>2 DEF Cat
  <2>9. Cat(xs, t) \in Seq(Character) /\ Len(Cat(xs, t)) = 1 + Len(t) /\ \A i \in 1 .. 1 + Len(t) : Cat(xs, t)[i] = IF i <= 1 THEN xs[i] ELSE t[i - 1]
    <3>1. xs \in Seq(Character) /\ t \in Seq(Character) /\ Len(xs) = 1 /\ Len(t) = Len(t)
      BY <2>1, <2>6
    <3>2. /\ xs \o t \in Seq(Character) /\ Len(xs \o t) = Len(xs) + Len(t)
          /\ \A i \in 1 .. Len(xs) + Len(t) : (xs \o t)[i] = IF i <= Len(xs) THEN xs[i] ELSE t[i - Len(xs)]
      BY <3>1, ConcatProperties
    <3> QED
      BY <3>1, <3>2 DEF Cat
  <2>10. 1 + Len(t) = Len(u) /\ \A i \in 1 .. Len(u) : i <= 1 \/ (i - 1 \in 1 .. Len(t) /\ i - 1 + 1 = i)
    BY <2>1, <2>7
  <2>11. \A i \in 1 .. Len(u) : i <= 1 => i = 1
    OBVIOUS
  <2>12. \A i \in 1 .. Len(u) : Cat(ms, mt)[i] = mu[i]
    BY <2>1, <2>2, <2>6, <2>7, <2>8, <2>10, <2>11, ZenonT(90) DEF m
  <2>13. \A i \in 1 .. Len(u) : Cat(xs, t)[i] = u[i]
    BY <2>1, <2>2, <2>6, <2>9, <2>10, <2>11
  <2>14. Cat(ms, mt) = mu
    <3> DEFINE q == Cat(ms, mt)
    <3>1. q \in Seq(C) /\ Len(q) = Len(mu) /\ \A i \in 1 .. Len(q) : q[i] = mu[i]
      BY <2>7, <2>8, <2>10, <2>12
    <3> HIDE DEF q
    <3>2. q = mu
      BY <2>7, <3>1, SeqEqual
    <3> QED
      BY <3>2 DEF q
  <2>15. Cat(xs, t) = u
    <3> DEFINE q == Cat(xs, t)
    <3>1. q \in Seq(Character) /\ Len(q) = Len(u) /\ \A i \in 1 .. Len(q) : q[i] = u[i]
      BY <2>9, <2>10, <2>13
    <3> HIDE DEF q
    <3>2. q = u
      BY <3>1, SeqEqual
    <3> QED
      BY <3>2 DEF q
  <2> QED
    BY <2>1, <2>3, <2>14, <2>15 DEF x, t, m, ms, xs, mt, mu
<1> QED
  BY <1>3, <1>4, <1>5 DEF C

\* A character that is put is the next one of the output and the buffer.
LEMMA PutcharIs ==
  ASSUME NEW c \in Character, output \in Seq(Character), buf \in Seq(Character), Len(buf) < BufSize,
         semihosting \in BOOLEAN, ~semihosting => buf = <<>>, alt_putchar(c)
  PROVE  /\ output' \in Seq(Character) /\ buf' \in Seq(Character) /\ Len(buf') < BufSize
         /\ ~semihosting => buf' = <<>>
         /\ Cat(output', buf') = Cat(Cat(output, buf), <<c>>)
<1> DEFINE cs == <<c>>
           ab == Append(buf, c)
<1>1. cs \in Seq(Character) /\ ab \in Seq(Character) /\ Len(ab) = Len(buf) + 1 /\ Len(buf) \in Nat /\ Append(output, c) \in Seq(Character)
  BY AppendProperties, LenProperties
<1>2. ab = Cat(buf, cs) /\ Append(output, c) = Cat(output, cs)
  BY AppendIsConcat DEF Cat
<1>3. BufSize \in Nat \ {0}
  BY PrintfAssumption
<1>4. Cat(Cat(output, buf), cs) = Cat(output, ab)
  <2> HIDE DEF cs, ab
  <2> QED
    BY <1>1, <1>2, CatAssociative
<1>5. Cat(output, ab) \in Seq(Character)
  <2> HIDE DEF ab
  <2> QED
    BY <1>1, CatType
<1>6. <<>> \in Seq(Character) /\ Len(<<>>) = 0
  BY EmptySeq
<1>7. CASE semihosting /\ Len(buf) + 1 >= BufSize
  <2>1. output' = Cat(output, ab) /\ buf' = <<>>
    BY <1>7 DEF alt_putchar, alt_putcharbuf, Cat
  <2>2. Cat(output', buf') = Cat(output, ab)
    <3> DEFINE o == Cat(output, ab)
    <3>1. o \in Seq(Character) /\ output' = o
      BY <1>5, <2>1
    <3> HIDE DEF o
    <3>2. Cat(o, <<>>) = o
      BY <3>1, CatEmpty
    <3> QED
      BY <2>1, <3>1, <3>2
  <2> QED
    BY <1>3, <1>4, <1>5, <1>6, <1>7, <2>1, <2>2
<1>8. CASE semihosting /\ ~(Len(buf) + 1 >= BufSize)
  <2>1. output' = output /\ buf' = ab
    BY <1>8 DEF alt_putchar, alt_putcharbuf
  <2>2. Len(ab) < BufSize
    BY <1>1, <1>3, <1>8
  <2> HIDE DEF ab, cs
  <2> QED
    BY <1>1, <1>4, <1>8, <2>1, <2>2 DEF cs
<1>9. CASE ~semihosting
  <2>1. output' = Cat(output, cs) /\ buf' = buf /\ buf = <<>>
    BY <1>2, <1>9 DEF alt_putchar
  <2> HIDE DEF cs, ab
  <2>2. Cat(output, buf) = output /\ Cat(output, cs) \in Seq(Character)
    BY <1>1, <2>1, CatEmpty, CatType
  <2>3. Cat(output', buf') = Cat(output, cs)
    <3> DEFINE o == Cat(output, cs)
    <3>1. o \in Seq(Character) /\ output' = o /\ buf' = <<>>
      BY <2>1, <2>2
    <3> HIDE DEF o
    <3>2. Cat(o, <<>>) = o
      BY <3>1, CatEmpty
    <3> QED
      BY <3>1, <3>2 DEF o
  <2> QED
    BY <2>1, <2>2, <2>3 DEF cs
<1> QED
  BY <1>7, <1>8, <1>9

\* The directives that this printf knows.
Small(d) == d.letter \in {"%", "c", "x", "s"} /\ ~d.zero /\ d.width = 0

\* Quiet characters are characters.
LEMMA QuietCharacters == Quiet \subseteq Character
BY DigitCharacters DEF Quiet

\* What a conversion prints answers the directive.
LEMMA KnownAnswers ==
  ASSUME NEW d \in Directives(Character), Small(d), d.letter # "%", NEW v, v \in Argument(d, Character)
  PROVE  /\ d.letter \in Known /\ Text(d.letter, v) \in Seq(Character)
         /\ Answers(Text(d.letter, v), d, v)
<1>1. d.letter \in {"c", "x", "s"} /\ d.zero = FALSE /\ d.width = 0
  <2>1. d.letter \in Letters
    BY DirectiveIs
  <2>2. d.zero \in BOOLEAN
    BY <2>1, DirectiveIs
  <2> QED
    BY <2>2 DEF Small
<1>2. d.letter \in Known
  BY <1>1 DEF Known
<1>3. CASE d.letter = "c"
  <2>1. v \in Character
    BY <1>3 DEF Argument
  <2>2. Text(d.letter, v) = <<v>>
    BY <1>3 DEF Text
  <2>3. <<v>> \in Seq(Character) /\ Len(<<v>>) = 1
    BY <2>1
  <2>4. [i \in 1 .. 0 |-> " "] \o <<v>> = <<v>>
    <3>1. [i \in 1 .. 0 |-> " "] = <<>>
      OBVIOUS
    <3> QED
      BY <2>3, <3>1, ConcatEmptySeq
  <2>5. Answers(<<v>>, d, v)
    BY <1>1, <1>3, <2>3, <2>4 DEF Answers
  <2> QED
    BY <1>2, <2>2, <2>3, <2>5
<1>4. CASE d.letter = "s"
  <2>1. v \in Seq(Character)
    BY <1>4 DEF Argument
  <2>2. Text(d.letter, v) = v
    BY <1>4 DEF Text
  <2>3. Len(v) \in Nat
    BY <2>1, LenProperties
  <2>4. [i \in 1 .. 0 |-> " "] \o v = v
    <3>1. [i \in 1 .. 0 |-> " "] = <<>>
      OBVIOUS
    <3> QED
      BY <2>1, <3>1, ConcatEmptySeq
  <2>5. ~(d.width > Len(v))
    BY <1>1, <2>3
  <2>6. Answers(v, d, v)
    BY <1>4, <2>4, <2>5 DEF Answers
  <2> QED
    BY <1>2, <2>1, <2>2, <2>6
<1>5. CASE d.letter = "x"
  <2>1. v \in 0 .. 2 ^ Width - 1
    BY <1>5 DEF Argument
  <2>2. Text(d.letter, v) = Hex(v)
    BY <1>5 DEF Text
  <2> DEFINE t == Hex(v)
  <2>3. IsNumeral(t, "x", v) /\ t \in Seq(Quiet)
    BY <2>1, HexIs
  <2> HIDE DEF t
  <2>4. t \in Seq(Character) /\ Len(t) \in Nat
    BY <2>3, QuietCharacters, SeqMonotonic, LenProperties
  <2>5. ~Minus("x", v) /\ Magnitude("x", v) = v
    BY DEF Minus, Magnitude
  <2>6. SubSeq(t, 0 + 1, Len(t)) = t /\ SubSeq(t, 1, 0) = <<>>
    BY <2>4, SubSeqFull, SubSeqEmpty
  <2>7. [i \in 1 .. 0 |-> " "] \o <<>> \o [i \in 1 .. 0 |-> "0"] = <<>>
    <3>1. [i \in 1 .. 0 |-> " "] = <<>> /\ [i \in 1 .. 0 |-> "0"] = <<>>
      OBVIOUS
    <3> QED
      BY <3>1, ConcatEmptySeq, EmptySeq
  <2>8. \E blanks, zeros \in 0 .. Len(t) :
           LET sign == IF Minus(d.letter, v) THEN <<"-">> ELSE <<>>
               fill == blanks + Len(sign) + zeros
           IN /\ fill <= Len(t)
              /\ SubSeq(t, 1, fill) = [i \in 1 .. blanks |-> " "] \o sign \o [i \in 1 .. zeros |-> "0"]
              /\ IsNumeral(SubSeq(t, fill + 1, Len(t)), d.letter, Magnitude(d.letter, v))
              /\ (d.zero => blanks = 0) /\ (~d.zero => zeros = 0)
              /\ Len(t) >= d.width /\ (blanks + zeros > 0 => Len(t) = d.width)
    <3>1. 0 \in 0 .. Len(t) /\ 0 <= Len(t) /\ Len(t) >= 0 /\ 0 + 0 + 0 = 0 /\ ~(0 + 0 > 0)
      BY <2>4
    <3> DEFINE sign == IF Minus(d.letter, v) THEN <<"-">> ELSE <<>>
               fill == 0 + Len(sign) + 0
    <3>2. sign = <<>> /\ Len(sign) = 0
      BY <1>5, <2>5
    <3>3. fill = 0
      BY <3>2
    <3> HIDE DEF sign
    <3>4. /\ fill <= Len(t)
          /\ SubSeq(t, 1, fill) = [i \in 1 .. 0 |-> " "] \o sign \o [i \in 1 .. 0 |-> "0"]
          /\ IsNumeral(SubSeq(t, fill + 1, Len(t)), d.letter, Magnitude(d.letter, v))
          /\ (d.zero => 0 = 0) /\ (~d.zero => 0 = 0)
          /\ Len(t) >= d.width /\ (0 + 0 > 0 => Len(t) = d.width)
      <4> HIDE DEF fill
      <4> QED
        BY <1>1, <1>5, <2>3, <2>5, <2>6, <2>7, <3>1, <3>2, <3>3
    <3> WITNESS 0 \in 0 .. Len(t), 0 \in 0 .. Len(t)
    <3> QED
      BY <3>4 DEF sign
  <2>9. Answers(t, d, v)
    <3>1. d.letter # "%" /\ d.letter \notin {"c", "s"}
      BY <1>5
    <3> QED
      BY <2>8, <3>1, Zenon DEF Answers
  <2> QED
    BY <1>2, <2>2, <2>4, <2>9 DEF t
<1> QED
  BY <1>1, <1>3, <1>4, <1>5

\* What can have been asked for, and all directives and arguments of it in a row.
Asks == Requests \cup {[directives |-> <<Plain("s")>>, args |-> <<s>>] : s \in Seq(Character)}
Args == {r.args[i] : r \in Asks, i \in Nat}
AllDirectives == FlattenSeq([i \in 1 .. Len(asked) |-> asked[i].directives])
AllArgs == FlattenSeq([i \in 1 .. Len(asked) |-> asked[i].args])

Shown(u) == Cat(Cat(output, buf), u)
PrintfTypes ==
  /\ semihosting \in BOOLEAN /\ (~semihosting => buf = <<>>)
  /\ buf \in Seq(Character) /\ output \in Seq(Character) /\ Len(buf) < BufSize
  /\ asked \in Seq(Asks)
  /\ Fits(AllDirectives, AllArgs, Character) /\ \A i \in 1 .. Len(AllDirectives) : Small(AllDirectives[i])
Answering(ds, as, k, u) ==
  /\ k \in 0 .. Len(ds) /\ u \in Seq(Character)
  /\ todo = Cat(Marked(u), Rest(ds, k)) /\ args = ArgsRest(ds, as, k)
  /\ \E c : Cuts(c, Shown(u), ds, as, k)
PrintfInv == PrintfTypes /\ \E k, u : Answering(AllDirectives, AllArgs, k, u)

\* What alt_putstr asks for: a text, by one directive that the small printf knows.
LEMMA SmallPlain ==
  ASSUME NEW s \in Seq(Character)
  PROVE  /\ Fits(<<Plain("s")>>, <<s>>, Character) /\ Plain("s").letter = "s" /\ Small(Plain("s"))
         /\ Len(<<Plain("s")>>) = 1 /\ <<Plain("s")>>[1] = Plain("s")
         /\ ArgOf(<<Plain("s")>>, <<s>>, 1) = s
<1> DEFINE d == Plain("s")
           ds == <<d>>
           as == <<s>>
<1>1. d.letter = "s" /\ d.zero = FALSE /\ d.width = 0
  BY DEF Plain, Directive
<1>2. d \in Directives(Character)
  BY PlainIs DEF Letters
<1> HIDE DEF d
<1>3. ds \in Seq(Directives(Character)) /\ Len(ds) = 1 /\ ds[1] = d
  BY <1>2
<1>4. Len(as) = 1 /\ as[1] = s /\ as = [i \in 1 .. 1 |-> as[i]]
  OBVIOUS
<1> HIDE DEF ds, as
<1>5. Before(ds, 1) = 1
  <2>1. /\ Before(ds, 0) = 0
        /\ \A k \in 0 .. Len(ds) - 1 : Before(ds, k + 1) = Before(ds, k) + (IF ds[k + 1].letter = "%" THEN 0 ELSE 1)
    BY <1>3, BeforeIs
  <2>2. 0 \in 0 .. Len(ds) - 1 /\ 0 + 1 = 1
    BY <1>3
  <2>3. Before(ds, 0 + 1) = Before(ds, 0) + (IF ds[0 + 1].letter = "%" THEN 0 ELSE 1)
    BY <2>1, <2>2
  <2> QED
    BY <1>1, <1>3, <2>1, <2>2, <2>3
<1>6. ArgOf(ds, as, 1) = s
  BY <1>1, <1>3, <1>4, <1>5 DEF ArgOf
<1>7. s \in Argument(d, Character)
  BY <1>1 DEF Argument
<1>8. Fits(ds, as, Character)
  <2>1. \A i \in 1 .. Len(ds) : i = 1
    BY <1>3
  <2> QED
    BY <1>3, <1>4, <1>5, <1>6, <1>7, <2>1 DEF Fits
<1>9. Small(d)
  BY <1>1 DEF Small
<1> QED
  BY <1>1, <1>3, <1>6, <1>8, <1>9 DEF d, ds, as

\* What alt_printf is asked for: arguments that fit directives that it knows.
LEMMA AsksAre ==
  ASSUME NEW r \in Asks
  PROVE  /\ Fits(r.directives, r.args, Character) /\ r.directives \in Seq(Directives(Character)) /\ r.args \in Seq(Args)
         /\ \A i \in 1 .. Len(r.directives) : Small(r.directives[i])
<1>1. Fits(r.directives, r.args, Character) /\ \A i \in 1 .. Len(r.directives) : Small(r.directives[i])
  <2>1. CASE r \in Requests
    BY <2>1, PrintfAssumption DEF Small
  <2>2. CASE r \in {[directives |-> <<Plain("s")>>, args |-> <<s>>] : s \in Seq(Character)}
    <3>1. PICK s \in Seq(Character) : r = [directives |-> <<Plain("s")>>, args |-> <<s>>]
      BY <2>2
    <3> DEFINE ds == <<Plain("s")>>
               as == <<s>>
    <3>2. Fits(ds, as, Character) /\ Len(ds) = 1 /\ Small(ds[1])
      BY SmallPlain
    <3>3. r.directives = ds /\ r.args = as
      BY <3>1
    <3> HIDE DEF ds, as
    <3>4. \A i \in 1 .. Len(ds) : i = 1
      BY <3>2
    <3> QED
      BY <3>2, <3>3, <3>4
  <2> QED
    BY <2>1, <2>2 DEF Asks
<1> DEFINE ds == r.directives
           as == r.args
           n == Before(ds, Len(ds))
<1>2. ds \in Seq(Directives(Character)) /\ as = [i \in 1 .. n |-> as[i]]
  BY <1>1 DEF Fits
<1>3. n \in Nat
  <2>1. Len(ds) \in 0 .. Len(ds)
    BY <1>2, LenProperties
  <2> QED
    BY <1>2, <2>1, BeforeIs
<1>4. \A i \in 1 .. n : as[i] \in Args
  <2>1. \A i \in 1 .. n : i \in Nat
    BY <1>3
  <2> QED
    BY <2>1 DEF Args
<1>5. as \in Seq(Args)
  <2> HIDE DEF as, n
  <2>1. as \in [1 .. n -> Args]
    BY <1>2, <1>4
  <2> QED
    BY <1>3, <2>1, FunctionIsSeq
<1> QED
  BY <1>1, <1>2, <1>5

\* Another request is added.
LEMMA AskedGrows ==
  ASSUME asked \in Seq(Asks), NEW r \in Asks, asked' = Append(asked, r)
  PROVE  /\ asked' \in Seq(Asks) /\ AllArgs \in Seq(Args)
         /\ AllDirectives' = Cat(AllDirectives, r.directives)
         /\ AllArgs' = Cat(AllArgs, r.args)
<1> DEFINE n == Len(asked)
           t == Append(asked, r)
           ds == [i \in 1 .. n |-> asked[i].directives]
           as == [i \in 1 .. n |-> asked[i].args]
           es == [i \in 1 .. Len(t) |-> t[i].directives]
           bs == [i \in 1 .. Len(t) |-> t[i].args]
<1>1. /\ n \in Nat /\ \A i \in 1 .. n : asked[i] \in Asks
      /\ t \in Seq(Asks) /\ Len(t) = n + 1 /\ t[n + 1] = r /\ \A i \in 1 .. n : t[i] = asked[i]
  BY AppendProperties, LenProperties, ElementOfSeq
<1> HIDE DEF n, t
<1>2. /\ ds \in [1 .. n -> Seq(Directives(Character))] /\ as \in [1 .. n -> Seq(Args)]
      /\ r.directives \in Seq(Directives(Character)) /\ r.args \in Seq(Args)
  BY <1>1, AsksAre
<1>3. \A i \in 1 .. n + 1 : i \in 1 .. n \/ i = n + 1
  BY <1>1
<1>4. es = [i \in 1 .. n + 1 |-> IF i = n + 1 THEN r.directives ELSE ds[i]]
  BY <1>1, <1>3
<1>5. bs = [i \in 1 .. n + 1 |-> IF i = n + 1 THEN r.args ELSE as[i]]
  BY <1>1, <1>3
<1> HIDE DEF ds, as, es, bs
<1>6. ASSUME NEW C, NEW f \in [1 .. n -> C], NEW x \in C, NEW e, e = [i \in 1 .. n + 1 |-> IF i = n + 1 THEN x ELSE f[i]]
      PROVE  f \in Seq(C) /\ e = Append(f, x)
  <2>1. f \in Seq(C) /\ Len(f) = n
    BY <1>1, FunctionIsSeq
  <2> DEFINE g == Append(f, x)
  <2>2. g \in Seq(C) /\ Len(g) = n + 1 /\ g[n + 1] = x /\ \A i \in 1 .. n : g[i] = f[i]
    BY <2>1, AppendProperties
  <2>3. n + 1 \in Nat /\ e \in [1 .. n + 1 -> C]
    BY <1>1, <1>3, <1>6
  <2>4. e \in Seq(C) /\ Len(e) = n + 1
    <3> DEFINE m == n + 1
    <3>1. m \in Nat /\ e \in [1 .. m -> C]
      BY <2>3
    <3> HIDE DEF m
    <3>2. e \in Seq(C) /\ Len(e) = m
      BY <3>1, FunctionIsSeq
    <3> QED
      BY <3>2 DEF m
  <2>5. \A i \in 1 .. n + 1 : e[i] = IF i = n + 1 THEN x ELSE f[i]
    BY <1>6
  <2> HIDE DEF g
  <2>6. \A i \in 1 .. Len(e) : e[i] = g[i]
    BY <1>3, <2>2, <2>4, <2>5
  <2>7. e = g
    BY <2>2, <2>4, <2>6, SeqEqual
  <2> QED
    BY <2>1, <2>7 DEF g
<1> DEFINE X == Seq(Directives(Character))
           Y == Seq(Args)
           x == r.directives
           y == r.args
<1>7. ds \in Seq(X) /\ es = Append(ds, x)
  <2>1. ds \in [1 .. n -> X] /\ x \in X /\ es = [i \in 1 .. n + 1 |-> IF i = n + 1 THEN x ELSE ds[i]]
    BY <1>2, <1>4
  <2> HIDE DEF X, x
  <2> QED
    BY <1>6, <2>1, ZenonT(90)
<1>8. as \in Seq(Y) /\ bs = Append(as, y)
  <2>1. as \in [1 .. n -> Y] /\ y \in Y /\ bs = [i \in 1 .. n + 1 |-> IF i = n + 1 THEN y ELSE as[i]]
    BY <1>2, <1>5
  <2> HIDE DEF Y, y
  <2> QED
    BY <1>6, <2>1, ZenonT(90)
<1>9. FlattenSeq(es) = Cat(FlattenSeq(ds), x)
  BY <1>2, <1>7, FlattenAppends
<1>10. FlattenSeq(as) \in Seq(Args) /\ FlattenSeq(bs) = Cat(FlattenSeq(as), y)
  BY <1>2, <1>8, FlattenAppends
<1>11. AllDirectives = FlattenSeq(ds) /\ AllArgs = FlattenSeq(as)
  BY DEF AllDirectives, AllArgs, ds, as, n
<1>12. AllDirectives' = FlattenSeq(es) /\ AllArgs' = FlattenSeq(bs)
  BY DEF AllDirectives, AllArgs, es, bs, t
<1> QED
  BY <1>1, <1>9, <1>10, <1>11, <1>12 DEF t

\* The beginning of what is left of the format.
LEMMA HeadOfRest ==
  ASSUME NEW ds, NEW as, Fits(ds, as, Character), NEW k \in 0 .. Len(ds), NEW d, d = ds[k + 1]
  PROVE  /\ Rest(ds, k) \in Seq(Character) /\ (k = Len(ds) => Rest(ds, k) = <<>>)
         /\ k # Len(ds) =>
              /\ k + 1 \in 0 .. Len(ds) /\ d \in Directives(Character) /\ Rest(ds, k) # <<>>
              /\ Rest(ds, k + 1) \in Seq(Character)
              /\ d.letter = "%" => d.char \in Character
              /\ d.letter # "%" => ArgOf(ds, as, k + 1) \in Argument(d, Character)
              /\ d.letter = "%" /\ d.char # "%" => /\ Head(Rest(ds, k)) = d.char /\ Tail(Rest(ds, k)) = Rest(ds, k + 1)
              /\ ~(d.letter = "%" /\ d.char # "%") => /\ Head(Rest(ds, k)) = "%" /\ Tail(Rest(ds, k)) # <<>>
              /\ d.letter = "%" /\ d.char = "%" => Head(Tail(Rest(ds, k))) = "%" /\ Tail(Tail(Rest(ds, k))) = Rest(ds, k + 1)
              /\ d.letter # "%" /\ Small(d) => Head(Tail(Rest(ds, k))) = d.letter /\ Tail(Tail(Rest(ds, k))) = Rest(ds, k + 1)
<1> DEFINE n == Len(ds)
           s == Rest(ds, k)
           r == Rest(ds, k + 1)
<1>1. ds \in Seq(Directives(Character)) /\ \A i \in 1 .. n : ds[i].letter # "%" => ArgOf(ds, as, i) \in Argument(ds[i], Character)
  BY DEF Fits
<1>2. n \in Nat /\ \A i \in 1 .. n : ds[i] \in Directives(Character)
  BY <1>1, LenProperties, ElementOfSeq
<1>3. /\ Rest(ds, n) = <<>>
      /\ \A j \in 0 .. n : Rest(ds, j) \in Seq(Character)
      /\ \A j \in 0 .. n - 1 : Rest(ds, j) = Cat(Spelled(ds[j + 1]), Rest(ds, j + 1))
  BY <1>1, RestIs
<1>4. s \in Seq(Character) /\ (k = n => s = <<>>)
  BY <1>3
<1>5. ASSUME k # n
      PROVE  /\ k + 1 \in 0 .. n /\ d \in Directives(Character) /\ s # <<>>
             /\ r \in Seq(Character)
             /\ d.letter = "%" => d.char \in Character
             /\ d.letter # "%" => ArgOf(ds, as, k + 1) \in Argument(d, Character)
             /\ d.letter = "%" /\ d.char # "%" => /\ Head(s) = d.char /\ Tail(s) = r
             /\ ~(d.letter = "%" /\ d.char # "%") => /\ Head(s) = "%" /\ Tail(s) # <<>>
             /\ d.letter = "%" /\ d.char = "%" => Head(Tail(s)) = "%" /\ Tail(Tail(s)) = r
             /\ d.letter # "%" /\ Small(d) => Head(Tail(s)) = d.letter /\ Tail(Tail(s)) = r
  <2>1. k \in 0 .. n - 1 /\ k + 1 \in 0 .. n /\ k + 1 \in 1 .. n
    BY <1>2, <1>5
  <2>2. d \in Directives(Character) /\ (d.letter # "%" => ArgOf(ds, as, k + 1) \in Argument(d, Character))
    BY <1>1, <1>2, <2>1
  <2>3. r \in Seq(Character) /\ s = Cat(Spelled(d), r)
    BY <1>3, <2>1
  <2> HIDE DEF n, r, s
  <2>4. /\ d.letter = "%" => d.char \in Character
        /\ d.letter \in Letters => d.zero \in BOOLEAN /\ d.width \in 0 .. 9 /\ d.letter # "%"
        /\ d.letter = "%" \/ d.letter \in Letters
    BY <2>2, DirectiveIs
  <2> DEFINE pc == "%"
             ap == AfterPercent(d, r)
  <2>5. /\ s = IF d.letter = pc /\ d.char # pc THEN Cat(<<d.char>>, r) ELSE Cat(<<pc>>, ap)
        /\ ap \in Seq(Character)
    BY <2>2, <2>3, SpelledIs
  <2>6. pc \in Character /\ (d.letter \in Letters => d.letter \in Character)
    BY DigitCharacters
  <2>7. d.letter = pc => ap = Cat(<<pc>>, r)
    BY DEF AfterPercent
  <2>8. d.letter # pc /\ Small(d) => ap = Cat(<<d.letter>>, r)
    BY DEF AfterPercent, AfterZero, Small
  <2>9. ap # <<>>
    <3>1. CASE d.letter = pc
      <4> HIDE DEF ap, pc
      <4> QED
        BY <2>3, <2>6, <2>7, <3>1, ConsIs
    <3>2. CASE d.letter # pc
      <4> DEFINE l == d.letter
                 x == Digit[d.width + 1]
                 z == "0"
                 q == Cat(<<l>>, r)
                 az == IF d.width > 0 THEN Cat(<<x>>, q) ELSE q
      <4>1. l \in Character /\ z \in Character /\ (d.width > 0 => x \in Character)
        <5>2. d.letter \in Letters
          BY <2>4, <3>2
        <5>3. d.width \in 0 .. 9
          BY <2>4, <5>2
        <5>1. d.width + 1 \in 1 .. 16
          BY <5>3, SMTT(60)
        <5> QED
          BY <2>4, <2>6, <3>2, <5>1, DigitCharacters
      <4>2. ap = IF d.zero THEN Cat(<<z>>, az) ELSE az
        BY <3>2 DEF AfterPercent, AfterZero
      <4> HIDE DEF l, x, z, q, az, ap
      <4>3. q \in Seq(Character) /\ q # <<>>
        BY <2>3, <4>1, ConsIs DEF q
      <4>4. az \in Seq(Character) /\ az # <<>>
        BY <4>1, <4>3, ConsIs DEF az
      <4>5. Cat(<<z>>, az) # <<>>
        BY <4>1, <4>4, ConsIs
      <4> QED
        BY <4>2, <4>4, <4>5
    <3> QED
      BY <3>1, <3>2
  <2> HIDE DEF ap, pc
  <2>10. ASSUME d.letter = pc, d.char # pc PROVE s # <<>> /\ Head(s) = d.char /\ Tail(s) = r
    <3> DEFINE x == d.char
    <3>1. x \in Character /\ s = Cat(<<x>>, r)
      BY <2>4, <2>5, <2>10 DEF pc
    <3> HIDE DEF x
    <3>2. s # <<>> /\ Head(s) = x /\ Tail(s) = r
      BY <2>3, <3>1, ConsIs
    <3> QED
      BY <3>2 DEF x
  <2>11. ASSUME ~(d.letter = pc /\ d.char # pc) PROVE s # <<>> /\ Head(s) = pc /\ Tail(s) = ap
    <3>1. s = Cat(<<pc>>, ap)
      BY <2>5, <2>11
    <3> QED
      BY <2>5, <2>6, <3>1, ConsIs, ZenonT(90)
  <2>12. d.letter = pc => Head(ap) = pc /\ Tail(ap) = r
    BY <2>3, <2>6, <2>7, ConsIs, ZenonT(90)
  <2>13. ASSUME d.letter # pc, Small(d) PROVE Head(ap) = d.letter /\ Tail(ap) = r
    <3> DEFINE l == d.letter
    <3>1. l \in Character /\ ap = Cat(<<l>>, r)
      BY <2>4, <2>6, <2>8, <2>13 DEF pc
    <3> HIDE DEF l
    <3>2. Head(ap) = l /\ Tail(ap) = r
      BY <2>3, <3>1, ConsIs
    <3> QED
      BY <3>2 DEF l
  <2> QED
    BY <2>1, <2>2, <2>3, <2>4, <2>9, <2>10, <2>11, <2>12, <2>13 DEF pc
<1> QED
  BY <1>4, <1>5 DEF n, s, r

\* The next character of the format, when a text is left to put before it.
LEMMA HeadOfText ==
  ASSUME NEW u \in Seq(Character), NEW r \in Seq(Character), NEW s, s = Cat(Marked(u), r)
  PROVE  /\ u = <<>> => s = r
         /\ u # <<>> => s # <<>> /\ Head(s) = Mark(Head(u)) /\ Tail(s) = Cat(Marked(Tail(u)), r)
<1> DEFINE C == Character \cup {"%%"}
<1>1. r \in Seq(C)
  <2>1. Character \subseteq C
    OBVIOUS
  <2> HIDE DEF C
  <2> QED
    BY <2>1, SeqMonotonic
<1>2. ASSUME u = <<>> PROVE s = r
  <2>1. Marked(u) = <<>>
    BY <1>2, MarkedIs
  <2> QED
    BY <2>1, CatEmpty
<1>3. ASSUME u # <<>> PROVE s # <<>> /\ Head(s) = Mark(Head(u)) /\ Tail(s) = Cat(Marked(Tail(u)), r)
  <2> DEFINE m == Mark(Head(u))
             t == Marked(Tail(u))
             ms == <<m>>
  <2>1. Head(u) \in Character /\ t \in Seq(C) /\ Marked(u) = Cat(ms, t)
    BY <1>3, MarkedIs
  <2>2. m \in C
    BY <2>1 DEF Mark
  <2>3. ms \in Seq(C)
    BY <2>2
  <2> HIDE DEF C, m, t
  <2>4. Cat(t, r) \in Seq(C)
    BY <1>1, <2>1, CatType
  <2>5. s = Cat(ms, Cat(t, r))
    <3> HIDE DEF ms
    <3>1. Cat(Cat(ms, t), r) = Cat(ms, Cat(t, r))
      BY <1>1, <2>1, <2>3, CatAssociative
    <3> QED
      BY <2>1, <3>1
  <2> DEFINE q == Cat(t, r)
  <2>6. q \in Seq(C) /\ s = Cat(<<m>>, q)
    BY <2>4, <2>5
  <2> HIDE DEF q, ms
  <2>7. s # <<>> /\ Head(s) = m /\ Tail(s) = q
    BY <2>2, <2>6, ConsIs, ZenonT(90)
  <2> QED
    BY <2>7 DEF m, q, t
<1> QED
  BY <1>2, <1>3

\* A step that asks for nothing new.
LEMMA PrintfGoesOn ==
  ASSUME PrintfTypes, UNCHANGED <<semihosting, asked>>,
         ~semihosting => buf' = <<>>, buf' \in Seq(Character), output' \in Seq(Character), Len(buf') < BufSize,
         NEW k, NEW u, k \in 0 .. Len(AllDirectives), u \in Seq(Character),
         todo' = Cat(Marked(u), Rest(AllDirectives, k)), args' = ArgsRest(AllDirectives, AllArgs, k),
         \E c : Cuts(c, Cat(Cat(output', buf'), u), AllDirectives, AllArgs, k)
  PROVE  PrintfInv'
<1> DEFINE ds == AllDirectives
           as == AllArgs
<1>1. AllDirectives' = ds /\ AllArgs' = as
  BY DEF AllDirectives, AllArgs
<1>2. PrintfTypes'
  BY <1>1 DEF PrintfTypes
<1>3. Answering(AllDirectives, AllArgs, k, u)'
  <2> HIDE DEF ds, as
  <2>1. AllDirectives = ds /\ AllArgs = as
    BY DEF ds, as
  <2> QED
    BY <1>1, <2>1 DEF Answering, Shown
<1> QED
  BY <1>2, <1>3 DEF PrintfInv

\* A character is put into the buffer: what is converted is the same, one character less of it is left.
LEMMA PrintfPut ==
  ASSUME PrintfInv, Put
  PROVE  PrintfInv'
<1> DEFINE ds == AllDirectives
           as == AllArgs
           w == Cat(output, buf)
           v == Cat(output', buf')
           ch == IF Head(todo) = "%%" THEN "%" ELSE Head(todo)
<1>1. PICK k, u : Answering(ds, as, k, u)
  BY DEF PrintfInv
<1>2. /\ k \in 0 .. Len(ds) /\ u \in Seq(Character)
      /\ todo = Cat(Marked(u), Rest(ds, k)) /\ args = ArgsRest(ds, as, k)
      /\ \E c : Cuts(c, Cat(w, u), ds, as, k)
  BY <1>1 DEF Answering, Shown
<1>3. /\ semihosting \in BOOLEAN /\ (~semihosting => buf = <<>>)
      /\ buf \in Seq(Character) /\ output \in Seq(Character) /\ Len(buf) < BufSize
      /\ Fits(ds, as, Character) /\ \A i \in 1 .. Len(ds) : Small(ds[i])
  BY DEF PrintfInv, PrintfTypes
<1>4. /\ todo # <<>> /\ Head(todo) # "%" /\ alt_putchar(ch)
      /\ todo' = Tail(todo) /\ UNCHANGED <<semihosting, args, asked>>
  BY DEF Put
<1>5. "%%" \notin Character
  BY PrintfAssumption
<1>6. w \in Seq(Character)
  BY <1>3, CatType
<1>7. PrintfTypes
  BY DEF PrintfInv
<1> DEFINE d == ds[k + 1]
           r == Rest(ds, k)
           q == Rest(ds, k + 1)
           n == Len(ds)
<1> HIDE DEF ds, as, w, v, ch
<1>8. ASSUME ch \in Character
      PROVE  /\ ~semihosting => buf' = <<>> /\ buf' \in Seq(Character)
             /\ buf' \in Seq(Character) /\ output' \in Seq(Character) /\ Len(buf') < BufSize
             /\ v = Cat(w, <<ch>>)
  <2>1. alt_putchar(ch)
    BY <1>4
  <2>2. /\ output' \in Seq(Character) /\ buf' \in Seq(Character) /\ Len(buf') < BufSize
        /\ ~semihosting => buf' = <<>>
        /\ Cat(output', buf') = Cat(Cat(output, buf), <<ch>>)
    BY <1>3, <1>8, <2>1, PutcharIs
  <2> QED
    BY <2>2 DEF v, w
<1>9. CASE u # <<>>
  <2> DEFINE x == Head(u)
             t == Tail(u)
  <2>1. x \in Character /\ t \in Seq(Character) /\ u = Cat(<<x>>, t) /\ <<x>> \in Seq(Character)
    <3>1. x \in Character /\ t \in Seq(Character) /\ u = Cat(<<x>>, t)
      BY <1>2, <1>9, MarkedIs
    <3> HIDE DEF x
    <3> QED
      BY <3>1
  <2>2. r \in Seq(Character)
    BY <1>2, <1>3, HeadOfRest
  <2>3. Head(todo) = Mark(x) /\ Tail(todo) = Cat(Marked(t), r)
    <3> HIDE DEF r
    <3>1. todo = Cat(Marked(u), r)
      BY <1>2 DEF r
    <3> QED
      BY <1>2, <1>9, <2>2, <3>1, HeadOfText
  <2> HIDE DEF x, t
  <2>4. ch = x
    BY <1>5, <2>1, <2>3 DEF ch, Mark
  <2>5. Cat(v, t) = Cat(w, u)
    <3> DEFINE xs == <<x>>
    <3>1. v = Cat(w, xs) /\ xs \in Seq(Character) /\ u = Cat(xs, t)
      BY <1>8, <2>1, <2>4
    <3> HIDE DEF xs
    <3> QED
      BY <1>6, <2>1, <3>1, CatAssociative
  <2>6. \E c : Cuts(c, Cat(v, t), ds, as, k)
    BY <1>2, <2>5
  <2>7. todo' = Cat(Marked(t), Rest(ds, k)) /\ args' = ArgsRest(ds, as, k)
    BY <1>2, <1>4, <2>3
  <2> HIDE DEF r
  <2> QED
    BY <1>2, <1>4, <1>7, <1>8, <2>1, <2>4, <2>6, <2>7, PrintfGoesOn DEF ds, as, v
<1>10. CASE u = <<>>
  <2>1. r \in Seq(Character) /\ (k = n => r = <<>>)
    BY <1>2, <1>3, HeadOfRest
  <2>2. todo = r
    <3> HIDE DEF r
    <3>1. todo = Cat(Marked(u), r)
      BY <1>2 DEF r
    <3> QED
      BY <1>2, <1>10, <2>1, <3>1, HeadOfText
  <2>3. k # n
    BY <1>4, <2>1, <2>2
  <2>4. /\ k + 1 \in 0 .. n
        /\ d.letter = "%" => d.char \in Character
        /\ d.letter = "%" /\ d.char # "%" => Head(r) = d.char /\ Tail(r) = q
        /\ ~(d.letter = "%" /\ d.char # "%") => Head(r) = "%"
    BY <1>2, <1>3, <2>3, HeadOfRest
  <2> HIDE DEF r, q, d, n
  <2>5. d.letter = "%" /\ d.char \in Character /\ Head(r) = d.char /\ Tail(r) = q
    BY <1>4, <2>2, <2>4
  <2>6. ch = d.char
    BY <1>5, <2>2, <2>5 DEF ch
  <2>7. Answers(<<ch>>, d, ArgOf(ds, as, k + 1))
    BY <2>5, <2>6 DEF Answers
  <2>8. ArgsRest(ds, as, k + 1) = ArgsRest(ds, as, k)
    <3>1. k \in 0 .. Len(ds) - 1
      BY <1>2, <2>3, <2>4 DEF n
    <3> QED
      <4>1. ds[k + 1].letter = "%"
        BY <2>5 DEF d
      <4>2. Fits(ds, as, Character)
        BY <1>3
      <4> QED
        BY <3>1, <4>1, <4>2, ArgsRestNext
  <2>9. Cat(w, u) = w
    BY <1>6, <1>10, CatEmpty
  <2>10. \E e : Cuts(e, v, ds, as, k + 1)
    <3> DEFINE xs == <<ch>>
    <3>1. PICK c : Cuts(c, w, ds, as, k)
      BY <1>2, <2>9
    <3>2. xs \in Seq(Character) /\ v = Cat(w, xs) /\ Answers(xs, ds[k + 1], ArgOf(ds, as, k + 1)) /\ k \in Nat
      <4>1. ch \in Character
        BY <2>5, <2>6
      <4>2. xs \in Seq(Character)
        BY <4>1
      <4>3. v = Cat(w, xs)
        BY <1>8, <4>1
      <4>4. k \in Nat
        BY <1>2
      <4> HIDE DEF w, v
      <4>5. Answers(xs, ds[k + 1], ArgOf(ds, as, k + 1))
        BY <2>7 DEF d
      <4> QED
        BY <4>2, <4>3, <4>4, <4>5
    <3> HIDE DEF xs
    <3> QED
      BY <1>6, <3>1, <3>2, CutsGrow
  <2>11. v \in Seq(Character)
    BY <1>8, <2>5, <2>6, CatType DEF v
  <2>12. Cat(v, <<>>) = v
    BY <2>11, CatEmpty
  <2>13. q \in Seq(Character)
    BY <1>2, <1>3, <2>3, HeadOfRest DEF q, n
  <2>14. Cat(Marked(<<>>), q) = q /\ <<>> \in Seq(Character)
    <3>1. Marked(<<>>) = <<>> /\ <<>> \in Seq(Character)
      BY MarkedIs, EmptySeq
    <3> QED
      BY <2>13, <3>1, CatEmpty
  <2> DEFINE j == k + 1
             e == <<>>
  <2>15. /\ j \in 0 .. Len(ds) /\ e \in Seq(Character) /\ todo' = Cat(Marked(e), Rest(ds, j)) /\ args' = ArgsRest(ds, as, j)
         /\ \E c : Cuts(c, Cat(v, e), ds, as, j)
    BY <1>2, <1>4, <2>2, <2>4, <2>5, <2>8, <2>10, <2>12, <2>14 DEF q, n
  <2> HIDE DEF j, e
  <2> QED
    BY <1>4, <1>7, <1>8, <2>5, <2>6, <2>15, PrintfGoesOn DEF ds, as, v
<1> QED
  BY <1>9, <1>10

\* A percent sign and what follows it: the answer to the directive is what is left to put before the format goes on.
LEMMA PrintfEscape ==
  ASSUME PrintfInv, Escape
  PROVE  PrintfInv'
<1> DEFINE ds == AllDirectives
           as == AllArgs
           w == Cat(output, buf)
<1>1. PICK k, u : Answering(ds, as, k, u)
  BY DEF PrintfInv
<1>2. /\ k \in 0 .. Len(ds) /\ u \in Seq(Character)
      /\ todo = Cat(Marked(u), Rest(ds, k)) /\ args = ArgsRest(ds, as, k)
      /\ \E c : Cuts(c, Cat(w, u), ds, as, k)
  BY <1>1 DEF Answering, Shown
<1>3. /\ semihosting \in BOOLEAN /\ (~semihosting => buf = <<>>)
      /\ buf \in Seq(Character) /\ output \in Seq(Character) /\ Len(buf) < BufSize
      /\ Fits(ds, as, Character) /\ \A i \in 1 .. Len(ds) : Small(ds[i])
  BY DEF PrintfInv, PrintfTypes
<1> DEFINE rest == Tail(todo)
           mark(t) == [i \in 1 .. Len(t) |-> IF t[i] = "%" THEN "%%" ELSE t[i]]
<1>4. /\ todo # <<>> /\ Head(todo) = "%"
      /\ rest # <<>> => IF Head(rest) \in Known
                        THEN todo' = mark(Text(Head(rest), Head(args))) \o Tail(rest) /\ args' = Tail(args)
                        ELSE todo' = (IF Head(rest) = "%" THEN <<"%%">> ELSE <<>>) \o Tail(rest) /\ UNCHANGED args
      /\ UNCHANGED <<semihosting, buf, output, asked>>
  BY DEF Escape
<1>5. w \in Seq(Character)
  BY <1>3, CatType
<1>6. PrintfTypes
  BY DEF PrintfInv
<1>7. \A t : mark(t) = Marked(t)
  BY DEF Marked, Mark
<1> DEFINE d == ds[k + 1]
           r == Rest(ds, k)
           q == Rest(ds, k + 1)
           n == Len(ds)
<1> HIDE DEF ds, as, w, rest, mark
<1>8. r \in Seq(Character) /\ (k = n => r = <<>>)
  BY <1>2, <1>3, HeadOfRest
<1>9. u = <<>> /\ todo = r
  <2> HIDE DEF r
  <2>1. todo = Cat(Marked(u), r)
    BY <1>2 DEF r
  <2>2. u # <<>> => Head(todo) = Mark(Head(u)) /\ Mark(Head(u)) # "%"
    BY <1>2, <1>8, <2>1, HeadOfText, MarkedIs
  <2>3. u = <<>>
    BY <1>4, <2>2
  <2> QED
    BY <1>2, <1>8, <2>1, <2>3, HeadOfText, ZenonT(90)
<1>10. k # n
  BY <1>4, <1>8, <1>9
<1>11. /\ k + 1 \in 0 .. n /\ d \in Directives(Character) /\ q \in Seq(Character)
       /\ d.letter = "%" => d.char \in Character
       /\ d.letter # "%" => ArgOf(ds, as, k + 1) \in Argument(d, Character)
       /\ d.letter = "%" /\ d.char # "%" => Head(r) = d.char
       /\ ~(d.letter = "%" /\ d.char # "%") => Tail(r) # <<>>
       /\ d.letter = "%" /\ d.char = "%" => Head(Tail(r)) = "%" /\ Tail(Tail(r)) = q
       /\ d.letter # "%" /\ Small(d) => Head(Tail(r)) = d.letter /\ Tail(Tail(r)) = q
  BY <1>2, <1>3, <1>10, HeadOfRest
<1>12. k \in 0 .. Len(ds) - 1 /\ k + 1 \in 1 .. Len(ds) /\ Small(d) /\ k \in Nat
  <2>1. k \in 0 .. n - 1 /\ k + 1 \in 1 .. n
    BY <1>2, <1>10, <1>11
  <2> QED
    BY <1>3, <2>1
<1> HIDE DEF r, q, d, n
<1>13. ASSUME NEW t \in Seq(Character), Answers(t, d, ArgOf(ds, as, k + 1)), todo' = Marked(t) \o q,
              args' = ArgsRest(ds, as, k + 1)
       PROVE  PrintfInv'
  <2>1. Cat(w, u) = w
    BY <1>5, <1>9, CatEmpty
  <2>2. \E e : Cuts(e, Cat(w, t), ds, as, k + 1)
    <3>1. PICK c : Cuts(c, w, ds, as, k)
      BY <1>2, <2>1
    <3>2. Answers(t, ds[k + 1], ArgOf(ds, as, k + 1)) /\ k \in Nat
      BY <1>12, <1>13 DEF d
    <3> QED
      BY <1>5, <3>1, <3>2, CutsGrow
  <2> DEFINE j == k + 1
  <2>3. /\ j \in 0 .. Len(ds) /\ todo' = Cat(Marked(t), Rest(ds, j)) /\ args' = ArgsRest(ds, as, j)
        /\ \E c : Cuts(c, Cat(Cat(output', buf'), t), ds, as, j)
    BY <1>4, <1>11, <1>13, <2>2 DEF q, n, w, Cat
  <2> HIDE DEF j
  <2>4. /\ ~semihosting => buf' = <<>> /\ buf' \in Seq(Character)
        /\ buf' \in Seq(Character) /\ output' \in Seq(Character) /\ Len(buf') < BufSize
    BY <1>3, <1>4
  <2> QED
    BY <1>4, <1>6, <2>3, <2>4, PrintfGoesOn DEF ds, as
<1>14. CASE d.letter = "%"
  <2>1. d.char = "%" /\ rest # <<>> /\ Head(rest) = "%" /\ Tail(rest) = q
    BY <1>4, <1>9, <1>11, <1>14 DEF rest
  <2>2. "%" \notin Known
    BY DEF Known
  <2>3. todo' = <<"%%">> \o q /\ args' = args
    BY <1>4, <2>1, <2>2
  <2> DEFINE t == <<"%">>
  <2>4. t \in Seq(Character)
    <3>1. "%" \in Character
      BY DigitCharacters
    <3> QED
      BY <3>1
  <2>5. Marked(t) = <<"%%">>
    BY DEF Marked, Mark
  <2>6. Answers(t, d, ArgOf(ds, as, k + 1))
    BY <1>14, <2>1 DEF Answers
  <2>7. ArgsRest(ds, as, k + 1) = ArgsRest(ds, as, k)
    <3>1. ds[k + 1].letter = "%"
      BY <1>14 DEF d
    <3>2. Fits(ds, as, Character) /\ k \in 0 .. Len(ds) - 1
      BY <1>3, <1>12
    <3> QED
      BY <3>1, <3>2, ArgsRestNext
  <2> HIDE DEF t
  <2> QED
    BY <1>2, <1>13, <2>3, <2>4, <2>5, <2>6, <2>7
<1>15. CASE d.letter # "%"
  <2> DEFINE v == ArgOf(ds, as, k + 1)
             t == Text(d.letter, v)
  <2>1. rest # <<>> /\ Head(rest) = d.letter /\ Tail(rest) = q
    BY <1>9, <1>11, <1>12, <1>15 DEF rest
  <2>2. Head(args) = v /\ Tail(args) = ArgsRest(ds, as, k + 1)
    <3>1. ds[k + 1].letter # "%"
      BY <1>15 DEF d
    <3>2. Head(ArgsRest(ds, as, k)) = ArgOf(ds, as, k + 1) /\ Tail(ArgsRest(ds, as, k)) = ArgsRest(ds, as, k + 1)
      <4>1. /\ ds[k + 1].letter = "%" => ArgsRest(ds, as, k + 1) = ArgsRest(ds, as, k)
            /\ ds[k + 1].letter # "%" => /\ ArgsRest(ds, as, k) # <<>>
                                         /\ Head(ArgsRest(ds, as, k)) = ArgOf(ds, as, k + 1)
                                         /\ Tail(ArgsRest(ds, as, k)) = ArgsRest(ds, as, k + 1)
        <5>1. Fits(ds, as, Character) /\ k \in 0 .. Len(ds) - 1
          BY <1>3, <1>12
        <5> QED
          BY <5>1, ArgsRestNext
      <4> QED
        BY <3>1, <4>1
    <3> QED
      BY <1>2, <3>2
  <2>3. v \in Argument(d, Character)
    BY <1>11, <1>15
  <2>4. d.letter \in Known /\ t \in Seq(Character) /\ Answers(t, d, v)
    <3> HIDE DEF v
    <3> QED
      BY <1>11, <1>12, <1>15, <2>3, KnownAnswers
  <2>5. todo' = mark(t) \o q /\ args' = Tail(args)
    BY <1>4, <2>1, <2>2, <2>4
  <2>6. todo' = Marked(t) \o q /\ args' = ArgsRest(ds, as, k + 1)
    BY <1>7, <2>2, <2>5
  <2> HIDE DEF t
  <2> QED
    BY <1>13, <2>4, <2>6
<1> QED
  BY <1>14, <1>15

\* The buffer is written out and emptied.
LEMMA PrintfFlush ==
  ASSUME PrintfInv, Flush
  PROVE  PrintfInv'
<1> DEFINE ds == AllDirectives
           as == AllArgs
           w == Cat(output, buf)
<1>1. PICK k, u : Answering(ds, as, k, u)
  BY DEF PrintfInv
<1>2. /\ k \in 0 .. Len(ds) /\ u \in Seq(Character)
      /\ todo = Cat(Marked(u), Rest(ds, k)) /\ args = ArgsRest(ds, as, k)
      /\ \E c : Cuts(c, Cat(w, u), ds, as, k)
  BY <1>1 DEF Answering, Shown
<1>3. buf \in Seq(Character) /\ output \in Seq(Character) /\ PrintfTypes
  BY DEF PrintfInv, PrintfTypes
<1>4. output' = w /\ buf' = <<>> /\ UNCHANGED <<semihosting, todo, args, asked>>
  BY DEF Flush, alt_putbufflush, Cat
<1>5. w \in Seq(Character)
  BY <1>3, CatType
<1> HIDE DEF ds, as, w
<1>6. Cat(output', buf') = w
  BY <1>4, <1>5, CatEmpty
<1>7. <<>> \in Seq(Character) /\ Len(<<>>) < BufSize
  BY PrintfAssumption, EmptySeq
<1>8. /\ ~semihosting => buf' = <<>> /\ buf' \in Seq(Character)
      /\ buf' \in Seq(Character) /\ output' \in Seq(Character) /\ Len(buf') < BufSize
  BY <1>4, <1>5, <1>7
<1>9. /\ todo' = Cat(Marked(u), Rest(ds, k)) /\ args' = ArgsRest(ds, as, k)
      /\ \E c : Cuts(c, Cat(Cat(output', buf'), u), ds, as, k)
  BY <1>2, <1>4, <1>6
<1> QED
  BY <1>2, <1>3, <1>4, <1>8, <1>9, PrintfGoesOn DEF ds, as

\* When nothing is left to put, every directive has been answered.
LEMMA PrintfDone ==
  ASSUME PrintfInv, todo = <<>>
  PROVE  /\ \E c : Cuts(c, Cat(output, buf), AllDirectives, AllArgs, Len(AllDirectives))
         /\ args = <<>> /\ Len(AllDirectives) \in Nat
<1> DEFINE ds == AllDirectives
           as == AllArgs
           w == Cat(output, buf)
<1>1. PICK k, u : Answering(ds, as, k, u)
  BY DEF PrintfInv
<1>2. /\ k \in 0 .. Len(ds) /\ u \in Seq(Character)
      /\ todo = Cat(Marked(u), Rest(ds, k)) /\ args = ArgsRest(ds, as, k)
      /\ \E c : Cuts(c, Cat(w, u), ds, as, k)
  BY <1>1 DEF Answering, Shown
<1>3. buf \in Seq(Character) /\ output \in Seq(Character) /\ Fits(ds, as, Character)
  BY DEF PrintfInv, PrintfTypes
<1>4. w \in Seq(Character)
  BY <1>3, CatType
<1> HIDE DEF ds, as, w
<1> DEFINE r == Rest(ds, k)
<1>5. r \in Seq(Character) /\ (k # Len(ds) => r # <<>>)
  BY <1>2, <1>3, HeadOfRest
<1> HIDE DEF r
<1>6. todo = Cat(Marked(u), r)
  BY <1>2 DEF r
<1>7. u = <<>> /\ todo = r
  BY <1>2, <1>5, <1>6, HeadOfText
<1>8. k = Len(ds)
  BY <1>5, <1>7
<1>9. Cat(w, u) = w
  BY <1>4, <1>7, CatEmpty
<1>10. ArgsRest(ds, as, Len(ds)) = <<>>
  BY <1>3, ArgsRestEnds
<1>11. Len(ds) \in Nat
  BY <1>3, LenProperties DEF Fits
<1> QED
  BY <1>2, <1>8, <1>9, <1>10, <1>11 DEF ds, as, w

\* Another request, when all before are done.
LEMMA PrintfAsks ==
  ASSUME PrintfInv, todo = <<>>, NEW r \in Asks, asked' = Append(asked, r)
  PROVE  /\ asked' \in Seq(Asks) /\ Fits(AllDirectives', AllArgs', Character)
         /\ \A i \in 1 .. Len(AllDirectives') : Small(AllDirectives'[i])
         /\ \E c : Cuts(c, Cat(output, buf), AllDirectives', AllArgs', Len(AllDirectives))
         /\ Rest(AllDirectives', Len(AllDirectives)) = Format(r.directives)
         /\ ArgsRest(AllDirectives', AllArgs', Len(AllDirectives)) = r.args
         /\ Len(AllDirectives') = Len(AllDirectives) + Len(r.directives)
         /\ Len(AllDirectives) \in Nat /\ Len(r.directives) \in Nat
<1> DEFINE dx == AllDirectives
           ax == AllArgs
           ex == r.directives
           bx == r.args
           fs == Cat(dx, ex)
           cs == Cat(ax, bx)
           n == Len(dx)
           w == Cat(output, buf)
<1>1. Fits(dx, ax, Character) /\ asked \in Seq(Asks) /\ \A i \in 1 .. n : Small(dx[i])
  BY DEF PrintfInv, PrintfTypes
<1>2. asked' \in Seq(Asks) /\ ax \in Seq(Args) /\ AllDirectives' = fs /\ AllArgs' = cs
  BY <1>1, AskedGrows
<1>3. Fits(ex, bx, Character) /\ bx \in Seq(Args) /\ \A i \in 1 .. Len(ex) : Small(ex[i])
  BY AsksAre
<1>4. PICK c : Cuts(c, w, dx, ax, n)
  BY PrintfDone
<1> HIDE DEF dx, ax, ex, bx, w
<1>5. /\ Fits(fs, cs, Character)
      /\ \A i \in 1 .. n : fs[i] = dx[i] /\ ArgOf(fs, cs, i) = ArgOf(dx, ax, i)
      /\ \A i \in 1 .. Len(ex) : fs[n + i] = ex[i]
      /\ Rest(fs, n) = Format(ex) /\ ArgsRest(fs, cs, n) = bx
      /\ Len(fs) = n + Len(ex) /\ n \in Nat /\ Len(ex) \in Nat
  <2>1. ax \in Seq(Args) /\ bx \in Seq(Args) /\ Fits(dx, ax, Character) /\ Fits(ex, bx, Character)
    BY <1>1, <1>2, <1>3
  <2>2. Joined(dx, ax, ex, bx, Cat(dx, ex), Cat(ax, bx), Character)
    BY <2>1, FitsCat
  <2> QED
    BY <2>2 DEF Joined
<1> HIDE DEF fs, cs, n
<1>6. Cuts(c, w, fs, cs, n)
  BY <1>4, <1>5, CutsKeep
<1>7. \A i \in 1 .. Len(fs) : Small(fs[i])
  <2> SUFFICES ASSUME NEW i \in 1 .. Len(fs) PROVE Small(fs[i])
    OBVIOUS
  <2>1. CASE i \in 1 .. n
    BY <1>1, <1>5, <2>1
  <2>2. CASE i \notin 1 .. n
    <3> DEFINE j == i - n
    <3>1. j \in 1 .. Len(ex) /\ n + j = i
      BY <1>5, <2>2
    <3> HIDE DEF j
    <3>2. fs[n + j] = ex[j] /\ Small(ex[j])
      BY <1>3, <1>5, <3>1
    <3> QED
      BY <3>1, <3>2
  <2> QED
    BY <2>1, <2>2
<1> QED
  BY <1>2, <1>5, <1>6, <1>7 DEF dx, ex, bx, n, w

\* What an answer to all requests so far is.
LEMMA PrintfHolds ==
  ASSUME PrintfTypes', NEW k, NEW u, k \in 0 .. Len(AllDirectives'), u \in Seq(Character),
         todo' = Cat(Marked(u), Rest(AllDirectives', k)), args' = ArgsRest(AllDirectives', AllArgs', k),
         \E c : Cuts(c, Cat(Cat(output', buf'), u), AllDirectives', AllArgs', k)
  PROVE  PrintfInv'
<1>1. Answering(AllDirectives, AllArgs, k, u)'
  BY DEF Answering, Shown
<1> QED
  BY <1>1 DEF PrintfInv

\* A call of alt_printf begins with nothing printed, and all of its format left.
LEMMA PrintfBegins ==
  ASSUME PrintfInv, NEW r \in Requests, Printf(r)
  PROVE  PrintfInv'
<1> DEFINE fs == AllDirectives'
           cs == AllArgs'
           n == Len(AllDirectives)
           u == <<>>
<1>1. /\ todo = <<>> /\ todo' = Format(r.directives) /\ args' = r.args /\ asked' = Append(asked, r)
      /\ UNCHANGED <<semihosting, buf, output>>
  BY DEF Printf
<1>2. r \in Asks
  BY DEF Asks
<1>3. /\ asked' \in Seq(Asks) /\ Fits(fs, cs, Character)
      /\ \A i \in 1 .. Len(fs) : Small(fs[i])
      /\ \E c : Cuts(c, Cat(output, buf), fs, cs, n)
      /\ Rest(fs, n) = Format(r.directives) /\ ArgsRest(fs, cs, n) = r.args
      /\ Len(fs) = n + Len(r.directives) /\ n \in Nat /\ Len(r.directives) \in Nat
  BY <1>1, <1>2, PrintfAsks
<1>4. /\ semihosting \in BOOLEAN /\ (~semihosting => buf = <<>>)
      /\ buf \in Seq(Character) /\ output \in Seq(Character) /\ Len(buf) < BufSize
  BY DEF PrintfInv, PrintfTypes
<1>5. PrintfTypes'
  BY <1>1, <1>3, <1>4 DEF PrintfTypes
<1>6. n \in 0 .. Len(fs) /\ Rest(fs, n) \in Seq(Character)
  <2>1. n \in 0 .. Len(fs)
    BY <1>3
  <2> HIDE DEF fs, cs, n
  <2> QED
    BY <1>3, <2>1, HeadOfRest
<1>7. u \in Seq(Character) /\ Marked(u) = <<>> /\ Cat(<<>>, Rest(fs, n)) = Rest(fs, n)
  <2> HIDE DEF fs, n
  <2> QED
    BY <1>6, EmptySeq, MarkedIs, CatEmpty
<1>8. Cat(Cat(output, buf), u) = Cat(output, buf)
  BY <1>4, CatType, CatEmpty
<1> HIDE DEF fs, cs, n
<1>9. PICK k : k = n
  OBVIOUS
<1>10. /\ k \in 0 .. Len(fs) /\ u \in Seq(Character)
       /\ todo' = Cat(Marked(u), Rest(fs, k)) /\ args' = ArgsRest(fs, cs, k)
       /\ \E c : Cuts(c, Cat(Cat(output', buf'), u), fs, cs, k)
  BY <1>1, <1>3, <1>6, <1>7, <1>8, <1>9
<1> HIDE DEF u
<1> QED
  BY <1>5, <1>10, PrintfHolds DEF fs, cs

\* So does a call of alt_putstr.
LEMMA PutstrBegins ==
  ASSUME PrintfInv, NEW s \in Seq(Character), alt_putstr(s)
  PROVE  PrintfInv'
<1> DEFINE r == [directives |-> <<Plain("s")>>, args |-> <<s>>]
           fs == AllDirectives'
           cs == AllArgs'
           n == Len(AllDirectives)
           w == Cat(output, buf)
<1>1. /\ todo = <<>> /\ buf = <<>> /\ output' = Cat(output, s) /\ asked' = Append(asked, r)
      /\ UNCHANGED <<semihosting, todo, args, buf>>
  BY DEF alt_putstr, Cat
<1>2. r \in Asks /\ r.directives = <<Plain("s")>> /\ r.args = <<s>>
  BY DEF Asks
<1> HIDE DEF r
<1>3. /\ asked' \in Seq(Asks) /\ Fits(fs, cs, Character)
      /\ \A i \in 1 .. Len(fs) : Small(fs[i])
      /\ \E c : Cuts(c, w, fs, cs, n)
      /\ Rest(fs, n) = Format(r.directives) /\ ArgsRest(fs, cs, n) = r.args
      /\ Len(fs) = n + Len(r.directives) /\ n \in Nat
  BY <1>1, <1>2, PrintfAsks
<1>4. /\ semihosting \in BOOLEAN /\ (~semihosting => buf = <<>>)
      /\ buf \in Seq(Character) /\ output \in Seq(Character) /\ Len(buf) < BufSize
      /\ Fits(AllDirectives, AllArgs, Character) /\ asked \in Seq(Asks)
  BY DEF PrintfInv, PrintfTypes
<1>5. Cat(output, s) \in Seq(Character) /\ w = output /\ args = <<>>
  <2>1. args = <<>>
    BY <1>1, PrintfDone
  <2> QED
    BY <1>1, <1>4, <2>1, CatType, CatEmpty
<1>6. PrintfTypes'
  BY <1>1, <1>3, <1>4, <1>5 DEF PrintfTypes
<1>7. /\ Fits(<<Plain("s")>>, <<s>>, Character) /\ Len(<<Plain("s")>>) = 1 /\ <<Plain("s")>>[1] = Plain("s")
      /\ ArgOf(<<Plain("s")>>, <<s>>, 1) = s /\ Plain("s").letter = "s" /\ Small(Plain("s"))
  BY SmallPlain
<1>8. fs[n + 1] = Plain("s") /\ ArgOf(fs, cs, n + 1) = s
  <2> DEFINE ex == r.directives
             dx == AllDirectives
             ax == AllArgs
             bx == r.args
  <2>1. ax \in Seq(Args) /\ fs = Cat(dx, ex) /\ cs = Cat(ax, bx)
    BY <1>1, <1>2, <1>4, AskedGrows
  <2>2. ex = <<Plain("s")>> /\ bx = <<s>>
    BY <1>2
  <2>3. bx \in Seq(Args) /\ ex \in Seq(Directives(Character))
    BY <1>2, AsksAre
  <2>4. Fits(dx, ax, Character) /\ Fits(ex, bx, Character) /\ Len(ex) = 1 /\ ex[1] = Plain("s") /\ Plain("s").letter = "s"
    BY <1>4, <1>7, <2>2
  <2>5. bx[1] = s /\ Len(bx) = 1
    BY <2>2
  <2> HIDE DEF fs, cs, ex, bx, dx, ax
  <2>6. /\ \A i \in 1 .. Len(ex) : fs[Len(dx) + i] = ex[i]
        /\ ArgsRest(fs, cs, Len(dx)) = bx /\ Len(fs) = Len(dx) + Len(ex) /\ Len(dx) \in Nat
        /\ Fits(fs, cs, Character)
    <3>1. ax \in Seq(Args) /\ bx \in Seq(Args) /\ Fits(dx, ax, Character) /\ Fits(ex, bx, Character)
      BY <2>1, <2>3, <2>4
    <3>2. Joined(dx, ax, ex, bx, Cat(dx, ex), Cat(ax, bx), Character)
      BY <3>1, FitsCat
    <3> QED
      BY <2>1, <3>2 DEF Joined
  <2>7. fs[Len(dx) + 1] = Plain("s")
    BY <2>4, <2>6
  <2>8. ArgOf(fs, cs, Len(dx) + 1) = s
    <3> DEFINE m == Len(dx)
    <3>1. m \in 0 .. Len(fs) - 1 /\ fs[m + 1].letter # "%" /\ Fits(fs, cs, Character) /\ ArgsRest(fs, cs, m) = bx
      BY <2>4, <2>6, <2>7
    <3> HIDE DEF m
    <3>2. Head(ArgsRest(fs, cs, m)) = ArgOf(fs, cs, m + 1)
      BY <3>1, ArgsRestIs DEF TakesOwn
    <3>3. Head(bx) = s
      BY <2>2
    <3> QED
      BY <3>1, <3>2, <3>3 DEF m
  <2> QED
    BY <2>7, <2>8 DEF dx
<1>9. Answers(s, Plain("s"), s)
  <2>1. Plain("s") \in Directives(Character) /\ s \in Argument(Plain("s"), Character)
    <3>1. "s" \in Letters
      BY DEF Letters
    <3> QED
      BY <1>7, <3>1, PlainIs DEF Argument
  <2>2. Text("s", s) = s
    BY DEF Text
  <2> DEFINE d == Plain("s")
  <2>3. d.letter = "s" /\ Small(d) /\ d \in Directives(Character) /\ s \in Argument(d, Character)
    BY <1>7, <2>1
  <2> HIDE DEF d
  <2>4. Answers(Text(d.letter, s), d, s)
    BY <2>3, KnownAnswers
  <2> QED
    BY <2>2, <2>3, <2>4 DEF d
<1>10. Len(fs) = n + 1 /\ n \in Nat
  BY <1>2, <1>3, <1>7
<1> DEFINE j == Len(fs)
           u == <<>>
<1>11. \E e : Cuts(e, Cat(output, s), fs, cs, j)
  <2>1. PICK c : Cuts(c, w, fs, cs, n)
    BY <1>3
  <2>2. Answers(s, fs[n + 1], ArgOf(fs, cs, n + 1)) /\ w \in Seq(Character) /\ n \in Nat
    BY <1>4, <1>5, <1>8, <1>9, <1>10
  <2> HIDE DEF fs, cs, n, w
  <2>3. \E e : Cuts(e, Cat(w, s), fs, cs, n + 1)
    BY <2>1, <2>2, CutsGrow
  <2> QED
    BY <1>5, <1>10, <2>3
<1>12. j \in 0 .. Len(fs) /\ Rest(fs, j) = <<>> /\ ArgsRest(fs, cs, j) = <<>>
  <2>1. j \in 0 .. Len(fs)
    BY <1>10
  <2> HIDE DEF fs, cs
  <2>2. ArgsRest(fs, cs, Len(fs)) = <<>>
    BY <1>3, ArgsRestEnds
  <2> QED
    BY <1>3, <2>1, <2>2, HeadOfRest
<1>13. u \in Seq(Character) /\ Cat(Marked(u), <<>>) = <<>>
  BY EmptySeq, MarkedIs, CatEmpty
<1>14. Cat(Cat(output', buf'), u) = Cat(output, s)
  <2> DEFINE o == Cat(output, s)
  <2>1. o \in Seq(Character) /\ output' = o /\ buf' = <<>>
    BY <1>1, <1>5
  <2> HIDE DEF o
  <2>2. Cat(o, <<>>) = o
    BY <2>1, CatEmpty
  <2> QED
    BY <2>1, <2>2 DEF o
<1> HIDE DEF fs, cs, j
<1>15. PICK k : k = j
  OBVIOUS
<1>16. /\ k \in 0 .. Len(fs) /\ u \in Seq(Character)
       /\ todo' = Cat(Marked(u), Rest(fs, k)) /\ args' = ArgsRest(fs, cs, k)
       /\ \E c : Cuts(c, Cat(Cat(output', buf'), u), fs, cs, k)
  BY <1>1, <1>5, <1>11, <1>12, <1>13, <1>14, <1>15
<1> HIDE DEF u
<1> QED
  BY <1>6, <1>16, PrintfHolds DEF fs, cs

\* Nothing is printed before the first call.
LEMMA PrintfStarts == PrintfInit => PrintfInv
<1> SUFFICES ASSUME PrintfInit PROVE PrintfInv
  OBVIOUS
<1> DEFINE ds == AllDirectives
           as == AllArgs
           e == <<>>
           c == [i \in 0 .. 0 |-> 0]
<1>1. semihosting \in BOOLEAN /\ todo = e /\ args = e /\ buf = e /\ output = e /\ asked = e
  BY DEF PrintfInit
<1>2. ds = e /\ as = e
  <2>1. \A s : FlattenSeq([i \in 1 .. Len(<<>>) |-> s]) = <<>>
    <3> SUFFICES ASSUME NEW s PROVE FlattenSeq([i \in 1 .. Len(<<>>) |-> s]) = <<>>
      OBVIOUS
    <3>1. [i \in 1 .. Len(<<>>) |-> s] = <<>>
      OBVIOUS
    <3>2. FlattenSeq(<<>>) = <<>>
      <4> DEFINE C == {}
                 ss == <<>>
      <4>1. ss \in Seq(Seq(C)) /\ Len(ss) = 0
        BY EmptySeq
      <4>3. ss = <<>>
        OBVIOUS
      <4> HIDE DEF ss, C
      <4>2. PICK f : IsFlat(f, ss)
        BY <4>1, FlatExists
      <4>4. FlattenSeq(ss) = IF Len(ss) = 0 THEN ss ELSE f[Len(ss)]
        BY <4>1, <4>2, FlattenIs
      <4> QED
        BY <4>1, <4>3, <4>4
    <3> QED
      BY <3>1, <3>2
  <2>2. [i \in 1 .. Len(<<>>) |-> asked[i].directives] = <<>> /\ [i \in 1 .. Len(<<>>) |-> asked[i].args] = <<>>
    OBVIOUS
  <2>3. FlattenSeq(<<>>) = <<>>
    <3>1. [i \in 1 .. Len(<<>>) |-> 0] = <<>>
      OBVIOUS
    <3> QED
      BY <2>1, <3>1
  <2> QED
    BY <1>1, <2>2, <2>3 DEF AllDirectives, AllArgs
<1>3. \A C : e \in Seq(C) /\ Len(e) = 0
  BY EmptySeq
<1> HIDE DEF ds, as, e, c
<1>4. Fits(ds, as, Character)
  <2>1. e \in Seq(Directives(Character))
    BY <1>3
  <2>2. Before(e, 0) = 0
    BY <2>1, BeforeIs
  <2>3. e = [i \in 1 .. 0 |-> e[i]]
    BY DEF e
  <2> QED
    BY <1>2, <1>3, <2>1, <2>2, <2>3 DEF Fits
<1>5. PrintfTypes
  <2>1. BufSize > 0
    BY PrintfAssumption
  <2>2. \A i \in 1 .. Len(ds) : Small(ds[i])
    BY <1>2, <1>3
  <2> QED
    BY <1>1, <1>3, <1>4, <2>1, <2>2 DEF PrintfTypes, ds, as, e
<1>6. Shown(e) = e /\ Marked(e) = e
  <2>1. Cat(e, e) = e
    BY <1>3, CatEmpty
  <2>2. Marked(<<>>) = <<>>
    <3>1. <<>> \in Seq(Character)
      BY EmptySeq
    <3> QED
      BY <3>1, MarkedIs
  <2>3. Shown(e) = e
    BY <1>1, <2>1 DEF Shown
  <2> QED
    BY <2>2, <2>3 DEF e
<1>7. Rest(ds, 0) = e /\ ArgsRest(ds, as, 0) = e
  <2>1. 0 \in 0 .. Len(ds)
    BY <1>2, <1>3
  <2>2. Rest(ds, 0) = e
    BY <1>2, <1>3, <1>4, <2>1, HeadOfRest DEF e
  <2> QED
    BY <1>2, <1>4, <2>2, ArgsRestStarts
<1>8. Cuts(c, e, ds, as, 0)
  <2>1. c[0] = 0 /\ c \in [0 .. 0 -> 0 .. 0]
    BY DEF c
  <2> QED
    BY <1>3, <2>1 DEF Cuts
<1>9. Cat(e, e) = e
  BY <1>3, CatEmpty
<1>10. Answering(AllDirectives, AllArgs, 0, e)
  <2>1. 0 \in 0 .. Len(ds)
    BY <1>2, <1>3
  <2> QED
    BY <1>1, <1>3, <1>6, <1>7, <1>8, <1>9, <2>1 DEF Answering, ds, as
<1> QED
  BY <1>5, <1>10 DEF PrintfInv

\* What every state says of the output.
LEMMA PrintfShows == PrintfInv => PrintedAsAsked
<1> SUFFICES ASSUME PrintfInv PROVE PrintedAsAsked
  OBVIOUS
<1>1. Len(buf) < BufSize /\ semihosting \in BOOLEAN /\ (~semihosting => buf = <<>>) /\ output \in Seq(Character)
  BY DEF PrintfInv, PrintfTypes
<1>2. ASSUME todo = <<>>, semihosting => buf = <<>>
      PROVE  Reads(output, AllDirectives, AllArgs)
  <2>1. buf = <<>>
    BY <1>1, <1>2
  <2>2. Cat(output, buf) = output
    BY <1>1, <2>1, CatEmpty
  <2>3. PICK c : Cuts(c, output, AllDirectives, AllArgs, Len(AllDirectives))
    BY <1>2, <2>2, PrintfDone
  <2>4. Len(AllDirectives) \in Nat /\ Len(output) \in Nat
    BY <1>1, <1>2, PrintfDone, LenProperties
  <2> QED
    BY <2>3, <2>4, CutsRead
<1> QED
  BY <1>1, <1>2 DEF PrintedAsAsked, AllDirectives, AllArgs

\* In every state of the small printf.
LEMMA PrintfInvHolds == PrintfSpec => []PrintfInv
<1>1. PrintfInit => PrintfInv
  BY PrintfStarts
<1>2. PrintfInv /\ [PrintfNext]_printfVars => PrintfInv'
  <2> SUFFICES ASSUME PrintfInv, [PrintfNext]_printfVars PROVE PrintfInv'
    OBVIOUS
  <2>1. CASE Put
    BY <2>1, PrintfPut
  <2>2. CASE Escape
    BY <2>2, PrintfEscape
  <2>3. CASE Flush
    BY <2>3, PrintfFlush
  <2>4. CASE \E r \in Requests : Printf(r)
    BY <2>4, PrintfBegins
  <2>5. CASE \E s \in {<<"a">>, <<"%", "a">>} : alt_putstr(s)
    <3>1. "a" \in Character /\ "%" \in Character
      <4>1. Digit[11] = "a" /\ 11 \in 1 .. 16
        BY DEF Digit
      <4> QED
        BY <4>1, DigitCharacters
    <3>2. <<"a">> \in Seq(Character) /\ <<"%", "a">> \in Seq(Character)
      BY <3>1
    <3> QED
      BY <2>5, <3>2, PutstrBegins
  <2>6. CASE UNCHANGED printfVars
    BY <2>6 DEF printfVars, PrintfInv, PrintfTypes, Answering, Shown, AllDirectives, AllArgs
  <2> QED
    BY <2>1, <2>2, <2>3, <2>4, <2>5, <2>6 DEF PrintfNext
<1> QED
  BY <1>1, <1>2, PTL DEF PrintfSpec

\* Between two calls what the small printf, alt_putstr and alt_putchar have written is an answer to
\* every directive they were given, in their order, with and without semihosting.
THEOREM PrintfPrintsAsAsked == PrintfSpec => []PrintedAsAsked
BY PrintfInvHolds, PrintfShows, PTL

\* Both printf functions answer what they are asked, whatever was printed before and whatever
\* interrupts do in between.
THEOREM EverythingPrintsAsAsked == PrintfSpec /\ LogSpec => []PrintsAsAsked
BY PrintfPrintsAsAsked, LogPrintsAsAsked, PTL DEF PrintsAsAsked

-----------------------------------------------------------------------------
(* alt_gmon *)

Token(on) == IF on THEN 1 ELSE 0

\* The start of the sampler passes from need_init to the call of mcount that has reset it, and from
\* there to an alarm or back; it is doubled by a race only.
StartInv ==
  /\ need_init \in BOOLEAN /\ alarms \in Nat
  /\ raced \/ alarms + Token(ctx["program"].step = "init") + Token(ctx["interrupt"].step = "init") + Token(need_init) <= 1

\* Samples are counted in whole buckets, from the first alarm on.
HistogramInv ==
  /\ alarms > 0 => DOMAIN samples = 0 .. TextSize \div Bucket - 1
  /\ \A pc \in outside : pc < TextSize /\ pc >= (TextSize \div Bucket) * Bucket

CallsInv ==
  /\ ctx = [l \in Levels |-> ctx[l]]
  /\ \A l \in Levels : ctx[l] = NoCall \/ DOMAIN ctx[l] = {"step", "self", "from", "entry", "arc", "seen", "init"}

GmonInv == StartInv /\ HistogramInv /\ CallsInv

LEMMA GmonInitInv == GmonInit => GmonInv
BY DEF GmonInit, GmonInv, StartInv, HistogramInv, CallsInv, Token, Levels, NoCall

\* What becomes of the steps of the calls is all that the invariant needs to know of ctx.
Goes(l, s) ==
  /\ ctx'[l].step = s
  /\ \A k \in Levels \ {l} : ctx'[k] = ctx[k]

LEMMA CallGoesOn ==
  ASSUME CallsInv, NEW l \in Levels, NEW s, ctx' = [ctx EXCEPT ![l].step = s], ctx[l].step \notin {s, "none"}
  PROVE  Goes(l, s) /\ CallsInv'
<1>1. l \in DOMAIN ctx /\ ctx[l] # NoCall
  BY DEF CallsInv, NoCall
<1>2. DOMAIN ctx[l] = {"step", "self", "from", "entry", "arc", "seen", "init"}
  BY <1>1 DEF CallsInv
<1>3. ctx'[l] = [ctx[l] EXCEPT !.step = s] /\ \A k \in Levels \ {l} : ctx'[k] = ctx[k]
  BY <1>1 DEF CallsInv
<1>4. ctx'[l].step = s /\ DOMAIN ctx'[l] = DOMAIN ctx[l]
  BY <1>2, <1>3
<1>5. ctx' = [k \in Levels |-> ctx'[k]]
  BY DEF CallsInv
<1> QED
  BY <1>2, <1>3, <1>4, <1>5 DEF Goes, CallsInv

LEMMA CallBegins ==
  ASSUME CallsInv, NEW l \in Levels, NEW c, ctx' = [ctx EXCEPT ![l] = c],
         c = NoCall \/ DOMAIN c = {"step", "self", "from", "entry", "arc", "seen", "init"}
  PROVE  Goes(l, c.step) /\ CallsInv'
BY DEF CallsInv, Goes

\* A call that goes to another step than init, and was not there, leaves the start alone.
LEMMA StartStays ==
  ASSUME StartInv, NEW l \in Levels, NEW s, Goes(l, s), s # "init", ctx[l].step # "init",
         UNCHANGED <<need_init, alarms, raced>>
  PROVE  StartInv'
<1>1. \A k \in Levels : (ctx'[k].step = "init") = (ctx[k].step = "init")
  BY DEF Goes
<1>2. Token(ctx'["program"].step = "init") = Token(ctx["program"].step = "init")
      /\ Token(ctx'["interrupt"].step = "init") = Token(ctx["interrupt"].step = "init")
  BY <1>1 DEF Levels, Token
<1> QED
  BY <1>2 DEF StartInv, Token

LEMMA McountInv ==
  ASSUME GmonInv, NEW l \in Levels, NEW self, NEW from, mcount(l, self, from)
  PROVE  GmonInv'
<1> DEFINE entry == Find(fn_head, "self_pc", self)
<1> DEFINE arc == IF entry = 0 THEN 0 ELSE Find(mem[entry].arc_head, "from_pc", from)
<1> DEFINE c == [step |-> IF arc = 0 THEN "record" ELSE "count", self |-> self, from |-> from,
                 entry |-> entry, arc |-> arc, seen |-> IF arc = 0 THEN 0 ELSE mem[arc].count, init |-> FALSE]
<1>1. ctx' = [ctx EXCEPT ![l] = c] /\ ctx[l] = NoCall
  BY DEF mcount
<1>2. DOMAIN c = {"step", "self", "from", "entry", "arc", "seen", "init"} /\ c.step \in {"record", "count"}
  BY DEF NoCall
<1>3. UNCHANGED <<need_init, alarms, raced, samples, outside>>
  BY DEF mcount, sampler
<1> HIDE DEF c
<1>4. Goes(l, c.step) /\ CallsInv'
  BY <1>1, <1>2, CallBegins DEF GmonInv
<1>5. ctx[l].step # "init" /\ c.step # "init"
  BY <1>1, <1>2 DEF NoCall
<1>6. StartInv'
  BY <1>3, <1>4, <1>5, StartStays DEF GmonInv
<1> QED
  BY <1>3, <1>4, <1>6 DEF GmonInv, HistogramInv

LEMMA ReturnInv ==
  ASSUME GmonInv, NEW l \in Levels, ctx[l].step \in {"count", "enter"}, ctx' = [ctx EXCEPT ![l] = NoCall],
         UNCHANGED <<need_init, alarms, raced, samples, outside>>
  PROVE  GmonInv'
<1>1. Goes(l, NoCall.step) /\ CallsInv'
  BY CallBegins DEF GmonInv
<1>2. StartInv'
  BY <1>1, StartStays DEF GmonInv, NoCall
<1> QED
  BY <1>1, <1>2 DEF GmonInv, HistogramInv

LEMMA TestInitInv ==
  ASSUME GmonInv, NEW l \in Levels, TestInit(l)
  PROVE  GmonInv'
<1> DEFINE s == IF need_init THEN "reset" ELSE "enter"
<1>1. ctx[l].step = "record" /\ ctx' = [ctx EXCEPT ![l].step = s] /\ UNCHANGED <<need_init, alarms, raced, samples, outside>>
  BY DEF TestInit, sampler
<1>2. s \in {"reset", "enter"}
  OBVIOUS
<1> HIDE DEF s
<1>3. Goes(l, s) /\ CallsInv'
  BY <1>1, <1>2, CallGoesOn DEF GmonInv
<1>4. StartInv'
  BY <1>1, <1>2, <1>3, StartStays DEF GmonInv
<1> QED
  BY <1>1, <1>3, <1>4 DEF GmonInv, HistogramInv

LEMMA ResetInitInv ==
  ASSUME GmonInv, NEW l \in Levels, ResetInit(l)
  PROVE  GmonInv'
<1>1. /\ ctx[l].step = "reset" /\ ctx' = [ctx EXCEPT ![l].step = "init"]
      /\ raced' = (raced \/ ~need_init) /\ need_init' = FALSE /\ UNCHANGED <<alarms, samples, outside>>
  BY DEF ResetInit
<1>2. Goes(l, "init") /\ CallsInv'
  <2>1. ctx[l].step \notin {"init", "none"} /\ CallsInv
    BY <1>1 DEF GmonInv
  <2> QED
    BY <1>1, <2>1, CallGoesOn
<1>3. StartInv'
  <2>1. CASE raced'
    BY <1>1, <2>1 DEF GmonInv, StartInv
  <2>2. CASE ~raced'
    <3>1. ~raced /\ need_init
      BY <1>1, <2>2 DEF GmonInv, StartInv
    <3>2. alarms + Token(ctx["program"].step = "init") + Token(ctx["interrupt"].step = "init") + 1 <= 1 /\ alarms \in Nat
      BY <3>1 DEF GmonInv, StartInv, Token
    <3>3. alarms = 0 /\ ctx["program"].step # "init" /\ ctx["interrupt"].step # "init"
      BY <3>2 DEF Token
    <3>4. Token(ctx'["program"].step = "init") + Token(ctx'["interrupt"].step = "init") = 1
      <4>1. CASE l = "program"
        BY <1>2, <3>3, <4>1 DEF Goes, Levels, Token
      <4>2. CASE l = "interrupt"
        BY <1>2, <3>3, <4>2 DEF Goes, Levels, Token
      <4> QED
        BY <4>1, <4>2 DEF Levels
    <3>5. alarms' = 0 /\ Token(need_init') = 0
      BY <1>1, <3>3 DEF Token
    <3> DEFINE b == Token(ctx'["program"].step = "init")
    <3> DEFINE c == Token(ctx'["interrupt"].step = "init")
    <3>6. b \in Nat /\ c \in Nat
      BY DEF Token
    <3>7. alarms' + b + c + Token(need_init') <= 1
      <4> HIDE DEF b, c
      <4>1. b + c = 1
        BY <3>4 DEF b, c
      <4> QED
        BY <3>5, <3>6, <4>1
    <3>8. alarms' \in Nat
      BY <3>5
    <3>9. need_init' \in BOOLEAN
      BY <1>1
    <3> QED
      BY <3>7, <3>8, <3>9 DEF StartInv, Token
  <2> QED
    BY <2>1, <2>2
<1> QED
  BY <1>1, <1>2, <1>3 DEF GmonInv, HistogramInv

LEMMA SamplerInv ==
  ASSUME GmonInv, NEW l \in Levels, pcsample_init(l)
  PROVE  GmonInv'
<1>1. /\ ctx[l].step = "init" /\ ctx' = [ctx EXCEPT ![l].step = "enter"] /\ UNCHANGED <<outside, raced>>
      /\ IF ticks THEN /\ samples' = [b \in 0 .. TextSize \div Bucket - 1 |-> 0] /\ alarms' = alarms + 1
                       /\ need_init' = FALSE
                  ELSE need_init' = TRUE /\ UNCHANGED <<samples, alarms>>
  BY DEF pcsample_init
<1>2. Goes(l, "enter") /\ CallsInv'
  <2>1. ctx[l].step \notin {"enter", "none"} /\ CallsInv
    BY <1>1 DEF GmonInv
  <2> QED
    BY <1>1, <2>1, CallGoesOn
<1>3. alarms \in Nat /\ alarms' \in Nat /\ need_init' \in BOOLEAN
  <2>1. alarms \in Nat
    BY DEF GmonInv, StartInv
  <2>2. need_init' \in BOOLEAN
    BY <1>1
  <2>3. alarms' = alarms + 1 \/ alarms' = alarms
    BY <1>1
  <2>4. alarms' \in Nat
    BY <2>1, <2>3
  <2> QED
    BY <2>1, <2>2, <2>4
<1>4. HistogramInv'
  BY <1>1, <1>3 DEF GmonInv, HistogramInv
<1>5. StartInv'
  <2>1. CASE raced
    BY <1>1, <1>3, <2>1 DEF StartInv
  <2>2. CASE ~raced
    <3>1. alarms + Token(ctx["program"].step = "init") + Token(ctx["interrupt"].step = "init") + Token(need_init) <= 1
      BY <2>2 DEF GmonInv, StartInv
    <3>2. Token(ctx["program"].step = "init") + Token(ctx["interrupt"].step = "init")
            = Token(ctx'["program"].step = "init") + Token(ctx'["interrupt"].step = "init") + 1
      <4>1. CASE l = "program"
        BY <1>1, <1>2, <4>1 DEF Goes, Levels, Token
      <4>2. CASE l = "interrupt"
        BY <1>1, <1>2, <4>2 DEF Goes, Levels, Token
      <4> QED
        BY <4>1, <4>2 DEF Levels
    <3>3. alarms' + Token(need_init') = alarms + 1
      BY <1>1, <1>3 DEF Token
    <3>4. PICK a, b, c, d, e, f, g, h \in Nat :
            /\ a = Token(ctx["program"].step = "init") /\ b = Token(ctx["interrupt"].step = "init")
            /\ c = Token(ctx'["program"].step = "init") /\ d = Token(ctx'["interrupt"].step = "init")
            /\ e = Token(need_init) /\ f = Token(need_init') /\ g = alarms /\ h = alarms'
      BY <1>3 DEF Token
    <3>5. g + a + b + e <= 1 /\ a + b = c + d + 1 /\ h + f = g + 1
      BY <3>1, <3>2, <3>3, <3>4
    <3>6. h + c + d + f <= 1
      BY <3>4, <3>5
    <3>7. alarms' + Token(ctx'["program"].step = "init") + Token(ctx'["interrupt"].step = "init") + Token(need_init') <= 1
      BY <3>4, <3>6
    <3> QED
      BY <1>3, <3>7 DEF StartInv, Token
  <2> QED
    BY <2>1, <2>2
<1> QED
  BY <1>2, <1>4, <1>5 DEF GmonInv

\* What is behind the histogram is less than a bucket.
LEMMA SampleInv ==
  ASSUME GmonInv, NEW pc \in 0 .. TextSize, pcsample(pc)
  PROVE  GmonInv'
<1>1. /\ alarms > 0 /\ UNCHANGED <<ctx, need_init, alarms, raced>>
      /\ DOMAIN samples' = DOMAIN samples
      /\ outside' # outside => outside' = outside \cup {pc} /\ InText(pc) /\ pc \div Bucket \notin DOMAIN samples
  BY DEF pcsample
<1>2. StartInv' /\ CallsInv'
  BY <1>1 DEF GmonInv, StartInv, CallsInv, Token
<1>3. HistogramInv'
  <2>1. DOMAIN samples' = 0 .. TextSize \div Bucket - 1
    BY <1>1 DEF GmonInv, HistogramInv
  <2>2. CASE outside' = outside
    BY <1>1, <2>1, <2>2 DEF GmonInv, HistogramInv
  <2>3. CASE outside' # outside
    <3>1. pc < TextSize /\ pc \in Nat /\ pc \div Bucket \notin 0 .. TextSize \div Bucket - 1
      BY <1>1, <2>1, <2>3, GmonAssumption DEF GmonAssumption, InText
    <3> DEFINE q == TextSize \div Bucket
    <3> DEFINE p == pc \div Bucket
    <3>2. q \in Nat /\ p \in Nat /\ pc >= p * Bucket /\ Bucket \in Nat \ {0}
      <4>1. \A a \in Nat, b \in Nat \ {0} : a \div b \in Nat /\ a >= (a \div b) * b
        OBVIOUS
      <4> QED
        BY <3>1, <4>1, GmonAssumption DEF GmonAssumption
    <3>3. p >= q
      <4> HIDE DEF p, q
      <4>1. p \notin 0 .. q - 1
        BY <3>1 DEF p, q
      <4> QED
        BY <3>2, <4>1
    <3>4. pc >= q * Bucket
      <4> HIDE DEF p, q
      <4>1. p * Bucket >= q * Bucket
        BY <3>2, <3>3
      <4> QED
        BY <3>1, <3>2, <4>1
    <3> QED
      BY <1>1, <2>1, <2>3, <3>1, <3>4 DEF GmonInv, HistogramInv
  <2> QED
    BY <2>2, <2>3
<1> QED
  BY <1>2, <1>3 DEF GmonInv

\* Every step keeps what has been said of the sampler and of the calls.
LEMMA GmonInvHolds == GmonSpec => []GmonInv
<1>1. GmonInv /\ [GmonNext]_gmonVars => GmonInv'
  <2> SUFFICES ASSUME GmonInv, [GmonNext]_gmonVars PROVE GmonInv'
    OBVIOUS
  <2>1. ASSUME NEW l \in Levels, FoundArc(l) \/ Record(l) PROVE GmonInv'
    <3>1. ctx[l].step \in {"count", "enter"} /\ ctx' = [ctx EXCEPT ![l] = NoCall]
      BY <2>1 DEF FoundArc, Record
    <3>2. UNCHANGED <<need_init, alarms, raced, samples, outside>>
      BY <2>1 DEF FoundArc, Record, sampler
    <3> QED
      BY <2>1, <3>1, <3>2, ReturnInv
  <2>2. CASE ClockStarts \/ UNCHANGED gmonVars
    BY <2>2 DEF ClockStarts, gmonVars, GmonInv, StartInv, HistogramInv, CallsInv, Token
  <2> QED
    BY <2>1, <2>2, McountInv, TestInitInv, ResetInitInv, SamplerInv, SampleInv DEF GmonNext
<1> QED
  BY <1>1, GmonInitInv, PTL DEF GmonSpec

\* The sampler's alarm is inserted once but for a race of two calls of mcount, and no sample is
\* counted behind the histogram but of the code behind its last whole bucket, for any size of text
\* and of buckets and however the calls are interrupted (__mcount_record, pcsample_init).
THEOREM SamplerIsStartedOnce == GmonSpec => []SamplerStartsOnce
<1>1. GmonInv => SamplerStartsOnce
  <2> SUFFICES ASSUME GmonInv, alarms > 1 PROVE raced
    BY DEF GmonInv, HistogramInv, SamplerStartsOnce
  <2> QED
    BY DEF GmonInv, StartInv, Token
<1> QED
  BY <1>1, GmonInvHolds, PTL

-----------------------------------------------------------------------------
(* Induction and sums *)

\* Induction over the subsets of a finite set, by their number of elements.
LEMMA SetInduct ==
  ASSUME NEW S, IsFiniteSet(S), NEW G, \A T \in SUBSET S : (\A x \in T : T \ {x} \in G) => T \in G
  PROVE  SUBSET S \subseteq G
<1> DEFINE N == {n \in Nat : \A T \in SUBSET S : Cardinality(T) <= n => T \in G}
<1>1. \A T \in SUBSET S : IsFiniteSet(T) /\ Cardinality(T) \in Nat
  BY FS_Subset, FS_CardinalityType
<1>2. \A T \in SUBSET S : \A x \in T : Cardinality(T \ {x}) = Cardinality(T) - 1 /\ T \ {x} \in SUBSET S
  BY <1>1, FS_RemoveElement
<1>3. 0 \in N
  <2> SUFFICES ASSUME NEW T \in SUBSET S, Cardinality(T) <= 0 PROVE T \in G
    OBVIOUS
  <2>1. T = {}
    BY <1>1, FS_EmptySet
  <2> QED
    BY <2>1
<1>4. \A n \in Nat : n \in N => n + 1 \in N
  <2> SUFFICES ASSUME NEW n \in N, NEW T \in SUBSET S, Cardinality(T) <= n + 1 PROVE T \in G
    OBVIOUS
  <2>1. \A x \in T : T \ {x} \in G
    BY <1>1, <1>2
  <2> QED
    BY <2>1
<1>5. Nat \subseteq N
  <2> HIDE DEF N
  <2> QED
    BY <1>3, <1>4, NatInduct
<1> QED
  BY <1>1, <1>5

\* The recursive function of MapThenSumSet, and what it is at S.
First(s) == CHOOSE x \in s : TRUE
IsSum(g, f, S) == g = [s \in SUBSET S |-> IF s = {} THEN 0 ELSE f[First(s)] + g[s \ {First(s)}]]
SumOf(f, S) == (CHOOSE g : IsSum(g, f, S))[S]

\* The function exists.
LEMMA SumExists ==
  ASSUME NEW S, IsFiniteSet(S), NEW f
  PROVE  \E g : IsSum(g, f, S)
<1> DEFINE SetsUpTo(n) == {s \in SUBSET S : Cardinality(s) <= n}
           On(g, n) == g = [s \in SetsUpTo(n) |-> IF s = {} THEN 0 ELSE f[First(s)] + g[s \ {First(s)}]]
           N == {n \in Nat : \E g : On(g, n)}
<1>1. \A T \in SUBSET S : IsFiniteSet(T) /\ Cardinality(T) \in Nat /\ Cardinality(T) <= Cardinality(S)
  BY FS_Subset, FS_CardinalityType
<1>2. \A T \in SUBSET S : T # {} => First(T) \in T
  BY DEF First
<1>3. \A T \in SUBSET S : T # {} => Cardinality(T \ {First(T)}) = Cardinality(T) - 1 /\ T \ {First(T)} \in SUBSET S
  BY <1>1, <1>2, FS_RemoveElement
<1>4. 0 \in N
  <2> DEFINE g == [s \in SetsUpTo(0) |-> 0]
  <2>1. \A s \in SetsUpTo(0) : s = {}
    BY <1>1, FS_EmptySet
  <2>2. On(g, 0)
    BY <2>1
  <2> QED
    BY <2>2
<1>5. \A n \in Nat : n \in N => n + 1 \in N
  <2> SUFFICES ASSUME NEW n \in Nat, n \in N PROVE n + 1 \in N
    OBVIOUS
  <2>6. PICK g : On(g, n)
    OBVIOUS
  <2> DEFINE h == [s \in SetsUpTo(n + 1) |-> IF s = {} THEN 0 ELSE f[First(s)] + g[s \ {First(s)}]]
  <2>1. \A s \in SetsUpTo(n + 1) : s # {} => s \ {First(s)} \in SetsUpTo(n)
    BY <1>1, <1>3
  <2>2. \A s \in SetsUpTo(n) : s \in SetsUpTo(n + 1)
    BY <1>1
  <2>3. \A s \in SetsUpTo(n) : h[s] = g[s]
    BY <2>2, <2>6
  <2>4. \A s \in SetsUpTo(n + 1) : h[s] = IF s = {} THEN 0 ELSE f[First(s)] + h[s \ {First(s)}]
    BY <2>1, <2>3
  <2>5. On(h, n + 1)
    BY <2>4
  <2> HIDE DEF On, h
  <2> QED
    BY <2>5
<1>6. Nat \subseteq N
  <2> HIDE DEF N
  <2> QED
    BY <1>4, <1>5, NatInduct
<1>7. Cardinality(S) \in N
  BY <1>1, <1>6
<1>8. SetsUpTo(Cardinality(S)) = SUBSET S
  BY <1>1
<1>9. PICK g : On(g, Cardinality(S))
  BY <1>7
<1>10. IsSum(g, f, S)
  BY <1>8, <1>9 DEF IsSum
<1> QED
  BY <1>10

\* Any two of them agree, where the functions summed up do.
LEMMA SumUnique ==
  ASSUME NEW S, NEW T, IsFiniteSet(S), S \subseteq T, NEW f, NEW e, \A x \in S : f[x] = e[x],
         NEW g, IsSum(g, f, S), NEW h, IsSum(h, e, T)
  PROVE  g[S] = h[S]
<1> DEFINE G == {U \in SUBSET S : g[U] = h[U]}
<1>1. \A U \in SUBSET S : /\ g[U] = IF U = {} THEN 0 ELSE f[First(U)] + g[U \ {First(U)}]
                          /\ h[U] = IF U = {} THEN 0 ELSE e[First(U)] + h[U \ {First(U)}]
  BY DEF IsSum
<1>2. \A U \in SUBSET S : U # {} => First(U) \in U
  BY DEF First
<1>3. SUBSET S \subseteq G
  <2>1. ASSUME NEW U \in SUBSET S, \A x \in U : U \ {x} \in G PROVE U \in G
    BY <1>1, <1>2, <2>1, ZenonT(90)
  <2> HIDE DEF G
  <2> QED
    BY <2>1, SetInduct
<1> QED
  BY <1>3

\* The sum as a sum.
LEMMA SumIs ==
  ASSUME NEW S, IsFiniteSet(S), NEW f, NEW g, IsSum(g, f, S)
  PROVE  g[S] = SumOf(f, S)
<1> DEFINE h == CHOOSE h : IsSum(h, f, S)
<1>1. IsSum(h, f, S)
  OBVIOUS
<1> HIDE DEF h
<1>2. g[S] = h[S]
  BY <1>1, SumUnique
<1> QED
  BY <1>2 DEF SumOf, h

\* It is a number, and any element can be taken out of it.
LEMMA SumRemoves ==
  ASSUME NEW S, IsFiniteSet(S), NEW f, \A x \in S : f[x] \in Int, NEW g, IsSum(g, f, S)
  PROVE  \A U \in SUBSET S : g[U] \in Int /\ \A x \in U : g[U] = f[x] + g[U \ {x}]
<1> DEFINE P(U) == g[U] \in Int /\ \A x \in U : g[U] = f[x] + g[U \ {x}] /\ g[U \ {x}] \in Int
           G == {U \in SUBSET S : P(U)}
<1>1. \A U \in SUBSET S : g[U] = IF U = {} THEN 0 ELSE f[First(U)] + g[U \ {First(U)}]
  BY DEF IsSum
<1>2. \A U \in SUBSET S : U # {} => First(U) \in U
  BY DEF First
<1>3. SUBSET S \subseteq G
  <2>1. ASSUME NEW U \in SUBSET S, \A x \in U : U \ {x} \in G PROVE U \in G
    <3>1. CASE U = {}
      <4>1. g[U] = 0
        BY <1>1, <3>1
      <4> QED
        BY <3>1, <4>1
    <3>2. CASE U # {}
      <4> DEFINE y == First(U)
      <4>1. y \in U /\ g[U] = f[y] + g[U \ {y}] /\ g[U \ {y}] \in Int /\ f[y] \in Int
        BY <1>1, <1>2, <2>1, <3>2
      <4> HIDE DEF y
      <4>2. ASSUME NEW x \in U, x # y PROVE g[U] = f[x] + g[U \ {x}]
        <5> DEFINE A == U \ {x}
                   B == U \ {y}
                   C == U \ {x, y}
        <5>1. A \in G /\ B \in G /\ x \in B /\ y \in A /\ A \ {y} = C /\ B \ {x} = C /\ C \in SUBSET S
          BY <2>1, <4>1, <4>2
        <5>2. g[A] = f[y] + g[C] /\ g[B] = f[x] + g[C] /\ g[C] \in Int
          BY <5>1
        <5>3. f[x] \in Int
          BY <4>2
        <5> QED
          BY <4>1, <5>2, <5>3
      <4>3. \A x \in U : g[U \ {x}] \in Int
        BY <2>1
      <4>4. \A x \in U : g[U] = f[x] + g[U \ {x}]
        BY <4>1, <4>2
      <4>5. g[U] \in Int
        BY <4>1
      <4>6. P(U)
        BY <4>3, <4>4, <4>5
      <4> HIDE DEF P
      <4> QED
        BY <4>6
    <3> QED
      BY <3>1, <3>2
  <2> HIDE DEF G
  <2> QED
    BY <2>1, SetInduct
<1> QED
  BY <1>3

LEMMA SumType ==
  ASSUME NEW S, IsFiniteSet(S), NEW f, \A x \in S : f[x] \in Int
  PROVE  SumOf(f, S) \in Int
<1>1. PICK g : IsSum(g, f, S)
  BY SumExists
<1> QED
  BY <1>1, SumIs, SumRemoves

LEMMA SumEmpty ==
  ASSUME NEW f
  PROVE  SumOf(f, {}) = 0
<1>1. PICK g : IsSum(g, f, {})
  BY SumExists, FS_EmptySet
<1>2. g[{}] = 0
  BY <1>1 DEF IsSum
<1> QED
  BY <1>1, <1>2, SumIs, FS_EmptySet

\* Only the elements count.
LEMMA SumAgrees ==
  ASSUME NEW S, IsFiniteSet(S), NEW f, NEW e, \A x \in S : f[x] = e[x]
  PROVE  SumOf(f, S) = SumOf(e, S)
<1>1. PICK g : IsSum(g, f, S)
  BY SumExists
<1>2. PICK h : IsSum(h, e, S)
  BY SumExists
<1>3. g[S] = h[S]
  BY <1>1, <1>2, SumUnique
<1> QED
  BY <1>1, <1>2, <1>3, SumIs

\* An element more.
LEMMA SumAdds ==
  ASSUME NEW S, IsFiniteSet(S), NEW y, y \notin S, NEW f, \A x \in S \cup {y} : f[x] \in Int
  PROVE  SumOf(f, S \cup {y}) = f[y] + SumOf(f, S)
<1> DEFINE T == S \cup {y}
<1>1. IsFiniteSet(T) /\ T \ {y} = S /\ S \subseteq T /\ y \in T
  BY FS_AddElement
<1>2. PICK g : IsSum(g, f, T)
  BY <1>1, SumExists
<1>3. PICK h : IsSum(h, f, S)
  BY SumExists
<1>4. g[T] = f[y] + g[S]
  <2> HIDE DEF T
  <2>1. T \in SUBSET T /\ \A x \in T : f[x] \in Int
    BY DEF T
  <2> QED
    BY <1>1, <1>2, <2>1, SumRemoves
<1>5. h[S] = g[S]
  BY <1>1, <1>2, <1>3, SumUnique
<1> QED
  BY <1>1, <1>2, <1>3, <1>4, <1>5, SumIs

\* An element that grows.
LEMMA SumChanges ==
  ASSUME NEW S, IsFiniteSet(S), NEW y \in S, NEW f, NEW e, \A x \in S : f[x] \in Int /\ e[x] \in Int,
         \A x \in S \ {y} : e[x] = f[x]
  PROVE  SumOf(e, S) = SumOf(f, S) + (e[y] - f[y])
<1> DEFINE T == S \ {y}
<1>1. IsFiniteSet(T) /\ T \cup {y} = S /\ y \notin T
  BY FS_RemoveElement
<1> HIDE DEF T
<1>2. SumOf(f, S) = f[y] + SumOf(f, T) /\ SumOf(e, S) = e[y] + SumOf(e, T)
  BY <1>1, SumAdds
<1>3. SumOf(f, T) = SumOf(e, T)
  <2>1. \A x \in T : f[x] = e[x]
    BY DEF T
  <2> QED
    BY <1>1, <2>1, SumAgrees
<1>4. SumOf(f, T) \in Int /\ f[y] \in Int /\ e[y] \in Int
  <2>1. \A x \in T : f[x] \in Int
    BY DEF T
  <2> QED
    BY <1>1, <2>1, SumType
<1> QED
  BY <1>2, <1>3, <1>4

\* The sum over the calls is that of MapThenSumSet, as is the one over the records of the arcs.
LEMMA SumOfFunction ==
  ASSUME NEW f, NEW S
  PROVE  MapThenSumSet(LAMBDA k : f[k], S) = SumOf(f, S)
BY DEF MapThenSumSet, MapThenFoldSet, SumOf, IsSum, First

LEMMA SumOfField ==
  ASSUME NEW m, NEW S, IsFiniteSet(S)
  PROVE  MapThenSumSet(LAMBDA a : m[a].count, S) = SumOf([a \in S |-> m[a].count], S)
<1> DEFINE Q(g) == g = [s \in SUBSET S |-> IF s = {} THEN 0 ELSE m[First(s)].count + g[s \ {First(s)}]]
           f == [a \in S |-> m[a].count]
           h == CHOOSE g : Q(g)
<1>1. MapThenSumSet(LAMBDA a : m[a].count, S) = h[S]
  BY DEF MapThenSumSet, MapThenFoldSet, First
<1>2. \A s \in SUBSET S : s # {} => First(s) \in S
  BY DEF First
<1>3. \A g : IsSum(g, f, S) <=> Q(g)
  BY <1>2 DEF IsSum
<1>4. \E g : Q(g)
  <2>1. PICK g : IsSum(g, f, S)
    BY SumExists
  <2> HIDE DEF Q
  <2> QED
    BY <1>3, <2>1
<1>5. Q(h)
  <2> HIDE DEF Q
  <2> QED
    BY <1>4 DEF h
<1>6. IsSum(h, f, S)
  <2> HIDE DEF Q, h, f
  <2> QED
    BY <1>3, <1>5
<1> HIDE DEF h, f, Q
<1>7. h[S] = SumOf(f, S)
  BY <1>6, SumIs
<1> QED
  BY <1>1, <1>7 DEF f

-----------------------------------------------------------------------------
(* The lists of the profiler *)

\* Lists whose pointers go to smaller addresses only.
Linked(m, h) ==
  /\ h \in Nat
  /\ \A p \in DOMAIN m : p \in Nat \ {0} /\ p < h /\ m[p].next \in DOMAIN m \cup {0} /\ m[p].next < p

FindIn(m, ptr, field, pc) ==
  LET found[p \in DOMAIN m \cup {0}] ==
        IF p = 0 THEN 0 ELSE IF m[p][field] = pc THEN p ELSE found[m[p].next]
  IN found[ptr]

LEMMA FindIsFindIn ==
  ASSUME NEW ptr, NEW field, NEW pc
  PROVE  Find(ptr, field, pc) = FindIn(mem, ptr, field, pc)
BY DEF Find, FindIn

\* The search goes along the list.
LEMMA FindGoesOn ==
  ASSUME NEW m, NEW h, Linked(m, h), NEW field, NEW pc
  PROVE  \A p \in DOMAIN m \cup {0} :
           FindIn(m, p, field, pc) =
             IF p = 0 THEN 0 ELSE IF m[p][field] = pc THEN p ELSE FindIn(m, m[p].next, field, pc)
<1> DEFINE D == DOMAIN m \cup {0}
           SetsUpTo(n) == {p \in D : p <= n}
           At(g, p) == IF p = 0 THEN 0 ELSE IF m[p][field] = pc THEN p ELSE g[m[p].next]
           On(g, n) == g = [p \in SetsUpTo(n) |-> At(g, p)]
           N == {n \in Nat : \E g : On(g, n)}
           Q(g) == g = [p \in D |-> At(g, p)]
           f == CHOOSE g : Q(g)
<1>1. h \in Nat /\ \A p \in D : p \in Nat /\ p <= h /\ (p # 0 => m[p].next \in D /\ m[p].next \in Nat /\ m[p].next < p)
  BY DEF Linked
<1>2. 0 \in N
  <2> DEFINE g == [p \in SetsUpTo(0) |-> 0]
  <2>1. \A p \in SetsUpTo(0) : p = 0
    BY <1>1
  <2>2. On(g, 0)
    BY <2>1
  <2> HIDE DEF On, g
  <2> QED
    BY <2>2
<1>3. \A n \in Nat : n \in N => n + 1 \in N
  <2> SUFFICES ASSUME NEW n \in Nat, n \in N PROVE n + 1 \in N
    OBVIOUS
  <2>1. PICK g : On(g, n)
    OBVIOUS
  <2> DEFINE e == [p \in SetsUpTo(n + 1) |-> At(g, p)]
  <2>2. \A p \in SetsUpTo(n + 1) : p # 0 => m[p].next \in SetsUpTo(n)
    BY <1>1
  <2>3. \A p \in SetsUpTo(n) : p \in SetsUpTo(n + 1)
    BY <1>1
  <2>4. \A p \in SetsUpTo(n) : e[p] = g[p]
    BY <2>1, <2>3
  <2>5. \A p \in SetsUpTo(n + 1) : At(e, p) = At(g, p)
    BY <2>2, <2>4
  <2>6. On(e, n + 1)
    BY <2>5
  <2> HIDE DEF On, e
  <2> QED
    BY <2>6
<1>4. \E g : On(g, h)
  <2>1. Nat \subseteq N
    <3> HIDE DEF N
    <3> QED
      BY <1>2, <1>3, NatInduct
  <2> QED
    BY <1>1, <2>1
<1>5. SetsUpTo(h) = D
  BY <1>1
<1>6. \E g : Q(g)
  BY <1>4, <1>5
<1>7. Q(f)
  <2> HIDE DEF Q
  <2> QED
    BY <1>6 DEF f
<1>8. \A p \in D : f[p] = At(f, p)
  <2> HIDE DEF f
  <2> QED
    BY <1>7
<1>9. \A p : FindIn(m, p, field, pc) = f[p]
  BY DEF FindIn
<1> HIDE DEF f
<1> QED
  BY <1>1, <1>8, <1>9

\* What is found is on the list, or nothing is.
LEMMA FindStaysIn ==
  ASSUME NEW m, NEW h, Linked(m, h), NEW field, NEW pc,
         NEW K, K \subseteq DOMAIN m, \A p \in K : m[p].next \in K \cup {0}
  PROVE  \A p \in K \cup {0} : FindIn(m, p, field, pc) \in K \cup {0}
<1> DEFINE N == {n \in Nat : \A p \in K \cup {0} : p <= n => FindIn(m, p, field, pc) \in K \cup {0}}
<1>1. \A p \in K \cup {0} : p \in Nat /\ (p # 0 => m[p].next \in K \cup {0} /\ m[p].next \in Nat /\ m[p].next < p)
  BY DEF Linked
<1>2. \A p \in K \cup {0} : FindIn(m, p, field, pc) =
             IF p = 0 THEN 0 ELSE IF m[p][field] = pc THEN p ELSE FindIn(m, m[p].next, field, pc)
  BY FindGoesOn
<1>3. 0 \in N
  BY <1>1, <1>2
<1>4. ASSUME NEW n \in Nat, n \in N PROVE n + 1 \in N
  <2>1. ASSUME NEW p \in K \cup {0}, p <= n + 1 PROVE FindIn(m, p, field, pc) \in K \cup {0}
    <3>1. p # 0 => m[p].next <= n
      BY <1>1, <2>1
    <3> QED
      BY <1>1, <1>2, <1>4, <3>1
  <2> QED
    BY <2>1
<1>5. Nat \subseteq N
  <2> HIDE DEF N
  <2> QED
    BY <1>3, <1>4, NatInduct
<1> QED
  BY <1>1, <1>5

\* A search in a part of the lists that has not changed finds what it found before.
LEMMA FindAgrees ==
  ASSUME NEW m, NEW h, Linked(m, h), NEW e, NEW k, Linked(e, k), NEW field, NEW pc,
         NEW K, K \subseteq DOMAIN m, K \subseteq DOMAIN e,
         \A p \in K : m[p].next \in K \cup {0} /\ e[p].next = m[p].next /\ e[p][field] = m[p][field]
  PROVE  \A p \in K \cup {0} : FindIn(e, p, field, pc) = FindIn(m, p, field, pc)
<1> DEFINE N == {n \in Nat : \A p \in K \cup {0} : p <= n => FindIn(e, p, field, pc) = FindIn(m, p, field, pc)}
<1>1. \A p \in K \cup {0} : p \in Nat /\ (p # 0 => m[p].next \in K \cup {0} /\ m[p].next \in Nat /\ m[p].next < p)
  BY DEF Linked
<1>2. \A p \in K \cup {0} : FindIn(m, p, field, pc) =
             IF p = 0 THEN 0 ELSE IF m[p][field] = pc THEN p ELSE FindIn(m, m[p].next, field, pc)
  BY FindGoesOn
<1>3. \A p \in K \cup {0} : FindIn(e, p, field, pc) =
             IF p = 0 THEN 0 ELSE IF e[p][field] = pc THEN p ELSE FindIn(e, e[p].next, field, pc)
  BY FindGoesOn
<1>4. 0 \in N
  BY <1>1, <1>2, <1>3
<1>5. ASSUME NEW n \in Nat, n \in N PROVE n + 1 \in N
  <2>1. ASSUME NEW p \in K \cup {0}, p <= n + 1 PROVE FindIn(e, p, field, pc) = FindIn(m, p, field, pc)
    <3>1. p # 0 => m[p].next <= n
      BY <1>1, <2>1
    <3> QED
      BY <1>1, <1>2, <1>3, <1>5, <3>1
  <2> QED
    BY <2>1
<1>6. Nat \subseteq N
  <2> HIDE DEF N
  <2> QED
    BY <1>4, <1>5, NatInduct
<1> QED
  BY <1>1, <1>6

-----------------------------------------------------------------------------
(* The records of the profiler *)

Entries == {a \in DOMAIN mem : "self_pc" \in DOMAIN mem[a]}
Arcs == DOMAIN mem \ Entries
EntryType == [next : Entries \cup {0}, self_pc : SelfPcs, arc_head : Arcs \cup {0}]
ArcType == [next : Arcs \cup {0}, from_pc : FromPcs, count : Nat]

\* The rest of the slab is behind the records and below the end of the heap.
Room(s, D) ==
  /\ s \in [ptr : Nat, size : Nat, heap : Nat \ {0}]
  /\ \A p \in D : p \in Nat \ {0} /\ p < s.heap
  /\ s.size > 0 => s.ptr > 0 /\ s.ptr + s.size <= s.heap /\ \A p \in D : p < s.ptr

TheSlab == [ptr |-> slab_ptr, size |-> slab_size, heap |-> heap]

\* The entries of the functions are one list, and each has a list of arcs; new records are put at
\* the front, behind all the others in memory.
RecordsInv ==
  /\ Room(TheSlab, DOMAIN mem)
  /\ \A e \in Entries : mem[e] \in EntryType /\ mem[e].next < e
  /\ \A a \in Arcs : mem[a] \in ArcType /\ mem[a].next < a
  /\ fn_head \in Entries \cup {0}

\* What a call of mcount has found is there, whatever an interrupt has put in front of it.
FoundInv ==
  \A l \in Levels : ctx[l] # NoCall =>
    /\ ctx[l].self \in SelfPcs /\ ctx[l].from \in FromPcs
    /\ ctx[l].entry \in Entries \cup {0}
    /\ ctx[l].step = "count" => ctx[l].arc \in Arcs /\ ctx[l].seen \in Nat

\* Every arc is found from an entry.
ArcsFound ==
  \A a \in Arcs : \E e \in Entries : FindIn(mem, mem[e].arc_head, "from_pc", mem[a].from_pc) # 0

\* The counts add up.
Counts == [a \in Arcs |-> mem[a].count]
Pairs == SelfPcs \X FromPcs
SumInv ==
  /\ counted \in [Pairs -> Nat] /\ uncounted \in Int
  /\ SumOf(Counts, Arcs) + uncounted = SumOf(counted, Pairs)

CountedInv == RecordsInv /\ FoundInv /\ ArcsFound /\ SumInv

\* The next record is behind all the others.
LEMMA Allocates ==
  ASSUME NEW s, NEW D, Room(s, D), NEW t, t = mcount_allocate(s), NEW a, a = t.ptr - 1
  PROVE  /\ a \in Nat \ {0} /\ (\A p \in D : p < a) /\ a \notin D
         /\ Room(t, D \cup {a})
<1>1. Slab \in Nat /\ Slab > 0
  BY GmonAssumption
<1>2. s.ptr \in Nat /\ s.size \in Nat /\ s.heap \in Nat \ {0} /\ s = [ptr |-> s.ptr, size |-> s.size, heap |-> s.heap]
      /\ \A p \in D : p \in Nat \ {0}
  BY DEF Room
<1>3. CASE s.size > 0
  <2>1. t = [ptr |-> s.ptr + 1, size |-> s.size - 1, heap |-> s.heap]
    BY <1>2, <1>3 DEF mcount_allocate
  <2>2. a = s.ptr /\ s.ptr > 0 /\ s.ptr + s.size <= s.heap /\ (\A p \in D : p < s.ptr)
    BY <1>2, <1>3, <2>1 DEF Room
  <2>3. a \in Nat \ {0} /\ \A p \in D \cup {a} : p \in Nat \ {0} /\ p < t.heap /\ p < t.ptr
    BY <1>2, <1>3, <2>1, <2>2 DEF Room
  <2>4. t \in [ptr : Nat, size : Nat, heap : Nat \ {0}] /\ t.ptr > 0 /\ t.ptr + t.size <= t.heap
    BY <1>2, <1>3, <2>1, <2>2
  <2> QED
    BY <1>2, <2>2, <2>3, <2>4 DEF Room
<1>4. CASE ~(s.size > 0)
  <2>1. t = [ptr |-> s.heap + 1, size |-> Slab - 1, heap |-> s.heap + Slab]
    BY <1>2, <1>4 DEF mcount_allocate
  <2>2. a = s.heap /\ (\A p \in D : p < s.heap)
    BY <1>2, <2>1 DEF Room
  <2>3. a \in Nat \ {0} /\ \A p \in D \cup {a} : p \in Nat \ {0} /\ p < t.heap /\ p < t.ptr
    BY <1>1, <1>2, <2>1, <2>2
  <2>4. t \in [ptr : Nat, size : Nat, heap : Nat \ {0}] /\ t.ptr > 0 /\ t.ptr + t.size <= t.heap
    BY <1>1, <1>2, <2>1
  <2> QED
    BY <1>2, <2>2, <2>3, <2>4 DEF Room
<1> QED
  BY <1>3, <1>4

\* The lists lead down.
LEMMA RecordsLinked ==
  ASSUME RecordsInv
  PROVE  /\ Linked(mem, heap) /\ IsFiniteSet(DOMAIN mem) /\ IsFiniteSet(Arcs) /\ heap \in Nat
         /\ DOMAIN mem = Entries \cup Arcs /\ Entries \cap Arcs = {} /\ 0 \notin DOMAIN mem
         /\ \A e \in Entries : mem[e].next \in Entries \cup {0} /\ mem[e].arc_head \in Arcs \cup {0}
         /\ \A a \in Arcs : mem[a].next \in Arcs \cup {0} /\ mem[a].count \in Nat
<1>1. heap \in Nat /\ \A p \in DOMAIN mem : p \in Nat \ {0} /\ p < heap
  BY DEF RecordsInv, Room, TheSlab
<1>2. DOMAIN mem = Entries \cup Arcs /\ Entries \cap Arcs = {} /\ 0 \notin DOMAIN mem
  BY <1>1 DEF Entries, Arcs
<1>3. /\ \A e \in Entries : mem[e].next \in Entries \cup {0} /\ mem[e].next < e /\ mem[e].arc_head \in Arcs \cup {0}
      /\ \A a \in Arcs : mem[a].next \in Arcs \cup {0} /\ mem[a].next < a /\ mem[a].count \in Nat
  BY DEF RecordsInv, EntryType, ArcType
<1>4. Linked(mem, heap)
  BY <1>1, <1>2, <1>3 DEF Linked
<1>5. IsFiniteSet(DOMAIN mem)
  BY <1>1, FS_BoundedSetOfNaturals
<1>6. IsFiniteSet(Arcs)
  BY <1>5, FS_Subset DEF Arcs
<1> QED
  BY <1>1, <1>2, <1>3, <1>4, <1>5, <1>6

\* What a search finds is a record of its kind.
LEMMA FoundRecords ==
  ASSUME RecordsInv
  PROVE  /\ \A pc : Find(fn_head, "self_pc", pc) \in Entries \cup {0}
         /\ \A e \in Entries : \A pc : Find(mem[e].arc_head, "from_pc", pc) \in Arcs \cup {0}
<1>1. /\ Linked(mem, heap)
      /\ Entries \subseteq DOMAIN mem /\ \A e \in Entries : mem[e].next \in Entries \cup {0} /\ mem[e].arc_head \in Arcs \cup {0}
      /\ Arcs \subseteq DOMAIN mem /\ \A a \in Arcs : mem[a].next \in Arcs \cup {0}
  BY RecordsLinked
<1>2. fn_head \in Entries \cup {0}
  BY DEF RecordsInv
<1>3. \A pc : FindIn(mem, fn_head, "self_pc", pc) \in Entries \cup {0}
  BY <1>1, <1>2, FindStaysIn
<1>4. \A e \in Entries : \A pc : FindIn(mem, mem[e].arc_head, "from_pc", pc) \in Arcs \cup {0}
  BY <1>1, FindStaysIn
<1> QED
  BY <1>3, <1>4, FindIsFindIn

\* A search for a call.
LEMMA McountCounts ==
  ASSUME CountedInv, NEW l \in Levels, NEW self \in SelfPcs, NEW from \in FromPcs, mcount(l, self, from)
  PROVE  CountedInv'
<1> DEFINE entry == Find(fn_head, "self_pc", self)
           arc == IF entry = 0 THEN 0 ELSE Find(mem[entry].arc_head, "from_pc", from)
           c == [step |-> IF arc = 0 THEN "record" ELSE "count", self |-> self, from |-> from,
                 entry |-> entry, arc |-> arc, seen |-> IF arc = 0 THEN 0 ELSE mem[arc].count, init |-> FALSE]
<1>1. ctx' = [ctx EXCEPT ![l] = c] /\ UNCHANGED <<mem, fn_head, slab_ptr, slab_size, heap, counted, uncounted>>
  BY DEF mcount, lists
<1>2. entry \in Entries \cup {0} /\ arc \in Arcs \cup {0} /\ 0 \notin DOMAIN mem /\ \A a \in Arcs : mem[a].count \in Nat
  BY FoundRecords, RecordsLinked DEF CountedInv
<1>3. /\ c.self \in SelfPcs /\ c.from \in FromPcs /\ c.entry \in Entries \cup {0}
      /\ c.step = "count" => c.arc \in Arcs /\ c.seen \in Nat
  BY <1>2
<1>4. RecordsInv' /\ ArcsFound' /\ SumInv' /\ Entries' = Entries /\ Arcs' = Arcs
  BY <1>1 DEF CountedInv, RecordsInv, ArcsFound, SumInv, TheSlab, Entries, Arcs, EntryType, ArcType, Counts
<1> HIDE DEF c
<1>5. \A k \in Levels : ctx'[k] = ctx[k] \/ ctx'[k] = c
  BY <1>1
<1>6. FoundInv'
  BY <1>3, <1>4, <1>5 DEF CountedInv, FoundInv
<1> QED
  BY <1>4, <1>6 DEF CountedInv

\* What leaves the lists and the sums alone, and at most ends a call or takes it to another step.
LEMMA StepCounts ==
  ASSUME CountedInv, CallsInv, NEW l \in Levels, NEW s, s # "count", ctx[l].step # "none",
         ctx' = [ctx EXCEPT ![l].step = s], UNCHANGED <<lists, counted, uncounted>>
  PROVE  CountedInv'
<1>1. RecordsInv' /\ ArcsFound' /\ SumInv' /\ Entries' = Entries /\ Arcs' = Arcs
  BY DEF CountedInv, RecordsInv, ArcsFound, SumInv, TheSlab, Entries, Arcs, EntryType, ArcType, Counts, lists
<1>2. ctx[l] # NoCall /\ l \in DOMAIN ctx
  BY DEF NoCall, CallsInv
<1>3. ctx'[l] = [ctx[l] EXCEPT !.step = s] /\ \A k \in Levels \ {l} : ctx'[k] = ctx[k]
  BY <1>2
<1>4. DOMAIN ctx[l] = {"step", "self", "from", "entry", "arc", "seen", "init"}
  BY <1>2 DEF CallsInv
<1>5. ctx'[l].step = s /\ ctx'[l].self = ctx[l].self /\ ctx'[l].from = ctx[l].from /\ ctx'[l].entry = ctx[l].entry
  BY <1>3, <1>4
<1>6. FoundInv'
  BY <1>1, <1>2, <1>3, <1>5 DEF CountedInv, FoundInv
<1> QED
  BY <1>1, <1>6 DEF CountedInv

\* One more call is finished with.
LEMMA CallCounted ==
  ASSUME CountedInv, NEW l \in Levels, ctx[l] # NoCall, Counted(l), IsFiniteSet(SelfPcs), IsFiniteSet(FromPcs)
  PROVE  /\ counted' \in [Pairs -> Nat] /\ SumOf(counted, Pairs) \in Int
         /\ SumOf(counted', Pairs) = SumOf(counted, Pairs) + 1
<1> DEFINE k == <<ctx[l].self, ctx[l].from>>
<1>1. k \in Pairs /\ counted \in [Pairs -> Nat]
  BY DEF CountedInv, FoundInv, SumInv, Pairs
<1>2. IsFiniteSet(Pairs)
  BY FS_Product DEF Pairs
<1>3. counted' = [counted EXCEPT ![k] = @ + 1]
  BY DEF Counted
<1> HIDE DEF k
<1>4. counted' \in [Pairs -> Nat] /\ counted'[k] = counted[k] + 1 /\ \A x \in Pairs \ {k} : counted'[x] = counted[x]
  BY <1>1, <1>3
<1>5. \A x \in Pairs : counted[x] \in Int /\ counted'[x] \in Int
  BY <1>1, <1>4
<1>6. SumOf(counted', Pairs) = SumOf(counted, Pairs) + (counted'[k] - counted[k])
  BY <1>1, <1>2, <1>4, <1>5, SumChanges
<1>7. SumOf(counted, Pairs) \in Int
  BY <1>2, <1>5, SumType
<1> QED
  BY <1>1, <1>4, <1>5, <1>6, <1>7

\* A call that has ended has found nothing.
LEMMA FoundKept ==
  ASSUME FoundInv, CallsInv, NEW l \in Levels, ctx' = [ctx EXCEPT ![l] = NoCall],
         Entries \subseteq Entries', Arcs \subseteq Arcs'
  PROVE  FoundInv'
<1>1. ctx'[l] = NoCall /\ \A k \in Levels \ {l} : ctx'[k] = ctx[k]
  BY DEF CallsInv
<1> QED
  BY <1>1 DEF FoundInv

\* The count that was loaded is stored, one more: what has been counted meanwhile is lost.
LEMMA FoundArcCounts ==
  ASSUME CountedInv, CallsInv, IsFiniteSet(SelfPcs), IsFiniteSet(FromPcs), NEW l \in Levels, FoundArc(l)
  PROVE  CountedInv'
<1> DEFINE a == ctx[l].arc
           n == ctx[l].seen + 1
<1>1. /\ mem' = [mem EXCEPT ![a].count = n] /\ uncounted' = uncounted + (mem[a].count - ctx[l].seen)
      /\ Counted(l) /\ ctx' = [ctx EXCEPT ![l] = NoCall] /\ UNCHANGED <<fn_head, slab_ptr, slab_size, heap>>
      /\ ctx[l].step = "count" /\ ctx[l] # NoCall
  BY DEF FoundArc, NoCall
<1>2. a \in Arcs /\ ctx[l].seen \in Nat /\ n \in Nat
  BY <1>1 DEF CountedInv, FoundInv
<1>3. /\ Linked(mem, heap) /\ IsFiniteSet(Arcs) /\ DOMAIN mem = Entries \cup Arcs /\ Entries \cap Arcs = {}
      /\ \A e \in Entries : mem[e] \in EntryType /\ mem[e].next < e
      /\ \A b \in Arcs : mem[b] \in ArcType /\ mem[b].next < b
  BY RecordsLinked DEF CountedInv, RecordsInv
<1>4. mem[a] = [next |-> mem[a].next, from_pc |-> mem[a].from_pc, count |-> mem[a].count] /\ mem[a].count \in Nat
      /\ mem[a].next \in Arcs \cup {0} /\ mem[a].from_pc \in FromPcs
  BY <1>2, <1>3 DEF ArcType
<1> HIDE DEF a, n
<1>5. /\ DOMAIN mem' = DOMAIN mem /\ \A p \in DOMAIN mem \ {a} : mem'[p] = mem[p]
      /\ mem'[a] = [next |-> mem[a].next, from_pc |-> mem[a].from_pc, count |-> n]
  BY <1>1, <1>2, <1>3, <1>4
<1>6. Entries' = Entries /\ Arcs' = Arcs
  <2>1. "self_pc" \notin DOMAIN mem[a] /\ "self_pc" \notin DOMAIN mem'[a]
    BY <1>4, <1>5
  <2>2. Entries' = Entries
    BY <1>5, <2>1 DEF Entries
  <2> QED
    BY <1>5, <2>2 DEF Arcs
<1>7. EntryType' = EntryType /\ ArcType' = ArcType
  BY <1>6 DEF EntryType, ArcType
<1>8. RecordsInv'
  <2>1. \A e \in Entries : mem'[e] \in EntryType /\ mem'[e].next < e
    BY <1>2, <1>3, <1>5
  <2>2. \A b \in Arcs : mem'[b] \in ArcType /\ mem'[b].next < b
    <3>1. mem'[a] \in ArcType /\ mem'[a].next < a
      BY <1>2, <1>3, <1>4, <1>5 DEF ArcType
    <3> QED
      BY <1>3, <1>5, <3>1
  <2>3. Room(TheSlab, DOMAIN mem)' /\ fn_head' \in Entries \cup {0}
    <3>1. TheSlab' = TheSlab /\ DOMAIN mem' = DOMAIN mem
      BY <1>1, <1>5 DEF TheSlab
    <3> QED
      BY <1>1, <3>1 DEF CountedInv, RecordsInv, Room
  <2> QED
    BY <1>6, <1>7, <2>1, <2>2, <2>3 DEF RecordsInv
<1>9. FoundInv'
  BY <1>1, <1>6, FoundKept DEF CountedInv
<1>10. ArcsFound'
  <2>1. Linked(mem', heap)
    BY <1>3, <1>5, <1>4 DEF Linked
  <2>2. \A p \in Arcs : /\ mem[p].next \in Arcs \cup {0} /\ mem'[p].next = mem[p].next /\ mem'[p].from_pc = mem[p].from_pc
                        /\ mem'[p]["from_pc"] = mem[p]["from_pc"]
    BY <1>3, <1>4, <1>5 DEF ArcType
  <2>3. \A pc : \A p \in Arcs \cup {0} : FindIn(mem', p, "from_pc", pc) = FindIn(mem, p, "from_pc", pc)
    <3> SUFFICES ASSUME NEW pc
                 PROVE  \A p \in Arcs \cup {0} : FindIn(mem', p, "from_pc", pc) = FindIn(mem, p, "from_pc", pc)
      OBVIOUS
    <3>1. Arcs \subseteq DOMAIN mem /\ Arcs \subseteq DOMAIN mem'
      BY <1>3, <1>5
    <3> QED
      BY <1>3, <2>1, <2>2, <3>1, FindAgrees
  <2>4. \A e \in Entries : mem'[e] = mem[e] /\ mem[e].arc_head \in Arcs \cup {0}
    BY <1>2, <1>3, <1>5 DEF EntryType
  <2> QED
    BY <1>6, <2>2, <2>3, <2>4 DEF CountedInv, ArcsFound
<1>11. SumInv'
  <2>1. Counts = [b \in Arcs |-> mem[b].count] /\ Counts' = [b \in Arcs |-> mem'[b].count]
    BY <1>6 DEF Counts
  <2>2. \A b \in Arcs : Counts[b] \in Int /\ Counts'[b] \in Int
    BY <1>2, <1>3, <1>5, <2>1 DEF ArcType
  <2>3. \A b \in Arcs \ {a} : Counts'[b] = Counts[b]
    BY <1>3, <1>5, <2>1
  <2>4. Counts[a] = mem[a].count /\ Counts'[a] = n
    BY <1>2, <1>5, <2>1
  <2>5. SumOf(Counts', Arcs) = SumOf(Counts, Arcs) + (n - mem[a].count)
    <3>1. SumOf(Counts', Arcs) = SumOf(Counts, Arcs) + (Counts'[a] - Counts[a])
      BY <1>2, <1>3, <2>2, <2>3, SumChanges
    <3> QED
      BY <2>4, <3>1
  <2>6. SumOf(Counts, Arcs) \in Int
    BY <1>3, <2>2, SumType
  <2>7. /\ counted' \in [Pairs -> Nat] /\ SumOf(counted, Pairs) \in Int
        /\ SumOf(counted', Pairs) = SumOf(counted, Pairs) + 1
    BY <1>1, CallCounted
  <2>8. uncounted \in Int /\ SumOf(Counts, Arcs) + uncounted = SumOf(counted, Pairs)
    BY DEF CountedInv, SumInv
  <2>9. uncounted' \in Int /\ SumOf(Counts', Arcs) + uncounted' = SumOf(counted', Pairs)
    <3>1. /\ mem[a].count \in Nat /\ ctx[l].seen \in Nat /\ n = ctx[l].seen + 1
          /\ uncounted' = uncounted + (mem[a].count - ctx[l].seen)
      <4>1. uncounted' = uncounted + (mem[a].count - ctx[l].seen)
        BY <1>1, Zenon
      <4>2. mem[a].count \in Nat /\ ctx[l].seen \in Nat
        BY <1>2, <1>4, Zenon
      <4> QED
        BY <4>1, <4>2 DEF n
    <3> QED
      BY ONLY <2>5, <2>6, <2>7, <2>8, <3>1
  <2>10. SumOf(Counts, Arcs)' = SumOf(Counts', Arcs) /\ SumOf(counted, Pairs)' = SumOf(counted', Pairs)
    BY <1>6 DEF SumOf, IsSum, Pairs
  <2> QED
    BY <2>7, <2>9, <2>10 DEF SumInv, Pairs
<1> QED
  BY <1>8, <1>9, <1>10, <1>11 DEF CountedInv

\* What Record does: an arc is put in front of the arcs of its entry, which may be a new one.
LEMMA RecordDoes ==
  ASSUME RecordsInv, FoundInv, NEW l \in Levels, Record(l)
  PROVE  \E entry, arc, fn :
           /\ arc \in Nat \ {0} /\ arc \notin DOMAIN mem \cup {entry} /\ (\A p \in DOMAIN mem \cup {entry} : p < arc)
           /\ entry \in Nat \ {0} /\ entry \notin Arcs /\ fn \in EntryType /\ fn.next < entry
           /\ IF entry \in Entries THEN fn = mem[entry] ELSE fn.arc_head = 0 /\ \A p \in DOMAIN mem : p < entry
           /\ fn_head' \in Entries \cup {0, entry}
           /\ DOMAIN mem' = DOMAIN mem \cup {entry, arc}
           /\ mem'[entry] = [next |-> fn.next, self_pc |-> fn.self_pc, arc_head |-> arc]
           /\ mem'[arc] = [next |-> fn.arc_head, from_pc |-> ctx[l].from, count |-> 1]
           /\ \A p \in DOMAIN mem \ {entry} : mem'[p] = mem[p]
           /\ Room(TheSlab', DOMAIN mem')
<1> DEFINE c == ctx[l]
           new == c.entry = 0
           between == IF new THEN mcount_allocate(TheSlab) ELSE TheSlab
           slab == mcount_allocate(between)
           entry == IF new THEN between.ptr - 1 ELSE c.entry
           arc == slab.ptr - 1
           fn == IF new THEN [next |-> fn_head, self_pc |-> c.self, arc_head |-> 0] ELSE mem[entry]
           record == [next |-> fn.arc_head, from_pc |-> c.from, count |-> 1]
<1>1. /\ mem' = [a \in DOMAIN mem \cup {entry, arc} |->
                     IF a = arc THEN record ELSE IF a = entry THEN [fn EXCEPT !.arc_head = arc] ELSE mem[a]]
      /\ fn_head' = (IF new THEN entry ELSE fn_head)
      /\ slab_ptr' = slab.ptr /\ slab_size' = slab.size /\ heap' = slab.heap
      /\ ctx[l] # NoCall
  <2>1. ctx[l].step = "enter"
    BY Zenon DEF Record
  <2>2. /\ mem' = [a \in DOMAIN mem \cup {entry, arc} |->
                     IF a = arc THEN record ELSE IF a = entry THEN [fn EXCEPT !.arc_head = arc] ELSE mem[a]]
        /\ fn_head' = (IF new THEN entry ELSE fn_head)
        /\ slab_ptr' = slab.ptr /\ slab_size' = slab.size /\ heap' = slab.heap
    BY Zenon DEF Record, TheSlab
  <2>3. ctx[l] # NoCall
    BY <2>1 DEF NoCall
  <2> QED
    BY <2>2, <2>3, Zenon
<1>2. c.self \in SelfPcs /\ c.from \in FromPcs /\ c.entry \in Entries \cup {0}
  BY <1>1 DEF FoundInv
<1>3. /\ DOMAIN mem = Entries \cup Arcs /\ Entries \cap Arcs = {} /\ 0 \notin DOMAIN mem
      /\ Room(TheSlab, DOMAIN mem) /\ fn_head \in Entries \cup {0}
      /\ \A e \in Entries : mem[e] \in EntryType /\ mem[e].next < e
      /\ \A p \in DOMAIN mem : p \in Nat \ {0}
  BY RecordsLinked DEF RecordsInv, Room
<1>4. /\ entry \in Nat \ {0} /\ entry \notin Arcs /\ fn \in EntryType /\ fn.next < entry
      /\ (IF entry \in Entries THEN fn = mem[entry] ELSE fn.arc_head = 0 /\ \A p \in DOMAIN mem : p < entry)
      /\ Room(between, DOMAIN mem \cup {entry})
  <2>1. CASE new
    <3>1. between = mcount_allocate(TheSlab) /\ entry = between.ptr - 1
      BY <2>1
    <3> HIDE DEF between, entry
    <3>2. /\ entry \in Nat \ {0} /\ (\A p \in DOMAIN mem : p < entry) /\ entry \notin DOMAIN mem
          /\ Room(between, DOMAIN mem \cup {entry})
      BY <1>3, <3>1, Allocates
    <3>3. fn = [next |-> fn_head, self_pc |-> c.self, arc_head |-> 0]
      BY <2>1
    <3> HIDE DEF fn, c
    <3>4. fn \in EntryType /\ fn.arc_head = 0
      BY <1>2, <1>3, <3>3 DEF EntryType
    <3>5. fn.next < entry
      BY <1>3, <3>2, <3>3
    <3> QED
      BY <1>3, <3>2, <3>4, <3>5
  <2>2. CASE ~new
    <3>1. between = TheSlab /\ entry = c.entry /\ fn = mem[entry]
      BY <2>2
    <3>2. entry \in Entries /\ DOMAIN mem \cup {entry} = DOMAIN mem
      BY <1>2, <1>3, <2>2, <3>1
    <3> HIDE DEF between, entry, fn, c
    <3> QED
      BY <1>3, <3>1, <3>2
  <2> QED
    BY <2>1, <2>2
<1>5. /\ arc \in Nat \ {0} /\ (\A p \in DOMAIN mem \cup {entry} : p < arc) /\ arc \notin DOMAIN mem \cup {entry}
      /\ Room(slab, DOMAIN mem \cup {entry} \cup {arc})
  <2>1. slab = mcount_allocate(between) /\ arc = slab.ptr - 1
    OBVIOUS
  <2> HIDE DEF between, entry, slab, arc
  <2> QED
    BY <1>4, <2>1, Allocates
<1>6. fn_head' \in Entries \cup {0, entry}
  <2> HIDE DEF entry
  <2> QED
    BY <1>1, <1>3
<1>7. record = [next |-> fn.arc_head, from_pc |-> ctx[l].from, count |-> 1]
  OBVIOUS
<1> HIDE DEF between, entry, slab, arc, fn, record
<1>8. fn = [next |-> fn.next, self_pc |-> fn.self_pc, arc_head |-> fn.arc_head]
  BY <1>4 DEF EntryType
<1>9. [fn EXCEPT !.arc_head = arc] = [next |-> fn.next, self_pc |-> fn.self_pc, arc_head |-> arc]
  BY <1>8
<1>10. /\ DOMAIN mem' = DOMAIN mem \cup {entry, arc}
       /\ mem'[entry] = [next |-> fn.next, self_pc |-> fn.self_pc, arc_head |-> arc]
       /\ mem'[arc] = [next |-> fn.arc_head, from_pc |-> ctx[l].from, count |-> 1]
       /\ \A p \in DOMAIN mem \ {entry} : mem'[p] = mem[p]
  BY <1>1, <1>5, <1>7, <1>9
<1>11. Room(TheSlab', DOMAIN mem')
  <2>1. slab = [ptr |-> slab.ptr, size |-> slab.size, heap |-> slab.heap]
    BY <1>5 DEF Room
  <2>2. TheSlab' = slab
    BY <1>1, <2>1 DEF TheSlab
  <2>3. DOMAIN mem \cup {entry} \cup {arc} = DOMAIN mem \cup {entry, arc}
    OBVIOUS
  <2> QED
    BY <1>5, <1>10, <2>2, <2>3
<1> QED
  BY <1>4, <1>5, <1>6, <1>10, <1>11

\* A record is one more arc, found from its entry, and counts one call.
LEMMA RecordCounts ==
  ASSUME CountedInv, CallsInv, IsFiniteSet(SelfPcs), IsFiniteSet(FromPcs), NEW l \in Levels, Record(l)
  PROVE  CountedInv'
<1>0. /\ ctx' = [ctx EXCEPT ![l] = NoCall] /\ ctx[l] # NoCall /\ Counted(l) /\ uncounted' = uncounted
      /\ ctx[l].from \in FromPcs
  <2>1. ctx' = [ctx EXCEPT ![l] = NoCall] /\ ctx[l].step = "enter" /\ Counted(l) /\ UNCHANGED uncounted
    BY Zenon DEF Record
  <2>2. ctx[l] # NoCall
    BY <2>1 DEF NoCall
  <2> QED
    BY <2>1, <2>2 DEF CountedInv, FoundInv
<1>1. PICK entry, arc, fn :
           /\ arc \in Nat \ {0} /\ arc \notin DOMAIN mem \cup {entry} /\ (\A p \in DOMAIN mem \cup {entry} : p < arc)
           /\ entry \in Nat \ {0} /\ entry \notin Arcs /\ fn \in EntryType /\ fn.next < entry
           /\ IF entry \in Entries THEN fn = mem[entry] ELSE fn.arc_head = 0 /\ \A p \in DOMAIN mem : p < entry
           /\ fn_head' \in Entries \cup {0, entry}
           /\ DOMAIN mem' = DOMAIN mem \cup {entry, arc}
           /\ mem'[entry] = [next |-> fn.next, self_pc |-> fn.self_pc, arc_head |-> arc]
           /\ mem'[arc] = [next |-> fn.arc_head, from_pc |-> ctx[l].from, count |-> 1]
           /\ \A p \in DOMAIN mem \ {entry} : mem'[p] = mem[p]
           /\ Room(TheSlab', DOMAIN mem')
  BY RecordDoes DEF CountedInv
<1>2. /\ Linked(mem, heap) /\ IsFiniteSet(Arcs) /\ DOMAIN mem = Entries \cup Arcs /\ Entries \cap Arcs = {} /\ 0 \notin DOMAIN mem
      /\ \A e \in Entries : mem[e] \in EntryType /\ mem[e].next < e
      /\ \A b \in Arcs : mem[b] \in ArcType /\ mem[b].next < b
  BY RecordsLinked DEF CountedInv, RecordsInv
<1>3. /\ fn.next \in Entries \cup {0} /\ fn.self_pc \in SelfPcs /\ fn.arc_head \in Arcs \cup {0} /\ fn.arc_head < arc
  <2>1. fn.next \in Entries \cup {0} /\ fn.self_pc \in SelfPcs /\ fn.arc_head \in Arcs \cup {0}
    BY <1>1 DEF EntryType
  <2> QED
    BY <1>1, <1>2, <2>1
<1>4. Entries' = Entries \cup {entry} /\ Arcs' = Arcs \cup {arc}
  <2>1. "self_pc" \in DOMAIN mem'[entry] /\ "self_pc" \notin DOMAIN mem'[arc]
    BY <1>1
  <2>2. \A p \in DOMAIN mem \ {entry} : "self_pc" \in DOMAIN mem'[p] <=> p \in Entries
    BY <1>1 DEF Entries
  <2>3. Entries' = {p \in DOMAIN mem' : "self_pc" \in DOMAIN mem'[p]} /\ Arcs' = DOMAIN mem' \ Entries'
    BY DEF Entries, Arcs
  <2>4. Entries' = Entries \cup {entry}
    BY <1>1, <1>2, <2>1, <2>2, <2>3
  <2> QED
    BY <1>1, <1>2, <2>3, <2>4
<1>5. /\ EntryType' = [next : Entries \cup {entry, 0}, self_pc : SelfPcs, arc_head : Arcs \cup {arc, 0}]
      /\ ArcType' = [next : Arcs \cup {arc, 0}, from_pc : FromPcs, count : Nat]
  <2>1. Entries' \cup {0} = Entries \cup {entry, 0} /\ Arcs' \cup {0} = Arcs \cup {arc, 0}
    BY <1>4
  <2> QED
    BY <2>1 DEF EntryType, ArcType
<1>6. RecordsInv'
  <2>1. \A e \in Entries \cup {entry} : mem'[e] \in EntryType' /\ mem'[e].next < e
    <3>1. mem'[entry] \in EntryType' /\ mem'[entry].next < entry
      BY <1>1, <1>3, <1>5
    <3>2. \A e \in Entries \ {entry} : mem'[e] = mem[e]
      BY <1>1, <1>2
    <3>3. EntryType \subseteq EntryType'
      BY <1>5 DEF EntryType
    <3> QED
      BY <1>2, <3>1, <3>2, <3>3
  <2>2. \A b \in Arcs \cup {arc} : mem'[b] \in ArcType' /\ mem'[b].next < b
    <3>1. mem'[arc] \in ArcType' /\ mem'[arc].next < arc
      BY <1>0, <1>1, <1>3, <1>5
    <3>2. \A b \in Arcs : mem'[b] = mem[b]
      BY <1>1, <1>2
    <3>3. ArcType \subseteq ArcType'
      BY <1>5 DEF ArcType
    <3> QED
      BY <1>2, <3>1, <3>2, <3>3
  <2>3. Room(TheSlab, DOMAIN mem)' 
    BY <1>1 DEF Room
  <2>4. fn_head' \in Entries' \cup {0}
    BY <1>1, <1>4
  <2> QED
    BY <1>4, <2>1, <2>2, <2>3, <2>4 DEF RecordsInv
<1>7. FoundInv'
  BY <1>0, <1>4, FoundKept DEF CountedInv
<1>8. ArcsFound'
  <2>1. Linked(mem', heap')
    <3>1. heap' \in Nat /\ \A p \in DOMAIN mem' : p \in Nat \ {0} /\ p < heap'
      BY <1>1 DEF Room, TheSlab
    <3>2. /\ \A e \in Entries \cup {entry} : mem'[e] \in EntryType' /\ mem'[e].next < e
          /\ \A b \in Arcs \cup {arc} : mem'[b] \in ArcType' /\ mem'[b].next < b
      BY <1>4, <1>6 DEF RecordsInv
    <3>3. DOMAIN mem' = Entries \cup {entry} \cup Arcs \cup {arc}
      BY <1>1, <1>2
    <3>4. \A p \in DOMAIN mem' : mem'[p].next \in DOMAIN mem' \cup {0} /\ mem'[p].next < p
      BY <1>5, <3>2, <3>3
    <3> QED
      BY <3>1, <3>4 DEF Linked
  <2>2. \A p \in Arcs : /\ mem[p].next \in Arcs \cup {0} /\ mem'[p] = mem[p]
    BY <1>1, <1>2 DEF ArcType
  <2>3. \A pc : \A p \in Arcs \cup {0} : FindIn(mem', p, "from_pc", pc) = FindIn(mem, p, "from_pc", pc)
    <3> SUFFICES ASSUME NEW pc
                 PROVE  \A p \in Arcs \cup {0} : FindIn(mem', p, "from_pc", pc) = FindIn(mem, p, "from_pc", pc)
      OBVIOUS
    <3>1. Arcs \subseteq DOMAIN mem /\ Arcs \subseteq DOMAIN mem'
      BY <1>1, <1>2
    <3>2. \A p \in Arcs : mem[p].next \in Arcs \cup {0} /\ mem'[p].next = mem[p].next /\ mem'[p]["from_pc"] = mem[p]["from_pc"]
      BY <2>2
    <3> QED
      BY <1>2, <2>1, <3>1, <3>2, FindAgrees
  <2>4. \A pc : FindIn(mem', arc, "from_pc", pc) = IF ctx[l].from = pc THEN arc ELSE FindIn(mem, fn.arc_head, "from_pc", pc)
    <3> SUFFICES ASSUME NEW pc
                 PROVE  FindIn(mem', arc, "from_pc", pc) = IF ctx[l].from = pc THEN arc ELSE FindIn(mem, fn.arc_head, "from_pc", pc)
      OBVIOUS
    <3>1. mem'[arc]["from_pc"] = ctx[l].from /\ mem'[arc].next = fn.arc_head
      BY <1>1
    <3>2. arc # 0 /\ arc \in DOMAIN mem' \cup {0}
      BY <1>1
    <3>3. FindIn(mem', arc, "from_pc", pc) =
             IF arc = 0 THEN 0 ELSE IF mem'[arc]["from_pc"] = pc THEN arc ELSE FindIn(mem', mem'[arc].next, "from_pc", pc)
      BY <2>1, <3>2, FindGoesOn
    <3>4. FindIn(mem', fn.arc_head, "from_pc", pc) = FindIn(mem, fn.arc_head, "from_pc", pc)
      BY <1>3, <2>3
    <3> QED
      BY <3>1, <3>2, <3>3, <3>4
  <2>5. mem'[arc].from_pc = ctx[l].from /\ mem'[entry].arc_head = arc
    BY <1>1
  <2>6. \A pc : \A e \in Entries : FindIn(mem, mem[e].arc_head, "from_pc", pc) # 0 => FindIn(mem', mem'[e].arc_head, "from_pc", pc) # 0
    <3> SUFFICES ASSUME NEW pc, NEW e \in Entries, FindIn(mem, mem[e].arc_head, "from_pc", pc) # 0
                 PROVE  FindIn(mem', mem'[e].arc_head, "from_pc", pc) # 0
      OBVIOUS
    <3>1. CASE e = entry
      BY <1>1, <2>4, <2>5, <3>1
    <3>2. CASE e # entry
      <4>1. mem'[e] = mem[e] /\ mem[e].arc_head \in Arcs \cup {0}
        BY <1>1, <1>2, <3>2 DEF EntryType
      <4> QED
        BY <2>3, <4>1
    <3> QED
      BY <3>1, <3>2
  <2>7. \A a \in Arcs \cup {arc} : \E e \in Entries \cup {entry} : FindIn(mem', mem'[e].arc_head, "from_pc", mem'[a].from_pc) # 0
    <3>1. FindIn(mem', mem'[entry].arc_head, "from_pc", mem'[arc].from_pc) # 0
      BY <1>1, <2>4, <2>5
    <3>2. \A a \in Arcs : \E e \in Entries : FindIn(mem, mem[e].arc_head, "from_pc", mem[a].from_pc) # 0
      BY DEF CountedInv, ArcsFound
    <3>3. ASSUME NEW a \in Arcs
          PROVE  \E e \in Entries : FindIn(mem', mem'[e].arc_head, "from_pc", mem'[a].from_pc) # 0
      <4>1. PICK e \in Entries : FindIn(mem, mem[e].arc_head, "from_pc", mem[a].from_pc) # 0
        BY <3>2
      <4>2. mem'[a].from_pc = mem[a].from_pc
        BY <2>2
      <4>3. FindIn(mem', mem'[e].arc_head, "from_pc", mem'[a].from_pc) # 0
        BY <2>6, <4>1, <4>2
      <4> QED
        BY <4>3
    <3> QED
      BY <3>1, <3>3
  <2> QED
    BY <1>4, <2>7 DEF ArcsFound
<1>9. SumInv'
  <2>1. Counts = [b \in Arcs |-> mem[b].count] /\ Counts' = [b \in Arcs \cup {arc} |-> mem'[b].count]
    BY <1>4 DEF Counts
  <2>2. /\ arc \notin Arcs /\ \A b \in Arcs : Counts[b] \in Int /\ Counts'[b] = Counts[b]
        /\ Counts'[arc] = 1
    BY <1>1, <1>2, <2>1 DEF ArcType
  <2>3. SumOf(Counts', Arcs \cup {arc}) = Counts'[arc] + SumOf(Counts', Arcs)
    <3>1. \A b \in Arcs \cup {arc} : Counts'[b] \in Int
      BY <2>2
    <3> QED
      BY <1>2, <2>2, <3>1, SumAdds
  <2>4. SumOf(Counts', Arcs) = SumOf(Counts, Arcs)
    BY <1>2, <2>2, SumAgrees
  <2>5. SumOf(Counts, Arcs) \in Int
    BY <1>2, <2>2, SumType
  <2>6. /\ counted' \in [Pairs -> Nat] /\ SumOf(counted, Pairs) \in Int
        /\ SumOf(counted', Pairs) = SumOf(counted, Pairs) + 1
    BY <1>0, CallCounted
  <2>7. uncounted \in Int /\ SumOf(Counts, Arcs) + uncounted = SumOf(counted, Pairs)
    BY DEF CountedInv, SumInv
  <2>8. uncounted' \in Int /\ SumOf(Counts', Arcs \cup {arc}) + uncounted' = SumOf(counted', Pairs)
    BY <1>0, <2>2, <2>3, <2>4, <2>5, <2>6, <2>7
  <2>9. SumOf(Counts, Arcs)' = SumOf(Counts', Arcs \cup {arc}) /\ SumOf(counted, Pairs)' = SumOf(counted', Pairs)
    <3>1. SumOf(Counts, Arcs)' = SumOf(Counts', Arcs') /\ SumOf(counted, Pairs)' = SumOf(counted', Pairs)
      BY DEF SumOf, IsSum, Pairs
    <3> QED
      BY <1>4, <3>1
  <2> QED
    BY <2>6, <2>8, <2>9 DEF SumInv, Pairs
<1> QED
  BY <1>6, <1>7, <1>8, <1>9 DEF CountedInv

\* A sum of zeros.
LEMMA SumOfZeros ==
  ASSUME NEW S, IsFiniteSet(S), NEW f, \A x \in S : f[x] = 0
  PROVE  SumOf(f, S) = 0
<1> DEFINE G == {T \in SUBSET S : SumOf(f, T) = 0}
<1>1. ASSUME NEW T \in SUBSET S, \A x \in T : T \ {x} \in G PROVE T \in G
  <2>1. CASE T = {}
    BY <2>1, SumEmpty
  <2>2. CASE T # {}
    <3>1. PICK y \in T : TRUE
      BY <2>2
    <3> DEFINE U == T \ {y}
    <3>2. IsFiniteSet(U) /\ y \notin U /\ U \cup {y} = T /\ \A x \in U \cup {y} : f[x] \in Int
      BY <1>1, <3>1, FS_Subset
    <3>3. SumOf(f, U) = 0
      BY <1>1, <3>1
    <3> HIDE DEF U
    <3>4. SumOf(f, U \cup {y}) = f[y] + SumOf(f, U)
      BY <3>2, SumAdds
    <3>5. SumOf(f, T) = f[y] + 0 /\ f[y] = 0
      BY <1>1, <3>1, <3>2, <3>3, <3>4
    <3> QED
      BY <1>1, <3>5
  <2> QED
    BY <2>1, <2>2
<1>2. SUBSET S \subseteq G
  <2> HIDE DEF G
  <2> QED
    BY <1>1, SetInduct
<1> QED
  BY <1>2

\* At the beginning there is no record, and no call.
LEMMA CountedInit ==
  ASSUME GmonInit
  PROVE  CountedInv
<1>1. mem = <<>> /\ DOMAIN mem = {} /\ Entries = {} /\ Arcs = {}
  BY DEF GmonInit, Entries, Arcs
<1>2. RecordsInv
  BY <1>1 DEF GmonInit, RecordsInv, Room, TheSlab
<1>3. FoundInv /\ ArcsFound
  BY <1>1 DEF GmonInit, FoundInv, ArcsFound
<1>4. SumInv
  <2>1. IsFiniteSet(Pairs)
    BY GmonAssumption, FS_Product DEF Pairs
  <2>2. counted \in [Pairs -> Nat] /\ \A k \in Pairs : counted[k] = 0
    BY DEF GmonInit, Pairs
  <2>3. SumOf(Counts, Arcs) = 0
    BY <1>1, SumEmpty
  <2>4. SumOf(counted, Pairs) = 0
    BY <2>1, <2>2, SumOfZeros
  <2>5. uncounted = 0
    BY DEF GmonInit
  <2> QED
    BY <2>2, <2>3, <2>4, <2>5 DEF SumInv
<1> QED
  BY <1>2, <1>3, <1>4 DEF CountedInv

\* The sampler, the clock and what else happens leave the lists and the calls alone.
LEMMA OthersCount ==
  ASSUME CountedInv, UNCHANGED <<lists, ctx, counted, uncounted>>
  PROVE  CountedInv'
<1>1. Entries' = Entries /\ Arcs' = Arcs
  BY DEF lists, Entries, Arcs
<1>2. RecordsInv' /\ FoundInv' /\ ArcsFound'
  BY <1>1 DEF lists, CountedInv, RecordsInv, FoundInv, ArcsFound, TheSlab, EntryType, ArcType
<1>3. SumInv'
  BY <1>1 DEF lists, CountedInv, SumInv, Counts
<1> QED
  BY <1>2, <1>3 DEF CountedInv

LEMMA CountedStep ==
  ASSUME CountedInv, GmonInv, [GmonNext]_gmonVars
  PROVE  CountedInv'
<1>1. CallsInv /\ IsFiniteSet(SelfPcs) /\ IsFiniteSet(FromPcs)
  BY GmonAssumption DEF GmonInv
<1>2. ASSUME NEW l \in Levels, NEW self \in SelfPcs, NEW from \in FromPcs, mcount(l, self, from) PROVE CountedInv'
  BY <1>2, McountCounts
<1>3. ASSUME NEW l \in Levels, FoundArc(l) PROVE CountedInv'
  BY <1>1, <1>3, FoundArcCounts
<1>4. ASSUME NEW l \in Levels, Record(l) PROVE CountedInv'
  BY <1>1, <1>4, RecordCounts
<1>5. ASSUME NEW l \in Levels, TestInit(l) \/ ResetInit(l) \/ pcsample_init(l) PROVE CountedInv'
  <2>1. ctx[l].step # "none" /\ UNCHANGED <<lists, counted, uncounted>>
    BY <1>5 DEF TestInit, ResetInit, pcsample_init
  <2>2. \E s \in {"reset", "enter", "init"} : ctx' = [ctx EXCEPT ![l].step = s]
    BY <1>5 DEF TestInit, ResetInit, pcsample_init
  <2> QED
    BY <1>1, <2>1, <2>2, StepCounts
<1>6. ASSUME NEW pc \in 0 .. TextSize, pcsample(pc) PROVE CountedInv'
  BY <1>6, OthersCount DEF pcsample
<1>7. CASE ClockStarts
  BY <1>7, OthersCount DEF ClockStarts
<1>8. CASE UNCHANGED gmonVars
  BY <1>8, OthersCount DEF gmonVars, lists
<1> QED
  BY <1>2, <1>3, <1>4, <1>5, <1>6, <1>7, <1>8 DEF GmonNext

\* What the host adds up for the functions and their callers is the calls there were, less those
\* whose count an interrupt has made between the load and the store, every arc is found from its
\* function, and the records are in the heap: for any program, any size of the slabs and however
\* the calls are interrupted (mcount, __mcount_record, mcount_allocate).
THEOREM CallsAreCounted == GmonSpec => []CallsCounted
<1>1. CountedInv => CallsCounted
  <2> SUFFICES ASSUME CountedInv PROVE CallsCounted
    OBVIOUS
  <2>1. IsFiniteSet(Arcs) /\ DOMAIN counted = Pairs
    BY RecordsLinked DEF CountedInv, SumInv
  <2>2. MapThenSumSet(LAMBDA a : mem[a].count, Arcs) = SumOf(Counts, Arcs)
    BY <2>1, SumOfField DEF Counts
  <2>3. Made = SumOf(counted, Pairs)
    <3>1. Made = SumOf(counted, DOMAIN counted)
      BY SumOfFunction DEF Made
    <3> QED
      BY <2>1, <3>1
  <2>4. MapThenSumSet(LAMBDA a : mem[a].count, Arcs) + uncounted = Made
    <3>1. SumOf(Counts, Arcs) + uncounted = SumOf(counted, Pairs)
      BY DEF CountedInv, SumInv
    <3> HIDE DEF Made
    <3> QED
      BY <2>2, <2>3, <3>1
  <2>5. \A a \in Arcs : \E e \in Entries : Find(mem[e].arc_head, "from_pc", mem[a].from_pc) # 0
    BY FindIsFindIn DEF CountedInv, ArcsFound
  <2>6. \A a \in DOMAIN mem : a > 0 /\ a < heap
    BY DEF CountedInv, RecordsInv, Room, TheSlab
  <2> QED
    BY <2>4, <2>5, <2>6 DEF CallsCounted, Arcs, Entries
<1>2. CountedInv /\ GmonInv /\ [GmonNext]_gmonVars => CountedInv'
  BY CountedStep
<1>3. GmonInit => CountedInv
  BY CountedInit
<1> QED
  BY <1>1, <1>2, <1>3, GmonInvHolds, PTL DEF GmonSpec

===============================================================================
