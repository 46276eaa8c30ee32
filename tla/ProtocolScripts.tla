--------------------------- MODULE ProtocolScripts ----------------------------
(***************************************************************************)
(* What the proofs about Protocol rest on: sequences put one after the     *)
(* other, scripts (what somebody has still to do) and how the steps of a   *)
(* command come out as scripts.  Protocol builds scripts with Times,       *)
(* FlattenSeq and \o; here they are Then and Cat, whose elements are known.*)
(***************************************************************************)
EXTENDS Protocol, SequenceTheorems, FiniteSetTheorems, WellFoundedInduction, TLAPS

(* A set of numbers that has 0 and the successor of each of its members.   *)
LEMMA Inductive ==
    ASSUME NEW T, 0 \in T, \A n \in Nat : n \in T => n + 1 \in T
    PROVE  Nat \subseteq T
<1> SUFFICES ASSUME NEW m \in Nat, m \notin T PROVE FALSE
  OBVIOUS
<1> DEFINE S == {n \in 0 .. m : n \notin T}
           Below(i) == {k \in 0 .. m : k < i}
           B == {Below(i) : i \in S}
<1>1. IsFiniteSet(0 .. m)
  BY FS_Interval
<1>2. B \subseteq FiniteSubsetsOf(0 .. m) /\ B # {}
  <2>1. \A i \in S : Below(i) \subseteq 0 .. m /\ IsFiniteSet(Below(i))
    BY <1>1, FS_Subset
  <2>2. m \in S
    OBVIOUS
  <2> QED BY <2>1, <2>2 DEF FiniteSubsetsOf
<1>3. PICK x \in B : \A y \in B : <<y, x>> \notin StrictSubsetOrdering(0 .. m)
  <2> HIDE DEF B
  <2> QED BY <1>1, <1>2, FS_StrictSubsetOrderingWellFounded, WFMin
<1>4. PICK i \in S : x = Below(i)
  OBVIOUS
<1>5. i - 1 \in S
  <2>1. i # 0
    OBVIOUS
  <2> QED BY <2>1
<1>6. <<Below(i - 1), x>> \in StrictSubsetOrdering(0 .. m)
  <2>1. Below(i - 1) \subseteq Below(i) /\ i - 1 \in Below(i) /\ i - 1 \notin Below(i - 1)
    BY <1>5
  <2> QED BY <1>4, <2>1 DEF StrictSubsetOrdering
<1> QED BY <1>3, <1>5, <1>6
-----------------------------------------------------------------------------
(* Sequences, of whatever.                                                 *)
IsSeq(s) == s \in Seq({s[i] : i \in DOMAIN s})
(* A name of our own for \o, which the provers must not look into.         *)
Cat(s, t) == s \o t
Then(a, s) == Cat(<<a>>, s)

(* A sequence of some set is one of its own elements.                      *)
LEMMA SeqsAre == ASSUME NEW S, NEW s \in Seq(S) PROVE IsSeq(s)
<1>1. Len(s) \in Nat /\ s \in [1 .. Len(s) -> S] /\ DOMAIN s = 1 .. Len(s)
  BY LenProperties
<1>2. s \in [1 .. Len(s) -> {s[i] : i \in DOMAIN s}]
  BY <1>1
<1> QED BY <1>1, <1>2, SeqDef DEF IsSeq

(* A sequence is the function of its indices, and empty when it has none.  *)
LEMMA SeqFacts ==
    ASSUME NEW s, IsSeq(s)
    PROVE  /\ Len(s) \in Nat /\ DOMAIN s = 1 .. Len(s)
           /\ s = [i \in 1 .. Len(s) |-> s[i]]
           /\ s = <<>> <=> Len(s) = 0
<1> DEFINE S == {s[i] : i \in DOMAIN s}
<1>1. s \in Seq(S)
  BY DEF IsSeq
<1> HIDE DEF S
<1>2. Len(s) \in Nat /\ DOMAIN s = 1 .. Len(s) /\ s \in [1 .. Len(s) -> S]
  BY <1>1, LenProperties
<1>3. s = <<>> <=> Len(s) = 0
  BY <1>1, EmptySeq
<1> QED BY <1>2, <1>3

(* A function of 1 .. n is a sequence of length n.                         *)
LEMMA MadeSeq ==
    ASSUME NEW s, NEW n \in Nat, DOMAIN s = 1 .. n, s = [i \in 1 .. n |-> s[i]]
    PROVE  IsSeq(s) /\ Len(s) = n
<1>1. s \in [1 .. n -> {s[i] : i \in DOMAIN s}]
  OBVIOUS
<1>2. s \in Seq({s[i] : i \in DOMAIN s})
  BY <1>1, SeqDef
<1>3. Len(s) \in Nat /\ DOMAIN s = 1 .. Len(s)
  BY <1>2, LenProperties
<1> QED BY <1>2, <1>3 DEF IsSeq

(* Sequences of the same length and elements are equal.                    *)
LEMMA SeqsEqual ==
    ASSUME NEW s, NEW t, IsSeq(s), IsSeq(t), Len(s) = Len(t),
           \A i \in 1 .. Len(s) : s[i] = t[i]
    PROVE  s = t
<1>1. s = [i \in 1 .. Len(s) |-> s[i]]
  BY SeqFacts
<1>2. t = [i \in 1 .. Len(t) |-> t[i]]
  BY SeqFacts
<1> QED BY <1>1, <1>2

(* The empty sequence.                                                     *)
LEMMA EmptyIsSeq == IsSeq(<<>>) /\ Len(<<>>) = 0
<1>1. <<>> \in Seq({})
  BY EmptySeq
<1> QED BY <1>1, SeqsAre, EmptySeq

(* The elements of two sequences, one after the other.                     *)
LEMMA CatIs ==
    ASSUME NEW s, NEW t, IsSeq(s), IsSeq(t)
    PROVE  /\ IsSeq(Cat(s, t)) /\ Len(Cat(s, t)) = Len(s) + Len(t)
           /\ \A i \in 1 .. Len(s) : Cat(s, t)[i] = s[i]
           /\ \A i \in 1 .. Len(t) : Cat(s, t)[Len(s) + i] = t[i]
           /\ Cat(s, t) = <<>> <=> s = <<>> /\ t = <<>>
<1> DEFINE S == {s[i] : i \in DOMAIN s} \cup {t[i] : i \in DOMAIN t}
<1>1. s \in Seq(S) /\ t \in Seq(S)
  BY SeqMonotonic DEF IsSeq
<1> HIDE DEF S
<1>2. /\ Cat(s, t) \in Seq(S) /\ Len(Cat(s, t)) = Len(s) + Len(t)
      /\ \A i \in 1 .. Len(s) + Len(t) : Cat(s, t)[i] = IF i <= Len(s) THEN s[i] ELSE t[i - Len(s)]
  BY <1>1, ConcatProperties DEF Cat
<1>3. IsSeq(Cat(s, t))
  BY <1>2, SeqsAre
<1>4. Len(s) \in Nat /\ Len(t) \in Nat
  BY <1>1, LenProperties
<1>5. \A i \in 1 .. Len(s) : Cat(s, t)[i] = s[i]
  BY <1>2, <1>4
<1>6. \A i \in 1 .. Len(t) : Cat(s, t)[Len(s) + i] = t[i]
  BY <1>2, <1>4
<1>7. Cat(s, t) = <<>> <=> s = <<>> /\ t = <<>>
  BY <1>2, <1>3, <1>4, SeqFacts
<1> QED BY <1>2, <1>3, <1>5, <1>6, <1>7

(* Nothing before or after a sequence.                                     *)
LEMMA CatEmpty == ASSUME NEW s, IsSeq(s) PROVE Cat(s, <<>>) = s /\ Cat(<<>>, s) = s
BY ConcatEmptySeq DEF IsSeq, Cat

(* It does not matter which two of three are put together first.           *)
LEMMA Assoc ==
    ASSUME NEW s, NEW t, NEW u, IsSeq(s), IsSeq(t), IsSeq(u)
    PROVE  Cat(Cat(s, t), u) = Cat(s, Cat(t, u))
<1> DEFINE S == {s[i] : i \in DOMAIN s} \cup {t[i] : i \in DOMAIN t} \cup {u[i] : i \in DOMAIN u}
<1>1. s \in Seq(S) /\ t \in Seq(S) /\ u \in Seq(S)
  BY SeqMonotonic DEF IsSeq
<1> HIDE DEF S
<1> QED BY <1>1, ConcatAssociative DEF Cat

(* One element.                                                            *)
LEMMA OneIsSeq == ASSUME NEW a PROVE IsSeq(<<a>>) /\ Len(<<a>>) = 1 /\ <<a>>[1] = a
<1>1. <<a>> \in Seq({a})
  OBVIOUS
<1> QED BY <1>1, SeqsAre

(* An element before a sequence is its head, and that sequence its tail.   *)
LEMMA ThenIs ==
    ASSUME NEW a, NEW s, IsSeq(s)
    PROVE  /\ IsSeq(Then(a, s)) /\ Len(Then(a, s)) = Len(s) + 1
           /\ Then(a, s)[1] = a /\ \A i \in 1 .. Len(s) : Then(a, s)[i + 1] = s[i]
           /\ Then(a, s) # <<>> /\ Head(Then(a, s)) = a /\ Tail(Then(a, s)) = s
<1> DEFINE t == Then(a, s)
<1>1. IsSeq(<<a>>) /\ Len(<<a>>) = 1 /\ <<a>>[1] = a
  BY OneIsSeq
<1>2. /\ IsSeq(t) /\ Len(t) = 1 + Len(s) /\ t[1] = a
      /\ \A i \in 1 .. Len(s) : t[1 + i] = s[i]
  <2> DEFINE o == <<a>>
  <2>1. IsSeq(o) /\ Len(o) = 1 /\ o[1] = a /\ t = Cat(o, s)
    BY <1>1 DEF Then
  <2> HIDE DEF o, t
  <2>2. /\ IsSeq(t) /\ Len(t) = 1 + Len(s)
        /\ \A i \in 1 .. 1 : t[i] = o[i]
        /\ \A i \in 1 .. Len(s) : t[1 + i] = s[i]
    BY <2>1, CatIs
  <2> QED BY <2>1, <2>2
<1>3. Len(s) \in Nat /\ Len(t) = Len(s) + 1 /\ t # <<>>
  BY <1>2, SeqFacts
<1>4. \A i \in 1 .. Len(s) : t[i + 1] = s[i]
  BY <1>2, <1>3
<1>5. /\ Tail(t) \in Seq({t[i] : i \in DOMAIN t}) /\ Len(Tail(t)) = Len(t) - 1
      /\ \A i \in 1 .. Len(Tail(t)) : Tail(t)[i] = t[i + 1]
  <2> HIDE DEF t
  <2> QED BY <1>2, <1>3, HeadTailProperties DEF IsSeq
<1>6. Tail(t) = s
  <2>1. IsSeq(Tail(t)) /\ Len(Tail(t)) = Len(s)
    <3> DEFINE S == {t[i] : i \in DOMAIN t}
    <3>1. Tail(t) \in Seq(S) /\ Len(Tail(t)) = Len(s)
      BY <1>3, <1>5
    <3> HIDE DEF S, t
    <3> QED BY <3>1, SeqsAre
  <2> QED BY <2>1, <1>4, <1>5, SeqsEqual
<1>7. Head(t) = a
  <2> HIDE DEF t
  <2> QED BY <1>2 DEF Head
<1> QED BY <1>2, <1>3, <1>4, <1>6, <1>7

(* An element before two sequences.                                        *)
LEMMA ThenCat ==
    ASSUME NEW a, NEW s, NEW t, IsSeq(s), IsSeq(t)
    PROVE  Cat(Then(a, s), t) = Then(a, Cat(s, t))
BY OneIsSeq, Assoc DEF Then

(* A sequence is its head before its tail.                                 *)
LEMMA HeadTail ==
    ASSUME NEW s, IsSeq(s), s # <<>>
    PROVE  s = Then(Head(s), Tail(s)) /\ IsSeq(Tail(s)) /\ Head(s) = s[1]
<1> DEFINE S == {s[i] : i \in DOMAIN s}
<1>1. /\ Tail(s) \in Seq(S) /\ Len(Tail(s)) = Len(s) - 1
      /\ \A i \in 1 .. Len(Tail(s)) : Tail(s)[i] = s[i + 1]
  BY HeadTailProperties DEF IsSeq
<1> HIDE DEF S
<1>2. IsSeq(Tail(s)) /\ Head(s) = s[1]
  <2>1. IsSeq(Tail(s))
    BY <1>1, SeqsAre
  <2>2. Head(s) = s[1]
    BY DEF Head
  <2> QED BY <2>1, <2>2
<1> DEFINE t == Then(s[1], Tail(s))
<1>3. /\ IsSeq(t) /\ Len(t) = Len(Tail(s)) + 1 /\ t[1] = s[1]
      /\ \A i \in 1 .. Len(Tail(s)) : t[i + 1] = Tail(s)[i]
  <2> DEFINE h == s[1]
             u == Tail(s)
  <2>1. IsSeq(u)
    BY <1>2
  <2> HIDE DEF h, u
  <2>2. /\ IsSeq(Then(h, u)) /\ Len(Then(h, u)) = Len(u) + 1 /\ Then(h, u)[1] = h
        /\ \A i \in 1 .. Len(u) : Then(h, u)[i + 1] = u[i]
    BY <2>1, ThenIs
  <2> QED BY <2>2 DEF h, u
<1>4. Len(s) \in Nat /\ Len(t) = Len(s)
  BY <1>1, <1>3, SeqFacts
<1>5. \A i \in 1 .. Len(s) : s[i] = t[i]
  <2> TAKE i \in 1 .. Len(s)
  <2>1. CASE i = 1
    BY <2>1, <1>3
  <2>2. CASE i # 1
    <3>1. i - 1 \in 1 .. Len(Tail(s)) /\ (i - 1) + 1 = i
      BY <1>1, <1>4, <2>2
    <3> HIDE DEF t
    <3> QED BY <1>1, <1>3, <3>1
  <2> QED BY <2>1, <2>2
<1> HIDE DEF t
<1>6. s = t
  BY <1>3, <1>4, <1>5, SeqsEqual
<1> QED BY <1>2, <1>6 DEF t

(* The tuples that Protocol writes, element by element.                    *)
LEMMA Tuples ==
    /\ \A a : <<a>> = Then(a, <<>>)
    /\ \A a, b : <<a, b>> = Then(a, Then(b, <<>>))
    /\ \A a, b, c : <<a, b, c>> = Then(a, Then(b, Then(c, <<>>)))
    /\ \A a, b, c, d : <<a, b, c, d>> = Then(a, Then(b, Then(c, Then(d, <<>>))))
    /\ \A a, b, c, d, e : <<a, b, c, d, e>> = Then(a, Then(b, Then(c, Then(d, Then(e, <<>>)))))
<1>1. ASSUME NEW a PROVE <<a>> = Then(a, <<>>)
  BY OneIsSeq, CatEmpty DEF Then
<1>2. ASSUME NEW a, NEW b PROVE <<a, b>> = Then(a, <<b>>) /\ IsSeq(<<a, b>>)
  <2>1. <<a, b>> \in Seq({a, b}) /\ Len(<<a, b>>) = 2
    OBVIOUS
  <2>2. IsSeq(<<a, b>>) /\ <<a, b>> # <<>>
    BY <2>1, SeqsAre, SeqFacts
  <2>3. Head(<<a, b>>) = a /\ Tail(<<a, b>>) = <<b>>
    OBVIOUS
  <2> QED BY <2>2, <2>3, HeadTail
<1>3. ASSUME NEW a, NEW b, NEW c PROVE <<a, b, c>> = Then(a, <<b, c>>)
  <2>1. <<a, b, c>> \in Seq({a, b, c}) /\ Len(<<a, b, c>>) = 3
    OBVIOUS
  <2>2. IsSeq(<<a, b, c>>) /\ <<a, b, c>> # <<>>
    BY <2>1, SeqsAre, SeqFacts
  <2>3. Head(<<a, b, c>>) = a /\ Tail(<<a, b, c>>) = <<b, c>>
    OBVIOUS
  <2> QED BY <2>2, <2>3, HeadTail
<1>4. ASSUME NEW a, NEW b, NEW c, NEW d PROVE <<a, b, c, d>> = Then(a, <<b, c, d>>)
  <2>1. <<a, b, c, d>> \in Seq({a, b, c, d}) /\ Len(<<a, b, c, d>>) = 4
    OBVIOUS
  <2>2. IsSeq(<<a, b, c, d>>) /\ <<a, b, c, d>> # <<>>
    BY <2>1, SeqsAre, SeqFacts
  <2>3. Head(<<a, b, c, d>>) = a /\ Tail(<<a, b, c, d>>) = <<b, c, d>>
    OBVIOUS
  <2> QED BY <2>2, <2>3, HeadTail
<1>5. ASSUME NEW a, NEW b, NEW c, NEW d, NEW e PROVE <<a, b, c, d, e>> = Then(a, <<b, c, d, e>>)
  <2>1. <<a, b, c, d, e>> \in Seq({a, b, c, d, e}) /\ Len(<<a, b, c, d, e>>) = 5
    OBVIOUS
  <2>2. IsSeq(<<a, b, c, d, e>>) /\ <<a, b, c, d, e>> # <<>>
    BY <2>1, SeqsAre, SeqFacts
  <2>3. Head(<<a, b, c, d, e>>) = a /\ Tail(<<a, b, c, d, e>>) = <<b, c, d, e>>
    OBVIOUS
  <2> QED BY <2>2, <2>3, HeadTail
<1>6. \A a : <<a>> = Then(a, <<>>)
  BY <1>1
<1>7. \A a, b : <<a, b>> = Then(a, Then(b, <<>>))
  BY <1>2, <1>6
<1>8. \A a, b, c : <<a, b, c>> = Then(a, Then(b, Then(c, <<>>)))
  BY <1>3, <1>7
<1>9. \A a, b, c, d : <<a, b, c, d>> = Then(a, Then(b, Then(c, Then(d, <<>>))))
  BY <1>4, <1>8
<1>10. \A a, b, c, d, e :
         <<a, b, c, d, e>> = Then(a, Then(b, Then(c, Then(d, Then(e, <<>>)))))
  BY <1>5, <1>9
<1> QED BY <1>6, <1>7, <1>8, <1>9, <1>10

(* Head and tail are unique.                                               *)
LEMMA ThenOne ==
    ASSUME NEW a, NEW b, NEW s, NEW t, IsSeq(s), IsSeq(t), Then(a, s) = Then(b, t)
    PROVE  a = b /\ s = t
<1>1. Head(Then(a, s)) = a /\ Tail(Then(a, s)) = s
  BY ThenIs
<1>2. Head(Then(b, t)) = b /\ Tail(Then(b, t)) = t
  BY ThenIs
<1> QED BY <1>1, <1>2

(* The sequences of s put one after the other up to the i-th.              *)
Flattens(f, s, n) == f = [i \in 1 .. n |-> IF i = 1 THEN s[i] ELSE Cat(f[i - 1], s[i])]

(* Each is the one before with the next sequence after it.                 *)
LEMMA FlattensAt ==
    ASSUME NEW f, NEW s, NEW n \in Nat, Flattens(f, s, n)
    PROVE  /\ n > 0 => f[1] = s[1]
           /\ \A i \in 2 .. n : f[i] = Cat(f[i - 1], s[i])
<1> DEFINE h == [i \in 1 .. n |-> IF i = 1 THEN s[i] ELSE Cat(f[i - 1], s[i])]
<1>1. f = h
  BY DEF Flattens
<1>2. \A i \in 1 .. n : /\ i = 1 => h[i] = s[i]
                        /\ i # 1 => h[i] = Cat(f[i - 1], s[i])
  OBVIOUS
<1> HIDE DEF h
<1> QED BY <1>1, <1>2

(* There is such a function: it is given by recursion on Nat.              *)
LEMMA FlattensExists == ASSUME NEW s, NEW n \in Nat PROVE \E f : Flattens(f, s, n)
<1> DEFINE T == {m \in Nat : \E f : Flattens(f, s, m)}
<1>1. 0 \in T
  <2>1. Flattens([i \in 1 .. 0 |-> i], s, 0)
    BY DEF Flattens
  <2> QED BY <2>1
<1>2. ASSUME NEW m \in Nat, m \in T PROVE m + 1 \in T
  <2>1. PICK f : Flattens(f, s, m)
    BY <1>2
  <2> DEFINE g == [i \in 1 .. m + 1 |-> IF i = 1 THEN s[i] ELSE Cat(f[i - 1], s[i])]
  <2>2. ASSUME NEW i \in 1 .. m PROVE g[i] = f[i]
    <3>1. CASE i = 1
      BY <2>1, <3>1, FlattensAt
    <3>2. CASE i # 1
      BY <2>1, <3>2, FlattensAt
    <3> QED BY <3>1, <3>2
  <2>3. \A i \in 1 .. m + 1 : i # 1 => i - 1 \in 1 .. m
    OBVIOUS
  <2>4. Flattens(g, s, m + 1)
    BY <2>2, <2>3 DEF Flattens
  <2> QED BY <2>4
<1> HIDE DEF T
<1>3. Nat \subseteq T
  BY <1>1, <1>2, Inductive
<1> QED BY <1>3 DEF T

(* FlattenSeq of the community modules is the last of them.                *)
LEMMA FlattenSeqIs ==
    ASSUME NEW s, IsSeq(s), s # <<>>
    PROVE  \E f : Flattens(f, s, Len(s)) /\ FlattenSeq(s) = f[Len(s)]
<1>1. Len(s) \in Nat /\ Len(s) # 0
  BY SeqFacts
<1> DEFINE f == CHOOSE g : Flattens(g, s, Len(s))
<1>2. Flattens(f, s, Len(s))
  BY <1>1, FlattensExists
<1>3. FlattenSeq(s) = f[Len(s)]
  BY <1>1 DEF FlattenSeq, Flattens, Cat
<1> QED BY <1>2, <1>3

AllSeqs(s) == IsSeq(s) /\ \A i \in DOMAIN s : IsSeq(s[i])

(* From the second on, they are those of the tail behind the first.        *)
LEMMA FlattensTail ==
    ASSUME NEW a, NEW s, AllSeqs(s), IsSeq(a), s # <<>>,
           NEW f, NEW g, Flattens(f, Then(a, s), Len(s) + 1), Flattens(g, s, Len(s))
    PROVE  \A n \in 1 .. Len(s) : IsSeq(g[n]) /\ f[n + 1] = Cat(a, g[n])
<1> DEFINE t == Then(a, s)
           T == {m \in Nat : m + 1 \in 1 .. Len(s) => IsSeq(g[m + 1]) /\ f[m + 2] = Cat(a, g[m + 1])}
<1>1. /\ Len(s) \in Nat /\ Len(s) > 0 /\ DOMAIN s = 1 .. Len(s)
      /\ t[1] = a /\ \A i \in 1 .. Len(s) : t[i + 1] = s[i] /\ IsSeq(s[i])
  <2>1. Len(s) \in Nat /\ Len(s) > 0 /\ DOMAIN s = 1 .. Len(s)
    BY SeqFacts DEF AllSeqs
  <2>2. t[1] = a /\ \A i \in 1 .. Len(s) : t[i + 1] = s[i]
    BY ThenIs DEF AllSeqs
  <2> QED BY <2>1, <2>2 DEF AllSeqs
<1> HIDE DEF t
<1>2. \A i \in 2 .. Len(s) + 1 : f[i] = Cat(f[i - 1], t[i])
  BY <1>1, FlattensAt DEF t
<1>3. f[1] = a /\ g[1] = s[1]
  BY <1>1, FlattensAt DEF t
<1>4. \A i \in 2 .. Len(s) : g[i] = Cat(g[i - 1], s[i])
  BY <1>1, FlattensAt
<1>5. 0 \in T
  <2>1. f[2] = Cat(a, s[1])
    BY <1>1, <1>2, <1>3
  <2> QED BY <1>1, <1>3, <2>1
<1>6. ASSUME NEW m \in Nat, m \in T PROVE m + 1 \in T
  <2> SUFFICES ASSUME m + 2 \in 1 .. Len(s)
               PROVE  IsSeq(g[m + 2]) /\ f[m + 3] = Cat(a, g[m + 2])
    BY <1>1
  <2>1. IsSeq(g[m + 1]) /\ f[m + 2] = Cat(a, g[m + 1]) /\ IsSeq(s[m + 2])
    BY <1>1, <1>6
  <2>2. g[m + 2] = Cat(g[m + 1], s[m + 2])
    BY <1>1, <1>4
  <2>3. f[m + 3] = Cat(f[m + 2], s[m + 2])
    BY <1>1, <1>2
  <2> QED BY <2>1, <2>2, <2>3, CatIs, Assoc
<1>7. \A n \in Nat : n \in T
  <2> HIDE DEF T
  <2> QED BY <1>5, <1>6, Inductive
<1> TAKE n \in 1 .. Len(s)
<1>8. n - 1 \in Nat /\ (n - 1) + 1 = n /\ (n - 1) + 2 = n + 1
  BY <1>1
<1> QED BY <1>7, <1>8

(* FlattenSeq goes from the front.                                         *)
LEMMA FlattenThen ==
    ASSUME NEW a, NEW s, IsSeq(a), AllSeqs(s)
    PROVE  /\ FlattenSeq(Then(a, s)) = Cat(a, FlattenSeq(s)) /\ IsSeq(FlattenSeq(s))
           /\ AllSeqs(Then(a, s))
<1> DEFINE t == Then(a, s)
<1>1. /\ Len(s) \in Nat /\ IsSeq(t) /\ Len(t) = Len(s) + 1 /\ t # <<>> /\ t[1] = a
      /\ \A i \in 1 .. Len(s) : t[i + 1] = s[i] /\ IsSeq(s[i])
      /\ DOMAIN t = 1 .. Len(s) + 1
  <2>1. Len(s) \in Nat /\ DOMAIN s = 1 .. Len(s)
    BY SeqFacts DEF AllSeqs
  <2>2. /\ IsSeq(t) /\ Len(t) = Len(s) + 1 /\ t[1] = a
        /\ \A i \in 1 .. Len(s) : t[i + 1] = s[i]
    BY ThenIs DEF AllSeqs
  <2>3. t # <<>> /\ DOMAIN t = 1 .. Len(t)
    <3> HIDE DEF t
    <3> QED BY <2>1, <2>2, SeqFacts
  <2> QED BY <2>1, <2>2, <2>3 DEF AllSeqs
<1>2. AllSeqs(t)
  <2>1. ASSUME NEW i \in 1 .. Len(s) + 1 PROVE IsSeq(t[i])
    <3>1. CASE i = 1
      BY <1>1, <3>1
    <3>2. CASE i # 1
      <4>1. i - 1 \in 1 .. Len(s) /\ (i - 1) + 1 = i
        BY <1>1, <3>2
      <4> HIDE DEF t
      <4> QED BY <1>1, <4>1
    <3> QED BY <3>1, <3>2
  <2> HIDE DEF t
  <2> QED BY <1>1, <2>1 DEF AllSeqs
<1> HIDE DEF t
<1>3. PICK f : Flattens(f, t, Len(s) + 1) /\ FlattenSeq(t) = f[Len(s) + 1]
  BY <1>1, FlattenSeqIs
<1>4. CASE s = <<>>
  <2>1. Len(s) = 0 /\ FlattenSeq(s) = <<>>
    BY <1>4, EmptyIsSeq DEF FlattenSeq
  <2>2. f[1] = a
    BY <1>1, <1>3, <2>1, FlattensAt
  <2>3. FlattenSeq(t) = a
    BY <1>3, <2>1, <2>2
  <2> QED BY <1>2, <2>1, <2>3, EmptyIsSeq, CatEmpty DEF t
<1>5. CASE s # <<>>
  <2>1. PICK g : Flattens(g, s, Len(s)) /\ FlattenSeq(s) = g[Len(s)]
    BY <1>5, FlattenSeqIs DEF AllSeqs
  <2>2. Len(s) \in 1 .. Len(s)
    BY <1>1, <1>5, SeqFacts DEF AllSeqs
  <2>3. IsSeq(g[Len(s)]) /\ f[Len(s) + 1] = Cat(a, g[Len(s)])
    BY <1>3, <1>5, <2>1, <2>2, FlattensTail DEF t
  <2> QED BY <1>2, <1>3, <2>1, <2>3 DEF t
<1> QED BY <1>4, <1>5

(* FlattenSeq of nothing.                                                  *)
LEMMA FlattenNone == FlattenSeq(<<>>) = <<>> /\ AllSeqs(<<>>)
BY EmptyIsSeq DEF FlattenSeq, AllSeqs

(* The steps F[j + 1], ..., F[n], one after the other.                     *)
Slice(F, j, n) == [k \in 1 .. n - j |-> F[k + j]]
Run(F, j, n) == FlattenSeq(Slice(F, j, n))

(* What is sent and read for a part, an entry of a list, a record.         *)
SentPart(c) == [k \in Nat |-> <<Tell("part", Copy(c.of, PartSize(c.len, k))), Ack("PART_RECEIVED")>>]
ReadPart(f, n) == [k \in Nat |-> <<Hear("part", <<f, PartSize(n, k)>>), Say("PART_RECEIVED")>>]
GotPart(n) == [k \in Nat |-> <<Hear("part", PartSize(n, k)), Say("PART_RECEIVED")>>]
SentEntry == [k \in Nat |-> ListedFile]
ReadEntry == [k \in Nat |-> <<Ack("entry"), Say("FILENAME_ACK"), Ack("info"), Say("FILE_OK")>>]
ReadRecord == [k \in Nat |-> <<Ack("record")>>]
SentRecord(r) == [k \in Nat |-> SyncedFile(r[k])]

(* No turns are left at the end.                                           *)
LEMMA RunEnd == ASSUME NEW F, NEW n \in Nat PROVE Run(F, n, n) = <<>>
<1> DEFINE s == Slice(F, n, n)
<1>1. IsSeq(s) /\ Len(s) = 0
  <2>1. DOMAIN s = 1 .. 0 /\ s = [i \in 1 .. 0 |-> s[i]]
    BY DEF Slice
  <2> HIDE DEF s
  <2> QED BY <2>1, MadeSeq
<1>2. s = <<>>
  <2> HIDE DEF s
  <2> QED BY <1>1, SeqFacts
<1> QED BY <1>2, FlattenNone DEF Run

(* The turns left are sequences, n - j of them.                            *)
LEMMA RunSeqs ==
    ASSUME NEW F, NEW j \in Nat, NEW n \in Nat, j <= n, \A k \in Nat : IsSeq(F[k])
    PROVE  /\ AllSeqs(Slice(F, j, n)) /\ Len(Slice(F, j, n)) = n - j
           /\ \A k \in 1 .. n - j : Slice(F, j, n)[k] = F[k + j]
<1> DEFINE s == Slice(F, j, n)
<1>1. n - j \in Nat
  OBVIOUS
<1>2. DOMAIN s = 1 .. n - j /\ s = [i \in 1 .. n - j |-> s[i]]
  BY DEF Slice
<1>3. \A k \in 1 .. n - j : s[k] = F[k + j] /\ IsSeq(s[k])
  BY DEF Slice
<1>4. IsSeq(s) /\ Len(s) = n - j
  <2> HIDE DEF s
  <2> QED BY <1>1, <1>2, MadeSeq
<1>5. AllSeqs(s)
  <2> HIDE DEF s
  <2> QED BY <1>2, <1>3, <1>4 DEF AllSeqs
<1> QED BY <1>3, <1>4, <1>5

(* The turns left are the next one and those after it.                     *)
LEMMA RunStep ==
    ASSUME NEW F, NEW j \in Nat, NEW n \in Nat, j < n, \A k \in Nat : IsSeq(F[k])
    PROVE  Run(F, j, n) = Cat(F[j + 1], Run(F, j + 1, n))
<1> DEFINE s == Slice(F, j, n)
           t == Slice(F, j + 1, n)
<1>0. j <= n /\ j + 1 \in Nat /\ j + 1 <= n
  OBVIOUS
<1>1. AllSeqs(s) /\ Len(s) = n - j /\ \A k \in 1 .. n - j : s[k] = F[k + j]
  BY <1>0, RunSeqs
<1>2. AllSeqs(t) /\ Len(t) = n - (j + 1) /\ \A k \in 1 .. n - (j + 1) : t[k] = F[k + (j + 1)]
  BY RunSeqs
<1> HIDE DEF s, t
<1> DEFINE u == Then(F[j + 1], t)
<1>3. /\ IsSeq(u) /\ Len(u) = n - j /\ u[1] = F[j + 1]
      /\ \A k \in 1 .. n - (j + 1) : u[k + 1] = t[k]
  BY <1>2, ThenIs DEF AllSeqs
<1> HIDE DEF u
<1>4. ASSUME NEW i \in 1 .. n - j PROVE s[i] = u[i]
  <2>1. CASE i = 1
    BY <1>1, <1>3, <2>1
  <2>2. CASE i # 1
    <3>1. i - 1 \in 1 .. n - (j + 1) /\ (i - 1) + 1 = i /\ (i - 1) + (j + 1) = i + j
      BY <2>2
    <3> QED BY <1>1, <1>2, <1>3, <3>1
  <2> QED BY <2>1, <2>2
<1>5. s = u
  BY <1>1, <1>3, <1>4, SeqsEqual DEF AllSeqs
<1>6. FlattenSeq(u) = Cat(F[j + 1], FlattenSeq(t))
  BY <1>2, FlattenThen DEF u
<1> QED BY <1>5, <1>6 DEF Run, s, t

(* What is left of a loop is a sequence.                                   *)
LEMMA RunIs ==
    ASSUME NEW F, NEW j \in Nat, NEW n \in Nat, j <= n, \A k \in Nat : IsSeq(F[k])
    PROVE  IsSeq(Run(F, j, n))
<1> DEFINE s == Slice(F, j, n)
<1>1. AllSeqs(s)
  BY RunSeqs
<1> HIDE DEF s
<1>2. IsSeq(FlattenSeq(s))
  BY <1>1, EmptyIsSeq, FlattenThen
<1> QED BY <1>2 DEF Run, s

(* Tuples are sequences.                                                   *)
LEMMA TuplesAreSeqs ==
    /\ \A a : IsSeq(<<a>>)
    /\ \A a, b : IsSeq(<<a, b>>) /\ <<a, b>> = Then(a, <<b>>)
    /\ \A a, b, c : IsSeq(<<a, b, c>>) /\ <<a, b, c>> = Then(a, <<b, c>>)
    /\ \A a, b, c, d : IsSeq(<<a, b, c, d>>) /\ <<a, b, c, d>> = Then(a, <<b, c, d>>)
    /\ \A a, b, c, d, e : IsSeq(<<a, b, c, d, e>>) /\ <<a, b, c, d, e>> = Then(a, <<b, c, d, e>>)
<1>1. ASSUME NEW s, NEW a, s # <<>>, IsSeq(s), Head(s) = a PROVE s = Then(a, Tail(s))
  BY <1>1, HeadTail
<1>2. ASSUME NEW a PROVE IsSeq(<<a>>)
  BY OneIsSeq
<1>3. ASSUME NEW a, NEW b PROVE IsSeq(<<a, b>>) /\ <<a, b>> = Then(a, <<b>>)
  <2> DEFINE s == <<a, b>>
  <2>1. s \in Seq({a, b}) /\ Len(s) = 2 /\ Head(s) = a /\ Tail(s) = <<b>>
    OBVIOUS
  <2> HIDE DEF s
  <2>2. IsSeq(s) /\ s # <<>>
    BY <2>1, SeqsAre, SeqFacts
  <2>3. s = Then(a, <<b>>)
    BY <1>1, <2>1, <2>2
  <2> QED BY <2>2, <2>3 DEF s
<1>4. ASSUME NEW a, NEW b, NEW c PROVE IsSeq(<<a, b, c>>) /\ <<a, b, c>> = Then(a, <<b, c>>)
  <2> DEFINE s == <<a, b, c>>
  <2>1. s \in Seq({a, b, c}) /\ Len(s) = 3 /\ Head(s) = a /\ Tail(s) = <<b, c>>
    OBVIOUS
  <2> HIDE DEF s
  <2>2. IsSeq(s) /\ s # <<>>
    BY <2>1, SeqsAre, SeqFacts
  <2>3. s = Then(a, <<b, c>>)
    BY <1>1, <2>1, <2>2
  <2> QED BY <2>2, <2>3 DEF s
<1>5. ASSUME NEW a, NEW b, NEW c, NEW d
      PROVE  IsSeq(<<a, b, c, d>>) /\ <<a, b, c, d>> = Then(a, <<b, c, d>>)
  <2> DEFINE s == <<a, b, c, d>>
  <2>1. s \in Seq({a, b, c, d}) /\ Len(s) = 4 /\ Head(s) = a /\ Tail(s) = <<b, c, d>>
    OBVIOUS
  <2> HIDE DEF s
  <2>2. IsSeq(s) /\ s # <<>>
    BY <2>1, SeqsAre, SeqFacts
  <2>3. s = Then(a, <<b, c, d>>)
    BY <1>1, <2>1, <2>2
  <2> QED BY <2>2, <2>3 DEF s
<1>6. ASSUME NEW a, NEW b, NEW c, NEW d, NEW e
      PROVE  IsSeq(<<a, b, c, d, e>>) /\ <<a, b, c, d, e>> = Then(a, <<b, c, d, e>>)
  <2> DEFINE s == <<a, b, c, d, e>>
  <2>1. s \in Seq({a, b, c, d, e}) /\ Len(s) = 5 /\ Head(s) = a /\ Tail(s) = <<b, c, d, e>>
    OBVIOUS
  <2> HIDE DEF s
  <2>2. IsSeq(s) /\ s # <<>>
    BY <2>1, SeqsAre, SeqFacts
  <2>3. s = Then(a, <<b, c, d, e>>)
    BY <1>1, <2>1, <2>2
  <2> QED BY <2>2, <2>3 DEF s
<1> QED BY <1>2, <1>3, <1>4, <1>5, <1>6

(* A tuple before a sequence, element by element.                          *)
LEMMA CatTuples ==
    ASSUME NEW s, IsSeq(s)
    PROVE  /\ \A a : Cat(<<a>>, s) = Then(a, s)
           /\ \A a, b : Cat(<<a, b>>, s) = Then(a, Then(b, s))
           /\ \A a, b, c : Cat(<<a, b, c>>, s) = Then(a, Then(b, Then(c, s)))
           /\ \A a, b, c, d : Cat(<<a, b, c, d>>, s) = Then(a, Then(b, Then(c, Then(d, s))))
           /\ \A a, b, c, d, e :
                 Cat(<<a, b, c, d, e>>, s) = Then(a, Then(b, Then(c, Then(d, Then(e, s)))))
<1>1. ASSUME NEW a, NEW u, IsSeq(u) PROVE Cat(Then(a, u), s) = Then(a, Cat(u, s))
  BY <1>1, ThenCat
<1>2. ASSUME NEW a PROVE Cat(<<a>>, s) = Then(a, s)
  BY DEF Then
<1>3. ASSUME NEW a, NEW b PROVE Cat(<<a, b>>, s) = Then(a, Then(b, s))
  <2>1. <<a, b>> = Then(a, <<b>>) /\ IsSeq(<<b>>)
    BY TuplesAreSeqs
  <2> QED BY <1>1, <1>2, <2>1
<1>4. ASSUME NEW a, NEW b, NEW c PROVE Cat(<<a, b, c>>, s) = Then(a, Then(b, Then(c, s)))
  <2>1. <<a, b, c>> = Then(a, <<b, c>>) /\ IsSeq(<<b, c>>)
    BY TuplesAreSeqs
  <2> QED BY <1>1, <1>3, <2>1
<1>5. ASSUME NEW a, NEW b, NEW c, NEW d
      PROVE  Cat(<<a, b, c, d>>, s) = Then(a, Then(b, Then(c, Then(d, s))))
  <2>1. <<a, b, c, d>> = Then(a, <<b, c, d>>) /\ IsSeq(<<b, c, d>>)
    BY TuplesAreSeqs
  <2> QED BY <1>1, <1>4, <2>1
<1>6. ASSUME NEW a, NEW b, NEW c, NEW d, NEW e
      PROVE  Cat(<<a, b, c, d, e>>, s) = Then(a, Then(b, Then(c, Then(d, Then(e, s)))))
  <2>1. <<a, b, c, d, e>> = Then(a, <<b, c, d, e>>) /\ IsSeq(<<b, c, d, e>>)
    BY TuplesAreSeqs
  <2> QED BY <1>1, <1>5, <2>1
<1> QED BY <1>2, <1>3, <1>4, <1>5, <1>6, Zenon

(* A loop before s: nothing at its end, else a turn and the rest of it.    *)
LEMMA Loop ==
    ASSUME NEW F, NEW j \in Nat, NEW n \in Nat, j <= n, \A k \in Nat : IsSeq(F[k]), NEW s, IsSeq(s)
    PROVE  /\ IsSeq(Cat(Run(F, j, n), s))
           /\ j = n => Cat(Run(F, j, n), s) = s
           /\ j < n => /\ Cat(Run(F, j, n), s) = Cat(F[j + 1], Cat(Run(F, j + 1, n), s))
                       /\ IsSeq(Cat(Run(F, j + 1, n), s))
<1>1. IsSeq(Cat(Run(F, j, n), s))
  BY RunIs, CatIs
<1>2. ASSUME j = n PROVE Cat(Run(F, j, n), s) = s
  <2>1. Run(F, n, n) = <<>>
    BY RunEnd
  <2> QED BY <1>2, <2>1, CatEmpty
<1>3. ASSUME j < n PROVE /\ Cat(Run(F, j, n), s) = Cat(F[j + 1], Cat(Run(F, j + 1, n), s))
                         /\ IsSeq(Cat(Run(F, j + 1, n), s))
  <2>1. j + 1 \in Nat /\ j + 1 <= n
    BY <1>3
  <2>2. IsSeq(Run(F, j + 1, n)) /\ IsSeq(F[j + 1])
    BY <2>1, RunIs
  <2>3. Run(F, j, n) = Cat(F[j + 1], Run(F, j + 1, n))
    BY <1>3, RunStep
  <2> QED BY <2>2, <2>3, CatIs, Assoc
<1> QED BY <1>1, <1>2, <1>3

(* What is left of the loops, one turn after the other.                    *)
LEMMA PartsSent ==
    ASSUME NEW c, NEW j \in Nat, NEW n \in Nat, j <= n, NEW s, IsSeq(s)
    PROVE  /\ IsSeq(Cat(Run(SentPart(c), j, n), s))
           /\ j = n => Cat(Run(SentPart(c), j, n), s) = s
           /\ j < n => Cat(Run(SentPart(c), j, n), s)
                       = Then(Tell("part", Copy(c.of, PartSize(c.len, j + 1))),
                              Then(Ack("PART_RECEIVED"), Cat(Run(SentPart(c), j + 1, n), s)))
<1> DEFINE F == SentPart(c)
<1>1. \A k \in Nat : F[k] = <<Tell("part", Copy(c.of, PartSize(c.len, k))), Ack("PART_RECEIVED")>>
  BY DEF SentPart
<1>2. \A k \in Nat : IsSeq(F[k])
  BY <1>1, TuplesAreSeqs
<1>3. F[j + 1] = <<Tell("part", Copy(c.of, PartSize(c.len, j + 1))), Ack("PART_RECEIVED")>>
  BY DEF SentPart
<1> HIDE DEF F
<1>4. /\ IsSeq(Cat(Run(F, j, n), s))
      /\ j = n => Cat(Run(F, j, n), s) = s
      /\ j < n => /\ Cat(Run(F, j, n), s) = Cat(F[j + 1], Cat(Run(F, j + 1, n), s))
                  /\ IsSeq(Cat(Run(F, j + 1, n), s))
  BY <1>2, Loop
<1> QED BY <1>3, <1>4, CatTuples DEF F

(* Parts that receive_file of the server reads.                            *)
LEMMA PartsRead ==
    ASSUME NEW f, NEW m, NEW j \in Nat, NEW n \in Nat, j <= n, NEW s, IsSeq(s)
    PROVE  /\ IsSeq(Cat(Run(ReadPart(f, m), j, n), s))
           /\ j = n => Cat(Run(ReadPart(f, m), j, n), s) = s
           /\ j < n => Cat(Run(ReadPart(f, m), j, n), s)
                       = Then(Hear("part", <<f, PartSize(m, j + 1)>>),
                              Then(Say("PART_RECEIVED"), Cat(Run(ReadPart(f, m), j + 1, n), s)))
<1> DEFINE F == ReadPart(f, m)
<1>1. \A k \in Nat : F[k] = <<Hear("part", <<f, PartSize(m, k)>>), Say("PART_RECEIVED")>>
  BY DEF ReadPart
<1>2. \A k \in Nat : IsSeq(F[k])
  BY <1>1, TuplesAreSeqs
<1>3. F[j + 1] = <<Hear("part", <<f, PartSize(m, j + 1)>>), Say("PART_RECEIVED")>>
  BY DEF ReadPart
<1> HIDE DEF F
<1>4. /\ IsSeq(Cat(Run(F, j, n), s))
      /\ j = n => Cat(Run(F, j, n), s) = s
      /\ j < n => /\ Cat(Run(F, j, n), s) = Cat(F[j + 1], Cat(Run(F, j + 1, n), s))
                  /\ IsSeq(Cat(Run(F, j + 1, n), s))
  BY <1>2, Loop
<1> QED BY <1>3, <1>4, CatTuples DEF F

(* Parts that get_file of the client reads.                                *)
LEMMA PartsGot ==
    ASSUME NEW m, NEW j \in Nat, NEW n \in Nat, j <= n, NEW s, IsSeq(s)
    PROVE  /\ IsSeq(Cat(Run(GotPart(m), j, n), s))
           /\ j = n => Cat(Run(GotPart(m), j, n), s) = s
           /\ j < n => Cat(Run(GotPart(m), j, n), s)
                       = Then(Hear("part", PartSize(m, j + 1)),
                              Then(Say("PART_RECEIVED"), Cat(Run(GotPart(m), j + 1, n), s)))
<1> DEFINE F == GotPart(m)
<1>1. \A k \in Nat : F[k] = <<Hear("part", PartSize(m, k)), Say("PART_RECEIVED")>>
  BY DEF GotPart
<1>2. \A k \in Nat : IsSeq(F[k])
  BY <1>1, TuplesAreSeqs
<1>3. F[j + 1] = <<Hear("part", PartSize(m, j + 1)), Say("PART_RECEIVED")>>
  BY DEF GotPart
<1> HIDE DEF F
<1>4. /\ IsSeq(Cat(Run(F, j, n), s))
      /\ j = n => Cat(Run(F, j, n), s) = s
      /\ j < n => /\ Cat(Run(F, j, n), s) = Cat(F[j + 1], Cat(Run(F, j + 1, n), s))
                  /\ IsSeq(Cat(Run(F, j + 1, n), s))
  BY <1>2, Loop
<1> QED BY <1>3, <1>4, CatTuples DEF F

(* Entries that listServer sends.                                          *)
LEMMA EntriesSent ==
    ASSUME NEW j \in Nat, NEW n \in Nat, j <= n, NEW s, IsSeq(s)
    PROVE  /\ IsSeq(Cat(Run(SentEntry, j, n), s))
           /\ j = n => Cat(Run(SentEntry, j, n), s) = s
           /\ j < n => Cat(Run(SentEntry, j, n), s)
                       = Then(Say("entry"), Then(Ack("FILENAME_ACK"), Then(Say("info"),
                              Then(Ack("FILE_OK"), Cat(Run(SentEntry, j + 1, n), s)))))
<1> DEFINE F == SentEntry
<1>1. \A k \in Nat : F[k] = <<Say("entry"), Ack("FILENAME_ACK"), Say("info"), Ack("FILE_OK")>>
  BY DEF SentEntry, ListedFile
<1>2. \A k \in Nat : IsSeq(F[k])
  BY <1>1, TuplesAreSeqs
<1>3. F[j + 1] = <<Say("entry"), Ack("FILENAME_ACK"), Say("info"), Ack("FILE_OK")>>
  BY DEF SentEntry, ListedFile
<1> HIDE DEF F
<1>4. /\ IsSeq(Cat(Run(F, j, n), s))
      /\ j = n => Cat(Run(F, j, n), s) = s
      /\ j < n => /\ Cat(Run(F, j, n), s) = Cat(F[j + 1], Cat(Run(F, j + 1, n), s))
                  /\ IsSeq(Cat(Run(F, j + 1, n), s))
  BY <1>2, Loop
<1> QED BY <1>3, <1>4, CatTuples DEF F

(* Entries that list_server of the client reads.                           *)
LEMMA EntriesRead ==
    ASSUME NEW j \in Nat, NEW n \in Nat, j <= n, NEW s, IsSeq(s)
    PROVE  /\ IsSeq(Cat(Run(ReadEntry, j, n), s))
           /\ j = n => Cat(Run(ReadEntry, j, n), s) = s
           /\ j < n => Cat(Run(ReadEntry, j, n), s)
                       = Then(Ack("entry"), Then(Say("FILENAME_ACK"), Then(Ack("info"),
                              Then(Say("FILE_OK"), Cat(Run(ReadEntry, j + 1, n), s)))))
<1> DEFINE F == ReadEntry
<1>1. \A k \in Nat : F[k] = <<Ack("entry"), Say("FILENAME_ACK"), Ack("info"), Say("FILE_OK")>>
  BY DEF ReadEntry
<1>2. \A k \in Nat : IsSeq(F[k])
  BY <1>1, TuplesAreSeqs
<1>3. F[j + 1] = <<Ack("entry"), Say("FILENAME_ACK"), Ack("info"), Say("FILE_OK")>>
  BY DEF ReadEntry
<1> HIDE DEF F
<1>4. /\ IsSeq(Cat(Run(F, j, n), s))
      /\ j = n => Cat(Run(F, j, n), s) = s
      /\ j < n => /\ Cat(Run(F, j, n), s) = Cat(F[j + 1], Cat(Run(F, j + 1, n), s))
                  /\ IsSeq(Cat(Run(F, j + 1, n), s))
  BY <1>2, Loop
<1> QED BY <1>3, <1>4, CatTuples DEF F

(* Records that sync_client reads.                                         *)
LEMMA RecordsRead ==
    ASSUME NEW j \in Nat, NEW n \in Nat, j <= n, NEW s, IsSeq(s)
    PROVE  /\ IsSeq(Cat(Run(ReadRecord, j, n), s))
           /\ j = n => Cat(Run(ReadRecord, j, n), s) = s
           /\ j < n => Cat(Run(ReadRecord, j, n), s)
                       = Then(Ack("record"), Cat(Run(ReadRecord, j + 1, n), s))
<1> DEFINE F == ReadRecord
<1>1. \A k \in Nat : F[k] = <<Ack("record")>>
  BY DEF ReadRecord
<1>2. \A k \in Nat : IsSeq(F[k])
  BY <1>1, TuplesAreSeqs
<1>3. F[j + 1] = <<Ack("record")>>
  BY DEF ReadRecord
<1> HIDE DEF F
<1>4. /\ IsSeq(Cat(Run(F, j, n), s))
      /\ j = n => Cat(Run(F, j, n), s) = s
      /\ j < n => /\ Cat(Run(F, j, n), s) = Cat(F[j + 1], Cat(Run(F, j + 1, n), s))
                  /\ IsSeq(Cat(Run(F, j + 1, n), s))
  BY <1>2, Loop
<1> QED BY <1>3, <1>4, CatTuples DEF F

(* Records that sync_server sends.                                         *)
LEMMA RecordsSent ==
    ASSUME NEW r, NEW j \in Nat, NEW n \in Nat, j <= n, NEW s, IsSeq(s)
    PROVE  /\ IsSeq(Cat(Run(SentRecord(r), j, n), s))
           /\ j = n => Cat(Run(SentRecord(r), j, n), s) = s
           /\ j < n => Cat(Run(SentRecord(r), j, n), s)
                       = Then(Tell("record", r[j + 1]), Then(Ack("GET_FILE_ACK"),
                              Then(Tell("mtime", r[j + 1]), Then(Ack("answer"),
                                   Cat(Run(SentRecord(r), j + 1, n), s)))))
<1> DEFINE F == SentRecord(r)
<1>1. \A k \in Nat : F[k] = <<Tell("record", r[k]), Ack("GET_FILE_ACK"), Tell("mtime", r[k]), Ack("answer")>>
  BY DEF SentRecord, SyncedFile
<1>2. ASSUME NEW k \in Nat PROVE IsSeq(F[k])
  <2> DEFINE a == Tell("record", r[k])
             b == Tell("mtime", r[k])
  <2>1. F[k] = <<a, Ack("GET_FILE_ACK"), b, Ack("answer")>>
    BY <1>1
  <2> HIDE DEF a, b, F
  <2> QED BY <2>1, TuplesAreSeqs
<1>3. F[j + 1] = <<Tell("record", r[j + 1]), Ack("GET_FILE_ACK"), Tell("mtime", r[j + 1]), Ack("answer")>>
  BY DEF SentRecord, SyncedFile
<1> HIDE DEF F
<1>4. /\ IsSeq(Cat(Run(F, j, n), s))
      /\ j = n => Cat(Run(F, j, n), s) = s
      /\ j < n => /\ Cat(Run(F, j, n), s) = Cat(F[j + 1], Cat(Run(F, j + 1, n), s))
                  /\ IsSeq(Cat(Run(F, j + 1, n), s))
  BY <1>2, Loop
<1> QED BY <1>3, <1>4, CatTuples DEF F

(* Bytes of a file of n in its first j parts.                              *)
Sofar(n, j) == IF j * Part < n THEN j * Part ELSE n

Rest == <<Step("rest", "sync", None)>>
Gone == <<Step("gone", "END", None)>>

(* What the client is still to do, before K, while it sends f ...          *)
PutTime(f, K) == Then(Tell("mtime", f), K)
PutEnd(f, c, K) == Then(Say("COMPLETE"), Then(Hear("COMPLETE_ACK", <<f, c>>), PutTime(f, K)))
PutParts(f, c, j, K) == Cat(Run(SentPart(c), j, Iterations(c.len)), PutEnd(f, c, K))
PutSize(f, c, K) == Then(Tell("size", c.len), Then(Ack("SIZE_ACK"), PutParts(f, c, 0, K)))
PutName(f, c, K) == Then(Tell("name", f), PutSize(f, c, K))
PutStart(f, c, K) == Then(Say("SEND_FILE"), Then(Ack("SEND_FILE_ACK"), PutName(f, c, K)))

(* ... or gets x, a file and its place ...                                 *)
GetEnd(x, K) == Then(Hear("COMPLETE", x), Then(Say("COMPLETE_ACK"), K))
GetParts(x, n, j, K) == Cat(Run(GotPart(n), j, Iterations(n)), GetEnd(x, K))
GetName(x, K) == Then(Tell("name", x[1]), Then(Hear("EXISTS", x), K))
GetStart(x, K) == Then(Say("GET_FILE"), Then(Ack("GET_FILE_ACK"), GetName(x, K)))

(* ... or does one of the others.                                          *)
LockAck(k) == IF k = "LOCK" THEN "LOCK_ACK" ELSE "UNLOCK_ACK"
HearLock == Then(Ack("answer"), <<>>)
NameLock(f) == Then(Tell("name", f), HearLock)
LockStart(k, f) == Then(Say(k), Then(Ack(LockAck(k)), NameLock(f)))
NameGone(f, K) == Then(Tell("name", f), K)
DeleteStart(f) == Then(Say("DELETE"), Then(Ack("DELETE_ACK"), NameGone(f, <<>>)))
SyncHear == Then(Hear("number", "sync"), <<>>)
SyncStart == Then(Say("SYNC"), SyncHear)
ListHear == Then(Hear("number", "list"), <<>>)
ListStart == Then(Say("LIST"), Then(Ack("LIST_ACK"), ListHear))
EndStart == Then(Say("END"), Gone)
LoginStart == Then(Say("user"), Then(Ack("LOGIN_OK"), SyncStart))

(* What the leader is still to do, before L, while it receives f ...       *)
ReadTime(f, L) == Then(Hear("mtime", f), L)
ReadEnd(f, L) == Then(Ack("COMPLETE"), Then(Say("COMPLETE_ACK"), ReadTime(f, L)))
ReadParts(f, n, j, L) == Cat(Run(ReadPart(f, n), j, Iterations(n)), ReadEnd(f, L))

(* ... or gives a copy c of it.                                            *)
GiveEnd(L) == Then(Say("COMPLETE"), Then(Ack("COMPLETE_ACK"), L))
GiveParts(c, j, L) == Cat(Run(SentPart(c), j, Iterations(c.len)), GiveEnd(L))
GiveSize(c, L) == Then(Tell("size", c.len), Then(Ack("SIZE_ACK"), GiveParts(c, 0, L)))
GiveBody(c, L) == IF c = Missing THEN L ELSE GiveSize(c, L)

(* The scripts of Protocol are these.                                      *)
LEMMA LastSeqs == IsSeq(<<>>) /\ IsSeq(Rest) /\ IsSeq(Gone)
BY EmptyIsSeq, OneIsSeq DEF Rest, Gone

(* The number of parts of a file is a number.                              *)
LEMMA IterationsIs == \A n \in Nat : Iterations(n) \in Nat
BY ProtocolAssumption DEF Iterations

(* send_file of the client is a sequence at every point, and goes from part*)
(* to part.                                                                *)
LEMMA PutIs ==
    ASSUME NEW f, NEW c, c.len \in Nat, NEW j \in Nat, j <= Iterations(c.len), NEW K, IsSeq(K)
    PROVE  /\ IsSeq(PutTime(f, K)) /\ IsSeq(PutEnd(f, c, K)) /\ IsSeq(PutParts(f, c, j, K))
           /\ IsSeq(PutSize(f, c, K)) /\ IsSeq(PutName(f, c, K)) /\ IsSeq(PutStart(f, c, K))
           /\ j = Iterations(c.len) => PutParts(f, c, j, K) = PutEnd(f, c, K)
           /\ j < Iterations(c.len) =>
                 PutParts(f, c, j, K) = Then(Tell("part", Copy(c.of, PartSize(c.len, j + 1))),
                                             Then(Ack("PART_RECEIVED"), PutParts(f, c, j + 1, K)))
<1>1. ASSUME NEW a, NEW s, IsSeq(s) PROVE IsSeq(Then(a, s))
  BY <1>1, ThenIs
<1>2. Iterations(c.len) \in Nat
  BY IterationsIs
<1>3. IsSeq(PutTime(f, K)) /\ IsSeq(PutEnd(f, c, K))
  BY <1>1 DEF PutTime, PutEnd
<1>4. /\ IsSeq(PutParts(f, c, j, K))
      /\ j = Iterations(c.len) => PutParts(f, c, j, K) = PutEnd(f, c, K)
      /\ j < Iterations(c.len) =>
                 PutParts(f, c, j, K) = Then(Tell("part", Copy(c.of, PartSize(c.len, j + 1))),
                                             Then(Ack("PART_RECEIVED"), PutParts(f, c, j + 1, K)))
  BY <1>2, <1>3, PartsSent DEF PutParts
<1>5. IsSeq(PutParts(f, c, 0, K))
  BY <1>2, <1>3, PartsSent DEF PutParts
<1>6. IsSeq(PutSize(f, c, K)) /\ IsSeq(PutName(f, c, K)) /\ IsSeq(PutStart(f, c, K))
  BY <1>1, <1>5 DEF PutSize, PutName, PutStart
<1> QED BY <1>3, <1>4, <1>6

(* So does get_file of the client ...                                      *)
LEMMA GetIs ==
    ASSUME NEW x, NEW n \in Nat, NEW j \in Nat, j <= Iterations(n), NEW K, IsSeq(K)
    PROVE  /\ IsSeq(GetEnd(x, K)) /\ IsSeq(GetParts(x, n, j, K))
           /\ IsSeq(GetName(x, K)) /\ IsSeq(GetStart(x, K))
           /\ j = Iterations(n) => GetParts(x, n, j, K) = GetEnd(x, K)
           /\ j < Iterations(n) =>
                 GetParts(x, n, j, K) = Then(Hear("part", PartSize(n, j + 1)),
                                             Then(Say("PART_RECEIVED"), GetParts(x, n, j + 1, K)))
<1>1. ASSUME NEW a, NEW s, IsSeq(s) PROVE IsSeq(Then(a, s))
  BY <1>1, ThenIs
<1>2. Iterations(n) \in Nat
  BY IterationsIs
<1>3. IsSeq(GetEnd(x, K)) /\ IsSeq(GetName(x, K)) /\ IsSeq(GetStart(x, K))
  BY <1>1 DEF GetEnd, GetName, GetStart
<1>4. /\ IsSeq(GetParts(x, n, j, K))
      /\ j = Iterations(n) => GetParts(x, n, j, K) = GetEnd(x, K)
      /\ j < Iterations(n) =>
                 GetParts(x, n, j, K) = Then(Hear("part", PartSize(n, j + 1)),
                                             Then(Say("PART_RECEIVED"), GetParts(x, n, j + 1, K)))
  BY <1>2, <1>3, PartsGot DEF GetParts
<1> QED BY <1>3, <1>4

(* ... receive_file of the server ...                                      *)
LEMMA ReadIs ==
    ASSUME NEW f, NEW n \in Nat, NEW j \in Nat, j <= Iterations(n), NEW L, IsSeq(L)
    PROVE  /\ IsSeq(ReadTime(f, L)) /\ IsSeq(ReadEnd(f, L)) /\ IsSeq(ReadParts(f, n, j, L))
           /\ j = Iterations(n) => ReadParts(f, n, j, L) = ReadEnd(f, L)
           /\ j < Iterations(n) =>
                 ReadParts(f, n, j, L) = Then(Hear("part", <<f, PartSize(n, j + 1)>>),
                                              Then(Say("PART_RECEIVED"), ReadParts(f, n, j + 1, L)))
<1>1. ASSUME NEW a, NEW s, IsSeq(s) PROVE IsSeq(Then(a, s))
  BY <1>1, ThenIs
<1>2. Iterations(n) \in Nat
  BY IterationsIs
<1>3. IsSeq(ReadTime(f, L)) /\ IsSeq(ReadEnd(f, L))
  BY <1>1 DEF ReadTime, ReadEnd
<1>4. /\ IsSeq(ReadParts(f, n, j, L))
      /\ j = Iterations(n) => ReadParts(f, n, j, L) = ReadEnd(f, L)
      /\ j < Iterations(n) =>
                 ReadParts(f, n, j, L) = Then(Hear("part", <<f, PartSize(n, j + 1)>>),
                                              Then(Say("PART_RECEIVED"), ReadParts(f, n, j + 1, L)))
  BY <1>2, <1>3, PartsRead DEF ReadParts
<1> QED BY <1>3, <1>4

(* ... and send_file of the server.                                        *)
LEMMA GiveIs ==
    ASSUME NEW c, c.len \in Nat, NEW j \in Nat, j <= Iterations(c.len), NEW L, IsSeq(L)
    PROVE  /\ IsSeq(GiveEnd(L)) /\ IsSeq(GiveParts(c, j, L)) /\ IsSeq(GiveSize(c, L))
           /\ j = Iterations(c.len) => GiveParts(c, j, L) = GiveEnd(L)
           /\ j < Iterations(c.len) =>
                 GiveParts(c, j, L) = Then(Tell("part", Copy(c.of, PartSize(c.len, j + 1))),
                                           Then(Ack("PART_RECEIVED"), GiveParts(c, j + 1, L)))
<1>1. ASSUME NEW a, NEW s, IsSeq(s) PROVE IsSeq(Then(a, s))
  BY <1>1, ThenIs
<1>2. Iterations(c.len) \in Nat
  BY IterationsIs
<1>3. IsSeq(GiveEnd(L))
  BY <1>1 DEF GiveEnd
<1>4. /\ IsSeq(GiveParts(c, j, L))
      /\ j = Iterations(c.len) => GiveParts(c, j, L) = GiveEnd(L)
      /\ j < Iterations(c.len) =>
                 GiveParts(c, j, L) = Then(Tell("part", Copy(c.of, PartSize(c.len, j + 1))),
                                           Then(Ack("PART_RECEIVED"), GiveParts(c, j + 1, L)))
  BY <1>2, <1>3, PartsSent DEF GiveParts
<1>5. IsSeq(GiveParts(c, 0, L))
  BY <1>2, <1>3, PartsSent DEF GiveParts
<1>6. IsSeq(GiveSize(c, L))
  BY <1>1, <1>5 DEF GiveSize
<1> QED BY <1>3, <1>4, <1>6

(* The short commands are sequences.                                       *)
LEMMA OthersAre ==
    /\ IsSeq(HearLock) /\ IsSeq(SyncHear) /\ IsSeq(SyncStart) /\ IsSeq(ListHear) /\ IsSeq(ListStart)
    /\ IsSeq(EndStart) /\ IsSeq(LoginStart)
    /\ \A f : IsSeq(NameLock(f)) /\ IsSeq(DeleteStart(f)) /\ \A k : IsSeq(LockStart(k, f))
    /\ \A f, K : IsSeq(K) => IsSeq(NameGone(f, K))
<1>1. ASSUME NEW a, NEW s, IsSeq(s) PROVE IsSeq(Then(a, s))
  BY <1>1, ThenIs
<1>2. IsSeq(<<>>) /\ IsSeq(Gone)
  BY LastSeqs
<1>3. IsSeq(HearLock) /\ IsSeq(SyncHear) /\ IsSeq(ListHear) /\ IsSeq(EndStart)
  BY <1>1, <1>2 DEF HearLock, SyncHear, ListHear, EndStart
<1>4. IsSeq(SyncStart) /\ IsSeq(ListStart)
  BY <1>1, <1>3 DEF SyncStart, ListStart
<1>5. IsSeq(LoginStart)
  BY <1>1, <1>4 DEF LoginStart
<1>6. ASSUME NEW f, NEW K, IsSeq(K) PROVE IsSeq(NameGone(f, K))
  BY <1>1, <1>6 DEF NameGone
<1>7. ASSUME NEW f PROVE IsSeq(NameLock(f)) /\ IsSeq(DeleteStart(f)) /\ \A k : IsSeq(LockStart(k, f))
  <2>1. IsSeq(NameLock(f))
    BY <1>1, <1>3 DEF NameLock
  <2>2. IsSeq(DeleteStart(f))
    BY <1>1, <1>2, <1>6 DEF DeleteStart
  <2>3. \A k : IsSeq(LockStart(k, f))
    BY <1>1, <2>1 DEF LockStart
  <2> QED BY <2>1, <2>2, <2>3
<1> QED BY <1>3, <1>4, <1>5, <1>6, <1>7

(* All the turns of a loop.                                                *)
LEMMA SliceAll ==
    ASSUME NEW F, NEW n \in Nat
    PROVE  Slice(F, 0, n) = [k \in 1 .. n |-> F[k]]
BY DEF Slice

(* Any function that gives these turns is the loop.                        *)
LEMMA SliceIs ==
    ASSUME NEW F, NEW n \in Nat, NEW G, G = [k \in 1 .. n |-> G[k]], \A k \in 1 .. n : G[k] = F[k]
    PROVE  Slice(F, 0, n) = G
BY DEF Slice

(* SendFile of Protocol is the script that begins an upload.               *)
LEMMA SendFileIs ==
    ASSUME NEW f, NEW c, c.len \in Nat, NEW K, IsSeq(K)
    PROVE  IsSeq(SendFile(f, c)) /\ Cat(SendFile(f, c), K) = PutStart(f, c, K)
<1> DEFINE n == Iterations(c.len)
           A == <<Say("SEND_FILE"), Ack("SEND_FILE_ACK"), Tell("name", f), Tell("size", c.len), Ack("SIZE_ACK")>>
           R == Run(SentPart(c), 0, n)
           B == <<Say("COMPLETE"), Hear("COMPLETE_ACK", <<f, c>>), Tell("mtime", f)>>
<1>1. n \in Nat
  BY IterationsIs
<1>2. Slice(SentPart(c), 0, n)
      = [k \in 1 .. n |-> <<Tell("part", Copy(c.of, PartSize(c.len, k))), Ack("PART_RECEIVED")>>]
  <2> DEFINE G == [k \in 1 .. n |-> <<Tell("part", Copy(c.of, PartSize(c.len, k))), Ack("PART_RECEIVED")>>]
  <2>1. \A k \in 1 .. n : SentPart(c)[k] = <<Tell("part", Copy(c.of, PartSize(c.len, k))), Ack("PART_RECEIVED")>>
    BY DEF SentPart
  <2>2. G = [k \in 1 .. n |-> G[k]] /\ \A k \in 1 .. n : G[k] = SentPart(c)[k]
    BY <2>1
  <2> HIDE DEF G, n
  <2>3. Slice(SentPart(c), 0, n) = G
    BY <1>1, <2>2, SliceIs
  <2> QED BY <2>3 DEF G
<1>3. SendFile(f, c) = (A \o R) \o B
  BY <1>2 DEF SendFile, Parts, Run
<1>4. IsSeq(A) /\ IsSeq(B)
  BY TuplesAreSeqs
<1>5. IsSeq(R)
  <2>1. IsSeq(Cat(R, <<>>)) /\ \A k \in Nat : IsSeq(SentPart(c)[k])
    BY <1>1, PartsSent, EmptyIsSeq, TuplesAreSeqs DEF SentPart
  <2> QED BY <1>1, <2>1, RunIs
<1> DEFINE S == Cat(B, K)
<1>6. S = PutEnd(f, c, K)
  BY CatTuples DEF PutEnd, PutTime
<1>7. Cat(A, Cat(R, S)) = PutStart(f, c, K)
  <2>1. IsSeq(Cat(R, S))
    BY <1>4, <1>5, CatIs
  <2>2. Cat(R, S) = PutParts(f, c, 0, K)
    BY <1>6 DEF PutParts
  <2> HIDE DEF R, S
  <2> QED BY <2>1, <2>2, CatTuples DEF PutStart, PutName, PutSize
<1> HIDE DEF A, R, B, n
<1>8. Cat(Cat(Cat(A, R), B), K) = Cat(A, Cat(R, S)) /\ IsSeq(Cat(Cat(A, R), B))
  BY <1>4, <1>5, CatIs, Assoc
<1>9. SendFile(f, c) = Cat(Cat(A, R), B)
  BY <1>3 DEF Cat
<1> QED BY <1>7, <1>8, <1>9

(* GetFile of Protocol is the script that begins a download.               *)
LEMMA GetFileIs ==
    ASSUME NEW f, NEW place, NEW K, IsSeq(K)
    PROVE  IsSeq(GetFile(f, place)) /\ Cat(GetFile(f, place), K) = GetStart(<<f, place>>, K)
<1> DEFINE x == <<f, place>>
<1>1. x[1] = f
  OBVIOUS
<1>2. GetFile(f, place) = <<Say("GET_FILE"), Ack("GET_FILE_ACK"), Tell("name", f), Hear("EXISTS", x)>>
  BY DEF GetFile
<1> HIDE DEF x
<1>3. GetStart(x, K) = Then(Say("GET_FILE"), Then(Ack("GET_FILE_ACK"), Then(Tell("name", f), Then(Hear("EXISTS", x), K))))
  BY <1>1 DEF GetStart, GetName
<1>4. IsSeq(GetFile(f, place)) /\ Cat(GetFile(f, place), K) = GetStart(x, K)
  BY <1>2, <1>3, CatTuples, TuplesAreSeqs
<1> QED BY <1>4 DEF x

(* What the server does to send a file, when it has it.                    *)
LEMMA SendFileBodyIs ==
    ASSUME NEW c, c # Missing => c.len \in Nat, NEW L, IsSeq(L)
    PROVE  IsSeq(SendFileBody(c)) /\ Cat(SendFileBody(c), L) = GiveBody(c, L)
<1>1. CASE c = Missing
  BY <1>1, EmptyIsSeq, CatEmpty DEF SendFileBody, GiveBody
<1>2. CASE c # Missing
  <2> DEFINE n == Iterations(c.len)
             A == <<Tell("size", c.len), Ack("SIZE_ACK")>>
             R == Run(SentPart(c), 0, n)
             B == <<Say("COMPLETE"), Ack("COMPLETE_ACK")>>
  <2>1. n \in Nat
    BY <1>2, IterationsIs
  <2>2. Slice(SentPart(c), 0, n)
        = [k \in 1 .. n |-> <<Tell("part", Copy(c.of, PartSize(c.len, k))), Ack("PART_RECEIVED")>>]
    <3> DEFINE G == [k \in 1 .. n |-> <<Tell("part", Copy(c.of, PartSize(c.len, k))), Ack("PART_RECEIVED")>>]
    <3>1. \A k \in 1 .. n : SentPart(c)[k] = <<Tell("part", Copy(c.of, PartSize(c.len, k))), Ack("PART_RECEIVED")>>
      BY DEF SentPart
    <3>2. G = [k \in 1 .. n |-> G[k]] /\ \A k \in 1 .. n : G[k] = SentPart(c)[k]
      BY <3>1
    <3> HIDE DEF G, n
    <3>3. Slice(SentPart(c), 0, n) = G
      BY <2>1, <3>2, SliceIs
    <3> QED BY <3>3 DEF G
  <2>3. SendFileBody(c) = (A \o R) \o B
    BY <1>2, <2>2 DEF SendFileBody, Parts, Run
  <2>4. IsSeq(A) /\ IsSeq(B)
    BY TuplesAreSeqs
  <2>5. IsSeq(R)
    <3>1. \A k \in Nat : IsSeq(SentPart(c)[k])
      BY TuplesAreSeqs DEF SentPart
    <3> QED BY <2>1, <3>1, RunIs
  <2> DEFINE S == Cat(B, L)
  <2>6. S = GiveEnd(L)
    BY CatTuples DEF GiveEnd
  <2>7. Cat(A, Cat(R, S)) = GiveSize(c, L)
    <3>1. IsSeq(Cat(R, S))
      BY <2>4, <2>5, CatIs
    <3>2. Cat(R, S) = GiveParts(c, 0, L)
      BY <2>6 DEF GiveParts
    <3> HIDE DEF R, S
    <3> QED BY <3>1, <3>2, CatTuples DEF GiveSize
  <2> HIDE DEF A, R, B, n
  <2>8. Cat(Cat(Cat(A, R), B), L) = Cat(A, Cat(R, S)) /\ IsSeq(Cat(Cat(A, R), B))
    BY <2>4, <2>5, CatIs, Assoc
  <2>9. SendFileBody(c) = Cat(Cat(A, R), B)
    BY <2>3 DEF Cat
  <2> QED BY <1>2, <2>7, <2>8, <2>9 DEF GiveBody
<1> QED BY <1>1, <1>2

(* What the server does once it has the size of a file.                    *)
LEMMA ReceiveFileBodyIs ==
    ASSUME NEW f, NEW m \in Nat, NEW L, IsSeq(L)
    PROVE  /\ IsSeq(ReceiveFileBody(f, m))
           /\ Cat(ReceiveFileBody(f, m), L) = Then(Say("SIZE_ACK"), ReadParts(f, m, 0, L))
<1> DEFINE n == Iterations(m)
           A == <<Say("SIZE_ACK")>>
           R == Run(ReadPart(f, m), 0, n)
           B == <<Ack("COMPLETE"), Say("COMPLETE_ACK"), Hear("mtime", f)>>
<1>1. n \in Nat
  BY IterationsIs
<1>2. Slice(ReadPart(f, m), 0, n)
      = [k \in 1 .. n |-> <<Hear("part", <<f, PartSize(m, k)>>), Say("PART_RECEIVED")>>]
  <2> DEFINE G == [k \in 1 .. n |-> <<Hear("part", <<f, PartSize(m, k)>>), Say("PART_RECEIVED")>>]
  <2>1. \A k \in 1 .. n : ReadPart(f, m)[k] = <<Hear("part", <<f, PartSize(m, k)>>), Say("PART_RECEIVED")>>
    BY DEF ReadPart
  <2>2. G = [k \in 1 .. n |-> G[k]] /\ \A k \in 1 .. n : G[k] = ReadPart(f, m)[k]
    BY <2>1
  <2> HIDE DEF G, n
  <2>3. Slice(ReadPart(f, m), 0, n) = G
    BY <1>1, <2>2, SliceIs
  <2> QED BY <2>3 DEF G
<1>3. ReceiveFileBody(f, m) = (A \o R) \o B
  BY <1>2 DEF ReceiveFileBody, Parts, Run
<1>4. IsSeq(A) /\ IsSeq(B)
  BY TuplesAreSeqs
<1>5. IsSeq(R)
  <2>1. \A k \in Nat : IsSeq(ReadPart(f, m)[k])
    BY TuplesAreSeqs DEF ReadPart
  <2> QED BY <1>1, <2>1, RunIs
<1> DEFINE S == Cat(B, L)
<1>6. S = ReadEnd(f, L)
  BY CatTuples DEF ReadEnd, ReadTime
<1>7. Cat(A, Cat(R, S)) = Then(Say("SIZE_ACK"), ReadParts(f, m, 0, L))
  <2>1. IsSeq(Cat(R, S))
    BY <1>4, <1>5, CatIs
  <2>2. Cat(R, S) = ReadParts(f, m, 0, L)
    BY <1>6 DEF ReadParts
  <2> HIDE DEF R, S
  <2> QED BY <2>1, <2>2, CatTuples
<1> HIDE DEF A, R, B, n
<1>8. Cat(Cat(Cat(A, R), B), L) = Cat(A, Cat(R, S)) /\ IsSeq(Cat(Cat(A, R), B))
  BY <1>4, <1>5, CatIs, Assoc
<1>9. ReceiveFileBody(f, m) = Cat(Cat(A, R), B)
  BY <1>3 DEF Cat
<1> QED BY <1>7, <1>8, <1>9

(* What the client does once it has the size of a file.                    *)
LEMMA GetFileBodyIs ==
    ASSUME NEW f, NEW place, NEW m \in Nat, NEW K, IsSeq(K)
    PROVE  /\ IsSeq(GetFileBody(f, place, m))
           /\ Cat(GetFileBody(f, place, m), K) = Then(Say("SIZE_ACK"), GetParts(<<f, place>>, m, 0, K))
<1> DEFINE n == Iterations(m)
           A == <<Say("SIZE_ACK")>>
           R == Run(GotPart(m), 0, n)
           x == <<f, place>>
           B == <<Hear("COMPLETE", x), Say("COMPLETE_ACK")>>
<1>1. n \in Nat
  BY IterationsIs
<1>2. Slice(GotPart(m), 0, n)
      = [k \in 1 .. n |-> <<Hear("part", PartSize(m, k)), Say("PART_RECEIVED")>>]
  <2> DEFINE G == [k \in 1 .. n |-> <<Hear("part", PartSize(m, k)), Say("PART_RECEIVED")>>]
  <2>1. \A k \in 1 .. n : GotPart(m)[k] = <<Hear("part", PartSize(m, k)), Say("PART_RECEIVED")>>
    BY DEF GotPart
  <2>2. G = [k \in 1 .. n |-> G[k]] /\ \A k \in 1 .. n : G[k] = GotPart(m)[k]
    BY <2>1
  <2> HIDE DEF G, n
  <2>3. Slice(GotPart(m), 0, n) = G
    BY <1>1, <2>2, SliceIs
  <2> QED BY <2>3 DEF G
<1>3. GetFileBody(f, place, m) = (A \o R) \o B
  BY <1>2 DEF GetFileBody, Parts, Run
<1>4. IsSeq(A) /\ IsSeq(B)
  BY TuplesAreSeqs
<1>5. IsSeq(R)
  <2>1. \A k \in Nat : IsSeq(GotPart(m)[k])
    BY TuplesAreSeqs DEF GotPart
  <2> QED BY <1>1, <2>1, RunIs
<1> DEFINE S == Cat(B, K)
<1>6. S = GetEnd(x, K)
  <2> HIDE DEF x
  <2> QED BY CatTuples DEF GetEnd
<1>7. Cat(A, Cat(R, S)) = Then(Say("SIZE_ACK"), GetParts(x, m, 0, K))
  <2>1. IsSeq(Cat(R, S))
    BY <1>4, <1>5, CatIs
  <2>2. Cat(R, S) = GetParts(x, m, 0, K)
    BY <1>6 DEF GetParts
  <2> HIDE DEF R, S, x
  <2> QED BY <2>1, <2>2, CatTuples
<1> HIDE DEF A, R, B, n
<1>8. Cat(Cat(Cat(A, R), B), K) = Cat(A, Cat(R, S)) /\ IsSeq(Cat(Cat(A, R), B))
  BY <1>4, <1>5, CatIs, Assoc
<1>9. GetFileBody(f, place, m) = Cat(Cat(A, R), B)
  BY <1>3 DEF Cat
<1> QED BY <1>7, <1>8, <1>9

(* Times of Protocol repeats one turn.                                     *)
LEMMA TimesIs ==
    ASSUME NEW n \in Nat, NEW F, NEW s, \A k \in Nat : F[k] = s
    PROVE  Times(n, s) = Run(F, 0, n)
<1>1. Slice(F, 0, n) = [k \in 1 .. n |-> s]
  BY SliceAll
<1> QED BY <1>1 DEF Times, Run

(* The loops over entries and records that Times makes.                    *)
LEMMA ListsAre ==
    ASSUME NEW n \in Nat
    PROVE  /\ Times(n, ListedFile) = Run(SentEntry, 0, n) /\ IsSeq(Run(SentEntry, 0, n))
           /\ Times(n, <<Ack("entry"), Say("FILENAME_ACK"), Ack("info"), Say("FILE_OK")>>) = Run(ReadEntry, 0, n)
           /\ IsSeq(Run(ReadEntry, 0, n))
           /\ Times(n, <<Ack("record")>>) = Run(ReadRecord, 0, n) /\ IsSeq(Run(ReadRecord, 0, n))
<1>1. \A k \in Nat : SentEntry[k] = ListedFile /\ IsSeq(SentEntry[k])
  BY TuplesAreSeqs DEF SentEntry, ListedFile
<1> DEFINE e == <<Ack("entry"), Say("FILENAME_ACK"), Ack("info"), Say("FILE_OK")>>
           a == <<Ack("record")>>
<1>2. \A k \in Nat : ReadEntry[k] = e /\ IsSeq(ReadEntry[k])
  BY TuplesAreSeqs DEF ReadEntry
<1>3. \A k \in Nat : ReadRecord[k] = a /\ IsSeq(ReadRecord[k])
  BY TuplesAreSeqs DEF ReadRecord
<1> HIDE DEF e, a
<1>4. Times(n, ListedFile) = Run(SentEntry, 0, n) /\ IsSeq(Run(SentEntry, 0, n))
  BY <1>1, TimesIs, RunIs
<1>5. Times(n, e) = Run(ReadEntry, 0, n) /\ IsSeq(Run(ReadEntry, 0, n))
  BY <1>2, TimesIs, RunIs
<1>6. Times(n, a) = Run(ReadRecord, 0, n) /\ IsSeq(Run(ReadRecord, 0, n))
  BY <1>3, TimesIs, RunIs
<1> QED BY <1>4, <1>5, <1>6 DEF e, a

(* sync_server tells the number of its records, then each.                 *)
LEMMA SyncServerIs ==
    ASSUME NEW r, IsSeq(r)
    PROVE  /\ IsSeq(Run(SentRecord(r), 0, Len(r)))
           /\ SyncServer(r) = Then(Tell("number", Len(r)), Then(Ack("NUMBER_ACK"), Run(SentRecord(r), 0, Len(r))))
<1>1. Len(r) \in Nat /\ DOMAIN r = 1 .. Len(r)
  BY SeqFacts
<1> DEFINE F == SentRecord(r)
<1>2. \A k \in Nat : F[k] = SyncedFile(r[k])
  BY DEF SentRecord
<1>3. ASSUME NEW k \in Nat PROVE IsSeq(F[k])
  <2> DEFINE a == Tell("record", r[k])
             b == Tell("mtime", r[k])
  <2>1. F[k] = <<a, Ack("GET_FILE_ACK"), b, Ack("answer")>>
    BY <1>2 DEF SyncedFile
  <2> HIDE DEF a, b, F
  <2> QED BY <2>1, TuplesAreSeqs
<1>4. Slice(F, 0, Len(r)) = [k \in DOMAIN r |-> SyncedFile(r[k])]
  <2> HIDE DEF F
  <2>1. Slice(F, 0, Len(r)) = [k \in 1 .. Len(r) |-> F[k]]
    BY <1>1, SliceAll
  <2> QED BY <1>1, <1>2, <2>1
<1>5. IsSeq(Run(F, 0, Len(r)))
  <2> HIDE DEF F
  <2> QED BY <1>1, <1>3, RunIs
<1> DEFINE A == <<Tell("number", Len(r)), Ack("NUMBER_ACK")>>
<1>6. SyncServer(r) = A \o Run(F, 0, Len(r))
  BY <1>4 DEF SyncServer, Run
<1>7. SyncServer(r) = Cat(A, Run(F, 0, Len(r)))
  BY <1>6 DEF Cat
<1> HIDE DEF F
<1> QED BY <1>5, <1>7, CatTuples DEF F

(* The parts add up: none of a file, all of it, and one part more.         *)
LEMMA SofarIs ==
    ASSUME NEW n \in Nat, NEW j \in Nat, j <= Iterations(n)
    PROVE  /\ Sofar(n, 0) = 0 /\ Sofar(n, Iterations(n)) = n
           /\ Sofar(n, j) \in 0 .. n
           /\ j < Iterations(n) => /\ PartSize(n, j + 1) \in 1 .. n
                                   /\ Sofar(n, j + 1) = Sofar(n, j) + PartSize(n, j + 1)
<1> DEFINE q == n \div Part
           r == n % Part
<1>1. Part \in Nat /\ Part > 0
  BY ProtocolAssumption
<1>2. q \in Nat /\ r \in 0 .. Part - 1 /\ n = q * Part + r
  BY <1>1
<1>3. /\ r > 0 => Iterations(n) = q + 1
      /\ r = 0 => Iterations(n) = q
  BY <1>1, <1>2 DEF Iterations
<1> HIDE DEF q, r
<1>4. ASSUME NEW i \in Nat, i <= q PROVE i * Part <= q * Part /\ i * Part \in Nat
  <2>1. \A a, b, c \in Nat : a <= b => a * c <= b * c /\ a * c \in Nat
    OBVIOUS
  <2> QED BY <1>1, <1>2, <1>4, <2>1
<1>5. ASSUME NEW i \in Nat, i > q PROVE i * Part >= (q + 1) * Part /\ i * Part \in Nat
  <2>1. \A a, b, c \in Nat : a <= b => a * c <= b * c /\ b * c \in Nat
    OBVIOUS
  <2> QED BY <1>1, <1>2, <1>5, <2>1
<1>6. (q + 1) * Part = q * Part + Part /\ (j + 1) * Part = j * Part + Part /\ q * Part \in Nat /\ j * Part \in Nat
  BY <1>1, <1>2
<1>7. 0 * Part = 0
  BY <1>1
<1>8. Sofar(n, 0) = 0
  BY <1>7 DEF Sofar
<1>9. Sofar(n, Iterations(n)) = n
  BY <1>1, <1>2, <1>3, <1>6 DEF Sofar
<1>10. Sofar(n, j) \in 0 .. n
  BY <1>6 DEF Sofar
<1>11. ASSUME j < Iterations(n)
       PROVE  /\ PartSize(n, j + 1) \in 1 .. n
              /\ Sofar(n, j + 1) = Sofar(n, j) + PartSize(n, j + 1)
  <2>1. j <= q
    BY <1>2, <1>3, <1>11
  <2>2. j * Part < n
    <3>1. CASE r > 0
      BY <1>2, <1>4, <1>6, <2>1, <3>1
    <3>2. CASE r = 0
      <4>1. j + 1 <= q
        BY <1>2, <1>3, <1>11, <3>2
      <4>2. (j + 1) * Part <= q * Part
        BY <1>4, <4>1
      <4> QED BY <1>1, <1>2, <1>6, <3>2, <4>2
    <3> QED BY <1>2, <3>1, <3>2
  <2>3. (j + 1) - 1 = j
    OBVIOUS
  <2> DEFINE d == j * Part
  <2>4. PartSize(n, j + 1) = IF n - d > Part THEN Part ELSE n - d
    BY <2>3 DEF PartSize
  <2>5. Sofar(n, j) = d /\ Sofar(n, j + 1) = IF d + Part < n THEN d + Part ELSE n
    BY <1>6, <2>2 DEF Sofar
  <2>6. d \in Nat /\ d < n
    BY <1>6, <2>2
  <2> HIDE DEF d
  <2> QED BY <1>1, <2>4, <2>5, <2>6
<1> QED BY <1>8, <1>9, <1>10, <1>11

(* A whole copy of a file, and what there is of it part by part.           *)
LEMMA CopiesAre ==
    ASSUME NEW f \in Files, NEW c \in Copies(f), c # Missing
    PROVE  /\ c.len \in Nat /\ Copy(c.of, c.len) = c
           /\ \A n \in 1 .. c.len : Copy(c.of, n).of = c.of
           /\ \A n \in 0 .. c.len : Copy(c.of, n) \in KnownCopies
           /\ c \in KnownCopies
<1>1. PICK v \in Versions[f] : c = Whole(v)
  BY DEF Copies
<1>2. v \in Contents /\ Size[v] \in Nat
  BY ProtocolAssumption
<1>3. c.len = Size[v] /\ c.of = IF Size[v] = 0 THEN None ELSE v
  BY <1>1 DEF Whole, Copy
<1>4. Copy(c.of, c.len) = c
  BY <1>1, <1>3 DEF Whole, Copy
<1>5. \A n \in 1 .. c.len : Copy(c.of, n).of = c.of
  BY DEF Copy
<1>6. ASSUME NEW n \in 0 .. c.len PROVE Copy(c.of, n) \in KnownCopies
  <2>1. CASE Size[v] = 0
    <3>1. n = 0
      BY <1>3, <2>1
    <3>2. Copy(c.of, n) = Copy(None, 0)
      BY <3>1 DEF Copy
    <3> QED BY <3>2 DEF KnownCopies
  <2>2. CASE Size[v] # 0
    BY <1>2, <1>3, <2>2 DEF KnownCopies
  <2> QED BY <2>1, <2>2
<1>7. c \in KnownCopies
  BY <1>2, <1>3, <1>4, <1>6
<1> QED BY <1>2, <1>3, <1>4, <1>5, <1>6, <1>7

(* A file that is not there is none of the copies, not even an empty one.  *)
LEMMA MissingIs ==
    /\ Missing.len = -1 /\ Missing \in KnownCopies /\ Copy(None, 0) \in KnownCopies
    /\ \A c, n : Copy(c, n).len = n
    /\ \A c, d : Copy(c, 0) = Copy(d, 0)
    /\ \A c, n : n \in Nat => Copy(c, n) # Missing
BY DEF Missing, KnownCopies, Copy
===============================================================================
