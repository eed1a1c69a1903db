----------------------------- MODULE Recursion -----------------------------
(***************************************************************************)
(* Induction over the natural numbers, and functions defined by recursion  *)
(* on them, for the proofs about the other modules.                        *)
(*                                                                         *)
(* Induction is done over sets: the set of the numbers that have a         *)
(* property holds 0 and is closed under successor, so it is Nat.           *)
(*                                                                         *)
(* The end of the module has what these give for lists.                    *)
(***************************************************************************)
EXTENDS Lists, Integers, Sequences, SequencesExt, TLAPS, WellFoundedInduction, SequenceTheorems

SmallerPairs == { p \in Nat \X Nat : p[1] < p[2] }

(* the natural numbers are well founded, as a relation given by a set *)
LEMMA SmallerIsWellFounded == IsWellFoundedOn(SmallerPairs, Nat)
<1>1. IsWellFoundedOn(OpToRel(<, Nat), Nat)
  BY NatLessThanWellFounded
<1>2. OpToRel(<, Nat) = SmallerPairs
  BY Zenon DEF OpToRel, SmallerPairs
<1> QED BY <1>1, <1>2, Zenon

(* induction over the natural numbers, with a set for the hypothesis *)
LEMMA SetInduction ==
  ASSUME NEW T \in SUBSET Nat, 0 \in T, \A n \in T : n + 1 \in T
  PROVE  T = Nat
<1>1. SUFFICES ASSUME Nat \ T # {} PROVE FALSE
  OBVIOUS
<1>2. PICK x \in Nat \ T : \A y \in Nat \ T : <<y, x>> \notin SmallerPairs
  BY <1>1, SmallerIsWellFounded, WFMin, Zenon
<1>3. x # 0 /\ x - 1 \in Nat /\ x - 1 < x
  BY <1>2
<1>4. x - 1 \in Nat \ T
  BY <1>2, <1>3
<1>5. <<x - 1, x>> \in SmallerPairs
  BY <1>2, <1>3, <1>4 DEF SmallerPairs
<1> QED BY <1>2, <1>4, <1>5

(* f iterates step from x, N times, within S *)
Iterates(f, N, S, x, step) ==
  /\ f \in [0..N -> S]
  /\ f[0] = x
  /\ \A n \in 1..N : f[n] = step[<<n, f[n - 1]>>]

(* a function defined by recursion on 0..N, from a step that is a function *)
LEMMA RecursionExists ==
  ASSUME NEW N \in Nat, NEW S, NEW x \in S, NEW step \in [(1..N) \X S -> S]
  PROVE  \E f : Iterates(f, N, S, x, step)
<1> DEFINE T == { m \in Nat : m <= N =>
                    \E f \in [0..m -> S] :
                       f[0] = x /\ \A n \in 1..m : f[n] = step[<<n, f[n - 1]>>] }
<1>1. 0 \in T
  <2>1. [i \in 0..0 |-> x] \in [0..0 -> S]
    OBVIOUS
  <2>2. [i \in 0..0 |-> x][0] = x /\ 1..0 = {}
    OBVIOUS
  <2> QED BY <2>1, <2>2
<1>2. ASSUME NEW m \in T PROVE m + 1 \in T
  <2>1. SUFFICES ASSUME m + 1 <= N
        PROVE \E f \in [0..(m + 1) -> S] :
                 f[0] = x /\ \A n \in 1..(m + 1) : f[n] = step[<<n, f[n - 1]>>]
    OBVIOUS
  <2>2. PICK f \in [0..m -> S] :
              f[0] = x /\ \A n \in 1..m : f[n] = step[<<n, f[n - 1]>>]
    BY <2>1
  <2> DEFINE g == [i \in 0..(m + 1) |-> IF i = m + 1 THEN step[<<m + 1, f[m]>>]
                                                     ELSE f[i]]
  <2>3. step[<<m + 1, f[m]>>] \in S
    BY <2>1
  <2>4. g \in [0..(m + 1) -> S]
    BY <2>3
  <2>5. g[0] = x
    BY <2>2
  <2>6. ASSUME NEW n \in 1..(m + 1) PROVE g[n] = step[<<n, g[n - 1]>>]
    <3>1. CASE n = m + 1
      <4>1. g[m + 1] = step[<<m + 1, f[m]>>]
        OBVIOUS
      <4>2. g[m] = f[m] /\ n - 1 = m
        BY <3>1
      <4> HIDE DEF g
      <4> QED BY <3>1, <4>1, <4>2
    <3>2. CASE n \in 1..m
      BY <2>2, <3>2
    <3> QED BY <3>1, <3>2
  <2> HIDE DEF g
  <2> QED BY <2>4, <2>5, <2>6
<1>3. T = Nat
  <2> HIDE DEF T
  <2>1. T \in SUBSET Nat
    BY DEF T
  <2> QED BY <1>1, <1>2, <2>1, SetInduction
<1>4. N \in T
  BY <1>3
<1> QED BY <1>4 DEF Iterates
-----------------------------------------------------------------------------
(* Lists, and the sets of what they hold.                                  *)

LEMMA SetOfEmpty == ToSet(<<>>) = {}
BY DEF ToSet

LEMMA SetOfAppend ==
  ASSUME NEW S, NEW seq \in Seq(S), NEW x \in S
  PROVE  ToSet(Append(seq, x)) = ToSet(seq) \union {x}
<1>1. Len(seq) \in Nat /\ Len(Append(seq, x)) = Len(seq) + 1
      /\ Append(seq, x)[Len(seq) + 1] = x
      /\ \A k \in 1..Len(seq) : Append(seq, x)[k] = seq[k]
  OBVIOUS
<1>2. DOMAIN seq = 1..Len(seq) /\ DOMAIN Append(seq, x) = 1..(Len(seq) + 1)
  BY <1>1
<1>3. 1..(Len(seq) + 1) = (1..Len(seq)) \union {Len(seq) + 1}
  BY <1>1
<1> QED BY <1>1, <1>2, <1>3 DEF ToSet

LEMMA SetOfTail ==
  ASSUME NEW S, NEW seq \in Seq(S), seq # <<>>
  PROVE  Head(seq) \in ToSet(seq) /\ ToSet(Tail(seq)) \subseteq ToSet(seq)
<1>1. Len(seq) \in Nat \ {0} /\ Head(seq) = seq[1] /\ Len(Tail(seq)) = Len(seq) - 1
      /\ Tail(seq) \in Seq(S)
      /\ \A k \in 1..Len(Tail(seq)) : Tail(seq)[k] = seq[k + 1]
  OBVIOUS
<1>2. DOMAIN seq = 1..Len(seq) /\ DOMAIN Tail(seq) = 1..(Len(seq) - 1)
  BY <1>1
<1>3. 1 \in DOMAIN seq /\ \A k \in DOMAIN Tail(seq) : k + 1 \in DOMAIN seq
  BY <1>1, <1>2
<1> QED BY <1>1, <1>2, <1>3 DEF ToSet

LEMMA HeadOrTail ==
  ASSUME NEW S, NEW seq \in Seq(S), seq # <<>>
  PROVE  ToSet(seq) = {Head(seq)} \union ToSet(Tail(seq))
<1>1. Len(seq) \in Nat \ {0} /\ Head(seq) = seq[1] /\ Len(Tail(seq)) = Len(seq) - 1
      /\ Tail(seq) \in Seq(S)
      /\ \A k \in 1..Len(Tail(seq)) : Tail(seq)[k] = seq[k + 1]
  OBVIOUS
<1>2. DOMAIN seq = 1..Len(seq) /\ DOMAIN Tail(seq) = 1..(Len(seq) - 1)
  BY <1>1
<1>3. ASSUME NEW k \in DOMAIN seq PROVE seq[k] \in {Head(seq)} \union ToSet(Tail(seq))
  <2>1. CASE k = 1
    BY <1>1, <2>1
  <2>2. CASE k # 1
    <3>1. k - 1 \in DOMAIN Tail(seq) /\ Tail(seq)[k - 1] = seq[k]
      BY <1>1, <1>2, <2>2
    <3> QED BY <3>1, Zenon DEF ToSet
  <2> QED BY <2>1, <2>2
<1> QED BY <1>3, SetOfTail DEF ToSet

LEMMA SetOfNames ==
  ASSUME NEW S, NEW seq \in Seq(S)
  PROVE  ToSet(seq) \subseteq S
BY DEF ToSet

(* what is left of a list, one element after the other *)
Leaves(rest, seq, set) ==
  /\ rest[0] = <<>>
  /\ \A n \in 1..Len(seq) :
       rest[n] = IF seq[n] \in set THEN rest[n - 1] ELSE Append(rest[n - 1], seq[n])

LEMMA WithoutSteps ==
  ASSUME NEW S, NEW seq \in Seq(S), NEW set
  PROVE  \E rest : Leaves(rest, seq, set) /\ Without(seq, set) = rest[Len(seq)]
<1> DEFINE N == Len(seq)
           Next1(n, q) == IF seq[n] \in set THEN q ELSE Append(q, seq[n])
           step == [a \in (1..N) \X Seq(S) |-> Next1(a[1], a[2])]
<1>1. N \in Nat /\ \A n \in 1..N : seq[n] \in S
  OBVIOUS
<1>2. step \in [(1..N) \X Seq(S) -> Seq(S)]
  <2>1. ASSUME NEW a \in (1..N) \X Seq(S) PROVE Next1(a[1], a[2]) \in Seq(S)
    <3>1. a[1] \in 1..N /\ a[2] \in Seq(S)
      OBVIOUS
    <3>2. seq[a[1]] \in S
      BY <1>1, <3>1
    <3> QED BY <3>1, <3>2
  <2> HIDE DEF Next1
  <2> QED BY <2>1
<1>3. PICK f : /\ f \in [0..N -> Seq(S)]
              /\ f[0] = <<>>
              /\ \A n \in 1..N : f[n] = step[<<n, f[n - 1]>>]
  <2> HIDE DEF step, N
  <2>1. <<>> \in Seq(S)
    OBVIOUS
  <2>2. PICK f : Iterates(f, N, Seq(S), <<>>, step)
    BY <1>1, <1>2, <2>1, RecursionExists
  <2> QED BY <2>2 DEF Iterates
<1>4. \A n \in 1..N : f[n - 1] \in Seq(S) /\ f[n] = Next1(n, f[n - 1])
  <2>1. SUFFICES ASSUME NEW n \in 1..N
        PROVE f[n - 1] \in Seq(S) /\ f[n] = Next1(n, f[n - 1])
    OBVIOUS
  <2>2. f[n - 1] \in Seq(S)
    BY <1>1, <1>3
  <2>3. <<n, f[n - 1]>> \in (1..N) \X Seq(S)
    BY <2>2
  <2> HIDE DEF Next1
  <2>4. step[<<n, f[n - 1]>>] = Next1(n, f[n - 1])
    BY <2>3
  <2> QED BY <1>3, <2>2, <2>4
<1> DEFINE Eqn(g) == g = [n \in 0..N |-> IF n = 0 THEN <<>> ELSE
                            IF seq[n] \in set THEN g[n - 1] ELSE Append(g[n - 1], seq[n])]
           rest == CHOOSE g : Eqn(g)
<1>5. Eqn(f)
  <2>1. \A n \in 0..N : f[n] = IF n = 0 THEN <<>> ELSE
                                IF seq[n] \in set THEN f[n - 1] ELSE Append(f[n - 1], seq[n])
    <3>1. SUFFICES ASSUME NEW n \in 0..N
          PROVE f[n] = IF n = 0 THEN <<>> ELSE
                         IF seq[n] \in set THEN f[n - 1] ELSE Append(f[n - 1], seq[n])
      BY Zenon
    <3>2. CASE n = 0
      BY <1>3, <3>2
    <3>3. CASE n # 0
      <4> HIDE DEF N
      <4>1. n \in 1..N
        BY <1>1, <3>3
      <4> QED BY <1>4, <3>3, <4>1
    <3> QED BY <3>2, <3>3
  <2> HIDE DEF N
  <2> QED BY <1>3, <2>1
<1>6. Eqn(rest)
  <2> HIDE DEF Eqn
  <2> QED BY <1>5
<1>7. Without(seq, set) = rest[N]
  BY DEF Without
<1>8. rest[0] = <<>> /\ \A n \in 1..N : rest[n] = Next1(n, rest[n - 1])
  <2> HIDE DEF rest, N
  <2>1. rest = [n \in 0..N |-> IF n = 0 THEN <<>> ELSE
                  IF seq[n] \in set THEN rest[n - 1] ELSE Append(rest[n - 1], seq[n])]
    BY <1>6
  <2>2. rest[0] = <<>>
    BY <1>1, <2>1
  <2>3. ASSUME NEW n \in 1..N PROVE rest[n] = Next1(n, rest[n - 1])
    <3>1. n \in 0..N /\ n # 0
      BY <1>1
    <3> QED BY <2>1, <3>1
  <2> QED BY <2>2, <2>3
<1>9. Leaves(rest, seq, set)
  <2> HIDE DEF rest
  <2> QED BY <1>8 DEF Leaves
<1> HIDE DEF rest, N
<1> QED BY <1>7, <1>9, Zenon DEF N

LEMMA WithoutIn ==
  ASSUME NEW A, NEW seq \in Seq(A), NEW set, NEW S, A \ set \subseteq S
  PROVE  Without(seq, set) \in Seq(S)
<1> DEFINE N == Len(seq)
<1>1. N \in Nat /\ \A n \in 1..N : seq[n] \in A
  OBVIOUS
<1>2. PICK rest : Leaves(rest, seq, set) /\ Without(seq, set) = rest[N]
  BY WithoutSteps
<1>r. /\ rest[0] = <<>>
      /\ \A n \in 1..N : rest[n] = IF seq[n] \in set THEN rest[n - 1]
                                                     ELSE Append(rest[n - 1], seq[n])
  BY <1>2 DEF Leaves
<1> HIDE DEF N
<1> DEFINE T == { n \in Nat : n <= N => rest[n] \in Seq(S) }
<1>3. 0 \in T
  <2>1. <<>> \in Seq(S)
    OBVIOUS
  <2> QED BY <1>r, <2>1
<1>4. ASSUME NEW n \in T PROVE n + 1 \in T
  <2>1. SUFFICES ASSUME n + 1 <= N PROVE rest[n + 1] \in Seq(S)
    OBVIOUS
  <2>2. rest[n] \in Seq(S) /\ n + 1 \in 1..N /\ (n + 1) - 1 = n
    BY <1>1, <2>1
  <2>3. rest[n + 1] = IF seq[n + 1] \in set THEN rest[n] ELSE Append(rest[n], seq[n + 1])
    BY <1>r, <2>2
  <2> QED BY <1>1, <2>2, <2>3
<1>5. T = Nat
  <2> HIDE DEF T
  <2>1. T \in SUBSET Nat
    BY DEF T
  <2> QED BY <1>3, <1>4, <2>1, SetInduction
<1>6. N \in T
  BY <1>1, <1>5
<1> QED BY <1>1, <1>2, <1>6

LEMMA WithoutType ==
  ASSUME NEW S, NEW seq \in Seq(S), NEW set
  PROVE  Without(seq, set) \in Seq(S)
BY WithoutIn

LEMMA SetOfWithout ==
  ASSUME NEW S, NEW seq \in Seq(S), NEW set
  PROVE  ToSet(Without(seq, set)) \subseteq ToSet(seq) \ set
<1>1. seq \in Seq(ToSet(seq))
  <2>1. Len(seq) \in Nat /\ DOMAIN seq = 1..Len(seq) /\ seq = [k \in 1..Len(seq) |-> seq[k]]
    OBVIOUS
  <2>2. \A k \in 1..Len(seq) : seq[k] \in ToSet(seq)
    BY <2>1 DEF ToSet
  <2>3. \A T : (\A k \in 1..Len(seq) : seq[k] \in T) => seq \in Seq(T)
    BY <2>1
  <2> QED BY <2>2, <2>3
<1> DEFINE T == ToSet(seq)
<1> HIDE DEF T
<1>2. seq \in Seq(T)
  BY <1>1 DEF T
<1>3. Without(seq, set) \in Seq(T \ set)
  BY <1>2, WithoutIn
<1> QED BY <1>3, SetOfNames DEF T

(* ... and it leaves out nothing else *)
LEMMA WithoutKeeps ==
  ASSUME NEW S, NEW seq \in Seq(S), NEW set
  PROVE  ToSet(Without(seq, set)) = ToSet(seq) \ set
<1> DEFINE N == Len(seq)
<1>1. N \in Nat /\ DOMAIN seq = 1..N /\ \A n \in 1..N : seq[n] \in S
  OBVIOUS
<1>2. PICK rest : Leaves(rest, seq, set) /\ Without(seq, set) = rest[N]
  BY WithoutSteps
<1>r. /\ rest[0] = <<>>
      /\ \A n \in 1..N : rest[n] = IF seq[n] \in set THEN rest[n - 1]
                                                     ELSE Append(rest[n - 1], seq[n])
  BY <1>2 DEF Leaves
<1> HIDE DEF N
<1> DEFINE T == { n \in Nat : n <= N => /\ rest[n] \in Seq(S)
                                       /\ \A k \in 1..n : seq[k] \notin set
                                                        => seq[k] \in ToSet(rest[n]) }
<1>3. 0 \in T
  <2>1. <<>> \in Seq(S) /\ 1..0 = {}
    OBVIOUS
  <2> QED BY <1>r, <2>1
<1>4. ASSUME NEW n \in T PROVE n + 1 \in T
  <2>1. SUFFICES ASSUME n + 1 <= N
        PROVE /\ rest[n + 1] \in Seq(S)
              /\ \A k \in 1..(n + 1) : seq[k] \notin set => seq[k] \in ToSet(rest[n + 1])
    OBVIOUS
  <2>2. /\ rest[n] \in Seq(S)
        /\ \A k \in 1..n : seq[k] \notin set => seq[k] \in ToSet(rest[n])
        /\ n + 1 \in 1..N /\ (n + 1) - 1 = n
    BY <1>1, <2>1
  <2>3. rest[n + 1] = IF seq[n + 1] \in set THEN rest[n] ELSE Append(rest[n], seq[n + 1])
    BY <1>r, <2>2
  <2>4. seq[n + 1] \in S /\ \A k \in 1..(n + 1) : k = n + 1 \/ k \in 1..n
    BY <1>1, <2>2
  <2>5. ToSet(Append(rest[n], seq[n + 1])) = ToSet(rest[n]) \union {seq[n + 1]}
        /\ Append(rest[n], seq[n + 1]) \in Seq(S)
    BY <2>2, <2>4, SetOfAppend
  <2> QED BY <2>2, <2>3, <2>4, <2>5
<1>5. T = Nat
  <2> HIDE DEF T
  <2>1. T \in SUBSET Nat
    BY DEF T
  <2> QED BY <1>3, <1>4, <2>1, SetInduction
<1>6. N \in T
  BY <1>1, <1>5
<1>7. \A k \in 1..N : seq[k] \notin set => seq[k] \in ToSet(rest[N])
  BY <1>1, <1>6
<1>8. ToSet(seq) \ set \subseteq ToSet(Without(seq, set))
  BY <1>1, <1>2, <1>7 DEF ToSet
<1> QED BY <1>8, SetOfWithout

-----------------------------------------------------------------------------
(* Lists without repetition.                                               *)

LEMMA InjectiveAppend ==
  ASSUME NEW S, NEW seq \in Seq(S), NEW x \in S, IsInjective(seq), x \notin ToSet(seq)
  PROVE  IsInjective(Append(seq, x))
<1>1. Len(seq) \in Nat /\ Len(Append(seq, x)) = Len(seq) + 1
      /\ Append(seq, x)[Len(seq) + 1] = x
      /\ \A k \in 1..Len(seq) : Append(seq, x)[k] = seq[k]
  OBVIOUS
<1>2. DOMAIN seq = 1..Len(seq) /\ DOMAIN Append(seq, x) = 1..(Len(seq) + 1)
  BY <1>1
<1>3. 1..(Len(seq) + 1) = (1..Len(seq)) \union {Len(seq) + 1}
  BY <1>1
<1> QED BY <1>1, <1>2, <1>3 DEF ToSet, IsInjective

LEMMA InjectiveTail ==
  ASSUME NEW S, NEW seq \in Seq(S), seq # <<>>, IsInjective(seq)
  PROVE  IsInjective(Tail(seq)) /\ Head(seq) \notin ToSet(Tail(seq))
<1>1. Len(seq) \in Nat \ {0} /\ Head(seq) = seq[1] /\ Len(Tail(seq)) = Len(seq) - 1
      /\ Tail(seq) \in Seq(S)
      /\ \A k \in 1..Len(Tail(seq)) : Tail(seq)[k] = seq[k + 1]
  OBVIOUS
<1>2. DOMAIN seq = 1..Len(seq) /\ DOMAIN Tail(seq) = 1..(Len(seq) - 1)
  BY <1>1
<1>3. 1 \in DOMAIN seq /\ \A k \in DOMAIN Tail(seq) : k \in Int /\ k # 0 /\ k + 1 \in DOMAIN seq
  BY <1>1, <1>2
<1> QED BY <1>1, <1>2, <1>3 DEF ToSet, IsInjective

LEMMA SumSplit ==
  ASSUME NEW m \in Nat, NEW n \in Nat
  PROVE  \A k \in 1..(m + n) : k \in 1..m \/ \E l \in 1..n : k = m + l
<1>1. SUFFICES ASSUME NEW k \in 1..(m + n), k \notin 1..m
      PROVE  \E l \in 1..n : k = m + l
  OBVIOUS
<1>2. k - m \in 1..n /\ k = m + (k - m)
  BY <1>1
<1> QED BY <1>2

LEMMA ConcatAsSet ==
  ASSUME NEW S, NEW s \in Seq(S), NEW t \in Seq(S)
  PROVE  ToSet(s \o t) = ToSet(s) \union ToSet(t)
<1>1. /\ Len(s) \in Nat /\ Len(t) \in Nat /\ Len(s \o t) = Len(s) + Len(t)
      /\ \A k \in 1..Len(s) : (s \o t)[k] = s[k]
      /\ \A k \in 1..Len(t) : (s \o t)[Len(s) + k] = t[k]
  OBVIOUS
<1>2. /\ DOMAIN s = 1..Len(s) /\ DOMAIN t = 1..Len(t)
      /\ DOMAIN (s \o t) = 1..(Len(s) + Len(t))
  BY <1>1
<1>3. \A k \in 1..(Len(s) + Len(t)) : k \in 1..Len(s) \/ \E l \in 1..Len(t) : k = Len(s) + l
  BY <1>1, SumSplit
<1>4. ToSet(s \o t) \subseteq ToSet(s) \union ToSet(t)
  <2>1. SUFFICES ASSUME NEW k \in 1..(Len(s) + Len(t))
        PROVE  (s \o t)[k] \in ToSet(s) \union ToSet(t)
    BY <1>2 DEF ToSet
  <2>2. CASE k \in 1..Len(s)
    <3>1. (s \o t)[k] = s[k] /\ k \in DOMAIN s
      BY <1>1, <1>2, <2>2
    <3> QED BY <3>1, Zenon DEF ToSet
  <2>3. CASE \E l \in 1..Len(t) : k = Len(s) + l
    <3>1. PICK l \in 1..Len(t) : k = Len(s) + l
      BY <2>3
    <3>2. (s \o t)[k] = t[l] /\ l \in DOMAIN t
      BY <1>1, <1>2, <3>1
    <3> QED BY <3>2, Zenon DEF ToSet
  <2> QED BY <1>3, <2>2, <2>3
<1>5. (\A k \in 1..Len(s) : k \in 1..(Len(s) + Len(t)))
      /\ (\A l \in 1..Len(t) : Len(s) + l \in 1..(Len(s) + Len(t)))
  BY <1>1
<1>6. ToSet(s) \subseteq ToSet(s \o t)
  BY <1>1, <1>2, <1>5 DEF ToSet
<1>7. ToSet(t) \subseteq ToSet(s \o t)
  BY <1>1, <1>2, <1>5 DEF ToSet
<1> QED BY <1>4, <1>6, <1>7

LEMMA InjectiveConcat ==
  ASSUME NEW S, NEW s \in Seq(S), NEW t \in Seq(S), IsInjective(s), IsInjective(t),
         ToSet(s) \intersect ToSet(t) = {}
  PROVE  IsInjective(s \o t)
<1>1. /\ Len(s) \in Nat /\ Len(t) \in Nat /\ Len(s \o t) = Len(s) + Len(t)
      /\ \A k \in 1..Len(s) : (s \o t)[k] = s[k]
      /\ \A k \in 1..Len(t) : (s \o t)[Len(s) + k] = t[k]
  OBVIOUS
<1>2. /\ DOMAIN s = 1..Len(s) /\ DOMAIN t = 1..Len(t)
      /\ DOMAIN (s \o t) = 1..(Len(s) + Len(t))
  BY <1>1
<1>3. ASSUME NEW a \in 1..(Len(s) + Len(t))
      PROVE  \/ a \in 1..Len(s) /\ (s \o t)[a] = s[a]
             \/ /\ a - Len(s) \in 1..Len(t)
                /\ (s \o t)[a] = t[a - Len(s)]
                /\ a = Len(s) + (a - Len(s))
  <2>1. CASE a <= Len(s)
    BY <1>1, <2>1
  <2>2. CASE a > Len(s)
    <3>1. a - Len(s) \in 1..Len(t) /\ a = Len(s) + (a - Len(s))
      BY <1>1, <2>2
    <3> QED BY <1>1, <3>1
  <2> QED BY <1>1, <2>1, <2>2
<1>4. \A k \in 1..Len(s), l \in 1..Len(t) : s[k] # t[l]
  BY <1>2 DEF ToSet
<1>5. ASSUME NEW a \in 1..(Len(s) + Len(t)), NEW b \in 1..(Len(s) + Len(t)),
             (s \o t)[a] = (s \o t)[b]
      PROVE  a = b
  <2>1. CASE a \in 1..Len(s) /\ b \in 1..Len(s)
    BY <1>1, <1>2, <1>5, <2>1 DEF IsInjective
  <2>2. CASE a \in 1..Len(s) /\ b \notin 1..Len(s)
    BY <1>1, <1>3, <1>4, <1>5, <2>2
  <2>3. CASE a \notin 1..Len(s) /\ b \in 1..Len(s)
    BY <1>1, <1>3, <1>4, <1>5, <2>3
  <2>4. CASE a \notin 1..Len(s) /\ b \notin 1..Len(s)
    <3>1. t[a - Len(s)] = t[b - Len(s)] /\ a - Len(s) \in 1..Len(t) /\ b - Len(s) \in 1..Len(t)
      BY <1>3, <1>5, <2>4
    <3>2. a - Len(s) = b - Len(s)
      BY <1>2, <3>1 DEF IsInjective
    <3> QED BY <1>1, <3>2
  <2> QED BY <2>1, <2>2, <2>3, <2>4
<1> QED BY <1>2, <1>5 DEF IsInjective

(* what is left of a list without repetition has none *)
LEMMA WithoutInjective ==
  ASSUME NEW S, NEW seq \in Seq(S), NEW set, IsInjective(seq)
  PROVE  IsInjective(Without(seq, set))
<1> DEFINE N == Len(seq)
<1>1. N \in Nat /\ DOMAIN seq = 1..N /\ \A n \in 1..N : seq[n] \in S
  OBVIOUS
<1>2. PICK rest : Leaves(rest, seq, set) /\ Without(seq, set) = rest[N]
  BY WithoutSteps
<1>r. /\ rest[0] = <<>>
      /\ \A n \in 1..N : rest[n] = IF seq[n] \in set THEN rest[n - 1]
                                                     ELSE Append(rest[n - 1], seq[n])
  BY <1>2 DEF Leaves
<1> HIDE DEF N
<1> DEFINE T == { n \in Nat : n <= N => /\ rest[n] \in Seq(S)
                                       /\ IsInjective(rest[n])
                                       /\ \A x \in ToSet(rest[n]) : \E k \in 1..n : x = seq[k] }
<1>3. 0 \in T
  <2>1. <<>> \in Seq(S) /\ IsInjective(<<>>) /\ ToSet(<<>>) = {}
    BY DEF IsInjective, ToSet
  <2> QED BY <1>r, <2>1
<1>4. ASSUME NEW n \in T PROVE n + 1 \in T
  <2>1. SUFFICES ASSUME n + 1 <= N
        PROVE /\ rest[n + 1] \in Seq(S)
              /\ IsInjective(rest[n + 1])
              /\ \A x \in ToSet(rest[n + 1]) : \E k \in 1..(n + 1) : x = seq[k]
    OBVIOUS
  <2>2. /\ rest[n] \in Seq(S) /\ IsInjective(rest[n])
        /\ \A x \in ToSet(rest[n]) : \E k \in 1..n : x = seq[k]
        /\ n + 1 \in 1..N /\ (n + 1) - 1 = n
    BY <1>1, <2>1
  <2>3. rest[n + 1] = IF seq[n + 1] \in set THEN rest[n] ELSE Append(rest[n], seq[n + 1])
    BY <1>r, <2>2
  <2>4. \A k \in 1..n : k \in 1..(n + 1) /\ k \in 1..N /\ k # n + 1
    BY <1>1, <2>1
  <2>5. seq[n + 1] \notin ToSet(rest[n]) /\ seq[n + 1] \in S /\ n + 1 \in 1..(n + 1)
    BY <1>1, <2>2, <2>4 DEF IsInjective
  <2>6. ToSet(Append(rest[n], seq[n + 1])) = ToSet(rest[n]) \union {seq[n + 1]}
    BY <2>2, <2>5, SetOfAppend
  <2>7. IsInjective(Append(rest[n], seq[n + 1])) /\ Append(rest[n], seq[n + 1]) \in Seq(S)
    BY <2>2, <2>5, InjectiveAppend
  <2> QED BY <2>2, <2>3, <2>4, <2>5, <2>6, <2>7
<1>5. T = Nat
  <2> HIDE DEF T
  <2>1. T \in SUBSET Nat
    BY DEF T
  <2> QED BY <1>3, <1>4, <2>1, SetInduction
<1>6. N \in T
  BY <1>1, <1>5
<1> QED BY <1>1, <1>2, <1>6
-----------------------------------------------------------------------------
(* Sequences one after the other.                                          *)

(* flat[n] is the first n sequences, one after the other *)
Flattens(flat, seqs) ==
  /\ flat[0] = <<>>
  /\ \A n \in 1..Len(seqs) : flat[n] = flat[n - 1] \o seqs[n]
  /\ FlattenSeq(seqs) = flat[Len(seqs)]

Flattened(seqs) == CHOOSE flat : Flattens(flat, seqs)

LEMMA FlattensExists ==
  ASSUME NEW S, NEW seqs \in Seq(Seq(S))
  PROVE  \E flat : Flattens(flat, seqs)
<1> DEFINE N == Len(seqs)
           step == [a \in (1..N) \X Seq(S) |-> a[2] \o seqs[a[1]]]
<1>1. N \in Nat /\ \A n \in 1..N : seqs[n] \in Seq(S)
  OBVIOUS
<1>2. step \in [(1..N) \X Seq(S) -> Seq(S)]
  <2>1. ASSUME NEW a \in (1..N) \X Seq(S) PROVE a[2] \o seqs[a[1]] \in Seq(S)
    BY <1>1
  <2> QED BY <2>1
<1>3. PICK f : /\ f \in [0..N -> Seq(S)]
              /\ f[0] = <<>>
              /\ \A n \in 1..N : f[n] = step[<<n, f[n - 1]>>]
  <2> HIDE DEF step, N
  <2>1. <<>> \in Seq(S)
    OBVIOUS
  <2>2. PICK f : Iterates(f, N, Seq(S), <<>>, step)
    BY <1>1, <1>2, <2>1, RecursionExists
  <2> QED BY <2>2 DEF Iterates
<1>4. \A n \in 1..N : f[n] = f[n - 1] \o seqs[n]
  <2>1. SUFFICES ASSUME NEW n \in 1..N PROVE f[n] = f[n - 1] \o seqs[n]
    OBVIOUS
  <2>2. f[n - 1] \in Seq(S)
    <3> HIDE DEF N, step
    <3>1. n - 1 \in 0..N
      BY <1>1
    <3> QED BY <1>3, <3>1
  <2>3. <<n, f[n - 1]>> \in (1..N) \X Seq(S)
    BY <2>2
  <2>4. step[<<n, f[n - 1]>>] = f[n - 1] \o seqs[n]
    BY <2>3
  <2> HIDE DEF step
  <2> QED BY <1>3, <2>4
<1> DEFINE Eqn(g) == g = [i \in 1..N |-> IF i = 1 THEN seqs[i] ELSE g[i - 1] \o seqs[i]]
           flatten == CHOOSE g : Eqn(g)
           h == [i \in 1..N |-> f[i]]
<1>5. Eqn(h)
  <2>1. \A i \in 1..N : f[i] = IF i = 1 THEN seqs[i] ELSE h[i - 1] \o seqs[i]
    <3>1. SUFFICES ASSUME NEW i \in 1..N
          PROVE f[i] = IF i = 1 THEN seqs[i] ELSE h[i - 1] \o seqs[i]
      BY Zenon
    <3>2. CASE i = 1
      <4>1. f[1] = <<>> \o seqs[1] /\ seqs[1] \in Seq(S)
        <5> HIDE DEF N, step
        <5>1. f[i] = f[i - 1] \o seqs[i] /\ seqs[i] \in Seq(S)
          BY <1>1, <1>4
        <5>2. i - 1 = 0
          BY <3>2
        <5> QED BY <1>3, <3>2, <5>1, <5>2
      <4>2. <<>> \o seqs[1] = seqs[1]
        BY <4>1, ConcatEmptySeq
      <4> QED BY <3>2, <4>1, <4>2
    <3>3. CASE i # 1
      <4> HIDE DEF N
      <4>1. i - 1 \in 1..N
        BY <1>1, <3>3
      <4>2. h[i - 1] = f[i - 1]
        BY <4>1
      <4> HIDE DEF h
      <4> QED BY <1>4, <3>3, <4>2
    <3> QED BY <3>2, <3>3
  <2> HIDE DEF N
  <2> QED BY <2>1
<1>6. Eqn(flatten)
  <2> HIDE DEF Eqn, h
  <2> QED BY <1>5
<1> DEFINE flat == [n \in 0..N |-> IF n = 0 THEN <<>> ELSE flatten[n]]
<1>7. FlattenSeq(seqs) = IF N = 0 THEN seqs ELSE flatten[N]
  BY DEF FlattenSeq
<1>8. flat[0] = <<>>
  BY <1>1
<1>9. \A n \in 1..N : flat[n] = flat[n - 1] \o seqs[n]
  <2>1. SUFFICES ASSUME NEW n \in 1..N PROVE flat[n] = flat[n - 1] \o seqs[n]
    OBVIOUS
  <2> HIDE DEF flatten, N
  <2>2. flat[n] = flatten[n]
    BY <1>1
  <2>3. CASE n = 1
    <3>1. flat[n - 1] = <<>> /\ seqs[n] \in Seq(S)
      BY <1>1, <1>8, <2>3
    <3>2. flatten[n] = seqs[n]
      BY <1>6, <2>3
    <3> HIDE DEF flat
    <3> QED BY <2>2, <3>1, <3>2, ConcatEmptySeq
  <2>4. CASE n # 1
    <3>1. flat[n - 1] = flatten[n - 1]
      BY <1>1, <2>4
    <3>2. flatten[n] = flatten[n - 1] \o seqs[n]
      BY <1>6, <2>4
    <3> HIDE DEF flat
    <3> QED BY <2>2, <3>1, <3>2
  <2> QED BY <2>3, <2>4
<1>10. FlattenSeq(seqs) = flat[N]
  <2>1. CASE N = 0
    BY <1>7, <1>8, <2>1
  <2>2. CASE N # 0
    <3> HIDE DEF flatten, N
    <3> QED BY <1>1, <1>7, <2>2
  <2> QED BY <2>1, <2>2
<1> HIDE DEF flat
<1> QED BY <1>8, <1>9, <1>10 DEF Flattens

LEMMA FlattenedIs ==
  ASSUME NEW S, NEW seqs \in Seq(Seq(S))
  PROVE  Flattens(Flattened(seqs), seqs)
BY FlattensExists DEF Flattened

(* the type of the prefixes and of the whole *)
LEMMA FlattenedType ==
  ASSUME NEW S, NEW seqs \in Seq(Seq(S))
  PROVE  /\ \A n \in 0..Len(seqs) : Flattened(seqs)[n] \in Seq(S)
         /\ FlattenSeq(seqs) \in Seq(S)
<1> DEFINE N == Len(seqs)
           flat == Flattened(seqs)
           T == { n \in Nat : n <= N => flat[n] \in Seq(S) }
<1>1. N \in Nat /\ \A n \in 1..N : seqs[n] \in Seq(S)
  OBVIOUS
<1>2. /\ flat[0] = <<>> /\ \A n \in 1..N : flat[n] = flat[n - 1] \o seqs[n]
      /\ FlattenSeq(seqs) = flat[N]
  BY FlattenedIs DEF Flattens
<1> HIDE DEF N, flat
<1>3. 0 \in T
  <2>1. <<>> \in Seq(S)
    OBVIOUS
  <2> QED BY <1>2, <2>1
<1>4. ASSUME NEW n \in T PROVE n + 1 \in T
  <2>1. SUFFICES ASSUME n + 1 <= N PROVE flat[n + 1] \in Seq(S)
    OBVIOUS
  <2>2. flat[n] \in Seq(S) /\ n + 1 \in 1..N /\ (n + 1) - 1 = n
    BY <1>1, <2>1
  <2>3. flat[n + 1] = flat[n] \o seqs[n + 1] /\ seqs[n + 1] \in Seq(S)
    BY <1>1, <1>2, <2>2
  <2> QED BY <2>2, <2>3
<1>5. T = Nat
  <2> HIDE DEF T
  <2>1. T \in SUBSET Nat
    BY DEF T
  <2> QED BY <1>3, <1>4, <2>1, SetInduction
<1>6. \A n \in 0..N : flat[n] \in Seq(S)
  BY <1>1, <1>5
<1>7. FlattenSeq(seqs) \in Seq(S)
  <2>1. N \in 0..N
    BY <1>1
  <2> QED BY <1>2, <1>6, <2>1
<1> QED
  <2> HIDE DEF T
  <2> QED BY <1>6, <1>7 DEF N, flat

(* a prefix and the next sequence *)
LEMMA FlattenedStep ==
  ASSUME NEW S, NEW seqs \in Seq(Seq(S)), NEW n \in Nat, n + 1 <= Len(seqs)
  PROVE  /\ Flattened(seqs)[n] \in Seq(S) /\ seqs[n + 1] \in Seq(S)
         /\ Flattened(seqs)[n + 1] = Flattened(seqs)[n] \o seqs[n + 1]
<1>1. Len(seqs) \in Nat
  OBVIOUS
<1>2. n + 1 \in 1..Len(seqs) /\ (n + 1) - 1 = n /\ n \in 0..Len(seqs)
  BY <1>1
<1>3. Flattened(seqs)[n] \in Seq(S)
  BY <1>2, FlattenedType
<1>4. \A m \in 1..Len(seqs) : /\ seqs[m] \in Seq(S)
                              /\ Flattened(seqs)[m] = Flattened(seqs)[m - 1] \o seqs[m]
  <2>1. \A m \in 1..Len(seqs) : seqs[m] \in Seq(S)
    OBVIOUS
  <2>2. Flattens(Flattened(seqs), seqs)
    BY FlattenedIs
  <2> QED BY <2>1, <2>2 DEF Flattens
<1>5. \A m \in 1..Len(seqs) : m = n + 1 =>
        seqs[m] \in Seq(S) /\ Flattened(seqs)[m] = Flattened(seqs)[n] \o seqs[m]
  <2>1. SUFFICES ASSUME NEW m \in 1..Len(seqs), m = n + 1
        PROVE seqs[m] \in Seq(S) /\ Flattened(seqs)[m] = Flattened(seqs)[n] \o seqs[m]
    OBVIOUS
  <2>2. m - 1 = n
    BY <2>1
  <2> QED BY <1>4, <2>2
<1> QED BY <1>2, <1>3, <1>5

LEMMA ConcatAt ==
  ASSUME NEW S, NEW s \in Seq(S), NEW t \in Seq(S)
  PROVE  /\ s \o t \in Seq(S)
         /\ Len(s) \in Nat /\ Len(t) \in Nat /\ Len(s \o t) = Len(s) + Len(t)
         /\ \A k \in 1..Len(s) : k \in 1..Len(s \o t) /\ (s \o t)[k] = s[k]
         /\ \A k \in 1..Len(t) : Len(s) + k \in 1..Len(s \o t) /\ (s \o t)[Len(s) + k] = t[k]
<1>1. /\ s \o t \in Seq(S)
      /\ Len(s) \in Nat /\ Len(t) \in Nat /\ Len(s \o t) = Len(s) + Len(t)
  OBVIOUS
<1>2. \A k \in 1..Len(s) : (s \o t)[k] = s[k]
  OBVIOUS
<1>3. \A k \in 1..Len(t) : (s \o t)[Len(s) + k] = t[k]
  OBVIOUS
<1>4. /\ \A k \in 1..Len(s) : k \in 1..Len(s \o t)
      /\ \A k \in 1..Len(t) : Len(s) + k \in 1..Len(s \o t)
  BY <1>1
<1> QED BY <1>1, <1>2, <1>3, <1>4

(* how long the prefixes are *)
LEMMA FlattenedGrows ==
  ASSUME NEW S, NEW seqs \in Seq(Seq(S)), NEW n \in Nat, n + 1 <= Len(seqs)
  PROVE  /\ Len(Flattened(seqs)[n]) \in Nat /\ Len(Flattened(seqs)[n + 1]) \in Nat
         /\ Len(seqs[n + 1]) \in Nat
         /\ Len(Flattened(seqs)[n + 1]) = Len(Flattened(seqs)[n]) + Len(seqs[n + 1])
<1> DEFINE s == Flattened(seqs)[n]
           t == seqs[n + 1]
<1>1. s \in Seq(S) /\ t \in Seq(S) /\ Flattened(seqs)[n + 1] = s \o t
  BY FlattenedStep
<1> HIDE DEF s, t
<1>2. Len(s) \in Nat /\ Len(t) \in Nat /\ Len(s \o t) = Len(s) + Len(t)
  BY <1>1, ConcatAt
<1>3. Len(s \o t) \in Nat
  BY <1>2
<1> QED BY <1>1, <1>2, <1>3 DEF s, t

(* what stands where in a prefix *)
LEMMA FlattenedPlace ==
  ASSUME NEW S, NEW seqs \in Seq(Seq(S)), NEW n \in Nat, n + 1 <= Len(seqs),
         NEW j \in 1..Len(seqs[n + 1])
  PROVE  /\ Len(Flattened(seqs)[n]) + j \in 1..Len(FlattenSeq(seqs))
         /\ FlattenSeq(seqs)[Len(Flattened(seqs)[n]) + j] = seqs[n + 1][j]
<1> DEFINE N == Len(seqs)
           flat == Flattened(seqs)
           k == Len(flat[n]) + j
           At(m) == k \in 1..Len(flat[m]) /\ flat[m][k] = seqs[n + 1][j]
           T == { m \in Nat : n + 1 <= m /\ m <= N => At(m) }
<1>1. N \in Nat
  OBVIOUS
<1>2. FlattenSeq(seqs) = flat[N]
  BY FlattenedIs DEF Flattens
<1>3. At(n + 1)
  <2> DEFINE s == flat[n]
             t == seqs[n + 1]
  <2>1. s \in Seq(S) /\ t \in Seq(S) /\ flat[n + 1] = s \o t
    BY FlattenedStep
  <2>2. j \in 1..Len(t) /\ k = Len(s) + j
    OBVIOUS
  <2> HIDE DEF s, t, k, flat
  <2>3. \A i \in 1..Len(t) : Len(s) + i \in 1..Len(s \o t) /\ (s \o t)[Len(s) + i] = t[i]
    <3>1. s \in Seq(S) /\ t \in Seq(S)
      BY <2>1
    <3>2. Len(s) \in Nat /\ Len(t) \in Nat /\ Len(s \o t) = Len(s) + Len(t)
      BY <3>1, ConcatAt
    <3>3. \A i \in 1..Len(t) : Len(s) + i \in 1..Len(s \o t)
      BY <3>2
    <3>4. \A i \in 1..Len(t) : (s \o t)[Len(s) + i] = t[i]
      BY <3>1
    <3> QED BY <3>3, <3>4
  <2> QED BY <2>1, <2>2, <2>3 DEF t
<1>4. ASSUME NEW m \in Nat, m + 1 <= N, At(m) PROVE At(m + 1)
  <2>1. /\ flat[m] \in Seq(S) /\ seqs[m + 1] \in Seq(S)
        /\ flat[m + 1] = flat[m] \o seqs[m + 1]
    BY <1>4, FlattenedStep
  <2> DEFINE s == flat[m]
             t == seqs[m + 1]
  <2> HIDE DEF flat, k
  <2>2. s \in Seq(S) /\ t \in Seq(S) /\ k \in 1..Len(s) /\ s[k] = seqs[n + 1][j]
    BY <1>4, <2>1
  <2> HIDE DEF s, t
  <2>3. \A i \in 1..Len(s) : i \in 1..Len(s \o t) /\ (s \o t)[i] = s[i]
    BY <2>2, ConcatAt
  <2> QED BY <2>1, <2>2, <2>3 DEF s, t
<1> HIDE DEF At
<1>5. 0 \in T
  OBVIOUS
<1>6. ASSUME NEW m \in T PROVE m + 1 \in T
  <2>1. SUFFICES ASSUME n + 1 <= m + 1, m + 1 <= N PROVE At(m + 1)
    OBVIOUS
  <2> HIDE DEF N
  <2>2. CASE m = n
    BY <1>3, <2>2
  <2>3. CASE m # n
    <3>1. n + 1 <= m /\ m <= N
      BY <1>1, <2>1, <2>3
    <3>2. At(m)
      BY <3>1
    <3> QED BY <1>4, <2>1, <3>2
  <2> QED BY <2>2, <2>3
<1>7. T = Nat
  <2> HIDE DEF T
  <2>1. T \in SUBSET Nat
    BY DEF T
  <2> QED BY <1>5, <1>6, <2>1, SetInduction
<1>8. At(N)
  BY <1>1, <1>7
<1> QED BY <1>2, <1>8 DEF At

(* the prefixes reach to the end *)
LEMMA FlattenedEnd ==
  ASSUME NEW S, NEW seqs \in Seq(Seq(S))
  PROVE  /\ Flattened(seqs)[0] = <<>>
         /\ FlattenSeq(seqs) = Flattened(seqs)[Len(seqs)]
BY FlattenedIs DEF Flattens

(* a sequence is a suffix of what ends with it *)
LEMMA SuffixOfConcat ==
  ASSUME NEW S, NEW s \in Seq(S), NEW t \in Seq(S)
  PROVE  IsSuffix(t, s \o t)
<1> DEFINE u == s \o t
<1>1. /\ Len(s) \in Nat /\ Len(t) \in Nat /\ Len(u) = Len(s) + Len(t)
      /\ \A k \in 1..Len(t) : u[Len(s) + k] = t[k]
  OBVIOUS
<1> HIDE DEF u
<1>2. /\ Len(Reverse(t)) = Len(t) /\ \A k \in 1..Len(t) : Reverse(t)[k] = t[(Len(t) - k) + 1]
      /\ Len(Reverse(u)) = Len(u) /\ \A k \in 1..Len(u) : Reverse(u)[k] = u[(Len(u) - k) + 1]
  BY <1>1 DEF Reverse
<1>3. \A k \in 1..Len(t) : Reverse(t)[k] = Reverse(u)[k]
  <2>1. SUFFICES ASSUME NEW k \in 1..Len(t) PROVE Reverse(t)[k] = Reverse(u)[k]
    OBVIOUS
  <2>2. (Len(t) - k) + 1 \in 1..Len(t) /\ k \in 1..Len(u)
        /\ (Len(u) - k) + 1 = Len(s) + ((Len(t) - k) + 1)
    BY <1>1
  <2>3. u[Len(s) + ((Len(t) - k) + 1)] = t[(Len(t) - k) + 1]
    BY <1>1, <2>2
  <2> QED BY <1>2, <2>2, <2>3
<1>4. SubSeq(Reverse(t), 1, Len(t)) = SubSeq(Reverse(u), 1, Len(t))
  BY <1>1, <1>3
<1> QED BY <1>1, <1>2, <1>4 DEF IsSuffix, IsPrefix, u

-----------------------------------------------------------------------------
(* The least of a set of numbers, and what Without does at the end of a    *)
(* list.                                                                   *)

LEMMA LeastExists ==
  ASSUME NEW T \in SUBSET Nat, T # {}
  PROVE  \E x \in T : \A y \in T : x <= y
<1>1. PICK x \in T : \A y \in T : <<y, x>> \notin SmallerPairs
  BY SmallerIsWellFounded, WFMin, Zenon
<1>2. ASSUME NEW y \in T PROVE x <= y
  <2>1. x \in Nat /\ y \in Nat /\ <<y, x>> \notin SmallerPairs
    BY <1>1
  <2>2. ~(y < x)
    BY <2>1 DEF SmallerPairs
  <2> QED BY <2>1, <2>2
<1> QED BY <1>2

(* two lists that begin with the same elements leave the same of them *)
LEMMA LeavesAgree ==
  ASSUME NEW S, NEW s \in Seq(S), NEW t \in Seq(S), NEW set, NEW f, NEW g,
         Leaves(f, s, set), Leaves(g, t, set), NEW N \in Nat, N <= Len(s), N <= Len(t),
         \A n \in 1..N : s[n] = t[n]
  PROVE  f[N] = g[N]
<1> DEFINE T == { n \in Nat : n <= N => f[n] = g[n] }
<1>1. Len(s) \in Nat /\ Len(t) \in Nat
  OBVIOUS
<1>2. 0 \in T
  BY DEF Leaves
<1>3. ASSUME NEW n \in T PROVE n + 1 \in T
  <2>1. SUFFICES ASSUME n + 1 <= N PROVE f[n + 1] = g[n + 1]
    OBVIOUS
  <2>2. f[n] = g[n] /\ (n + 1) - 1 = n /\ n + 1 \in 1..N
    BY <2>1
  <2>3. n + 1 \in 1..Len(s) /\ n + 1 \in 1..Len(t)
    BY <1>1, <2>2
  <2>4. f[n + 1] = IF s[n + 1] \in set THEN f[n] ELSE Append(f[n], s[n + 1])
    BY <2>2, <2>3 DEF Leaves
  <2>5. g[n + 1] = IF t[n + 1] \in set THEN g[n] ELSE Append(g[n], t[n + 1])
    BY <2>2, <2>3 DEF Leaves
  <2>6. s[n + 1] = t[n + 1]
    BY <2>2
  <2> QED BY <2>2, <2>4, <2>5, <2>6
<1>4. T = Nat
  <2> HIDE DEF T
  <2>1. T \in SUBSET Nat
    BY DEF T
  <2> QED BY <1>2, <1>3, <2>1, SetInduction
<1>5. N \in T
  BY <1>4
<1> QED BY <1>5

LEMMA WithoutAppend ==
  ASSUME NEW S, NEW seq \in Seq(S), NEW x \in S, NEW set
  PROVE  Without(Append(seq, x), set)
           = IF x \in set THEN Without(seq, set) ELSE Append(Without(seq, set), x)
<1> DEFINE t == Append(seq, x)
           N == Len(seq)
<1>1. /\ t \in Seq(S) /\ N \in Nat /\ Len(t) = N + 1 /\ t[N + 1] = x
      /\ \A n \in 1..N : seq[n] = t[n]
  OBVIOUS
<1> HIDE DEF t
<1>2. PICK f : Leaves(f, seq, set) /\ Without(seq, set) = f[N]
  BY WithoutSteps
<1>3. PICK g : Leaves(g, t, set) /\ Without(t, set) = g[N + 1]
  BY <1>1, WithoutSteps
<1> HIDE DEF N
<1>4. f[N] = g[N]
  <2>1. N <= Len(seq) /\ N <= Len(t)
    BY <1>1 DEF N
  <2> QED BY <1>1, <1>2, <1>3, <2>1, LeavesAgree
<1>5. g[N + 1] = IF t[N + 1] \in set THEN g[N] ELSE Append(g[N], t[N + 1])
  <2>1. N + 1 \in 1..Len(t) /\ (N + 1) - 1 = N
    BY <1>1
  <2> QED BY <1>3, <2>1 DEF Leaves
<1> QED BY <1>1, <1>2, <1>3, <1>4, <1>5 DEF t

(* a list that has none of the elements stays as it is *)
LEMMA WithoutNone ==
  ASSUME NEW S, NEW seq \in Seq(S), NEW set, \A n \in 1..Len(seq) : seq[n] \notin set
  PROVE  Without(seq, set) = seq
<1> DEFINE N == Len(seq)
<1>1. N \in Nat
  OBVIOUS
<1>2. PICK f : Leaves(f, seq, set) /\ Without(seq, set) = f[N]
  BY WithoutSteps
<1> DEFINE T == { n \in Nat : n <= N => f[n] = SubSeq(seq, 1, n) }
<1>3. 0 \in T
  <2>1. SubSeq(seq, 1, 0) = <<>>
    OBVIOUS
  <2> QED BY <1>2, <2>1 DEF Leaves
<1>4. ASSUME NEW n \in T PROVE n + 1 \in T
  <2>1. SUFFICES ASSUME n + 1 <= N PROVE f[n + 1] = SubSeq(seq, 1, n + 1)
    OBVIOUS
  <2>2. f[n] = SubSeq(seq, 1, n) /\ n + 1 \in 1..N /\ (n + 1) - 1 = n
    BY <1>1, <2>1
  <2>3. f[n + 1] = Append(f[n], seq[n + 1])
    BY <1>2, <2>2 DEF Leaves
  <2>4. Append(SubSeq(seq, 1, n), seq[n + 1]) = SubSeq(seq, 1, n + 1)
    BY <1>1, <2>1
  <2> QED BY <2>2, <2>3, <2>4
<1>5. T = Nat
  <2> HIDE DEF T
  <2>1. T \in SUBSET Nat
    BY DEF T
  <2> QED BY <1>3, <1>4, <2>1, SetInduction
<1>6. f[N] = SubSeq(seq, 1, N)
  BY <1>1, <1>5
<1>7. SubSeq(seq, 1, N) = seq
  OBVIOUS
<1> QED BY <1>2, <1>6, <1>7

LEMMA PrefixIs ==
  ASSUME NEW S, NEW seq \in Seq(S), NEW n \in Nat, n <= Len(seq)
  PROVE  /\ SubSeq(seq, 1, n) \in Seq(S) /\ Len(SubSeq(seq, 1, n)) = n
         /\ \A i \in 1..n : SubSeq(seq, 1, n)[i] = seq[i]
<1>1. \A i \in 1..n : seq[i] \in S
  <2>1. Len(seq) \in Nat
    OBVIOUS
  <2> QED BY <2>1, ElementOfSeq
<1>2. /\ SubSeq(seq, 1, n) \in Seq(S)
      /\ Len(SubSeq(seq, 1, n)) = IF 1 <= n THEN n - 1 + 1 ELSE 0
      /\ \A i \in 1..(n - 1 + 1) : SubSeq(seq, 1, n)[i] = seq[1 + i - 1]
  BY <1>1, SubSeqProperties
<1>3. n - 1 + 1 = n /\ \A i \in 1..n : 1 + i - 1 = i
  OBVIOUS
<1>4. Len(SubSeq(seq, 1, n)) = n
  BY <1>2
<1> QED BY <1>2, <1>3, <1>4

LEMMA PrefixGrows ==
  ASSUME NEW S, NEW seq \in Seq(S), NEW n \in Nat, n + 1 <= Len(seq)
  PROVE  Append(SubSeq(seq, 1, n), seq[n + 1]) = SubSeq(seq, 1, n + 1)
<1> DEFINE s == SubSeq(seq, 1, n)
           t == SubSeq(seq, 1, n + 1)
<1>1. Len(seq) \in Nat /\ n <= Len(seq) /\ n + 1 \in Nat
  OBVIOUS
<1>2. s \in Seq(S) /\ Len(s) = n /\ \A i \in 1..n : s[i] = seq[i]
  BY <1>1, PrefixIs
<1>3. t \in Seq(S) /\ Len(t) = n + 1 /\ \A i \in 1..(n + 1) : t[i] = seq[i]
  BY <1>1, PrefixIs
<1>4. seq[n + 1] \in S
  BY <1>1, ElementOfSeq
<1> HIDE DEF s, t
<1> DEFINE u == Append(s, seq[n + 1])
<1>5. u \in Seq(S) /\ Len(u) = n + 1 /\ u[n + 1] = seq[n + 1] /\ \A i \in 1..n : u[i] = s[i]
  BY <1>2, <1>4
<1> HIDE DEF u
<1>6. ASSUME NEW i \in 1..(n + 1) PROVE u[i] = t[i]
  <2>1. i = n + 1 \/ i \in 1..n
    OBVIOUS
  <2> QED BY <1>2, <1>3, <1>5, <2>1
<1>7. u = t
  BY <1>3, <1>5, <1>6, SeqEqual
<1> QED BY <1>7 DEF s, t, u

LEMMA FrontIs ==
  ASSUME NEW S, NEW seq \in Seq(S), seq # <<>>
  PROVE  /\ Front(seq) \in Seq(S) /\ Last(seq) \in S
         /\ Len(seq) \in Nat \ {0} /\ Len(Front(seq)) = Len(seq) - 1
         /\ seq = Append(Front(seq), Last(seq))
<1>1. Len(seq) \in Nat \ {0}
  BY EmptySeq
<1>2. PICK n \in Nat : n + 1 = Len(seq) /\ Len(seq) - 1 = n
  BY <1>1
<1>3. SubSeq(seq, 1, n) \in Seq(S) /\ Len(SubSeq(seq, 1, n)) = n
  BY <1>2, PrefixIs
<1>4. Append(SubSeq(seq, 1, n), seq[n + 1]) = SubSeq(seq, 1, n + 1) /\ seq[n + 1] \in S
  BY <1>2, PrefixGrows, ElementOfSeq
<1>5. SubSeq(seq, 1, Len(seq)) = seq
  BY SubSeqFull
<1> QED BY <1>1, <1>2, <1>3, <1>4, <1>5 DEF Front, Last

LEMMA FrontIsNot ==
  ASSUME NEW S, NEW seq \in Seq(S), Len(seq) > 1
  PROVE  Front(seq) # <<>>
<1>1. Len(seq) \in Nat /\ seq # <<>>
  OBVIOUS
<1>2. Len(Front(seq)) = Len(seq) - 1
  BY <1>1, FrontIs
<1>3. Len(Front(seq)) > 0
  <2> DEFINE a == Len(Front(seq))
             b == Len(seq)
  <2> HIDE DEF a, b
  <2>1. a = b - 1 /\ b \in Nat /\ b > 1
    BY <1>1, <1>2 DEF a, b
  <2>2. a > 0
    BY <2>1
  <2> QED BY <2>2 DEF a
<1>4. Len(<<>>) = 0
  OBVIOUS
<1> QED BY <1>3, <1>4
=============================================================================
