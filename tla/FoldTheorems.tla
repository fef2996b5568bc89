----------------------------- MODULE FoldTheorems -----------------------------
(***************************************************************************)
(* What FoldLeft computes.  The merge of configuration layers, the         *)
(* registration of agents and the tally of a log are loops over a sequence *)
(* with an accumulator; the models write them as FoldLeft(Op, base, seq)   *)
(* of SequencesExt, whose definition folds over subsets of the domain.     *)
(*                                                                         *)
(* A module that folds instantiates this one with its operator for Op,     *)
(* shows that Fold is its FoldLeft by expanding the definitions, and uses  *)
(* FoldNone and FoldOneMore: the fold over a longer prefix is one more     *)
(* step of the loop.  For an induction over prefixes there is FromZero.    *)
(*                                                                         *)
(* The argument.  Iter is a CHOOSE, so the first thing to show is that     *)
(* there is such a function: on the subsets of 1..k, by induction on k.    *)
(* Then two of them, for sequences that agree up to k, agree on 1..k.      *)
(***************************************************************************)
EXTENDS Integers, Sequences, SequenceTheorems, WellFoundedInduction, TLAPS

CONSTANT Op(_, _)

Last(s) == CHOOSE x \in s : \A y \in s : x >= y

\* One step of the recursion: what f would be at s, from f at a smaller set.
Unfolded(f, base, seq, s) ==
    IF s = {} THEN base ELSE Op(f[s \ {Last(s)}], seq[Last(s)])

Iter(base, seq) ==
    CHOOSE iter : iter = [s \in SUBSET DOMAIN seq |->
        IF s = {} THEN base ELSE Op(iter[s \ {Last(s)}], seq[Last(s)])]

\* f is the function of the recursion, on the subsets of 1..n.
Follows(f, base, seq, n) ==
    f = [s \in SUBSET (1..n) |-> Unfolded(f, base, seq, s)]

Fold(base, seq) == Iter(base, seq)[DOMAIN seq]

-----------------------------------------------------------------------------
(* Induction. *)

\* A non-empty set of naturals has a least element.
THEOREM LeastNat ==
    ASSUME NEW T \in SUBSET Nat, T # {}
    PROVE  \E n \in T : \A m \in T : n <= m
<1> DEFINE R == {ss \in Nat \X Nat : ss[1] < ss[2]}
<1>1. IsWellFoundedOn(R, Nat)
  BY NatLessThanWellFounded DEF OpToRel
<1>2. \A x, y \in Nat : x < y => <<x, y>> \in R
  OBVIOUS
<1> HIDE DEF R
<1>3. PICK n \in T : \A y \in T : ~(<<y, n>> \in R)
  BY <1>1, WFMin
<1>4. ASSUME NEW m \in T PROVE n <= m
  <2>1. m \in Nat /\ n \in Nat
    OBVIOUS
  <2>2. ~(m < n)
    BY <1>2, <1>3, <2>1
  <2> QED BY <2>1, <2>2
<1> QED BY <1>4

\* What holds of 0, and of n + 1 if of n, holds of every natural number: the
\* property is given as the set of those that have it.
THEOREM FromZero ==
    ASSUME NEW S, 0 \in S, \A n \in Nat : n \in S => n + 1 \in S
    PROVE  Nat \subseteq S
<1> DEFINE T == Nat \ S
<1> SUFFICES ASSUME T # {} PROVE FALSE
  OBVIOUS
<1>1. PICK n \in T : \A m \in T : n <= m
  BY LeastNat
<1>2. n # 0 /\ n \in Nat /\ n \notin S
  OBVIOUS
<1>3. n - 1 \in Nat /\ (n - 1) + 1 = n
  BY <1>2
<1>4. n - 1 \notin S
  BY <1>2, <1>3
<1> QED BY <1>1, <1>3, <1>4

-----------------------------------------------------------------------------
(* The recursion. *)

\* The last element of a set that ends at n + 1.
LEMMA LastIs ==
    ASSUME NEW n \in Nat, NEW s \in SUBSET (1..(n + 1)), n + 1 \in s
    PROVE  Last(s) = n + 1
<1>1. \A y \in s : n + 1 >= y
  OBVIOUS
<1>2. \A x \in s : (\A y \in s : x >= y) => x = n + 1
  OBVIOUS
<1> QED BY <1>1, <1>2 DEF Last

\* There is a function that satisfies the recursion, on the subsets of 1..n.
LEMMA IterThere ==
    ASSUME NEW base, NEW seq, NEW n \in Nat
    PROVE  \E f : Follows(f, base, seq, n)
<1> USE DEF Follows
<1> DEFINE Good == {k \in Nat :
        \E f : f = [s \in SUBSET (1..k) |-> Unfolded(f, base, seq, s)]}
<1>1. 0 \in Good
  <2> DEFINE f == [s \in SUBSET (1..0) |-> base]
  <2>1. \A s \in SUBSET (1..0) : Unfolded(f, base, seq, s) = base
    BY DEF Unfolded
  <2>2. f = [s \in SUBSET (1..0) |-> Unfolded(f, base, seq, s)]
    BY <2>1
  <2> HIDE DEF f
  <2> QED BY <2>2
<1>2. ASSUME NEW k \in Nat, k \in Good PROVE k + 1 \in Good
  <2>1. PICK f : f = [s \in SUBSET (1..k) |-> Unfolded(f, base, seq, s)]
    BY <1>2
  <2> DEFINE g == [s \in SUBSET (1..(k + 1)) |->
                    IF s \in SUBSET (1..k) THEN f[s]
                    ELSE Op(f[s \ {k + 1}], seq[k + 1])]
  <2>2. \A s \in SUBSET (1..k) : g[s] = f[s] /\ s \in SUBSET (1..(k + 1))
    OBVIOUS
  <2>3. ASSUME NEW s \in SUBSET (1..(k + 1))
        PROVE  g[s] = Unfolded(g, base, seq, s)
    <3>1. CASE s \in SUBSET (1..k)
      <4>1. g[s] = Unfolded(f, base, seq, s)
        <5>1. f[s] = Unfolded(f, base, seq, s)
          BY <2>1, <3>1
        <5> QED BY <5>1, <2>2, <3>1
      <4>2. CASE s = {}
        BY <4>1, <4>2 DEF Unfolded
      <4>3. CASE s # {}
        <5>1. s \ {Last(s)} \in SUBSET (1..k)
          BY <3>1
        <5>2. g[s \ {Last(s)}] = f[s \ {Last(s)}]
          BY <5>1, <2>2
        <5> HIDE DEF g
        <5> QED BY <4>1, <4>3, <5>2 DEF Unfolded
      <4> QED BY <4>2, <4>3
    <3>2. CASE s \notin SUBSET (1..k)
      <4>1. k + 1 \in s
        BY <3>2
      <4>2. Last(s) = k + 1
        BY <4>1, LastIs
      <4>3. s \ {k + 1} \in SUBSET (1..k)
        OBVIOUS
      <4>4. g[s] = Op(f[s \ {k + 1}], seq[k + 1])
        BY <3>2
      <4>5. g[s \ {k + 1}] = f[s \ {k + 1}]
        BY <4>3, <2>2
      <4> HIDE DEF g
      <4> QED BY <4>1, <4>2, <4>4, <4>5 DEF Unfolded
    <3> QED BY <3>1, <3>2
  <2>4. g = [s \in SUBSET (1..(k + 1)) |-> Unfolded(g, base, seq, s)]
    BY <2>3
  <2> HIDE DEF g
  <2> QED BY <2>4
<1> HIDE DEF Good
<1>3. n \in Good
  BY <1>1, <1>2, FromZero
<1> QED BY <1>3 DEF Good

\* So the function that FoldLeft chooses satisfies the recursion.
LEMMA IterIs ==
    ASSUME NEW base, NEW seq, NEW n \in Nat, DOMAIN seq = 1..n
    PROVE  \A s \in SUBSET (1..n) :
             Iter(base, seq)[s] = Unfolded(Iter(base, seq), base, seq, s)
<1>1. \E f : f = [s \in SUBSET (1..n) |->
                IF s = {} THEN base ELSE Op(f[s \ {Last(s)}], seq[Last(s)])]
  <2>1. PICK f : Follows(f, base, seq, n)
    BY IterThere
  <2>2. f = [s \in SUBSET (1..n) |->
                IF s = {} THEN base ELSE Op(f[s \ {Last(s)}], seq[Last(s)])]
    BY <2>1 DEF Follows, Unfolded
  <2> QED BY <2>2
<1>2. Iter(base, seq) = [s \in SUBSET (1..n) |->
        IF s = {} THEN base
        ELSE Op(Iter(base, seq)[s \ {Last(s)}], seq[Last(s)])]
  BY <1>1 DEF Iter
<1> QED BY <1>2 DEF Unfolded

\* Up to n the fold sees only the first n elements.
LEMMA IterAgree ==
    ASSUME NEW base, NEW seq, NEW more, NEW m \in Nat, NEW n \in Nat,
           DOMAIN seq = 1..m, DOMAIN more = 1..n, m <= n,
           \A i \in 1..m : more[i] = seq[i]
    PROVE  \A s \in SUBSET (1..m) : Iter(base, more)[s] = Iter(base, seq)[s]
<1> DEFINE Good == {k \in Nat : k <= m =>
        \A s \in SUBSET (1..k) : Iter(base, more)[s] = Iter(base, seq)[s]}
<1>0. /\ \A s \in SUBSET (1..m) :
            Iter(base, seq)[s] = Unfolded(Iter(base, seq), base, seq, s)
      /\ \A s \in SUBSET (1..n) :
            Iter(base, more)[s] = Unfolded(Iter(base, more), base, more, s)
  BY IterIs
<1>1. 0 \in Good
  <2>1. \A s \in SUBSET (1..0) : s = {}
    OBVIOUS
  <2>2. {} \in SUBSET (1..m) /\ {} \in SUBSET (1..n)
    OBVIOUS
  <2>3. Iter(base, more)[{}] = Iter(base, seq)[{}]
    BY <1>0, <2>2 DEF Unfolded
  <2> QED BY <2>1, <2>3
<1>2. ASSUME NEW k \in Nat, k \in Good PROVE k + 1 \in Good
  <2>1. SUFFICES ASSUME k + 1 <= m, NEW s \in SUBSET (1..(k + 1))
                 PROVE  Iter(base, more)[s] = Iter(base, seq)[s]
    OBVIOUS
  <2>2. \A t \in SUBSET (1..k) : Iter(base, more)[t] = Iter(base, seq)[t]
    BY <1>2, <2>1
  <2>3. CASE s \in SUBSET (1..k)
    BY <2>2, <2>3
  <2>4. CASE s \notin SUBSET (1..k)
    <3>1. k + 1 \in s
      BY <2>4
    <3>2. Last(s) = k + 1
      BY <3>1, LastIs
    <3>3. s \ {k + 1} \in SUBSET (1..k)
      OBVIOUS
    <3>4. s \in SUBSET (1..m) /\ s \in SUBSET (1..n)
      BY <2>1
    <3>5. more[k + 1] = seq[k + 1]
      BY <2>1
    <3>6. Iter(base, more)[s \ {k + 1}] = Iter(base, seq)[s \ {k + 1}]
      BY <2>2, <3>3
    <3>7. /\ Iter(base, more)[s] = Op(Iter(base, more)[s \ {k + 1}], more[k + 1])
          /\ Iter(base, seq)[s] = Op(Iter(base, seq)[s \ {k + 1}], seq[k + 1])
      BY <1>0, <3>1, <3>2, <3>4 DEF Unfolded
    <3> QED BY <3>5, <3>6, <3>7
  <2> QED BY <2>3, <2>4
<1> HIDE DEF Good
<1>3. m \in Good
  BY <1>1, <1>2, FromZero
<1>4. m <= m
  OBVIOUS
<1> QED BY <1>3, <1>4 DEF Good

-----------------------------------------------------------------------------
(* What the fold computes. *)

\* Over nothing it is the base.
THEOREM FoldNone ==
    ASSUME NEW base, NEW seq, DOMAIN seq = {}
    PROVE  Fold(base, seq) = base
<1>1. DOMAIN seq = 1..0 /\ {} \in SUBSET (1..0)
  OBVIOUS
<1>2. Iter(base, seq)[{}] = Unfolded(Iter(base, seq), base, seq, {})
  BY <1>1, IterIs
<1> QED BY <1>2 DEF Fold, Unfolded

\* Over one more element it is one more step.
THEOREM FoldOneMore ==
    ASSUME NEW base, NEW seq, NEW more, NEW n \in Nat,
           DOMAIN seq = 1..n, DOMAIN more = 1..(n + 1),
           \A i \in 1..n : more[i] = seq[i]
    PROVE  Fold(base, more) = Op(Fold(base, seq), more[n + 1])
<1> DEFINE s == 1..(n + 1)
<1>1. n + 1 \in s /\ s \in SUBSET (1..(n + 1)) /\ s \ {n + 1} = 1..n
  OBVIOUS
<1>2. Last(s) = n + 1
  BY <1>1, LastIs
<1>3. Iter(base, more)[s] = Op(Iter(base, more)[s \ {n + 1}], more[n + 1])
  <2>1. Iter(base, more)[s] = Unfolded(Iter(base, more), base, more, s)
    BY <1>1, IterIs
  <2> HIDE DEF s
  <2> QED BY <1>1, <1>2, <2>1 DEF Unfolded
<1>4. Iter(base, more)[1..n] = Iter(base, seq)[1..n]
  <2>1. n <= n + 1 /\ 1..n \in SUBSET (1..n)
    OBVIOUS
  <2> QED BY <2>1, IterAgree
<1> QED BY <1>1, <1>3, <1>4 DEF Fold

\* In terms of prefixes: the first k + 1 elements after the first k.
THEOREM FoldPrefix ==
    ASSUME NEW base, NEW S, NEW seq \in Seq(S), NEW k \in Nat, k < Len(seq)
    PROVE  Fold(base, SubSeq(seq, 1, k + 1))
             = Op(Fold(base, SubSeq(seq, 1, k)), seq[k + 1])
<1> DEFINE less == SubSeq(seq, 1, k)
           more == SubSeq(seq, 1, k + 1)
<1>1. DOMAIN less = 1..k /\ DOMAIN more = 1..(k + 1)
  OBVIOUS
<1>2. /\ \A i \in 1..k : less[i] = seq[i] /\ more[i] = seq[i]
      /\ more[k + 1] = seq[k + 1]
  OBVIOUS
<1> HIDE DEF less, more
<1>3. Fold(base, more) = Op(Fold(base, less), more[k + 1])
  BY <1>1, <1>2, FoldOneMore
<1> QED BY <1>2, <1>3 DEF less, more

\* What every step keeps, the fold has.
THEOREM FoldKeeps ==
    ASSUME NEW P, NEW base \in P, NEW S, NEW seq \in Seq(S),
           \A a \in P, i \in 1..Len(seq) : Op(a, seq[i]) \in P
    PROVE  Fold(base, seq) \in P
<1> DEFINE Good == {k \in Nat : k <= Len(seq) =>
                        Fold(base, SubSeq(seq, 1, k)) \in P}
<1>1. 0 \in Good
  <2>1. DOMAIN SubSeq(seq, 1, 0) = {}
    OBVIOUS
  <2> QED BY <2>1, FoldNone
<1>2. ASSUME NEW k \in Nat, k \in Good PROVE k + 1 \in Good
  <2>1. SUFFICES ASSUME k + 1 <= Len(seq)
                 PROVE  Fold(base, SubSeq(seq, 1, k + 1)) \in P
    OBVIOUS
  <2>2. k <= Len(seq) /\ k < Len(seq) /\ k + 1 \in 1..Len(seq)
    BY <2>1
  <2>3. Fold(base, SubSeq(seq, 1, k)) \in P
    BY <1>2, <2>2
  <2> QED BY <2>2, <2>3, FoldPrefix
<1> HIDE DEF Good
<1>3. Len(seq) \in Nat /\ SubSeq(seq, 1, Len(seq)) = seq /\ Len(seq) <= Len(seq)
  OBVIOUS
<1>4. Len(seq) \in Good
  BY <1>1, <1>2, <1>3, FromZero
<1> QED BY <1>3, <1>4 DEF Good

\* One element more of the second part of a concatenation.
LEMMA ConcatOneMore ==
    ASSUME NEW S, NEW s \in Seq(S), NEW t \in Seq(S), NEW k \in Nat, k < Len(t)
    PROVE  Append(s \o SubSeq(t, 1, k), t[k + 1]) = s \o SubSeq(t, 1, k + 1)
<1> DEFINE less == SubSeq(t, 1, k)
           more == SubSeq(t, 1, k + 1)
           a == Append(s \o less, t[k + 1])
           b == s \o more
<1>1. /\ less \in Seq(S) /\ more \in Seq(S) /\ t[k + 1] \in S
      /\ Len(less) = k /\ Len(more) = k + 1
      /\ \A i \in 1..k : more[i] = less[i]
      /\ more[k + 1] = t[k + 1]
  OBVIOUS
<1> HIDE DEF less, more
<1>2. /\ s \o less \in Seq(S) /\ Len(s \o less) = Len(s) + k
      /\ \A i \in 1..(Len(s) + k) :
            (s \o less)[i] = IF i <= Len(s) THEN s[i] ELSE less[i - Len(s)]
  BY <1>1, ConcatProperties
<1>3. a \in Seq(S) /\ Len(a) = Len(s) + k + 1
  BY <1>1, <1>2
<1>4. b \in Seq(S) /\ Len(b) = Len(s) + k + 1
  BY <1>1
<1>5. ASSUME NEW i \in 1..Len(a) PROVE a[i] = b[i]
  <2>1. /\ Len(s) \in Nat
        /\ i \in 1..Len(s) \/ i - Len(s) \in 1..k \/ i - Len(s) = k + 1
    BY <1>3
  <2>2. b[i] = IF i <= Len(s) THEN s[i] ELSE more[i - Len(s)]
    BY <1>1, <1>3, ConcatProperties
  <2>3. a[i] = IF i <= Len(s) + k THEN (s \o less)[i] ELSE t[k + 1]
    <3>1. Len(s) \in Nat /\ i \in 1..(Len(s) + k + 1)
      BY <1>3
    <3>2. CASE i <= Len(s) + k
      <4>1. i \in 1..Len(s \o less)
        BY <1>2, <3>1, <3>2
      <4> QED BY <1>1, <1>2, <3>2, <4>1, AppendProperties
    <3>3. CASE ~(i <= Len(s) + k)
      <4>1. i = Len(s \o less) + 1
        BY <1>2, <3>1, <3>3
      <4> QED BY <1>1, <1>2, <3>3, <4>1, AppendProperties
    <3> QED BY <3>2, <3>3
  <2> HIDE DEF a, b
  <2> QED BY <1>1, <1>2, <2>1, <2>2, <2>3
<1> HIDE DEF a, b
<1>6. a = b
  BY <1>3, <1>4, <1>5, SeqEqual
<1> QED BY <1>6 DEF a, b, less, more

\* Where every step appends its element, the fold is the concatenation.
THEOREM FoldAppends ==
    ASSUME NEW S, NEW base \in Seq(S), NEW seq \in Seq(S),
           \A k \in Nat : k < Len(seq) =>
                Op(base \o SubSeq(seq, 1, k), seq[k + 1])
                    = Append(base \o SubSeq(seq, 1, k), seq[k + 1])
    PROVE  Fold(base, seq) = base \o seq
<1> DEFINE Done(k) == SubSeq(seq, 1, k)
           Good == {k \in Nat : k <= Len(seq) => Fold(base, Done(k)) = base \o Done(k)}
<1>1. 0 \in Good
  <2>1. DOMAIN Done(0) = {} /\ base \o Done(0) = base
    OBVIOUS
  <2> HIDE DEF Done
  <2> QED BY <2>1, FoldNone
<1>2. ASSUME NEW k \in Nat, k \in Good PROVE k + 1 \in Good
  <2>1. SUFFICES ASSUME k + 1 <= Len(seq)
                 PROVE  Fold(base, Done(k + 1)) = base \o Done(k + 1)
    OBVIOUS
  <2>2. k <= Len(seq) /\ k < Len(seq) /\ k + 1 \in 1..Len(seq)
    BY <2>1
  <2>3. Fold(base, Done(k + 1)) = Op(base \o Done(k), seq[k + 1])
    BY <1>2, <2>2, FoldPrefix
  <2>4. Append(base \o Done(k), seq[k + 1]) = base \o Done(k + 1)
    BY <2>2, ConcatOneMore
  <2> QED BY <2>2, <2>3, <2>4
<1> HIDE DEF Good
<1>3. Len(seq) \in Nat /\ Done(Len(seq)) = seq /\ Len(seq) <= Len(seq)
  OBVIOUS
<1>4. Len(seq) \in Good
  BY <1>1, <1>2, <1>3, FromZero
<1> QED BY <1>3, <1>4 DEF Good
=============================================================================
