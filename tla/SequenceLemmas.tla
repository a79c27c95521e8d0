--------------------------- MODULE SequenceLemmas ---------------------------
(***************************************************************************)
(* Induction over numbers, and facts about stacks: a last element pushed,  *)
(* popped or replaced.                                                     *)
(***************************************************************************)
EXTENDS Integers, SequencesExt, SequenceTheorems, FiniteSetTheorems, TLAPS

\* Induction, as a fact about a set of numbers: were a number n missing, its
\* predecessor would be, and the members up to n would map one to one into
\* themselves without reaching 0.
LEMMA SetInduction ==
  ASSUME NEW S, 0 \in S, \A n \in Nat : n \in S => n + 1 \in S
  PROVE  Nat \subseteq S
  <1> SUFFICES ASSUME NEW n \in Nat, n \notin S PROVE FALSE
    OBVIOUS
  <1> DEFINE T == {k \in 0..n : k \in S}
             f == [k \in T |-> k + 1]
  <1>1. \A k \in T : k \in Nat /\ k < n /\ k + 1 \in T
    OBVIOUS
  <1>2. IsFiniteSet(T)
    <2>1. IsFiniteSet(0..n)
      BY FS_Interval
    <2>2. T \in SUBSET (0..n)
      OBVIOUS
    <2> HIDE DEF T
    <2>3. QED
      BY <2>1, <2>2, FS_Subset
  <1>3. f \in Injection(T, T)
    BY <1>1 DEF Injection, IsInjective
  <1>4. f \in Surjection(T, T)
    <2> HIDE DEF T, f
    <2>1. QED
      BY <1>2, <1>3, FS_Injection
  <1>5. PICK k \in T : f[k] = 0
    <2>1. 0 \in T
      OBVIOUS
    <2> HIDE DEF T, f
    <2>2. QED
      BY <1>4, <2>1 DEF Surjection
  <1>6. QED
    BY <1>1, <1>5

LEMMA FrontLastProperties ==
  ASSUME NEW S, NEW s \in Seq(S), s # <<>>
  PROVE  /\ Front(s) \in Seq(S)
         /\ Len(s) \in Nat \ {0}
         /\ Len(Front(s)) = Len(s) - 1
         /\ \A i \in 1..(Len(s) - 1) : Front(s)[i] = s[i]
         /\ Last(s) = s[Len(s)]
         /\ Last(s) \in S
  <1>1. Len(s) \in Nat \ {0}
    BY EmptySeq
  <1>2. Last(s) = s[Len(s)] /\ Last(s) \in S
    BY <1>1 DEF Last
  <1> DEFINE n == Len(s) - 1
  <1>3. 1 \in Int /\ n \in Int /\ \A i \in 1..n : s[i] \in S
    BY <1>1
  <1>4. /\ SubSeq(s, 1, n) \in Seq(S)
        /\ Len(SubSeq(s, 1, n)) = IF 1 <= n THEN n - 1 + 1 ELSE 0
        /\ \A i \in 1..(n - 1 + 1) : SubSeq(s, 1, n)[i] = s[1 + i - 1]
    <2> HIDE DEF n
    <2> QED BY <1>3, SubSeqProperties
  <1>5. Front(s) = SubSeq(s, 1, n)
    BY DEF Front
  <1>6. /\ Front(s) \in Seq(S)
        /\ Len(Front(s)) = Len(s) - 1
        /\ \A i \in 1..(Len(s) - 1) : Front(s)[i] = s[i]
    <2> HIDE DEF n
    <2>1. Len(s) = n + 1 /\ n \in Nat
      BY <1>1 DEF n
    <2>2. QED
      BY <1>4, <1>5, <2>1
  <1>7. QED
    BY <1>1, <1>2, <1>6

LEMMA AppendThenFront ==
  ASSUME NEW S, NEW s \in Seq(S), NEW x \in S
  PROVE  /\ Append(s, x) \in Seq(S)
         /\ Append(s, x) # <<>>
         /\ Len(Append(s, x)) = Len(s) + 1
         /\ \A i \in 1..Len(s) : Append(s, x)[i] = s[i]
         /\ Append(s, x)[Len(s) + 1] = x
         /\ Last(Append(s, x)) = x
         /\ Front(Append(s, x)) = s
  <1> DEFINE t == Append(s, x)
  <1>1. /\ t \in Seq(S)
        /\ t # <<>>
        /\ Len(t) = Len(s) + 1
        /\ \A i \in 1..Len(s) : t[i] = s[i]
        /\ t[Len(s) + 1] = x
    BY AppendProperties
  <1>2. Len(s) \in Nat
    BY LenProperties
  <1> HIDE DEF t
  <1>3. /\ Front(t) \in Seq(S)
        /\ Len(Front(t)) = Len(t) - 1
        /\ \A i \in 1..(Len(t) - 1) : Front(t)[i] = t[i]
        /\ Last(t) = t[Len(t)]
    BY <1>1, FrontLastProperties
  <1>4. Front(t) = s
    BY <1>1, <1>2, <1>3, SeqEqual
  <1>5. QED
    BY <1>1, <1>3, <1>4 DEF t

LEMMA ReplaceLast ==
  ASSUME NEW S, NEW s \in Seq(S), s # <<>>, NEW x \in S
  PROVE  LET t == [s EXCEPT ![Len(s)] = x] IN
         /\ t \in Seq(S)
         /\ Len(t) = Len(s)
         /\ t # <<>>
         /\ \A i \in 1..(Len(s) - 1) : t[i] = s[i]
         /\ t[Len(s)] = x
         /\ Front(t) = Front(s)
  <1> DEFINE t == [s EXCEPT ![Len(s)] = x]
  <1>1. Len(s) \in Nat \ {0}
    BY EmptySeq
  <1>2. /\ t \in Seq(S)
        /\ Len(t) = Len(s)
        /\ t # <<>>
        /\ \A i \in 1..(Len(s) - 1) : t[i] = s[i]
        /\ t[Len(s)] = x
    BY <1>1, ExceptSeq, EmptySeq, LenProperties
  <1> HIDE DEF t
  <1>3. /\ Front(t) \in Seq(S) /\ Front(s) \in Seq(S)
        /\ Len(Front(t)) = Len(t) - 1 /\ Len(Front(s)) = Len(s) - 1
    BY <1>2, FrontLastProperties
  <1>4. /\ \A i \in 1..(Len(s) - 1) : Front(s)[i] = s[i]
        /\ \A i \in 1..(Len(t) - 1) : Front(t)[i] = t[i]
    BY <1>2, FrontLastProperties
  <1>5. Front(t) = Front(s)
    BY <1>1, <1>2, <1>3, <1>4, SeqEqual
  <1>6. QED
    BY <1>2, <1>5 DEF t

LEMMA FrontIsSeq ==
  ASSUME NEW S, NEW s \in Seq(S)
  PROVE  Front(s) \in Seq(S)
  <1>1. CASE s = <<>>
    <2>1. Len(s) = 0
      BY <1>1
    <2>2. Front(s) = <<>>
      BY <2>1, SubSeqEmpty DEF Front
    <2>3. QED
      BY <2>2
  <1>2. CASE s # <<>>
    BY <1>2, FrontLastProperties
  <1>3. QED
    BY <1>1, <1>2

LEMMA ConcatNonEmpty ==
  ASSUME NEW S, NEW s \in Seq(S), NEW t \in Seq(S)
  PROVE  /\ s \o t \in Seq(S)
         /\ t # <<>> \/ s # <<>> => s \o t # <<>>
  BY ConcatProperties, ConcatEqualIffEmpty

\* The same of sequences whose elements have no set: each is a sequence over
\* what it holds.
LEMMA OverItself ==
  ASSUME NEW S, NEW s \in Seq(S)
  PROVE  /\ s \in Seq(ToSet(s)) /\ Len(s) \in Nat
         /\ \A i \in 1..Len(s) : s[i] \in ToSet(s)
  <1>1. Len(s) \in Nat /\ DOMAIN s = 1..Len(s) /\ s = [i \in 1..Len(s) |-> s[i]]
    BY LenProperties
  <1>2. \A i \in 1..Len(s) : s[i] \in ToSet(s)
    BY <1>1 DEF ToSet
  <1>3. QED
    BY <1>1, <1>2

LEMMA OverMore ==
  ASSUME NEW s, NEW S, s \in Seq(ToSet(s)), ToSet(s) \subseteq S
  PROVE  s \in Seq(S)
  <1>1. Len(s) \in Nat /\ s = [i \in 1..Len(s) |-> s[i]] /\ \A i \in 1..Len(s) : s[i] \in S
    BY LenProperties, ElementOfSeq
  <1>2. QED
    BY <1>1

LEMMA Pushed ==
  ASSUME NEW s, NEW x, s \in Seq(ToSet(s))
  PROVE  /\ Append(s, x) \in Seq(ToSet(Append(s, x)))
         /\ Append(s, x) # <<>>
         /\ Len(s) \in Nat /\ Len(Append(s, x)) = Len(s) + 1
         /\ \A i \in 1..Len(s) : Append(s, x)[i] = s[i]
         /\ Append(s, x)[Len(s) + 1] = x
         /\ Last(Append(s, x)) = x
  <1> DEFINE S == ToSet(s) \cup {x}
  <1>1. s \in Seq(S) /\ x \in S
    BY OverMore
  <1> HIDE DEF S
  <1>2. /\ Append(s, x) \in Seq(S)
        /\ Append(s, x) # <<>>
        /\ Len(Append(s, x)) = Len(s) + 1
        /\ \A i \in 1..Len(s) : Append(s, x)[i] = s[i]
        /\ Append(s, x)[Len(s) + 1] = x
        /\ Last(Append(s, x)) = x
    BY <1>1, AppendThenFront
  <1>3. Append(s, x) \in Seq(ToSet(Append(s, x))) /\ Len(s) \in Nat
    BY <1>1, <1>2, OverItself
  <1>4. QED
    BY <1>2, <1>3

LEMMA Popped ==
  ASSUME NEW s, s \in Seq(ToSet(s)), s # <<>>
  PROVE  /\ Front(s) \in Seq(ToSet(Front(s)))
         /\ Len(s) \in Nat \ {0} /\ Len(Front(s)) = Len(s) - 1
         /\ \A i \in 1..(Len(s) - 1) : Front(s)[i] = s[i]
         /\ Last(s) = s[Len(s)]
         /\ Front(s) # <<>> => Last(Front(s)) = s[Len(s) - 1]
  <1> DEFINE S == ToSet(s)
  <1>0. s \in Seq(S)
    OBVIOUS
  <1> HIDE DEF S
  <1>1. /\ Front(s) \in Seq(S) /\ Len(s) \in Nat \ {0} /\ Len(Front(s)) = Len(s) - 1
        /\ Last(s) = s[Len(s)]
        /\ \A i \in 1..(Len(s) - 1) : Front(s)[i] = s[i]
    BY <1>0, FrontLastProperties
  <1>2. Front(s) \in Seq(ToSet(Front(s)))
    BY <1>1, OverItself
  <1>3. Front(s) # <<>> => Last(Front(s)) = s[Len(s) - 1]
    <2> HAVE Front(s) # <<>>
    <2>1. Last(Front(s)) = Front(s)[Len(Front(s))] /\ Len(Front(s)) \in Nat \ {0}
      BY <1>1, FrontLastProperties
    <2>2. Len(s) - 1 \in Nat \ {0} /\ Last(Front(s)) = Front(s)[Len(s) - 1]
      BY <1>1, <2>1
    <2>3. QED
      BY <1>1, <2>2
  <1>4. QED
    BY <1>1, <1>2, <1>3

LEMMA Replaced ==
  ASSUME NEW s, NEW x, s \in Seq(ToSet(s)), s # <<>>
  PROVE  LET t == [s EXCEPT ![Len(s)] = x] IN
         /\ t \in Seq(ToSet(t)) /\ t # <<>>
         /\ Len(s) \in Nat \ {0} /\ Len(t) = Len(s)
         /\ \A i \in 1..(Len(s) - 1) : t[i] = s[i]
         /\ t[Len(s)] = x /\ Last(t) = x
  <1> DEFINE S == ToSet(s) \cup {x}
             t == [s EXCEPT ![Len(s)] = x]
  <1>1. s \in Seq(S) /\ x \in S
    BY OverMore
  <1> HIDE DEF S
  <1>2. /\ t \in Seq(S) /\ t # <<>> /\ Len(t) = Len(s) /\ t[Len(s)] = x
        /\ \A i \in 1..(Len(s) - 1) : t[i] = s[i]
    BY <1>1, ReplaceLast
  <1> HIDE DEF t
  <1>3. Len(s) \in Nat \ {0} /\ Last(t) = t[Len(t)]
    BY <1>1, <1>2, FrontLastProperties
  <1>4. t \in Seq(ToSet(t))
    BY <1>2, OverItself
  <1>5. QED
    BY <1>2, <1>3, <1>4 DEF t

\* The same in one formula: t is s with its last element replaced by x.
ReplacesLast(t, s, x) ==
  /\ t \in Seq(ToSet(t)) /\ t # <<>>
  /\ Len(s) \in Nat \ {0} /\ Len(t) = Len(s)
  /\ t[Len(s)] = x /\ Last(t) = x
  /\ \A i \in 1..(Len(s) - 1) : t[i] = s[i]

LEMMA ReplacedLast ==
  ASSUME NEW s, NEW x, s \in Seq(ToSet(s)), s # <<>>
  PROVE  ReplacesLast([s EXCEPT ![Len(s)] = x], s, x)
  <1> DEFINE t == [s EXCEPT ![Len(s)] = x]
  <1>1. /\ t \in Seq(ToSet(t)) /\ t # <<>>
        /\ Len(s) \in Nat \ {0} /\ Len(t) = Len(s)
        /\ \A i \in 1..(Len(s) - 1) : t[i] = s[i]
        /\ t[Len(s)] = x /\ Last(t) = x
    BY Replaced
  <1> HIDE DEF t
  <1>2. ReplacesLast(t, s, x)
    BY <1>1 DEF ReplacesLast
  <1>3. QED
    BY <1>2 DEF t
=============================================================================
