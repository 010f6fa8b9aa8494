---------------------------- MODULE QueueLemmas ----------------------------
(***************************************************************************)
(* Facts about queues without repetition (the VecDeque<usize> of thread    *)
(* indices and its kin): push_back, pop_front, and the removal from the    *)
(* middle that donation needs.                                             *)
(***************************************************************************)
EXTENDS Integers, Sequences, SequencesExt, SequenceTheorems,
        WellFoundedInduction, TLAPS

(***************************************************************************)
(* push_back adds the element at the end and nothing else (VecDeque).      *)
(***************************************************************************)
LEMMA PushesBack ==
    ASSUME NEW S, NEW q \in Seq(S), NEW x \in S
    PROVE  /\ Append(q, x) \in Seq(S) /\ Append(q, x) # <<>>
           /\ Range(Append(q, x)) = Range(q) \cup {x}
           /\ IsInjective(q) /\ x \notin Range(q) => IsInjective(Append(q, x))
<1>1. /\ Append(q, x) \in Seq(S)
      /\ DOMAIN Append(q, x) = 1 .. (Len(q) + 1)
      /\ DOMAIN q = 1 .. Len(q)
      /\ Len(q) \in Nat
      /\ \A i \in 1 .. Len(q) : Append(q, x)[i] = q[i]
      /\ Append(q, x)[Len(q) + 1] = x
      /\ Append(q, x) # <<>>
  BY AppendProperties, LenProperties
<1>2. Range(Append(q, x)) = Range(q) \cup {x}
  BY <1>1 DEF Range
<1>3. ASSUME IsInjective(q), x \notin Range(q)
      PROVE  IsInjective(Append(q, x))
  BY <1>1, <1>3 DEF IsInjective, Range
<1> QED
  BY <1>1, <1>2, <1>3

(***************************************************************************)
(* pop_front returns an element of the queue and leaves all the others.    *)
(***************************************************************************)
LEMMA PopFront ==
    ASSUME NEW S, NEW q \in Seq(S), q # <<>>, IsInjective(q)
    PROVE  /\ Head(q) \in Range(q)
           /\ Tail(q) \in Seq(S)
           /\ Range(Tail(q)) = Range(q) \ {Head(q)}
           /\ IsInjective(Tail(q))
<1>1. /\ Tail(q) \in Seq(S)
      /\ Len(q) \in Nat /\ Len(q) > 0
      /\ DOMAIN q = 1 .. Len(q)
      /\ DOMAIN Tail(q) = 1 .. (Len(q) - 1)
      /\ \A i \in 1 .. (Len(q) - 1) : Tail(q)[i] = q[i + 1]
      /\ Head(q) = q[1]
  BY HeadTailProperties, LenProperties, EmptySeq
<1>2. Head(q) \in Range(q)
  BY <1>1 DEF Range
<1>3. IsInjective(Tail(q))
  BY <1>1 DEF IsInjective
<1>4. ASSUME NEW y \in Range(Tail(q)) PROVE y \in Range(q) \ {Head(q)}
  BY <1>1 DEF Range, IsInjective
<1>5. ASSUME NEW y \in Range(q) \ {Head(q)} PROVE y \in Range(Tail(q))
  <2>1. PICK i \in 1 .. Len(q) : q[i] = y
    BY <1>1 DEF Range
  <2>2. i # 1
    BY <2>1, <1>1
  <2>3. i - 1 \in 1 .. (Len(q) - 1) /\ Tail(q)[i - 1] = y
    BY <2>1, <2>2, <1>1
  <2> QED
    BY <2>3, <1>1 DEF Range
<1> QED
  BY <1>1, <1>2, <1>3, <1>4, <1>5

(***************************************************************************)
(* position + remove take exactly the given element out (yield_tick).      *)
(***************************************************************************)
LEMMA RemoveMiddle ==
    ASSUME NEW S, NEW q \in Seq(S), IsInjective(q), NEW x \in Range(q)
    PROVE  /\ RemoveFirst(q, x) \in Seq(S)
           /\ Range(RemoveFirst(q, x)) = Range(q) \ {x}
           /\ IsInjective(RemoveFirst(q, x))
<1>1. PICK n \in Nat : n = Len(q) /\ DOMAIN q = 1 .. n
  BY LenProperties
<1>2. PICK k \in 1 .. n : q[k] = x
  BY <1>1 DEF Range
<1>3. {i \in 1 .. n : q[i] = x} = {k}
  BY <1>1, <1>2 DEF IsInjective
<1>4. Min({k}) = k
  BY <1>2 DEF Min
<1>5. RemoveFirst(q, x) = SubSeq(q, 1, k - 1) \o SubSeq(q, k + 1, n)
  BY <1>1, <1>2, <1>3, <1>4 DEF RemoveFirst, RemoveAt, SelectInSeq
<1> DEFINE r == RemoveFirst(q, x)
<1>6. /\ SubSeq(q, 1, k - 1) \in Seq(S)
      /\ Len(SubSeq(q, 1, k - 1)) = k - 1
      /\ \A i \in 1 .. (k - 1) : SubSeq(q, 1, k - 1)[i] = q[i]
  <2>1. \A i \in 1 .. (k - 1) : q[i] \in S
    BY <1>1, <1>2, ElementOfSeq
  <2> QED
    BY <2>1, <1>1, <1>2, SubSeqProperties
<1>7. /\ SubSeq(q, k + 1, n) \in Seq(S)
      /\ Len(SubSeq(q, k + 1, n)) = n - k
      /\ \A i \in 1 .. (n - k) : SubSeq(q, k + 1, n)[i] = q[i + k]
  <2> DEFINE t == SubSeq(q, k + 1, n)
  <2>1. \A i \in (k + 1) .. n : q[i] \in S
    BY <1>1, <1>2, ElementOfSeq
  <2>2. /\ t \in Seq(S)
        /\ Len(t) = IF k + 1 <= n THEN n - (k + 1) + 1 ELSE 0
        /\ \A i \in 1 .. (n - (k + 1) + 1) : t[i] = q[(k + 1) + i - 1]
    <3> HIDE DEF t
    <3> QED
      BY <2>1, <1>1, <1>2, SubSeqProperties DEF t
  <2>3. \A i \in 1 .. (n - k) : (k + 1) + i - 1 = i + k
    BY <1>1, <1>2
  <2> HIDE DEF t
  <2>4. t \in Seq(S) /\ Len(t) = n - k
    BY <2>2, <1>1, <1>2
  <2>5. \A i \in 1 .. (n - k) : t[i] = q[i + k]
    BY <2>2, <2>3, <1>1, <1>2
  <2> QED
    BY <2>4, <2>5 DEF t
<1> DEFINE a == SubSeq(q, 1, k - 1)
           b == SubSeq(q, k + 1, n)
<1>8. /\ r \in Seq(S)
      /\ Len(r) = n - 1
      /\ DOMAIN r = 1 .. (n - 1)
      /\ \A i \in 1 .. (n - 1) : r[i] = IF i < k THEN q[i] ELSE q[i + 1]
  <2>1. r = a \o b /\ a \in Seq(S) /\ b \in Seq(S)
        /\ Len(a) = k - 1 /\ Len(b) = n - k
        /\ (\A i \in 1 .. (k - 1) : a[i] = q[i])
        /\ \A i \in 1 .. (n - k) : b[i] = q[i + k]
    BY <1>5, <1>6, <1>7
  <2> HIDE DEF r, a, b
  <2>2. r \in Seq(S) /\ Len(r) = n - 1
    BY <2>1, <1>1, <1>2, ConcatProperties
  <2>3. \A i \in 1 .. (n - 1) : r[i] = IF i <= k - 1 THEN a[i] ELSE b[i - (k - 1)]
    BY <2>1, <1>1, <1>2, ConcatProperties
  <2>4. ASSUME NEW i \in 1 .. (n - 1), i < k PROVE r[i] = q[i]
    BY <2>1, <2>3, <2>4, <1>1, <1>2
  <2>5. ASSUME NEW i \in 1 .. (n - 1), ~(i < k) PROVE r[i] = q[i + 1]
    <3>1. r[i] = b[i - (k - 1)]
      BY <2>3, <2>5, <1>1, <1>2
    <3>2. i - (k - 1) \in 1 .. (n - k) /\ (i - (k - 1)) + k = i + 1
      BY <2>5, <1>1, <1>2
    <3> QED
      BY <3>1, <3>2, <2>1
  <2> QED
    BY <2>2, <2>4, <2>5, LenProperties
<1> HIDE DEF r
<1>9. IsInjective(r)
  <2>1. ASSUME NEW i \in 1 .. (n - 1), NEW j \in 1 .. (n - 1), r[i] = r[j]
        PROVE  i = j
    <3> DEFINE p(m) == IF m < k THEN m ELSE m + 1
    <3>1. p(i) \in 1 .. n /\ p(j) \in 1 .. n
      BY <1>1, <1>2
    <3>2. r[i] = q[p(i)] /\ r[j] = q[p(j)]
      BY <1>8
    <3>3. p(i) = p(j)
      <4> HIDE DEF p
      <4> QED
        BY <3>1, <3>2, <2>1, <1>1 DEF IsInjective
    <3> QED
      BY <3>3, <1>1, <1>2
  <2> QED
    BY <2>1, <1>8 DEF IsInjective
<1>10. ASSUME NEW y \in Range(r) PROVE y \in Range(q) \ {x}
  <2>1. PICK j \in 1 .. (n - 1) : r[j] = y
    BY <1>8 DEF Range
  <2> DEFINE i == IF j < k THEN j ELSE j + 1
  <2>2. i \in 1 .. n /\ i # k
    BY <1>1, <1>2
  <2>3. q[i] = y
    BY <2>1, <1>8
  <2> HIDE DEF i
  <2>4. y \in Range(q)
    BY <2>2, <2>3, <1>1 DEF Range
  <2>5. q[i] # q[k]
    BY <2>2, <1>1, <1>2 DEF IsInjective
  <2> QED
    BY <2>3, <2>4, <2>5, <1>2
<1>11. ASSUME NEW y \in Range(q) \ {x} PROVE y \in Range(r)
  <2>1. PICK i \in 1 .. n : q[i] = y
    BY <1>1 DEF Range
  <2>2. i # k
    BY <2>1, <1>2
  <2>3. \E j \in 1 .. (n - 1) : r[j] = y
    <3>1. CASE i < k
      BY <3>1, <2>1, <1>8, <1>2, <1>1
    <3>2. CASE i > k
      <4>1. i - 1 \in 1 .. (n - 1) /\ ~(i - 1 < k) /\ (i - 1) + 1 = i
        BY <3>2, <2>1, <1>2, <1>1
      <4> QED
        BY <4>1, <2>1, <1>8
    <3> QED
      BY <3>1, <3>2, <2>2, <2>1, <1>2
  <2> QED
    BY <2>3, <1>8 DEF Range
<1> QED
  BY <1>8, <1>9, <1>10, <1>11 DEF r

(***************************************************************************)
(* The queues with no element and with one.                                *)
(***************************************************************************)
LEMMA SmallQueues ==
    ASSUME NEW S, NEW q \in Seq(S), IsInjective(q)
    PROVE  /\ Range(q) = {} => q = <<>>
           /\ \A x : Range(q) = {x} => q = <<x>>
<1>1. DOMAIN q = 1 .. Len(q) /\ Len(q) \in Nat
  BY LenProperties
<1>2. ASSUME Range(q) = {} PROVE q = <<>>
  <2>1. Len(q) = 0
    <3>1. SUFFICES ASSUME Len(q) # 0 PROVE FALSE
      OBVIOUS
    <3>2. 1 \in DOMAIN q
      BY <3>1, <1>1
    <3> QED
      BY <3>2, <1>2 DEF Range
  <2> QED
    BY <2>1, EmptySeq
<1>3. ASSUME NEW x, Range(q) = {x} PROVE q = <<x>>
  <2>1. \A i \in 1 .. Len(q) : q[i] = x
    BY <1>1, <1>3 DEF Range
  <2>2. Len(q) # 0
    <3>1. PICK i \in DOMAIN q : q[i] = x
      BY <1>3 DEF Range
    <3> QED
      BY <3>1, <1>1
  <2>3. ~(Len(q) > 1)
    <3>1. SUFFICES ASSUME Len(q) > 1 PROVE FALSE
      OBVIOUS
    <3>2. q[1] = q[2] /\ 1 \in DOMAIN q /\ 2 \in DOMAIN q
      BY <3>1, <2>1, <1>1
    <3> QED
      BY <3>2 DEF IsInjective
  <2>4. Len(q) = 1
    BY <2>2, <2>3, <1>1
  <2>5. x \in S
    <3>1. q[1] = x /\ 1 \in 1 .. Len(q)
      BY <2>1, <2>4
    <3> QED
      BY <3>1, ElementOfSeq
  <2> QED
    BY <2>1, <2>4, <2>5, SeqEqual
<1> QED
  BY <1>2, <1>3

(***************************************************************************)
(* A set of naturals that is not empty has a least element, and Min is it. *)
(***************************************************************************)
LEMMA MinInSet ==
    ASSUME NEW T, T \subseteq Nat, T # {}
    PROVE  Min(T) \in T /\ \A y \in T : Min(T) <= y
<1> DEFINE R == {ss \in Nat \X Nat : ss[1] < ss[2]}
<1>1. R = OpToRel(<, Nat)
  BY Zenon DEF OpToRel
<1>2. IsWellFoundedOn(R, Nat)
  BY <1>1, NatLessThanWellFounded, Zenon
<1>3. \E x \in T : \A y \in T : ~(<<y, x>> \in R)
  <2> HIDE DEF R
  <2> QED
    BY <1>2, WFMin
<1>4. \E x \in T : \A y \in T : x <= y
  <2>1. PICK x \in T : \A y \in T : ~(<<y, x>> \in R)
    BY <1>3
  <2>2. ASSUME NEW y \in T PROVE x <= y
    <3>1. x \in Nat /\ y \in Nat
      OBVIOUS
    <3>2. ~(y < x)
      BY <2>1, <3>1
    <3> QED
      BY <3>1, <3>2
  <2> QED
    BY <2>2
<1> QED
  BY <1>4 DEF Min

(***************************************************************************)
(* One queue after another: nothing else is in it, and nothing is in it    *)
(* twice when the two have nothing in common (extend).                     *)
(***************************************************************************)
LEMMA Concatenates ==
    ASSUME NEW S, NEW q \in Seq(S), NEW r \in Seq(S)
    PROVE  /\ q \o r \in Seq(S)
           /\ Range(q \o r) = Range(q) \cup Range(r)
           /\ IsInjective(q) /\ IsInjective(r) /\ Range(q) \cap Range(r) = {} =>
                 IsInjective(q \o r)
<1> DEFINE c == q \o r
<1>1. /\ c \in Seq(S) /\ Len(q) \in Nat /\ Len(r) \in Nat
      /\ DOMAIN c = 1 .. (Len(q) + Len(r))
      /\ DOMAIN q = 1 .. Len(q) /\ DOMAIN r = 1 .. Len(r)
      /\ \A i \in 1 .. (Len(q) + Len(r)) :
             c[i] = IF i <= Len(q) THEN q[i] ELSE r[i - Len(q)]
  BY ConcatProperties, LenProperties
<1> HIDE DEF c
<1>2. \A i \in DOMAIN q : i \in DOMAIN c /\ c[i] = q[i]
  BY <1>1
<1>3. \A i \in DOMAIN r : Len(q) + i \in DOMAIN c /\ c[Len(q) + i] = r[i]
  BY <1>1
<1>4. \A i \in DOMAIN c : \/ i \in DOMAIN q /\ c[i] = q[i]
                          \/ i - Len(q) \in DOMAIN r /\ c[i] = r[i - Len(q)]
  BY <1>1
<1>5. Range(c) = Range(q) \cup Range(r)
  <2>1. ASSUME NEW x \in Range(c) PROVE x \in Range(q) \cup Range(r)
    BY <1>4 DEF Range
  <2>2. ASSUME NEW x \in Range(q) \cup Range(r) PROVE x \in Range(c)
    BY <1>2, <1>3 DEF Range
  <2> QED
    BY <2>1, <2>2
<1>6. ASSUME IsInjective(q), IsInjective(r), Range(q) \cap Range(r) = {}
      PROVE  IsInjective(c)
  <2> SUFFICES ASSUME NEW i \in DOMAIN c, NEW j \in DOMAIN c, c[i] = c[j] PROVE i = j
    BY DEF IsInjective
  <2>1. CASE i \in DOMAIN q /\ c[i] = q[i] /\ j \in DOMAIN q /\ c[j] = q[j]
    BY <1>6, <2>1 DEF IsInjective
  <2>2. CASE /\ i - Len(q) \in DOMAIN r /\ c[i] = r[i - Len(q)]
             /\ j - Len(q) \in DOMAIN r /\ c[j] = r[j - Len(q)]
    <3>1. i - Len(q) = j - Len(q)
      BY <1>6, <2>2 DEF IsInjective
    <3> QED
      BY <1>1, <3>1
  <2>3. CASE i \in DOMAIN q /\ c[i] = q[i] /\ j - Len(q) \in DOMAIN r /\ c[j] = r[j - Len(q)]
    BY <1>6, <2>3 DEF Range
  <2>4. CASE j \in DOMAIN q /\ c[j] = q[j] /\ i - Len(q) \in DOMAIN r /\ c[i] = r[i - Len(q)]
    BY <1>6, <2>4 DEF Range
  <2> QED
    BY <1>4, <2>1, <2>2, <2>3, <2>4
<1> QED
  BY <1>1, <1>5, <1>6 DEF c

(***************************************************************************)
(* A prefix and the rest of a sequence are sequences (Drain and Flush).    *)
(***************************************************************************)
LEMMA SplitTypes ==
    ASSUME NEW S, NEW q \in Seq(S), NEW n \in 0 .. Len(q)
    PROVE  /\ SubSeq(q, 1, n) \in Seq(S) /\ Len(SubSeq(q, 1, n)) = n
           /\ \A i \in 1 .. n : SubSeq(q, 1, n)[i] = q[i]
           /\ SubSeq(q, n + 1, Len(q)) \in Seq(S)
           /\ Len(SubSeq(q, n + 1, Len(q))) = Len(q) - n
           /\ \A i \in 1 .. (Len(q) - n) : SubSeq(q, n + 1, Len(q))[i] = q[n + i]
<1>1. Len(q) \in Nat /\ \A i \in 1 .. Len(q) : q[i] \in S
  BY LenProperties, ElementOfSeq
<1>2. /\ SubSeq(q, 1, n) \in Seq(S) /\ Len(SubSeq(q, 1, n)) = n
      /\ \A i \in 1 .. n : SubSeq(q, 1, n)[i] = q[i]
  <2>1. \A i \in 1 .. n : q[i] \in S
    BY <1>1
  <2> QED
    BY <1>1, <2>1, SubSeqProperties
<1>3. \A i \in (n + 1) .. Len(q) : q[i] \in S
  BY <1>1
<1> DEFINE r == SubSeq(q, n + 1, Len(q))
<1>4. /\ r \in Seq(S)
      /\ Len(r) = IF n + 1 <= Len(q) THEN Len(q) - (n + 1) + 1 ELSE 0
      /\ \A i \in 1 .. (Len(q) - (n + 1) + 1) : r[i] = q[(n + 1) + i - 1]
  <2> HIDE DEF r
  <2> QED
    BY <1>1, <1>3, SubSeqProperties DEF r
<1>5. \A i \in 1 .. (Len(q) - n) : (n + 1) + i - 1 = n + i
  BY <1>1
<1> HIDE DEF r
<1>6. Len(r) = Len(q) - n /\ \A i \in 1 .. (Len(q) - n) : r[i] = q[n + i]
  BY <1>1, <1>4, <1>5
<1> QED
  BY <1>2, <1>4, <1>6 DEF r

(***************************************************************************)
(* A queue cut in two (drain(..n)): each element is in one of the parts.   *)
(***************************************************************************)
LEMMA Splits ==
    ASSUME NEW S, NEW q \in Seq(S), NEW n \in 0 .. Len(q)
    PROVE  LET a == SubSeq(q, 1, n)
               b == SubSeq(q, n + 1, Len(q))
           IN  /\ Range(a) \cup Range(b) = Range(q)
               /\ IsInjective(q) => /\ IsInjective(a) /\ IsInjective(b)
                                    /\ Range(a) \cap Range(b) = {}
<1> DEFINE a == SubSeq(q, 1, n)
           b == SubSeq(q, n + 1, Len(q))
<1>1. /\ Len(q) \in Nat /\ DOMAIN q = 1 .. Len(q)
      /\ DOMAIN a = 1 .. n /\ DOMAIN b = 1 .. (Len(q) - n)
      /\ \A i \in 1 .. n : a[i] = q[i]
      /\ \A i \in 1 .. (Len(q) - n) : b[i] = q[n + i]
  BY SplitTypes, LenProperties
<1> HIDE DEF a, b
<1>2. \A i \in DOMAIN a : i \in DOMAIN q /\ a[i] = q[i]
  BY <1>1
<1>3. \A i \in DOMAIN b : n + i \in DOMAIN q /\ b[i] = q[n + i] /\ n + i > n
  BY <1>1
<1>4. \A i \in DOMAIN q : \/ i \in DOMAIN a /\ a[i] = q[i]
                          \/ i - n \in DOMAIN b /\ b[i - n] = q[i]
  <2>1. ASSUME NEW i \in DOMAIN q, ~(i <= n) PROVE i - n \in DOMAIN b /\ b[i - n] = q[i]
    <3>1. i - n \in 1 .. (Len(q) - n) /\ n + (i - n) = i
      BY <1>1, <2>1
    <3> QED
      BY <1>1, <3>1
  <2> QED
    BY <1>1, <2>1
<1>5. Range(a) \cup Range(b) = Range(q)
  <2>1. ASSUME NEW x \in Range(a) \cup Range(b) PROVE x \in Range(q)
    BY <1>2, <1>3 DEF Range
  <2>2. ASSUME NEW x \in Range(q) PROVE x \in Range(a) \cup Range(b)
    BY <1>4 DEF Range
  <2> QED
    BY <2>1, <2>2
<1>6. ASSUME IsInjective(q) PROVE IsInjective(a) /\ IsInjective(b)
  <2>1. IsInjective(a)
    BY <1>2, <1>6 DEF IsInjective
  <2>2. ASSUME NEW i \in DOMAIN b, NEW j \in DOMAIN b, b[i] = b[j] PROVE i = j
    <3>1. n + i = n + j
      BY <1>3, <1>6, <2>2 DEF IsInjective
    <3> QED
      BY <1>1, <3>1
  <2> QED
    BY <2>1, <2>2 DEF IsInjective
<1>7. ASSUME IsInjective(q) PROVE Range(a) \cap Range(b) = {}
  <2>1. ASSUME NEW i \in DOMAIN a, NEW j \in DOMAIN b, a[i] = b[j] PROVE FALSE
    <3>1. i = n + j
      BY <1>2, <1>3, <1>7, <2>1 DEF IsInjective
    <3> QED
      BY <1>1, <3>1
  <2> QED
    BY <2>1 DEF Range
<1> QED
  BY <1>5, <1>6, <1>7 DEF a, b
=============================================================================
