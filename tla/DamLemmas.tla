------------------------------ MODULE DamLemmas ------------------------------
(***************************************************************************)
(* Facts about the size arithmetic of DamConfig and about the operations   *)
(* on sequences the free lists are made of, for the proofs of the layers.  *)
(***************************************************************************)
EXTENDS DamConfig, SequencesExt, SequenceTheorems, WellFoundedInduction, TLAPS

-----------------------------------------------------------------------------
\* Sizes.

\* A number is its quotient times the divisor, plus the remainder.
LEMMA DivMod ==
  ASSUME NEW x \in Nat, NEW a \in Nat \ {0}
  PROVE  x = (a * (x \div a)) + (x % a) /\ x % a \in 0 .. a - 1
  BY SMTT(30)

\* The sum of two multiples is a multiple.
LEMMA SumAligned ==
  ASSUME NEW x \in Nat, NEW y \in Nat, NEW a \in Nat \ {0}, x % a = 0, y % a = 0
  PROVE  (x + y) % a = 0
<1> DEFINE k == x \div a
           l == y \div a
<1>1. k \in Nat /\ l \in Nat /\ x = a * k /\ y = a * l
  BY DivMod
<1>2. x + y = a * (k + l)
  BY <1>1
<1>3. \A m \in Nat : (a * m) % a = 0
  OBVIOUS
<1>4. k + l \in Nat
  BY <1>1
<1> HIDE DEF k, l
<1> QED BY <1>2, <1>3, <1>4

\* align_up never rounds down, returns a multiple and at least one alignment.
LEMMA AlignUpFacts ==
  ASSUME NEW x \in Nat, NEW a \in Nat \ {0}
  PROVE  /\ AlignUp(x, a) \in Nat
         /\ AlignUp(x, a) >= x
         /\ AlignUp(x, a) % a = 0
         /\ x > 0 => AlignUp(x, a) >= a
<1>1. AlignUp(x, a) \in Nat /\ AlignUp(x, a) >= x
  BY DEF AlignUp
<1>2. AlignUp(x, a) % a = 0
  BY SMTT(30) DEF AlignUp
<1>3. x > 0 => AlignUp(x, a) >= a
  BY <1>1, <1>2
<1> QED BY <1>1, <1>2, <1>3

-----------------------------------------------------------------------------
\* Least and greatest elements.

\* A set of natural numbers that is not empty has a least element: what first fit
\* picks exists.
LEMMA LeastNumber ==
  ASSUME NEW S, S \subseteq Nat, S # {}
  PROVE  Min(S) \in S /\ \A x \in S : Min(S) <= x
<1>1. PICK x \in S : \A y \in S : ~ (<<y, x>> \in OpToRel(<, Nat))
  BY NatLessThanWellFounded, WFMin, Zenon
<1>2. \A y \in S : ~ (y < x)
  BY <1>1 DEF OpToRel
<1>3. \A y \in S : x <= y
  BY <1>2
<1> QED BY <1>3 DEF Min

\* If it is bounded it has a greatest one: the largest pool exists.
LEMMA GreatestNumber ==
  ASSUME NEW S, S \subseteq Nat, S # {}, NEW n \in Nat, \A x \in S : x <= n
  PROVE  Max(S) \in S /\ \A x \in S : x <= Max(S)
<1> DEFINE T == {k \in Nat : n - k \in S}
<1>1. T \subseteq Nat /\ T # {}
  <2>1. PICK x \in S : TRUE
    OBVIOUS
  <2>2. n - x \in Nat /\ n - (n - x) = x
    BY <2>1
  <2> QED BY <2>2
<1>2. Min(T) \in T /\ \A y \in T : Min(T) <= y
  <2> HIDE DEF T
  <2> QED BY <1>1, LeastNumber
<1> DEFINE m == n - Min(T)
<1>3. m \in S /\ Min(T) \in Nat
  BY <1>2
<1>4. ASSUME NEW x \in S PROVE x <= m
  <2>1. n - x \in Nat /\ n - (n - x) = x
    OBVIOUS
  <2>2. Min(T) <= n - x
    BY <2>1, <1>2
  <2> QED BY <2>2, <1>3
<1> HIDE DEF m
<1>5. m \in Nat /\ \A x \in S : x \in Nat
  BY <1>3
<1>6. m \in S /\ \A x \in S : m >= x
  BY <1>3, <1>4, <1>5
<1>7. Max(S) \in S /\ \A x \in S : Max(S) >= x
  BY <1>6, Zenon DEF Max
<1> QED BY <1>7, <1>5
-----------------------------------------------------------------------------
\* Sequences without repetitions.

\* RemoveAt moves up what is behind the place it empties.
LEMMA RemoveAtElements ==
  ASSUME NEW S, NEW s \in Seq(S), NEW i \in DOMAIN s
  PROVE  LET u == RemoveAt(s, i)
         IN  /\ u \in Seq(S)
             /\ Len(u) = Len(s) - 1
             /\ \A j \in 1..Len(s)-1 : u[j] = IF j < i THEN s[j] ELSE s[j+1]
<1> DEFINE u == RemoveAt(s, i)
<1>i. i \in 1..Len(s) /\ Len(s) \in Nat
  OBVIOUS
<1> DEFINE l == SubSeq(s, 1, i-1)
           r == SubSeq(s, i+1, Len(s))
<1>1. u = l \o r
  BY DEF RemoveAt
<1> HIDE DEF u
<1>2. /\ l \in Seq(S) /\ Len(l) = i - 1
      /\ \A j \in 1..i-1 : l[j] = s[j]
  BY <1>i
<1>3. /\ r \in Seq(S) /\ Len(r) = Len(s) - i
      /\ \A j \in 1..Len(s)-i : r[j] = s[i+j]
  BY <1>i
<1> HIDE DEF l, r
<1>4. /\ u \in Seq(S) /\ Len(u) = Len(s) - 1
      /\ \A j \in 1..Len(s)-1 : u[j] = IF j < i THEN l[j] ELSE r[j-i+1]
  <2>0. l \in Seq(S) /\ r \in Seq(S)
    BY <1>2, <1>3
  <2>1. Len(u) = Len(l) + Len(r) /\ u \in Seq(S)
    BY <1>1, <2>0, ConcatProperties, Zenon
  <2>2. \A j \in 1..Len(l)+Len(r) : u[j] = IF j <= Len(l) THEN l[j] ELSE r[j-Len(l)]
    BY <1>1, <2>0, ConcatProperties, Zenon
  <2>3. Len(u) = Len(s) - 1 /\ Len(l)+Len(r) = Len(s)-1
    BY <2>1, <1>2, <1>3, <1>i
  <2>4. ASSUME NEW j \in 1..Len(s)-1 PROVE u[j] = IF j < i THEN l[j] ELSE r[j-i+1]
    <3>1. j - Len(l) = j-i+1 /\ (j <= Len(l) <=> j < i)
      BY <1>2, <1>i
    <3> QED BY <3>1, <2>2, <2>3
  <2> QED BY <2>1, <2>3, <2>4
<1>5. ASSUME NEW j \in 1..Len(s)-1 PROVE u[j] = IF j < i THEN s[j] ELSE s[j + 1]
  <2>1. CASE j < i
    BY <2>1, <1>4, <1>2, <1>i
  <2>2. CASE j >= i
    <3>1. j-i+1 \in 1..Len(s)-i /\ i+(j-i+1) = j+1
      BY <2>2, <1>i
    <3>2. u[j] = r[j-i+1]
      <4>1. ~ (j < i)
        BY <2>2, <1>i
      <4> QED BY <4>1, <1>4, Zenon
    <3>3. r[j-i+1] = s[i+(j-i+1)]
      BY <3>1, <1>3
    <3> QED BY <3>1, <3>2, <3>3, <2>2, <1>i
  <2> QED BY <2>1, <2>2, <1>i
<1>6. /\ u \in Seq(S)
      /\ Len(u) = Len(s) - 1
      /\ \A j \in 1..Len(s)-1 : u[j] = IF j < i THEN s[j] ELSE s[j+1]
  BY <1>4, <1>5
<1> QED BY <1>6 DEF u

\* Taking an element out of a list leaves the others, each once.
LEMMA TakeOut ==
  ASSUME NEW S, NEW s \in Seq(S), IsInjective(s), NEW i \in DOMAIN s
  PROVE  /\ RemoveAt(s, i) \in Seq(S)
         /\ IsInjective(RemoveAt(s, i))
         /\ Range(RemoveAt(s, i)) = Range(s) \ {s[i]}
<1> DEFINE u == RemoveAt(s, i)
           b == s[i]
<1>1. i \in 1..Len(s) /\ Len(s) \in Nat
  OBVIOUS
<1>2. /\ u \in Seq(S)
      /\ Len(u) = Len(s) - 1
      /\ \A j \in 1..Len(s)-1 : u[j] = IF j < i THEN s[j] ELSE s[j+1]
  BY RemoveAtElements
<1>u. u = RemoveAt(s, i)
  OBVIOUS
<1>d. DOMAIN u = 1..Len(s)-1 /\ DOMAIN s = 1..Len(s)
  BY <1>1, <1>2
<1> HIDE DEF u
<1>3. IsInjective(u)
  <2> SUFFICES ASSUME NEW j \in 1..Len(s)-1, NEW k \in 1..Len(s)-1, u[j] = u[k] PROVE j = k
    BY <1>d DEF IsInjective
  <2> DEFINE at(m) == IF m < i THEN m ELSE m + 1
  <2>1. /\ u[j] = s[at(j)] /\ at(j) \in 1..Len(s)
        /\ u[k] = s[at(k)] /\ at(k) \in 1..Len(s)
    BY <1>1, <1>2
  <2>2. at(j) = at(k)
    BY <2>1, <1>1, <1>d DEF IsInjective
  <2> QED BY <2>2, <1>1
<1>4. ASSUME NEW x \in Range(u) PROVE x \in Range(s) \ {b}
  <2>1. PICK j \in 1..Len(s)-1 : u[j] = x
    BY <1>d DEF Range
  <2>2. u[j] = s[IF j < i THEN j ELSE j+1] /\ (IF j < i THEN j ELSE j+1) \in 1..Len(s) \ {i}
    BY <2>1, <1>1, <1>2
  <2> QED BY <2>1, <2>2, <1>1, <1>d DEF IsInjective, Range
<1>5. ASSUME NEW x \in Range(s) \ {b} PROVE x \in Range(u)
  <2>1. PICK j \in 1..Len(s) : s[j] = x
    BY <1>1 DEF Range
  <2>2. CASE j < i
    <3>1. j \in 1..Len(s)-1 /\ u[j] = s[j]
      BY <2>2, <2>1, <1>1, <1>2
    <3> QED BY <3>1, <2>1, <1>d DEF Range
  <2>3. CASE j > i
    <3>1. j - 1 \in 1..Len(s)-1 /\ u[j-1] = s[j]
      BY <2>3, <2>1, <1>1, <1>2
    <3> QED BY <3>1, <2>1, <1>d DEF Range
  <2> QED BY <2>1, <2>2, <2>3, <1>1
<1> QED BY <1>u, <1>2, <1>3, <1>4, <1>5

\* Putting a new element in front keeps the others.
LEMMA PutFirst ==
  ASSUME NEW S, NEW s \in Seq(S), NEW b \in S, b \notin Range(s), IsInjective(s)
  PROVE  /\ <<b>> \o s \in Seq(S)
         /\ IsInjective(<<b>> \o s)
         /\ Range(<<b>> \o s) = Range(s) \cup {b}
         /\ <<b>> \o s # <<>>
<1> DEFINE u == <<b>> \o s
<1>1. /\ u \in Seq(S)
      /\ Len(u) = Len(s) + 1 /\ Len(s) \in Nat
      /\ \A j \in 1..Len(s)+1 : u[j] = IF j = 1 THEN b ELSE s[j-1]
  OBVIOUS
<1>u. u = <<b>> \o s /\ u # <<>>
  BY <1>1
<1>d. DOMAIN u = 1..Len(s)+1 /\ DOMAIN s = 1..Len(s)
  BY <1>1
<1> HIDE DEF u
<1>2. IsInjective(u)
  <2> SUFFICES ASSUME NEW j \in 1..Len(s)+1, NEW k \in 1..Len(s)+1, u[j] = u[k] PROVE j = k
    BY <1>d DEF IsInjective
  <2>0. \A m \in 1..Len(s) : s[m] # b
    BY <1>d DEF Range
  <2>1. CASE j = 1
    <3>1. u[j] = b /\ u[k] = IF k = 1 THEN b ELSE s[k-1]
      BY <2>1, <1>1
    <3>2. k # 1 => k - 1 \in 1..Len(s)
      BY <1>1
    <3> QED BY <3>1, <3>2, <2>0, <2>1
  <2>3. CASE k = 1
    <3>1. u[k] = b /\ u[j] = IF j = 1 THEN b ELSE s[j-1]
      BY <2>3, <1>1
    <3>2. j # 1 => j - 1 \in 1..Len(s)
      BY <1>1
    <3> QED BY <3>1, <3>2, <2>0, <2>3
  <2>2. CASE j # 1 /\ k # 1
    BY <2>2, <1>1, <1>d DEF IsInjective
  <2> QED BY <2>1, <2>2, <2>3
<1>3. ASSUME NEW x \in Range(u) PROVE x \in Range(s) \cup {b}
  BY <1>1, <1>d DEF Range
<1>4. ASSUME NEW x \in Range(s) PROVE x \in Range(u)
  <2>1. PICK j \in 1..Len(s) : s[j] = x
    BY <1>d DEF Range
  <2>2. j + 1 \in 1..Len(s)+1 /\ u[j+1] = s[j]
      BY <2>1, <1>1
  <2> QED BY <2>1, <2>2, <1>d DEF Range
<1>5. b \in Range(u)
  <2>1. 1 \in 1..Len(s)+1 /\ u[1] = b
    BY <1>1
  <2> QED BY <2>1, <1>d DEF Range
<1> QED BY <1>u, <1>1, <1>2, <1>3, <1>4, <1>5

=============================================================================
