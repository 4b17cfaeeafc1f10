---------------------------- MODULE RequestProofs ---------------------------
(***************************************************************************)
(* The requests a page has in flight, and what happens to them: what the   *)
(* proofs about the pages share.                                           *)
(***************************************************************************)
EXTENDS Integers, Sequences, FiniteSets, SequenceTheorems, FiniteSetTheorems, TLAPS

\* A request has its five fields.
IsRequest(r) ==
  /\ r = [op |-> r.op, arg |-> r.arg, back |-> r.back, ok |-> r.ok, val |-> r.val]
  /\ r.back \in BOOLEAN

\* A sequence of requests, whatever they ask for and carry.
InFlight(q) == q \in Seq(Range(q)) /\ \A i \in DOMAIN q : IsRequest(q[i])

\* What the pages do to one of them: the API answers it or goes on with it, the
\* page that waits for it is lost, or it was handled.
Answer(q, i, okay, v) == [q EXCEPT ![i].back = TRUE, ![i].ok = okay, ![i].val = v]
GoOn(q, i, v) == [q EXCEPT ![i].val = v]
Rename(q, i, op) == [q EXCEPT ![i].op = op]
Without(q, i) == SubSeq(q, 1, i - 1) \o SubSeq(q, i + 1, Len(q))

\* A request that is issued becomes the last one; the others stay where they were.
LEMMA Issued ==
  ASSUME NEW q, InFlight(q), NEW r, IsRequest(r)
  PROVE  /\ InFlight(Append(q, r))
         /\ Len(q) \in Nat /\ DOMAIN q = 1..Len(q)
         /\ Len(Append(q, r)) = Len(q) + 1 /\ DOMAIN Append(q, r) = 1..(Len(q) + 1)
         /\ \A j \in 1..Len(q) : Append(q, r)[j] = q[j]
         /\ Append(q, r)[Len(q) + 1] = r
<1> DEFINE n == Append(q, r)
           S == Range(q) \cup {r}
<1>1. q \in Seq(S)
  BY SeqMonotonic DEF InFlight
<1>2. /\ n \in Seq(S) /\ Len(n) = Len(q) + 1 /\ DOMAIN n = 1..(Len(q) + 1)
      /\ \A j \in 1..Len(q) : n[j] = q[j]
      /\ n[Len(q) + 1] = r
  BY <1>1, AppendProperties
<1>3. n \in Seq(Range(n))
  BY <1>2, SeqOfRange
<1>4. Len(q) \in Nat /\ DOMAIN q = 1..Len(q)
  BY <1>1, LenProperties
<1>5. ASSUME NEW i \in DOMAIN n
      PROVE  IsRequest(n[i])
  <2>1. CASE i = Len(q) + 1
    BY <1>2, <2>1
  <2>2. CASE i \in 1..Len(q)
    BY <1>2, <1>4, <2>2 DEF InFlight
  <2> QED
    BY <1>2, <1>4, <2>1, <2>2
<1> QED
  BY <1>2, <1>3, <1>4, <1>5 DEF InFlight

\* A request that was handled leaves; the others keep their order.
LEMMA Removed ==
  ASSUME NEW q, InFlight(q), NEW i \in DOMAIN q
  PROVE  LET n == Without(q, i) IN
         /\ InFlight(n)
         /\ Len(q) \in Nat /\ DOMAIN q = 1..Len(q)
         /\ Len(n) = Len(q) - 1 /\ DOMAIN n = 1..(Len(q) - 1)
         /\ \A j \in 1..(Len(q) - 1) : n[j] = q[IF j < i THEN j ELSE j + 1]
<1> DEFINE S == Range(q)
           a == SubSeq(q, 1, i - 1)
           b == SubSeq(q, i + 1, Len(q))
           n == a \o b
<1>1. q \in Seq(S) /\ Len(q) \in Nat /\ DOMAIN q = 1..Len(q) /\ i \in 1..Len(q)
  BY LenProperties DEF InFlight
<1>2. a \in Seq(S) /\ Len(a) = i - 1 /\ \A j \in 1..(i - 1) : a[j] = q[j]
  BY <1>1, SubSeqProperties
<1>3. b \in Seq(S) /\ Len(b) = Len(q) - i /\ \A j \in 1..(Len(q) - i) : b[j] = q[i + j]
  BY SMTT(30), <1>1, SubSeqProperties
<1> HIDE DEF a, b
<1>4. /\ n \in Seq(S) /\ Len(n) = Len(q) - 1
      /\ \A j \in 1..Len(n) : n[j] = IF j <= Len(a) THEN a[j] ELSE b[j - Len(a)]
  <2>1. /\ n \in Seq(S) /\ Len(n) = Len(a) + Len(b)
        /\ \A j \in 1..(Len(a) + Len(b)) : n[j] = IF j <= Len(a) THEN a[j] ELSE b[j - Len(a)]
    BY <1>2, <1>3, ConcatProperties
  <2> QED
    BY SMTT(30), <2>1, <1>1, <1>2, <1>3
<1>5. DOMAIN n = 1..(Len(q) - 1)
  BY <1>4, LenProperties
<1> HIDE DEF n
<1>6. ASSUME NEW j \in 1..(Len(q) - 1)
      PROVE  n[j] = q[IF j < i THEN j ELSE j + 1]
  <2>1. CASE j < i
    BY <1>1, <1>2, <1>4, <2>1
  <2>2. CASE j >= i
    <3>1. n[j] = b[j - (i - 1)] /\ j - (i - 1) \in 1..(Len(q) - i)
      BY <1>1, <1>2, <1>4, <2>2
    <3> QED
      BY SMTT(30), <1>1, <1>3, <2>2, <3>1
  <2> QED
    BY <1>1, <2>1, <2>2
<1>7. n \in Seq(Range(n))
  BY <1>4, SeqOfRange
<1>8. ASSUME NEW j \in DOMAIN n
      PROVE  IsRequest(n[j])
  BY <1>1, <1>5, <1>6 DEF InFlight
<1>9. Without(q, i) = n
  BY DEF Without, n, a, b
<1> QED
  BY <1>1, <1>4, <1>5, <1>6, <1>7, <1>8, <1>9 DEF InFlight

\* A request that changes does so in its place.
LEMMA Replaced ==
  ASSUME NEW q, InFlight(q), NEW i \in DOMAIN q, NEW r, IsRequest(r)
  PROVE  LET n == [q EXCEPT ![i] = r] IN
         /\ InFlight(n)
         /\ Len(q) \in Nat /\ DOMAIN q = 1..Len(q)
         /\ Len(n) = Len(q) /\ DOMAIN n = 1..Len(q)
         /\ \A j \in 1..Len(q) : n[j] = IF j = i THEN r ELSE q[j]
<1> DEFINE n == [q EXCEPT ![i] = r]
           S == Range(q) \cup {r}
<1>1. q \in Seq(S)
  BY SeqMonotonic DEF InFlight
<1>2. /\ n \in Seq(S) /\ Len(n) = Len(q) 
  BY <1>1, ExceptSeq, LenProperties
<1>3. n \in Seq(Range(n))
  BY <1>2, SeqOfRange
<1>4. Len(q) \in Nat /\ DOMAIN q = 1..Len(q) /\ DOMAIN n = 1..Len(q)
  BY <1>1, <1>2, LenProperties
<1>5. \A j \in 1..Len(q) : n[j] = IF j = i THEN r ELSE q[j]
  BY <1>4
<1>6. \A j \in DOMAIN n : IsRequest(n[j])
  BY <1>5, <1>4 DEF InFlight
<1> QED
  BY <1>2, <1>3, <1>4, <1>5, <1>6 DEF InFlight

\* The API answers a request, well or not.
LEMMA Answered ==
  ASSUME NEW q, InFlight(q), NEW i \in DOMAIN q, NEW okay \in BOOLEAN, NEW v
  PROVE  LET n == Answer(q, i, okay, v) IN
         /\ InFlight(n)
         /\ Len(q) \in Nat /\ DOMAIN q = 1..Len(q)
         /\ Len(n) = Len(q) /\ DOMAIN n = 1..Len(q)
         /\ \A j \in 1..Len(q) : j # i => n[j] = q[j]
         /\ n[i] = [op |-> q[i].op, arg |-> q[i].arg, back |-> TRUE, ok |-> okay, val |-> v]
<1> DEFINE r == [op |-> q[i].op, arg |-> q[i].arg, back |-> TRUE, ok |-> okay, val |-> v]
           n == [q EXCEPT ![i].back = TRUE, ![i].ok = okay, ![i].val = v]
<1>1. IsRequest(q[i])
  BY DEF InFlight
<1>2. n = [q EXCEPT ![i] = r]
  <2> DEFINE O == q[i].op
             A == q[i].arg
             B == q[i].back
             K == q[i].ok
             V == q[i].val
  <2>1. q[i] = [op |-> O, arg |-> A, back |-> B, ok |-> K, val |-> V]
    BY <1>1 DEF IsRequest
  <2> HIDE DEF O, A, B, K, V
  <2>2. n[i] = r
    BY <2>1 DEF O, A, B, K, V
  <2>3. q = [j \in 1..Len(q) |-> q[j]]
    BY LenProperties DEF InFlight
  <2>4. n = [j \in 1..Len(q) |-> n[j]] /\ \A j \in 1..Len(q) : j # i => n[j] = q[j]
    BY <2>3
  <2> HIDE DEF n, r
  <2> QED
    BY <2>2, <2>3, <2>4
<1>3. IsRequest(r)
  BY DEF IsRequest
<1> HIDE DEF r, n
<1>4. /\ InFlight(n)
      /\ Len(q) \in Nat /\ DOMAIN q = 1..Len(q)
      /\ Len(n) = Len(q) /\ DOMAIN n = 1..Len(q)
      /\ \A j \in 1..Len(q) : n[j] = IF j = i THEN r ELSE q[j]
  BY <1>2, <1>3, Replaced
<1> QED
  BY <1>4 DEF r, n, Answer

\* The API goes on with a request: its answer-to-be changes.
LEMMA Progressed ==
  ASSUME NEW q, InFlight(q), NEW i \in DOMAIN q, NEW v
  PROVE  LET n == GoOn(q, i, v) IN
         /\ InFlight(n)
         /\ Len(q) \in Nat /\ DOMAIN q = 1..Len(q)
         /\ Len(n) = Len(q) /\ DOMAIN n = 1..Len(q)
         /\ \A j \in 1..Len(q) : j # i => n[j] = q[j]
         /\ n[i] = [op |-> q[i].op, arg |-> q[i].arg, back |-> q[i].back, ok |-> q[i].ok, val |-> v]
<1> DEFINE r == [op |-> q[i].op, arg |-> q[i].arg, back |-> q[i].back, ok |-> q[i].ok, val |-> v]
           n == [q EXCEPT ![i].val = v]
<1>1. IsRequest(q[i])
  BY DEF InFlight
<1>2. n = [q EXCEPT ![i] = r]
  <2> DEFINE x == q[i]
             O == x.op
             A == x.arg
             B == x.back
             K == x.ok
             V == x.val
  <2>1. x = [op |-> O, arg |-> A, back |-> B, ok |-> K, val |-> V]
    BY <1>1 DEF IsRequest
  <2>2. r = [op |-> O, arg |-> A, back |-> B, ok |-> K, val |-> v]
    OBVIOUS
  <2>3. q = [j \in 1..Len(q) |-> q[j]]
    BY LenProperties DEF InFlight
  <2> HIDE DEF O, A, B, K, V, r
  <2>4. n = [q EXCEPT ![i] = [x EXCEPT !.val = v]]
    BY <2>3
  <2>5. [x EXCEPT !.val = v] = r
    BY <2>1, <2>2
  <2> QED
    BY <2>4, <2>5
<1>3. IsRequest(r)
  BY <1>1 DEF IsRequest
<1> HIDE DEF r, n
<1>4. /\ InFlight(n)
      /\ Len(q) \in Nat /\ DOMAIN q = 1..Len(q)
      /\ Len(n) = Len(q) /\ DOMAIN n = 1..Len(q)
      /\ \A j \in 1..Len(q) : n[j] = IF j = i THEN r ELSE q[j]
  BY ZenonT(60), <1>2, <1>3, Replaced
<1> QED
  BY <1>4 DEF r, n, GoOn

\* A request loses the page that waits for it.
LEMMA Renamed ==
  ASSUME NEW q, InFlight(q), NEW i \in DOMAIN q, NEW op
  PROVE  LET n == Rename(q, i, op) IN
         /\ InFlight(n)
         /\ Len(q) \in Nat /\ DOMAIN q = 1..Len(q)
         /\ Len(n) = Len(q) /\ DOMAIN n = 1..Len(q)
         /\ \A j \in 1..Len(q) : j # i => n[j] = q[j]
         /\ n[i] = [op |-> op, arg |-> q[i].arg, back |-> q[i].back, ok |-> q[i].ok, val |-> q[i].val]
<1> DEFINE r == [op |-> op, arg |-> q[i].arg, back |-> q[i].back, ok |-> q[i].ok, val |-> q[i].val]
           n == [q EXCEPT ![i].op = op]
<1>1. IsRequest(q[i])
  BY DEF InFlight
<1>2. n = [q EXCEPT ![i] = r]
  <2> DEFINE x == q[i]
             O == x.op
             A == x.arg
             B == x.back
             K == x.ok
             V == x.val
  <2>1. x = [op |-> O, arg |-> A, back |-> B, ok |-> K, val |-> V]
    BY <1>1 DEF IsRequest
  <2>2. r = [op |-> op, arg |-> A, back |-> B, ok |-> K, val |-> V]
    OBVIOUS
  <2>3. q = [j \in 1..Len(q) |-> q[j]]
    BY LenProperties DEF InFlight
  <2> HIDE DEF O, A, B, K, V, r
  <2>4. n = [q EXCEPT ![i] = [x EXCEPT !.op = op]]
    BY <2>3
  <2>5. [x EXCEPT !.op = op] = r
    BY <2>1, <2>2
  <2> QED
    BY <2>4, <2>5
<1>3. IsRequest(r)
  BY <1>1 DEF IsRequest
<1> HIDE DEF r, n
<1>4. /\ InFlight(n)
      /\ Len(q) \in Nat /\ DOMAIN q = 1..Len(q)
      /\ Len(n) = Len(q) /\ DOMAIN n = 1..Len(q)
      /\ \A j \in 1..Len(q) : n[j] = IF j = i THEN r ELSE q[j]
  BY <1>2, <1>3, Replaced
<1> QED
  BY <1>4 DEF r, n, Rename

\* A page mounts with one request.
LEMMA FirstRequest ==
  ASSUME NEW r, IsRequest(r)
  PROVE  LET n == Append(<<>>, r) IN
         InFlight(n) /\ Len(n) = 1 /\ DOMAIN n = 1..1 /\ n[1] = r
<1>1. InFlight(<<>>)
  BY EmptySeq, SeqOfRange DEF InFlight
<1>2. Len(<<>>) = 0
  OBVIOUS
<1>3. PICK q : q = <<>>
  OBVIOUS
<1>4. InFlight(q) /\ Len(q) = 0
  BY <1>1, <1>2, <1>3
<1> DEFINE n == Append(q, r)
<1>5. /\ InFlight(n) /\ Len(n) = Len(q) + 1 /\ DOMAIN n = 1..(Len(q) + 1)
      /\ n[Len(q) + 1] = r
  BY <1>4, Issued
<1> HIDE DEF n
<1>6. InFlight(n) /\ Len(n) = 1 /\ DOMAIN n = 1..1 /\ n[1] = r
  BY <1>4, <1>5
<1> QED
  BY <1>3, <1>6 DEF n

----------------------------------------------------------------------------
(* Induction.  The library's induction theorems have an operator as a       *)
(* parameter and cannot be cited; that inclusion is well-founded on the     *)
(* subsets of a finite set can, and the rest follows from it.               *)

\* Among sets of members of a finite set, one includes no other.
LEMMA SmallestSubset ==
  ASSUME NEW S, IsFiniteSet(S), NEW F, F \subseteq SUBSET S, F # {}
  PROVE  \E A \in F : \A B \in F : B \subseteq A => B = A
<1>1. IsWellFoundedOn(StrictSubsetOrdering(S), SUBSET S)
  BY FS_StrictSubsetOrderingWellFounded, FS_FiniteSubsetsOfFinite
<1>2. PICK A \in F : \A B \in F : <<B, A>> \notin StrictSubsetOrdering(S)
  BY <1>1, WFMin
<1> QED
  BY <1>2 DEF StrictSubsetOrdering

\* Numbers, as a name: lemmas about sets are cited where it hides what they are sets of.
Integral(S) == S \subseteq Int

\* Finitely many numbers have a greatest: a smallest set that has none would have
\* one without any of its members.
LEMMA FiniteMax ==
  ASSUME NEW S, Integral(S), IsFiniteSet(S), S # {}
  PROVE  \E m \in S : \A x \in S : m >= x
<1> DEFINE Bad == {A \in SUBSET S : A # {} /\ ~ \E m \in A : \A x \in A : m >= x}
<1> SUFFICES ASSUME Bad # {}
             PROVE  FALSE
  OBVIOUS
<1>1. PICK A \in Bad : \A B \in Bad : B \subseteq A => B = A
  <2>1. Bad \subseteq SUBSET S /\ Bad # {}
    OBVIOUS
  <2> HIDE DEF Bad
  <2>2. PICK G : G = Bad
    OBVIOUS
  <2>3. IsFiniteSet(S) /\ G \subseteq SUBSET S /\ G # {}
    BY <2>1, <2>2
  <2>4. \E A \in G : \A B \in G : B \subseteq A => B = A
    BY <2>3, SmallestSubset
  <2> QED
    BY <2>2, <2>4
<1>2. PICK a \in A : TRUE
  OBVIOUS
<1>3. A \ {a} \notin Bad
  BY <1>1, <1>2
<1>4. CASE A \ {a} = {}
  BY <1>1, <1>2, <1>4 DEF Integral
<1>5. CASE A \ {a} # {}
  <2>1. PICK m \in A \ {a} : \A x \in A \ {a} : m >= x
    BY <1>3, <1>5
  <2>2. m \in Int /\ a \in Int /\ A \subseteq Int
    BY <1>1, <1>2, <2>1 DEF Integral
  <2>3. CASE m >= a
    BY <2>1, <2>2, <2>3
  <2>4. CASE ~(m >= a)
    <3>1. \A x \in A : a >= x
      BY <1>2, <2>1, <2>2, <2>4
    <3> QED
      BY <1>2, <3>1
  <2> QED
    BY <2>3, <2>4
<1> QED
  BY <1>4, <1>5

\* And a least one.
LEMMA FiniteMin ==
  ASSUME NEW S, Integral(S), IsFiniteSet(S), S # {}
  PROVE  \E m \in S : \A x \in S : m <= x
<1> DEFINE T == {0 - x : x \in S}
<1>1. T # {} /\ \A t \in T : t \in Int
  <2>1. \A x \in S : x \in Int
    BY DEF Integral
  <2> QED
    BY <2>1
<1>2. IsFiniteSet(T)
  <2>1. PICK f : f = [x \in S |-> 0 - x]
    OBVIOUS
  <2>2. f \in Surjection(S, T)
    BY <2>1 DEF Surjection
  <2> HIDE DEF T
  <2> QED
    BY <2>2, FS_Surjection
<1>3. PICK m \in T : \A x \in T : m >= x
  <2>1. Integral(T)
    BY <1>1 DEF Integral
  <2> HIDE DEF T
  <2> QED
    BY <1>1, <1>2, <2>1, FiniteMax
<1>4. PICK n \in S : m = 0 - n
  OBVIOUS
<1>5. ASSUME NEW x \in S
      PROVE  n <= x
  <2>1. m >= 0 - x
    BY <1>3
  <2>2. n \in Int /\ x \in Int
    BY DEF Integral
  <2> HIDE DEF T
  <2> QED
    BY <1>4, <2>1, <2>2
<1> QED
  BY <1>5

\* Any set of natural numbers has a least one.
LEMMA LeastNat ==
  ASSUME NEW S \in SUBSET Nat, S # {}
  PROVE  \E m \in S : \A x \in S : m <= x
<1>1. PICK n \in S : TRUE
  OBVIOUS
<1> DEFINE T == {n - x : x \in {y \in S : y <= n}}
<1>2. T \in SUBSET Nat /\ \A t \in T : t <= n
  OBVIOUS
<1>3. T \in SUBSET Int /\ T # {} /\ IsFiniteSet(T)
  <2>1. 0 \in T
    BY <1>1
  <2> HIDE DEF T
  <2>2. IsFiniteSet(T)
    BY <1>2, FS_BoundedSetOfNaturals
  <2> QED
    BY <1>2, <2>1, <2>2
<1>4. PICK m \in T : \A x \in T : m >= x
  <2> HIDE DEF T
  <2> QED
    BY <1>3, FiniteMax DEF Integral
<1>5. PICK y \in S : y <= n /\ m = n - y
  OBVIOUS
<1>6. \A x \in S : x <= n => m >= n - x
  BY <1>4
<1> QED
  BY <1>5, <1>6

\* What holds of 0, and of the next number whenever of a number, holds of all.
LEMMA Induction ==
  ASSUME NEW S \in SUBSET Nat, 0 \in S, \A n \in S : n + 1 \in S
  PROVE  S = Nat
<1> SUFFICES ASSUME Nat \ S # {}
             PROVE  FALSE
  OBVIOUS
<1>1. PICK m \in Nat \ S : \A x \in Nat \ S : m <= x
  <2>1. Nat \ S \in SUBSET Nat
    OBVIOUS
  <2> QED
    BY <2>1, LeastNat
<1>2. m # 0 /\ m - 1 \in Nat /\ m - 1 \in S
  BY <1>1
<1>3. (m - 1) + 1 \in S
  BY <1>2
<1> QED
  BY <1>1, <1>2, <1>3

----------------------------------------------------------------------------
(* Sequences of which some entries are kept, as the pages filter lists.     *)

\* The entries of s at the places I, in their order; a place counts those up to it.
Place(I, i) == Cardinality({j \in I : j <= i})
Keeping(s, I) == [k \in 1..Cardinality(I) |-> s[CHOOSE i \in I : Place(I, i) = k]]

\* The entries of m are those of s at the places I, each at one place.
Enumerated(m, s, I) ==
  \E at \in [DOMAIN m -> I] :
    /\ \A k, l \in DOMAIN m : at[k] = at[l] => k = l
    /\ \A k \in DOMAIN m : m[k] = s[at[k]]
    /\ \A i \in I : \E k \in DOMAIN m : at[k] = i

\* Every entry that is kept was at one of the places, two of them at two.
LEMMA KeepingProperties ==
  ASSUME NEW s, NEW n \in Nat, NEW I \in SUBSET (1..n)
  PROVE  /\ Cardinality(I) \in Nat /\ IsFiniteSet(I)
         /\ DOMAIN Keeping(s, I) = 1..Cardinality(I)
         /\ Cardinality(I) = 0 <=> I = {}
         /\ Enumerated(Keeping(s, I), s, I)
<1> DEFINE c == Cardinality(I)
           Upto(i) == {j \in I : j <= i}
           rank == [i \in I |-> Cardinality(Upto(i))]
           at == [k \in 1..c |-> CHOOSE i \in I : Place(I, i) = k]
<1>1. IsFiniteSet(I) /\ c \in Nat /\ (c = 0 <=> I = {})
  <2>1. IsFiniteSet(1..n)
    BY FS_Interval
  <2>2. IsFiniteSet(I)
    BY <2>1, FS_Subset
  <2> QED
    BY <2>2, FS_CardinalityType, FS_EmptySet
<1>2. ASSUME NEW i \in I
      PROVE  IsFiniteSet(Upto(i)) /\ rank[i] \in 1..c
  <2>1. IsFiniteSet(Upto(i)) /\ Cardinality(Upto(i)) <= c
    BY <1>1, FS_Subset
  <2>2. Cardinality(Upto(i)) \in Nat /\ Cardinality(Upto(i)) # 0
    BY <2>1, FS_CardinalityType, FS_EmptySet
  <2> QED
    BY <1>1, <2>1, <2>2
<1>3. ASSUME NEW i \in I, NEW j \in I, rank[i] = rank[j]
      PROVE  i = j
  <2>1. Upto(i) \subseteq Upto(j) \/ Upto(j) \subseteq Upto(i)
    <3>1. i \in Nat /\ j \in Nat /\ \A x \in I : x \in Nat
      OBVIOUS
    <3>2. ASSUME NEW x \in Upto(i), i <= j
          PROVE  x \in Upto(j)
      BY <3>1, <3>2
    <3>3. ASSUME NEW x \in Upto(j), j <= i
          PROVE  x \in Upto(i)
      BY <3>1, <3>3
    <3>4. i <= j \/ j <= i
      BY <3>1
    <3> HIDE DEF Upto
    <3> QED
      BY <3>2, <3>3, <3>4
  <2>2. Upto(i) = Upto(j)
    BY <1>2, <1>3, <2>1, FS_Subset
  <2> QED
    BY <2>2
<1>4. rank \in Injection(I, 1..c)
  <2>1. rank \in [I -> 1..c]
    BY <1>2
  <2> QED
    BY <1>3, <2>1 DEF Injection, IsInjective
<1>5. rank \in Surjection(I, 1..c)
  BY <1>1, <1>4, FS_Interval, FS_Injection
<1>6. ASSUME NEW k \in 1..c
      PROVE  at[k] \in I /\ rank[at[k]] = k
  <2>1. \E i \in I : Place(I, i) = k
    BY <1>5 DEF Surjection, Place
  <2> QED
    BY <2>1 DEF Place
<1>7. at \in [1..c -> I]
  BY <1>6
<1>8. \A k, l \in 1..c : at[k] = at[l] => k = l
  BY <1>6
<1>9. \A k \in 1..c : Keeping(s, I)[k] = s[at[k]]
  BY DEF Keeping
<1>10. \A i \in I : \E k \in 1..c : at[k] = i
  <2> SUFFICES ASSUME NEW i \in I
               PROVE  \E k \in 1..c : at[k] = i
    OBVIOUS
  <2>1. rank[i] \in 1..c
    BY <1>2
  <2>2. at[rank[i]] \in I /\ rank[at[rank[i]]] = rank[i]
    BY <1>6, <2>1
  <2> QED
    BY <1>3, <2>1, <2>2
<1>11. DOMAIN Keeping(s, I) = 1..c
  BY DEF Keeping
<1>12. Enumerated(Keeping(s, I), s, I)
  <2> DEFINE m == Keeping(s, I)
  <2>1. DOMAIN m = 1..c
    BY <1>11
  <2> HIDE DEF at, m
  <2>2. /\ at \in [DOMAIN m -> I]
        /\ \A k, l \in DOMAIN m : at[k] = at[l] => k = l
        /\ \A i \in I : \E k \in DOMAIN m : at[k] = i
    BY <1>7, <1>8, <1>10, <2>1
  <2>3. \A k \in DOMAIN m : m[k] = s[at[k]]
    BY <1>9, <2>1 DEF m
  <2>4. Enumerated(m, s, I)
    BY <2>2, <2>3 DEF Enumerated
  <2> QED
    BY <2>4 DEF m
<1> QED
  BY <1>1, <1>11, <1>12

----------------------------------------------------------------------------
(* The requests themselves, wherever they stand. *)

\* A request that is issued joins the others.
LEMMA IssuedRange ==
  ASSUME NEW q, InFlight(q), NEW r, IsRequest(r)
  PROVE  InFlight(Append(q, r)) /\ Range(Append(q, r)) \subseteq Range(q) \cup {r}
<1>1. PICK n : n = Append(q, r)
  OBVIOUS
<1>2. /\ InFlight(n) /\ DOMAIN q = 1..Len(q) /\ Len(q) \in Nat /\ DOMAIN n = 1..(Len(q) + 1)
      /\ \A j \in 1..Len(q) : n[j] = q[j]
      /\ n[Len(q) + 1] = r
  BY <1>1, Issued
<1>3. ASSUME NEW j \in DOMAIN n
      PROVE  n[j] \in Range(q) \cup {r}
  <2>1. j \in 1..Len(q) \/ j = Len(q) + 1
    BY <1>2
  <2> QED
    BY <1>2, <2>1 DEF Range
<1> QED
  BY <1>1, <1>2, <1>3 DEF Range

\* Of a sequence without one place, every request was there before.
LEMMA RemovedRange ==
  ASSUME NEW q, InFlight(q), NEW i \in DOMAIN q
  PROVE  InFlight(Without(q, i)) /\ Range(Without(q, i)) \subseteq Range(q)
<1>1. PICK n : n = Without(q, i)
  OBVIOUS
<1>2. /\ InFlight(n) /\ Len(q) \in Nat /\ DOMAIN q = 1..Len(q) /\ DOMAIN n = 1..(Len(q) - 1)
      /\ \A j \in 1..(Len(q) - 1) : n[j] = q[IF j < i THEN j ELSE j + 1]
  BY <1>1, Removed
<1>3. ASSUME NEW j \in DOMAIN n
      PROVE  n[j] \in Range(q)
  <2>1. PICK k \in DOMAIN q : k = IF j < i THEN j ELSE j + 1
    BY <1>2
  <2> QED
    BY <1>2, <2>1 DEF Range
<1> QED
  BY <1>1, <1>2, <1>3 DEF Range

\* An answer joins the requests in the place of the one it answers.
LEMMA AnsweredRange ==
  ASSUME NEW q, InFlight(q), NEW i \in DOMAIN q, NEW okay \in BOOLEAN, NEW v
  PROVE  LET r == [op |-> q[i].op, arg |-> q[i].arg, back |-> TRUE, ok |-> okay, val |-> v] IN
         InFlight(Answer(q, i, okay, v)) /\ Range(Answer(q, i, okay, v)) \subseteq Range(q) \cup {r}
<1>1. PICK n : n = Answer(q, i, okay, v)
  OBVIOUS
<1>2. PICK r : r = [op |-> q[i].op, arg |-> q[i].arg, back |-> TRUE, ok |-> okay, val |-> v]
  OBVIOUS
<1>3. /\ InFlight(n) /\ DOMAIN q = 1..Len(q) /\ DOMAIN n = 1..Len(q)
      /\ \A j \in 1..Len(q) : j # i => n[j] = q[j]
      /\ n[i] = r
  BY <1>1, <1>2, Answered
<1>4. ASSUME NEW j \in DOMAIN n
      PROVE  n[j] \in Range(q) \cup {r}
  BY <1>3 DEF Range
<1> QED
  BY <1>1, <1>2, <1>3, <1>4 DEF Range

\* A request that is kept stood at one of the places.
LEMMA KeptRange ==
  ASSUME NEW q, InFlight(q), NEW I \in SUBSET DOMAIN q
  PROVE  /\ InFlight(Keeping(q, I))
         /\ \A r \in Range(Keeping(q, I)) : \E i \in I : r = q[i]
<1>1. Len(q) \in Nat /\ DOMAIN q = 1..Len(q)
  BY LenProperties DEF InFlight
<1> DEFINE c == Cardinality(I)
<1>2. PICK m : m = Keeping(q, I)
  OBVIOUS
<1>3. c \in Nat /\ DOMAIN m = 1..c /\ Enumerated(m, q, I)
  BY <1>1, <1>2, KeepingProperties
<1>4. \A k \in DOMAIN m : \E i \in I : m[k] = q[i]
  BY <1>3 DEF Enumerated
<1>5. m \in Seq(Range(m))
  <2>1. m = [k \in 1..c |-> m[k]]
    BY <1>2, <1>3 DEF Keeping
  <2>2. \A k \in 1..c : m[k] \in Range(m)
    BY <1>3 DEF Range
  <2> HIDE DEF c
  <2> QED
    BY <1>3, <2>1, <2>2, IsASeq
<1>6. \A k \in DOMAIN m : IsRequest(m[k])
  BY <1>4 DEF InFlight
<1> QED
  BY <1>2, <1>4, <1>5, <1>6 DEF InFlight, Range

----------------------------------------------------------------------------
(* Values computed place by place, each from the one before. *)

\* Induction between two numbers.
LEMMA RangeInduction ==
  ASSUME NEW a \in Int, NEW b \in Int, NEW S, a \in S,
         \A i \in a..(b - 1) : i \in S => i + 1 \in S
  PROVE  \A i \in a..b : i \in S
<1> DEFINE T == {n \in Nat : a + n <= b => a + n \in S}
<1>1. T \in SUBSET Nat /\ 0 \in T
  OBVIOUS
<1>2. ASSUME NEW n \in T
      PROVE  n + 1 \in T
  <2>1. SUFFICES ASSUME a + (n + 1) <= b
                 PROVE  a + (n + 1) \in S
    BY DEF T
  <2>2. n \in Nat /\ a + n \in S /\ a + n \in a..(b - 1)
    BY <2>1
  <2>3. (a + n) + 1 \in S
    BY <2>2
  <2>4. (a + n) + 1 = a + (n + 1)
    BY <2>2
  <2> QED
    BY <2>3, <2>4
<1>3. T = Nat
  <2> HIDE DEF T
  <2> QED
    BY <1>1, <1>2, Induction
<1>4. ASSUME NEW i \in a..b
      PROVE  i \in S
  <2>1. i - a \in T
    <3> HIDE DEF T
    <3> QED
      BY <1>3
  <2>2. a + (i - a) = i
    OBVIOUS
  <2> QED
    BY <2>1, <2>2
<1> QED
  BY <1>4

\* f has the value first at a, and each further one is computed from the last.
Iterates(f, a, b, first, next) ==
  f[a] = first /\ \A i \in (a + 1)..b : f[i] = next[<<i, f[i - 1]>>]

\* There is one, within what the computation stays in.
LEMMA Iteration ==
  ASSUME NEW D, NEW a \in Int, NEW b \in Int, a <= b, NEW first \in D,
         NEW next \in [((a + 1)..b) \X D -> D]
  PROVE  \E f \in [a..b -> D] : Iterates(f, a, b, first, next)
<1> DEFINE S == {k \in a..b : \E f \in [a..k -> D] : Iterates(f, a, k, first, next)}
<1>1. a \in S
  <2> DEFINE f == [i \in a..a |-> first]
  <2>1. f \in [a..a -> D] /\ Iterates(f, a, a, first, next)
    BY DEF Iterates
  <2> HIDE DEF f
  <2> QED
    BY <2>1
<1>2. ASSUME NEW k \in a..(b - 1), k \in S
      PROVE  k + 1 \in S
  <2>1. PICK f \in [a..k -> D] : Iterates(f, a, k, first, next)
    BY <1>2
  <2>2. PICK n : n = k + 1
    OBVIOUS
  <2>3. n \in Int /\ n - 1 = k /\ n \in (a + 1)..b /\ n \notin a..k /\ a \in a..k
    BY <2>2
  <2>4. PICK y \in D : y = next[<<n, f[k]>>]
    <3>1. f[k] \in D
      BY <2>1
    <3>2. <<n, f[k]>> \in ((a + 1)..b) \X D
      BY <2>3, <3>1
    <3> QED
      BY <3>2
  <2> DEFINE g == [i \in a..n |-> IF i = n THEN y ELSE f[i]]
  <2>5. g \in [a..n -> D] /\ (\A i \in a..k : g[i] = f[i]) /\ g[n] = y
    BY <2>2, <2>3
  <2> HIDE DEF g
  <2>6. ASSUME NEW i \in (a + 1)..n
        PROVE  g[i] = next[<<i, g[i - 1]>>]
    <3>1. CASE i = n
      <4>1. g[i - 1] = f[k]
        BY <2>3, <2>5, <3>1
      <4> QED
        BY <2>4, <2>5, <3>1, <4>1
    <3>2. CASE i # n
      <4>1. i \in (a + 1)..k /\ i \in a..k /\ i - 1 \in a..k
        BY <2>2, <3>2
      <4> QED
        BY <2>1, <2>5, <4>1 DEF Iterates
    <3> QED
      BY <3>1, <3>2
  <2>7. g[a] = first
    BY <2>1, <2>3, <2>5 DEF Iterates
  <2>8. Iterates(g, a, n, first, next)
    BY <2>6, <2>7 DEF Iterates
  <2>9. n \in a..b
    BY <2>3
  <2> QED
    BY <2>2, <2>5, <2>8, <2>9
<1>3. b \in S
  <2> HIDE DEF S
  <2>1. \A i \in a..b : i \in S
    BY <1>1, <1>2, RangeInduction
  <2> QED
    BY <2>1
<1> QED
  BY <1>3

\* Whatever is computed so stays there.
LEMMA IterationStays ==
  ASSUME NEW D, NEW a \in Int, NEW b \in Int, NEW first \in D, NEW f,
         NEW next \in [((a + 1)..b) \X D -> D], Iterates(f, a, b, first, next)
  PROVE  \A i \in a..b : f[i] \in D
<1> DEFINE S == {i \in Int : f[i] \in D}
<1>1. a \in S
  BY DEF Iterates
<1>2. ASSUME NEW k \in a..(b - 1), k \in S
      PROVE  k + 1 \in S
  <2>1. k + 1 \in (a + 1)..b /\ (k + 1) - 1 = k /\ f[k] \in D
    BY <1>2
  <2>2. f[k + 1] = next[<<k + 1, f[k]>>]
    BY <2>1 DEF Iterates
  <2>3. <<k + 1, f[k]>> \in ((a + 1)..b) \X D
    BY <2>1
  <2> QED
    BY <2>2, <2>3
<1>3. \A i \in a..b : i \in S
  <2> HIDE DEF S
  <2> QED
    BY <1>1, <1>2, RangeInduction
<1> QED
  BY <1>3

=============================================================================
