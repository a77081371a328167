-------------------------- MODULE SelectionProofs --------------------------
(***************************************************************************)
(* What Only and Without return, for all sequences.  The facts are proved  *)
(* by induction over the length of the sequence; for want of an induction  *)
(* theorem that takes a predicate, each is put as a set of numbers.        *)
(***************************************************************************)
EXTENDS Selection, WellFoundedInduction, SequenceTheorems, TLAPS

LEMMA SetInduction ==
  ASSUME NEW S, 0 \in S, \A n \in Nat : n \in S => n + 1 \in S
  PROVE  \A n \in Nat : n \in S
<1> DEFINE R == OpToRel(<, Nat)
           T == Nat \ S
<1>1. SUFFICES ASSUME T # {} PROVE FALSE
  OBVIOUS
<1>2. IsWellFoundedOn(R, Nat)
  BY NatLessThanWellFounded
<1>3. \A x, y \in Nat : <<x, y>> \in R <=> x < y
  BY DEF OpToRel
<1> HIDE DEF R
<1>4. PICK x \in T : \A y \in T : ~ (<<y, x>> \in R)
  BY <1>1, <1>2, WFMin
<1>5. x # 0 /\ x \in Nat /\ x - 1 \in Nat /\ x - 1 < x
  OBVIOUS
<1>6. <<x - 1, x>> \in R
  BY <1>3, <1>5
<1>7. x - 1 \in S
  BY <1>4, <1>5, <1>6
<1>8. (x - 1) + 1 \in S
  BY <1>5, <1>7
<1>9. QED BY <1>5, <1>8

(* How far the loop over seq has come after i steps.                       *)
LoopStep(seq, set, f, i) ==
    IF i = 0 THEN <<>>
    ELSE IF seq[i] \in set THEN Append(f[i - 1], seq[i]) ELSE f[i - 1]

LEMMA LoopExists ==
  ASSUME NEW T, NEW seq \in Seq(T), NEW set
  PROVE  \A n \in Nat :
           \E f : f = [i \in 0 .. n |-> LoopStep(seq, set, f, i)]
<1> DEFINE Done == {n \in Nat : \E f : f = [i \in 0 .. n |-> LoopStep(seq, set, f, i)]}
<1>1. 0 \in Done
  <2> DEFINE f == [i \in 0 .. 0 |-> <<>>]
  <2>1. f = [i \in 0 .. 0 |-> LoopStep(seq, set, f, i)]
    BY DEF LoopStep
  <2>2. QED BY <2>1
<1>2. ASSUME NEW n \in Nat, n \in Done PROVE n + 1 \in Done
  <2>1. PICK f : f = [i \in 0 .. n |-> LoopStep(seq, set, f, i)]
    BY <1>2
  <2> DEFINE g == [i \in 0 .. n + 1 |->
                     IF i <= n THEN f[i] ELSE LoopStep(seq, set, f, i)]
  <2>2. \A i \in 0 .. n + 1 : LoopStep(seq, set, g, i) = LoopStep(seq, set, f, i)
    <3> TAKE i \in 0 .. n + 1
    <3>1. CASE i = 0
      BY <3>1 DEF LoopStep
    <3>2. CASE i # 0
      <4>1. i - 1 \in 0 .. n + 1 /\ i - 1 <= n
        BY <3>2
      <4>2. g[i - 1] = f[i - 1]
        BY <4>1
      <4>3. QED BY <4>2 DEF LoopStep
    <3>3. QED BY <3>1, <3>2
  <2>3. \A i \in 0 .. n : f[i] = LoopStep(seq, set, f, i)
    BY <2>1
  <2> HIDE DEF g
  <2>4. g = [i \in 0 .. n + 1 |-> LoopStep(seq, set, f, i)]
    <3>1. \A i \in 0 .. n + 1 : g[i] = LoopStep(seq, set, f, i)
      BY <2>3 DEF g
    <3>2. QED BY <3>1 DEF g
  <2>5. g = [i \in 0 .. n + 1 |-> LoopStep(seq, set, g, i)]
    BY <2>2, <2>4
  <2>6. QED BY <2>5
<1> HIDE DEF Done
<1>3. \A n \in Nat : n \in Done
  BY <1>1, <1>2, SetInduction
<1>4. QED BY <1>3 DEF Done

(* Only is the last value of a function that is defined as it says.        *)
LEMMA LoopOfOnly ==
  ASSUME NEW T, NEW seq \in Seq(T), NEW set
  PROVE  \E f : /\ f = [i \in 0 .. Len(seq) |-> LoopStep(seq, set, f, i)]
                /\ Only(seq, set) = f[Len(seq)]
<1> DEFINE F == CHOOSE f : f = [i \in 0 .. Len(seq) |-> LoopStep(seq, set, f, i)]
<1>1. Len(seq) \in Nat
  BY LenProperties
<1>2. F = [i \in 0 .. Len(seq) |-> LoopStep(seq, set, F, i)]
  BY <1>1, LoopExists
<1>3. Only(seq, set) = F[Len(seq)]
  BY DEF Only, LoopStep
<1>4. QED BY <1>2, <1>3

Injective(seq) == \A i, j \in DOMAIN seq : i # j => seq[i] # seq[j]

(* What the loop has after i steps.                                        *)
LEMMA AfterEachStep ==
  ASSUME NEW T, NEW seq \in Seq(T), NEW set,
         NEW f, f = [i \in 0 .. Len(seq) |-> LoopStep(seq, set, f, i)]
  PROVE  \A i \in 0 .. Len(seq) :
           /\ f[i] \in Seq(T) /\ Len(f[i]) <= i
           /\ ToSet(f[i]) = {seq[j] : j \in 1 .. i} \cap set
           /\ Injective(seq) => Injective(f[i])
<1> DEFINE Right(i) == /\ f[i] \in Seq(T) /\ Len(f[i]) <= i
                       /\ ToSet(f[i]) = {seq[j] : j \in 1 .. i} \cap set
                       /\ Injective(seq) => Injective(f[i])
           Good(n) == n \in 0 .. Len(seq) => Right(n)
           Done == {n \in Nat : Good(n)}
<1>1. Len(seq) \in Nat /\ DOMAIN seq = 1 .. Len(seq)
  BY LenProperties
<1>2. \A i \in 0 .. Len(seq) : f[i] = LoopStep(seq, set, f, i)
  OBVIOUS
<1>3. Right(0)
  <2>1. f[0] = <<>>
    BY <1>1, <1>2 DEF LoopStep
  <2>2. QED BY <2>1 DEF ToSet, Injective
<1>4. ASSUME NEW n \in Nat, Good(n) PROVE Good(n + 1)
  <2>1. SUFFICES ASSUME n + 1 \in 0 .. Len(seq) PROVE Right(n + 1)
    OBVIOUS
  <2>2. n \in 0 .. Len(seq) /\ n + 1 \in 1 .. Len(seq)
    BY <1>1, <2>1
  <2>8. Right(n)
    BY <1>4, <2>2
  <2>3. f[n + 1] = IF seq[n + 1] \in set THEN Append(f[n], seq[n + 1]) ELSE f[n]
    <3>1. n + 1 # 0 /\ (n + 1) - 1 = n
      OBVIOUS
    <3>2. f[n + 1] = LoopStep(seq, set, f, n + 1)
      BY <1>2, <2>1
    <3>3. QED BY <3>1, <3>2 DEF LoopStep
  <2>4. {seq[j] : j \in 1 .. n + 1} = {seq[j] : j \in 1 .. n} \cup {seq[n + 1]}
    <3>1. 1 .. n + 1 = 1 .. n \cup {n + 1}
      OBVIOUS
    <3>2. QED BY <3>1
  <2>5. CASE seq[n + 1] \notin set
    <3>1. f[n + 1] = f[n]
      BY <2>3, <2>5
    <3>2. QED BY <2>2, <2>4, <2>5, <2>8, <3>1, LenProperties
  <2>6. CASE seq[n + 1] \in set
    <3> DEFINE x == seq[n + 1]
               q == f[n]
               r == f[n + 1]
    <3>1. r = Append(q, x) /\ q \in Seq(T) /\ x \in T
      BY <2>2, <2>3, <2>6, <2>8, ElementOfSeq
    <3> HIDE DEF x, q, r
    <3>2. /\ r \in Seq(T) /\ Len(r) = Len(q) + 1 /\ DOMAIN r = 1 .. Len(q) + 1
          /\ \A i \in 1 .. Len(q) : r[i] = q[i]
          /\ r[Len(q) + 1] = x
          /\ Len(q) \in Nat /\ DOMAIN q = 1 .. Len(q)
      BY <3>1, AppendProperties, LenProperties
    <3>3. ToSet(q) = {seq[j] : j \in 1 .. n} \cap set /\ Len(q) <= n
      BY <2>8 DEF q
    <3>4. Injective(seq) => Injective(q)
      BY <2>8 DEF q
    <3>11. Injective(seq) => \A i \in 1 .. n : seq[i] # x
      BY <2>2, <1>1 DEF Injective, x
    <3>5. ToSet(r) = ToSet(q) \cup {x}
      BY <3>2 DEF ToSet
    <3>6. ToSet(r) = {seq[j] : j \in 1 .. n + 1} \cap set
      BY <2>4, <2>6, <3>3, <3>5 DEF x
    <3>7. Injective(seq) => x \notin ToSet(q)
      BY <3>3, <3>11
    <3>8. Injective(seq) => Injective(r)
      BY <3>2, <3>4, <3>7 DEF Injective, ToSet
    <3>9. Len(r) <= n + 1
      BY <3>2, <3>3
    <3>10. QED BY <3>2, <3>6, <3>8, <3>9 DEF r
  <2>7. QED BY <2>5, <2>6
<1>7. Good(0)
  BY <1>3
<1> HIDE DEF Good
<1>8. 0 \in Done /\ \A n \in Nat : n \in Done => n + 1 \in Done
  BY <1>4, <1>7
<1> HIDE DEF Done
<1>5. \A n \in Nat : n \in Done
  BY <1>8, SetInduction
<1>9. \A n \in Nat : Good(n)
  BY <1>5 DEF Done
<1>6. QED BY <1>1, <1>9 DEF Good

(* What Only returns are the elements that are in the set.                 *)
THEOREM OnlyProperties ==
  ASSUME NEW T, NEW seq \in Seq(T), NEW set
  PROVE  /\ Only(seq, set) \in Seq(T) /\ Len(Only(seq, set)) <= Len(seq)
         /\ ToSet(Only(seq, set)) = ToSet(seq) \cap set
         /\ Injective(seq) => Injective(Only(seq, set))
<1>1. PICK f : /\ f = [i \in 0 .. Len(seq) |-> LoopStep(seq, set, f, i)]
               /\ Only(seq, set) = f[Len(seq)]
  BY LoopOfOnly
<1>2. Len(seq) \in 0 .. Len(seq) /\ DOMAIN seq = 1 .. Len(seq)
  BY LenProperties
<1>3. /\ f[Len(seq)] \in Seq(T) /\ Len(f[Len(seq)]) <= Len(seq)
      /\ ToSet(f[Len(seq)]) = {seq[j] : j \in 1 .. Len(seq)} \cap set
      /\ Injective(seq) => Injective(f[Len(seq)])
  BY <1>1, <1>2, AfterEachStep
<1>4. QED BY <1>1, <1>2, <1>3 DEF ToSet

(* Those it leaves out are what Without returns: none is lost, and none is *)
(* there twice.                                                            *)
THEOREM WithoutProperties ==
  ASSUME NEW T, NEW seq \in Seq(T), NEW set
  PROVE  /\ Without(seq, set) \in Seq(T)
         /\ ToSet(Without(seq, set)) = ToSet(seq) \ set
         /\ Injective(seq) => Injective(Without(seq, set))
         /\ Len(Only(seq, set)) + Len(Without(seq, set)) = Len(seq)
<1> DEFINE rest == ToSet(seq) \ set
<1>1. /\ Without(seq, set) \in Seq(T)
      /\ ToSet(Without(seq, set)) = ToSet(seq) \cap rest
      /\ Injective(seq) => Injective(Without(seq, set))
  BY OnlyProperties DEF Without
<1>2. PICK f : /\ f = [i \in 0 .. Len(seq) |-> LoopStep(seq, set, f, i)]
               /\ Only(seq, set) = f[Len(seq)]
  BY LoopOfOnly
<1>3. PICK g : /\ g = [i \in 0 .. Len(seq) |-> LoopStep(seq, rest, g, i)]
               /\ Only(seq, rest) = g[Len(seq)]
  BY LoopOfOnly
<1>4. Len(seq) \in Nat /\ DOMAIN seq = 1 .. Len(seq)
  BY LenProperties
<1>5. \A i \in 1 .. Len(seq) : seq[i] \in T /\ (seq[i] \in rest <=> seq[i] \notin set)
  BY <1>4, ElementOfSeq DEF ToSet
<1>6. \A i \in 0 .. Len(seq) : f[i] \in Seq(T) /\ g[i] \in Seq(T)
  BY <1>2, <1>3, AfterEachStep
<1> DEFINE Good(n) == n \in 0 .. Len(seq) => Len(f[n]) + Len(g[n]) = n
           Done == {n \in Nat : Good(n)}
<1> HIDE DEF rest
<1>12. /\ \A i \in 0 .. Len(seq) : f[i] = LoopStep(seq, set, f, i)
       /\ \A i \in 0 .. Len(seq) : g[i] = LoopStep(seq, rest, g, i)
  BY <1>2, <1>3
<1>7. Good(0)
  <2>1. f[0] = <<>> /\ g[0] = <<>>
    BY <1>2, <1>3, <1>4 DEF LoopStep
  <2>2. QED BY <2>1
<1>8. ASSUME NEW n \in Nat, Good(n) PROVE Good(n + 1)
  <2>1. SUFFICES ASSUME n + 1 \in 0 .. Len(seq) PROVE Len(f[n + 1]) + Len(g[n + 1]) = n + 1
    OBVIOUS
  <2>2. n \in 0 .. Len(seq) /\ n + 1 \in 1 .. Len(seq)
    BY <1>4, <2>1
  <2>7. Len(f[n]) + Len(g[n]) = n
    BY <1>8, <2>2
  <2>3. /\ f[n + 1] = IF seq[n + 1] \in set THEN Append(f[n], seq[n + 1]) ELSE f[n]
        /\ g[n + 1] = IF seq[n + 1] \in rest THEN Append(g[n], seq[n + 1]) ELSE g[n]
    BY <1>12, <1>4, <2>1 DEF LoopStep
  <2>4. f[n] \in Seq(T) /\ g[n] \in Seq(T) /\ seq[n + 1] \in T
    BY <1>4, <1>5, <1>6, <2>2
  <2>5. /\ Len(Append(f[n], seq[n + 1])) = Len(f[n]) + 1
        /\ Len(Append(g[n], seq[n + 1])) = Len(g[n]) + 1
        /\ Len(f[n]) \in Nat /\ Len(g[n]) \in Nat
    BY <2>4, AppendProperties, LenProperties
  <2> DEFINE a == Len(f[n])
             b == Len(g[n])
             c == Len(f[n + 1])
             d == Len(g[n + 1])
  <2>8. seq[n + 1] \in rest <=> seq[n + 1] \notin set
    BY <1>5, <2>2
  <2>9. ASSUME seq[n + 1] \in set PROVE c = a + 1 /\ d = b
    <3>1. f[n + 1] = Append(f[n], seq[n + 1]) /\ g[n + 1] = g[n]
      BY <2>3, <2>8, <2>9
    <3>2. c = a + 1 /\ d = b
      BY <2>5, <3>1
    <3>3. QED BY <3>2
  <2>10. ASSUME seq[n + 1] \notin set PROVE c = a /\ d = b + 1
    <3>1. f[n + 1] = f[n] /\ g[n + 1] = Append(g[n], seq[n + 1])
      BY <2>3, <2>8, <2>10
    <3>2. c = a /\ d = b + 1
      BY <2>5, <3>1
    <3>3. QED BY <3>2
  <2>11. a \in Nat /\ b \in Nat /\ a + b = n
    BY <2>5, <2>7
  <2>12. (c = a + 1 /\ d = b) \/ (c = a /\ d = b + 1)
    BY <2>9, <2>10
  <2> HIDE DEF a, b, c, d
  <2>13. c + d = n + 1
    BY <2>11, <2>12
  <2>6. QED BY <2>13 DEF c, d
<1> HIDE DEF Good
<1>13. 0 \in Done /\ \A n \in Nat : n \in Done => n + 1 \in Done
  BY <1>7, <1>8
<1> HIDE DEF Done
<1>9. \A n \in Nat : n \in Done
  BY <1>13, SetInduction
<1>14. \A n \in Nat : Good(n)
  BY <1>9 DEF Done
<1>10. Len(f[Len(seq)]) + Len(g[Len(seq)]) = Len(seq)
  <2>1. Len(seq) \in Nat /\ Len(seq) \in 0 .. Len(seq)
    BY <1>4
  <2>2. Good(Len(seq))
    BY <1>14, <2>1
  <2>3. QED BY <2>1, <2>2 DEF Good
<1>11. QED BY <1>1, <1>2, <1>3, <1>10 DEF Without, rest

-----------------------------------------------------------------------------
(* Sequences and the sets of their elements                                *)

LEMMA Concatenated ==
  ASSUME NEW T, NEW s \in Seq(T), NEW t \in Seq(T)
  PROVE  /\ s \o t \in Seq(T) /\ Len(s \o t) = Len(s) + Len(t)
         /\ ToSet(s \o t) = ToSet(s) \cup ToSet(t)
<1>1. /\ s \o t \in Seq(T) /\ Len(s \o t) = Len(s) + Len(t)
      /\ \A i \in 1 .. Len(s) + Len(t) :
            (s \o t)[i] = IF i <= Len(s) THEN s[i] ELSE t[i - Len(s)]
  BY ConcatProperties
<1>2. /\ Len(s) \in Nat /\ Len(t) \in Nat
      /\ DOMAIN s = 1 .. Len(s) /\ DOMAIN t = 1 .. Len(t)
      /\ DOMAIN (s \o t) = 1 .. Len(s) + Len(t)
  BY <1>1, LenProperties
<1>3. ASSUME NEW x \in ToSet(s \o t) PROVE x \in ToSet(s) \cup ToSet(t)
  <2>1. PICK i \in 1 .. Len(s) + Len(t) : x = (s \o t)[i]
    BY <1>2 DEF ToSet
  <2>2. CASE i <= Len(s)
    <3>1. x = s[i] /\ i \in DOMAIN s
      BY <1>1, <1>2, <2>1, <2>2
    <3>2. QED BY <3>1 DEF ToSet
  <2>3. CASE i > Len(s)
    <3>1. x = t[i - Len(s)] /\ i - Len(s) \in DOMAIN t
      BY <1>1, <1>2, <2>1, <2>3
    <3>2. QED BY <3>1 DEF ToSet
  <2>4. QED BY <1>2, <2>2, <2>3
<1>4. ASSUME NEW x \in ToSet(s) PROVE x \in ToSet(s \o t)
  <2>1. PICK i \in 1 .. Len(s) : x = s[i]
    BY <1>2 DEF ToSet
  <2>2. i \in DOMAIN (s \o t) /\ (s \o t)[i] = x
    BY <1>1, <1>2, <2>1
  <2>3. QED BY <2>2 DEF ToSet
<1>5. ASSUME NEW x \in ToSet(t) PROVE x \in ToSet(s \o t)
  <2>1. PICK i \in 1 .. Len(t) : x = t[i]
    BY <1>2 DEF ToSet
  <2>2. Len(s) + i \in DOMAIN (s \o t) /\ (s \o t)[Len(s) + i] = x
    BY <1>1, <1>2, <2>1
  <2>3. QED BY <2>2 DEF ToSet
<1>6. QED BY <1>1, <1>3, <1>4, <1>5

LEMMA Appended ==
  ASSUME NEW T, NEW s \in Seq(T), NEW x \in T
  PROVE  /\ Append(s, x) \in Seq(T) /\ Len(Append(s, x)) = Len(s) + 1
         /\ ToSet(Append(s, x)) = ToSet(s) \cup {x}
<1>1. /\ Append(s, x) \in Seq(T) /\ Len(Append(s, x)) = Len(s) + 1
      /\ \A i \in 1 .. Len(s) : Append(s, x)[i] = s[i]
      /\ Append(s, x)[Len(s) + 1] = x
  BY AppendProperties
<1>2. /\ Len(s) \in Nat /\ DOMAIN s = 1 .. Len(s)
      /\ DOMAIN Append(s, x) = 1 .. Len(s) + 1
  BY <1>1, LenProperties
<1> DEFINE r == Append(s, x)
<1> HIDE DEF r
<1>3. ToSet(r) = ToSet(s) \cup {x}
  BY <1>1, <1>2 DEF ToSet, r
<1>4. QED BY <1>1, <1>3 DEF r

(* A queue cut at its k-th element.                                        *)
LEMMA Cut ==
  ASSUME NEW T, NEW s \in Seq(T), NEW k \in 1 .. Len(s)
  PROVE  LET before == SubSeq(s, 1, k - 1)
             behind == SubSeq(s, k + 1, Len(s))
         IN  /\ s[k] \in T /\ before \in Seq(T) /\ behind \in Seq(T)
             /\ Len(before) = k - 1 /\ Len(behind) = Len(s) - k
             /\ \A i \in 1 .. Len(s) - k : behind[i] = s[k + i]
             /\ ToSet(s) = ToSet(before) \cup {s[k]} \cup ToSet(behind)
<1> DEFINE before == SubSeq(s, 1, k - 1)
           behind == SubSeq(s, k + 1, Len(s))
           n == Len(s)
<1>1. n \in Nat /\ DOMAIN s = 1 .. n /\ \A i \in 1 .. n : s[i] \in T
  BY LenProperties, ElementOfSeq
<1>7. k \in 1 .. n
  OBVIOUS
<1>2. /\ before \in Seq(T) /\ Len(before) = k - 1
      /\ \A i \in 1 .. k - 1 : before[i] = s[i]
  <2>1. /\ 1 \in Int /\ k - 1 \in Int /\ \A i \in 1 .. k - 1 : s[i] \in T
        /\ (k - 1) - 1 + 1 = k - 1 /\ (1 <= k - 1 \/ k - 1 = 0)
    BY <1>1
  <2>2. /\ before \in Seq(T)
        /\ Len(before) = IF 1 <= k - 1 THEN (k - 1) - 1 + 1 ELSE 0
        /\ \A i \in 1 .. (k - 1) - 1 + 1 : before[i] = s[1 + i - 1]
    BY <2>1, SubSeqProperties
  <2>3. \A i \in 1 .. k - 1 : 1 + i - 1 = i
    OBVIOUS
  <2> HIDE DEF before
  <2>4. QED BY <2>1, <2>2, <2>3
<1> HIDE DEF n, before
<1>3. /\ behind \in Seq(T) /\ Len(behind) = n - k
      /\ \A i \in 1 .. n - k : behind[i] = s[k + i]
  <2>1. /\ k + 1 \in Int /\ n \in Int /\ n \in Nat
        /\ n - (k + 1) + 1 = n - k /\ (k + 1 <= n \/ n - k = 0)
    BY <1>1, <1>7
  <2>5. \A i \in k + 1 .. n : s[i] \in T
    BY <1>1, <1>7
  <2>2. /\ behind \in Seq(T)
        /\ Len(behind) = IF k + 1 <= n THEN n - (k + 1) + 1 ELSE 0
        /\ \A i \in 1 .. n - (k + 1) + 1 : behind[i] = s[(k + 1) + i - 1]
    <3> DEFINE m == k + 1
    <3>1. m \in Int /\ n \in Int /\ \A i \in m .. n : s[i] \in T
      BY <2>1, <2>5
    <3>2. behind = SubSeq(s, m, n)
      BY DEF n
    <3> HIDE DEF m, behind
    <3>3. /\ behind \in Seq(T)
          /\ Len(behind) = IF m <= n THEN n - m + 1 ELSE 0
          /\ \A i \in 1 .. n - m + 1 : behind[i] = s[m + i - 1]
      BY <3>1, <3>2, SubSeqProperties
    <3>4. QED BY <3>3 DEF m
  <2>3. \A i \in 1 .. n - k : (k + 1) + i - 1 = k + i
    BY <1>1, <1>7
  <2> HIDE DEF behind
  <2>4. QED BY <1>7, <2>1, <2>2, <2>3
<1>4. /\ DOMAIN before = 1 .. k - 1 /\ DOMAIN behind = 1 .. n - k
  BY <1>2, <1>3, LenProperties
<1> HIDE DEF before, behind
<1>5. ToSet(s) = ToSet(before) \cup {s[k]} \cup ToSet(behind)
  <2>1. ASSUME NEW i \in 1 .. n
        PROVE  s[i] \in ToSet(before) \cup {s[k]} \cup ToSet(behind)
    <3>1. CASE i < k
      <4>1. i \in DOMAIN before /\ before[i] = s[i]
        BY <1>2, <1>4, <3>1
      <4>2. QED BY <4>1 DEF ToSet
    <3>2. CASE i > k
      <4>1. i - k \in DOMAIN behind /\ behind[i - k] = s[i]
        BY <1>1, <1>3, <1>4, <1>7, <3>2
      <4>2. QED BY <4>1 DEF ToSet
    <3>3. QED BY <1>1, <3>1, <3>2
  <2>2. \A i \in DOMAIN before : before[i] \in ToSet(s)
    BY <1>1, <1>2, <1>4, <1>7 DEF ToSet
  <2>3. ASSUME NEW i \in DOMAIN behind PROVE behind[i] \in ToSet(s)
    <3>1. k + i \in 1 .. n /\ behind[i] = s[k + i]
      BY <1>1, <1>3, <1>4, <1>7
    <3>2. QED BY <1>1, <3>1 DEF ToSet
  <2>4. QED BY <1>1, <1>7, <2>1, <2>2, <2>3 DEF ToSet
<1>6. QED BY <1>1, <1>2, <1>3, <1>5, <1>7 DEF before, behind, n
LEMMA AppendedOnce ==
  ASSUME NEW T, NEW s \in Seq(T), NEW x \in T, Injective(s), x \notin ToSet(s)
  PROVE  Injective(Append(s, x))
<1>1. /\ Len(Append(s, x)) = Len(s) + 1
      /\ \A i \in 1 .. Len(s) : Append(s, x)[i] = s[i]
      /\ Append(s, x)[Len(s) + 1] = x
  BY AppendProperties
<1>2. /\ Len(s) \in Nat /\ DOMAIN s = 1 .. Len(s)
      /\ DOMAIN Append(s, x) = 1 .. Len(s) + 1
  BY <1>1, LenProperties, AppendProperties
<1> DEFINE r == Append(s, x)
           n == Len(s)
<1>3. /\ n \in Nat /\ DOMAIN s = 1 .. n /\ DOMAIN r = 1 .. n + 1
      /\ \A i \in 1 .. n : r[i] = s[i]
      /\ r[n + 1] = x
  BY <1>1, <1>2
<1>4. \A i \in 1 .. n : s[i] # x
  BY <1>3 DEF ToSet
<1> HIDE DEF r, n
<1>5. Injective(r)
  BY <1>3, <1>4 DEF Injective
<1>6. QED BY <1>5 DEF r

(* A queue whose first element is taken.                                   *)
LEMMA Beheaded ==
  ASSUME NEW T, NEW s \in Seq(T), s # <<>>
  PROVE  /\ Head(s) \in T /\ Tail(s) \in Seq(T)
         /\ ToSet(s) = {Head(s)} \cup ToSet(Tail(s))
         /\ Injective(s) => Injective(Tail(s)) /\ Head(s) \notin ToSet(Tail(s))
<1> DEFINE t == Tail(s)
           h == Head(s)
           n == Len(s)
<1>1. /\ n \in Nat /\ DOMAIN s = 1 .. n /\ n > 0 /\ \A i \in 1 .. n : s[i] \in T
  BY LenProperties, ElementOfSeq, EmptySeq
<1>2. /\ h \in T /\ t \in Seq(T) /\ h = s[1] /\ Len(t) = n - 1
      /\ \A i \in 1 .. Len(t) : t[i] = s[i + 1]
  BY HeadTailProperties, <1>1
<1>3. DOMAIN t = 1 .. n - 1 /\ \A i \in 1 .. n - 1 : t[i] = s[i + 1]
  BY <1>2, LenProperties
<1> HIDE DEF t, h, n
<1>4. \A i \in 1 .. n : i = 1 \/ (i - 1 \in 1 .. n - 1 /\ t[i - 1] = s[i])
  BY <1>1, <1>3
<1>5. ASSUME NEW x \in ToSet(s) PROVE x \in {h} \cup ToSet(t)
  <2>1. PICK i \in 1 .. n : x = s[i]
    BY <1>1 DEF ToSet
  <2>2. CASE i = 1
    BY <1>2, <2>1, <2>2
  <2>3. CASE i # 1
    BY <1>3, <1>4, <2>1, <2>3 DEF ToSet
  <2>4. QED BY <2>2, <2>3
<1>6. {h} \cup ToSet(t) \subseteq ToSet(s)
  BY <1>1, <1>2, <1>3 DEF ToSet
<1>7. ASSUME Injective(s) PROVE Injective(t) /\ h \notin ToSet(t)
  <2>1. \A i, j \in 1 .. n : i # j => s[i] # s[j]
    BY <1>1, <1>7 DEF Injective
  <2>2. \A i, j \in 1 .. n - 1 : i # j => t[i] # t[j]
    BY <1>1, <1>3, <2>1
  <2>3. \A i \in 1 .. n - 1 : t[i] # h
    BY <1>1, <1>2, <1>3, <2>1
  <2>4. QED BY <1>3, <2>2, <2>3 DEF Injective, ToSet
<1>8. QED BY <1>2, <1>5, <1>6, <1>7 DEF t, h

(* The elements keep their order: each step of the loop takes the next one *)
(* that it keeps from further on.                                          *)
LEMMA OnlyKeepsOrder ==
  ASSUME NEW T, NEW seq \in Seq(T), NEW set
  PROVE  \E from \in [1 .. Len(Only(seq, set)) -> 1 .. Len(seq)] :
           /\ \A i \in 1 .. Len(Only(seq, set)) : Only(seq, set)[i] = seq[from[i]]
           /\ \A i, j \in 1 .. Len(Only(seq, set)) : i < j => from[i] < from[j]
<1> DEFINE Ordered(s, n) ==
             \E from \in [1 .. Len(s) -> 1 .. n] :
                /\ \A i \in 1 .. Len(s) : s[i] = seq[from[i]]
                /\ \A i, j \in 1 .. Len(s) : i < j => from[i] < from[j]
<1>1. PICK f : /\ f = [i \in 0 .. Len(seq) |-> LoopStep(seq, set, f, i)]
               /\ Only(seq, set) = f[Len(seq)]
  BY LoopOfOnly
<1> DEFINE Good(n) == n \in 0 .. Len(seq) => Ordered(f[n], n)
           Done == {n \in Nat : Good(n)}
<1>2. Len(seq) \in Nat /\ \A i \in 0 .. Len(seq) : f[i] = LoopStep(seq, set, f, i)
  BY <1>1, LenProperties
<1>3. Good(0)
  <2>1. f[0] = <<>>
    BY <1>2 DEF LoopStep
  <2>2. Len(f[0]) = 0
    BY <2>1
  <2> DEFINE none == [i \in 1 .. 0 |-> 0]
  <2>3. none \in [1 .. Len(f[0]) -> 1 .. 0] /\ \A i \in 1 .. Len(f[0]) : FALSE
    BY <2>2
  <2> HIDE DEF none
  <2>4. Ordered(f[0], 0)
    BY <2>3
  <2>5. QED BY <2>4
<1>4. ASSUME NEW n \in Nat, Good(n) PROVE Good(n + 1)
  <2>1. SUFFICES ASSUME n + 1 \in 0 .. Len(seq) PROVE Ordered(f[n + 1], n + 1)
    OBVIOUS
  <2>2. n \in 0 .. Len(seq) /\ n + 1 \in 1 .. Len(seq)
    BY <1>2, <2>1
  <2>3. f[n + 1] = IF seq[n + 1] \in set THEN Append(f[n], seq[n + 1]) ELSE f[n]
    BY <1>2, <2>1 DEF LoopStep
  <2> DEFINE q == f[n]
             r == f[n + 1]
             x == seq[n + 1]
  <2>4. q \in Seq(T) /\ x \in T
    BY <1>1, <2>2, AfterEachStep, ElementOfSeq
  <2>5. PICK from \in [1 .. Len(q) -> 1 .. n] :
           /\ \A i \in 1 .. Len(q) : q[i] = seq[from[i]]
           /\ \A i, j \in 1 .. Len(q) : i < j => from[i] < from[j]
    BY <1>4, <2>2
  <2>6. CASE x \notin set
    <3>1. r = q
      BY <2>3, <2>6
    <3>2. from \in [1 .. Len(q) -> 1 .. n + 1]
      OBVIOUS
    <3>3. QED BY <2>5, <3>1, <3>2
  <2>7. CASE x \in set
    <3>1. r = Append(q, x)
      BY <2>3, <2>7
    <3> HIDE DEF q, r
    <3>2. /\ Len(r) = Len(q) + 1 /\ Len(q) \in Nat /\ r[Len(q) + 1] = x
          /\ \A i \in 1 .. Len(q) : r[i] = q[i]
      BY <2>4, <3>1, AppendProperties, LenProperties
    <3> DEFINE to == [i \in 1 .. Len(q) + 1 |-> IF i <= Len(q) THEN from[i] ELSE n + 1]
    <3>3. to \in [1 .. Len(r) -> 1 .. n + 1]
      BY <3>2
    <3>4. \A i \in 1 .. Len(r) : r[i] = seq[to[i]]
      <4> TAKE i \in 1 .. Len(r)
      <4>1. CASE i <= Len(q)
        <5>1. i \in 1 .. Len(q)
          BY <3>2, <4>1
        <5>2. QED BY <2>5, <3>2, <4>1, <5>1
      <4>2. CASE ~(i <= Len(q))
        <5>1. i = Len(q) + 1
          BY <3>2, <4>2
        <5>2. QED BY <3>2, <5>1
      <4>3. QED BY <4>1, <4>2
    <3>5. \A i, j \in 1 .. Len(r) : i < j => to[i] < to[j]
      <4> SUFFICES ASSUME NEW i \in 1 .. Len(r), NEW j \in 1 .. Len(r), i < j
                   PROVE  to[i] < to[j]
        OBVIOUS
      <4>1. i \in 1 .. Len(q) /\ to[i] = from[i] /\ from[i] \in 1 .. n
        BY <3>2
      <4>2. CASE j <= Len(q)
        BY <2>5, <3>2, <4>1, <4>2
      <4>3. CASE ~(j <= Len(q))
        BY <3>2, <4>1, <4>3
      <4>4. QED BY <4>2, <4>3
    <3>6. QED BY <3>3, <3>4, <3>5 DEF r
  <2>8. QED BY <2>6, <2>7
<1> HIDE DEF Good
<1>5. 0 \in Done /\ \A n \in Nat : n \in Done => n + 1 \in Done
  BY <1>3, <1>4
<1> HIDE DEF Done
<1>6. \A n \in Nat : n \in Done
  BY <1>5, SetInduction
<1>7. Good(Len(seq))
  BY <1>2, <1>6 DEF Done
<1>8. QED BY <1>1, <1>2, <1>7 DEF Good
=============================================================================
