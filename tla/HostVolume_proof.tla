------------------------- MODULE HostVolume_proof -------------------------
(***************************************************************************)
(* The host volume keeps its promises as long as its stored paths and its  *)
(* names agree, for any names, any directory of the host, any depth, and   *)
(* any number of changes and of open forks.                                *)
(***************************************************************************)
EXTENDS HostVolume, FiniteSetTheorems, SequenceTheorems, WellFoundedInduction, TLAPS

-----------------------------------------------------------------------------
(* Induction over the natural numbers, from the least one left out.        *)

Smaller == {ss \in Nat \X Nat : ss[1] < ss[2]}
\* Less than, on the naturals, is well founded.
LEMMA SmallerWellFounded == IsWellFoundedOn(Smaller, Nat)
BY NatLessThanWellFounded, Zenon DEF Smaller, OpToRel

\* A set of natural numbers that is not empty has a least member.
LEMMA Least ==
    ASSUME NEW T \in SUBSET Nat, T # {}
    PROVE  \E m \in T : \A k \in T : m <= k
<1>1. PICK m \in T : \A k \in T : <<k, m>> \notin Smaller
  BY SmallerWellFounded, WFMin
<1>2. ASSUME NEW k \in T PROVE m <= k
  <2>1. <<k, m>> \notin Smaller
    BY <1>1
  <2>2. <<k, m>> \in Smaller <=> k < m
    BY DEF Smaller
  <2> QED
    BY <2>1, <2>2
<1> QED
  BY <1>2

\* What holds of 0 and is handed on from each number to the next holds up to n.
LEMMA Upwards ==
    ASSUME NEW n \in Nat, NEW G, 0 \in G, \A m \in 0..n : m \in G /\ m < n => m + 1 \in G
    PROVE  \A m \in 0..n : m \in G
<1> SUFFICES ASSUME {m \in 0..n : m \notin G} # {} PROVE FALSE
  OBVIOUS
<1>0. {i \in 0..n : i \notin G} \in SUBSET Nat
  OBVIOUS
<1>1. PICK m \in {i \in 0..n : i \notin G} : \A k \in {i \in 0..n : i \notin G} : m <= k
  BY <1>0, Least
<1>2. m # 0
  BY <1>1
<1>3. m - 1 \in 0..n /\ m - 1 < n /\ ~(m <= m - 1)
  BY <1>1, <1>2
<1>4. m - 1 \in G
  BY <1>1, <1>3
<1>5. (m - 1) + 1 \in G
  BY <1>3, <1>4
<1> QED
  BY <1>1, <1>5

-----------------------------------------------------------------------------
(* Paths. *)

Places == Seq(Names) \ {<<>>}

\* A path is below another if it is longer and begins with it.
LEMMA BelowIs ==
    ASSUME NEW p \in Seq(Names), NEW q \in Seq(Names)
    PROVE  Below(p, q) <=> (Len(p) < Len(q) /\ \A i \in 1..Len(p) : p[i] = q[i])
<1>1. ASSUME Len(p) <= Len(q)
      PROVE  SubSeq(p, 1, Len(p)) = SubSeq(q, 1, Len(p)) <=> \A i \in 1..Len(p) : p[i] = q[i]
  <2>1. /\ SubSeq(p, 1, Len(p)) \in Seq(Names) /\ Len(SubSeq(p, 1, Len(p))) = Len(p)
        /\ \A i \in 1..Len(p) : SubSeq(p, 1, Len(p))[i] = p[i]
    BY SubSeqProperties
  <2>2. /\ SubSeq(q, 1, Len(p)) \in Seq(Names) /\ Len(SubSeq(q, 1, Len(p))) = Len(p)
        /\ \A i \in 1..Len(p) : SubSeq(q, 1, Len(p))[i] = q[i]
    BY <1>1, SubSeqProperties
  <2>3. ASSUME \A i \in 1..Len(p) : p[i] = q[i]
        PROVE  SubSeq(p, 1, Len(p)) = SubSeq(q, 1, Len(p))
    BY <2>1, <2>2, <2>3, SeqEqual
  <2> QED
    BY <2>1, <2>2, <2>3
<1>2. ASSUME Len(p) = Len(q), \A i \in 1..Len(p) : p[i] = q[i] PROVE p = q
  BY <1>2, SeqEqual
<1> QED
  BY <1>1, <1>2 DEF Below, IsStrictPrefix, IsPrefix

\* A place is its parent and a last name.
LEMMA FrontIs ==
    ASSUME NEW q \in Places
    PROVE  /\ Len(q) \in Nat \ {0} /\ Last(q) = q[Len(q)] /\ Last(q) \in Names
           /\ Front(q) \in Seq(Names) /\ Len(Front(q)) = Len(q) - 1
           /\ \A i \in 1..(Len(q) - 1) : Front(q)[i] = q[i]
<1>1. Len(q) \in Nat \ {0}
  <2>1. q \in Seq(Names) /\ q # <<>>
    BY DEF Places
  <2> QED
    BY <2>1, EmptySeq
<1>2. q \in Seq(Names)
  BY DEF Places
<1>3. /\ SubSeq(q, 1, Len(q) - 1) \in Seq(Names)
      /\ Len(SubSeq(q, 1, Len(q) - 1)) = Len(q) - 1
      /\ \A i \in 1..(Len(q) - 1) : SubSeq(q, 1, Len(q) - 1)[i] = q[i]
  <2>1. \A i \in 1..(Len(q) - 1) : q[i] \in Names
    BY <1>1, <1>2
  <2> DEFINE m == Len(q) - 1
  <2>2. m \in Nat
    BY <1>1
  <2> HIDE DEF m
  <2>3. /\ SubSeq(q, 1, m) \in Seq(Names)
        /\ Len(SubSeq(q, 1, m)) = IF 1 <= m THEN m - 1 + 1 ELSE 0
        /\ \A i \in 1..(m - 1 + 1) : SubSeq(q, 1, m)[i] = q[1 + i - 1]
    BY <2>1, <2>2, SubSeqProperties DEF m
  <2>4. Len(SubSeq(q, 1, m)) = m /\ \A i \in 1..m : SubSeq(q, 1, m)[i] = q[i]
    BY <2>2, <2>3
  <2> QED
    BY <2>3, <2>4 DEF m
<1> QED
  BY <1>1, <1>2, <1>3 DEF Front, Last

\* A name below a path makes a place, with that path as its parent.
LEMMA AppendIs ==
    ASSUME NEW p \in Seq(Names), NEW n \in Names
    PROVE  /\ Append(p, n) \in Places /\ Front(Append(p, n)) = p /\ Last(Append(p, n)) = n
           /\ Len(Append(p, n)) = Len(p) + 1
<1>1. /\ Append(p, n) \in Seq(Names) /\ Len(Append(p, n)) = Len(p) + 1
      /\ \A i \in 1..Len(p) : Append(p, n)[i] = p[i]
      /\ Append(p, n)[Len(p) + 1] = n
  BY AppendProperties
<1>2. Append(p, n) \in Places
  BY <1>1 DEF Places
<1>3. /\ Front(Append(p, n)) \in Seq(Names) /\ Len(Front(Append(p, n))) = Len(p)
      /\ \A i \in 1..Len(p) : Front(Append(p, n))[i] = p[i]
  <2>1. (Len(p) + 1) - 1 = Len(p)
    OBVIOUS
  <2> QED
    BY <1>1, <1>2, <2>1, FrontIs
<1>4. Front(Append(p, n)) = p
  BY <1>3, SeqEqual
<1>5. Last(Append(p, n)) = n
  BY <1>1, <1>2, FrontIs
<1> QED
  BY <1>1, <1>2, <1>4, <1>5

\* Below a path is what has it as its parent, or has a parent below it.
LEMMA BelowFront ==
    ASSUME NEW p \in Seq(Names), NEW q \in Places
    PROVE  Below(p, q) <=> p = Front(q) \/ Below(p, Front(q))
<1>1. q \in Seq(Names)
  BY DEF Places
<1>2. ASSUME Below(p, q), Len(p) = Len(q) - 1 PROVE p = Front(q)
  BY <1>1, <1>2, BelowIs, FrontIs, SeqEqual
<1>3. ASSUME Below(p, q), Len(p) # Len(q) - 1 PROVE Below(p, Front(q))
  <2>1. Len(p) < Len(q) - 1
    BY <1>1, <1>3, BelowIs
  <2> QED
    BY <1>1, <1>3, <2>1, BelowIs, FrontIs
<1>4. ASSUME p = Front(q) PROVE Below(p, q)
  BY <1>1, <1>4, BelowIs, FrontIs
<1>5. ASSUME Below(p, Front(q)) PROVE Below(p, q)
  BY <1>1, <1>5, BelowIs, FrontIs
<1> QED
  BY <1>2, <1>3, <1>4, <1>5

\* The children of a path are the places whose parent it is.
LEMMA ChildIs ==
    ASSUME NEW p \in Seq(Names), NEW q \in Places
    PROVE  IsChild(p, q) <=> Front(q) = p
<1>1. q \in Seq(Names)
  BY DEF Places
<1>2. ASSUME IsChild(p, q) PROVE Front(q) = p
  <2>1. Below(p, q) /\ Len(q) = Len(p) + 1
    BY <1>2 DEF IsChild
  <2>2. ~Below(p, Front(q))
    BY <1>1, <2>1, BelowIs, FrontIs
  <2> QED
    BY <2>1, <2>2, BelowFront
<1>3. ASSUME Front(q) = p PROVE IsChild(p, q)
  BY <1>3, BelowFront, FrontIs DEF IsChild
<1> QED
  BY <1>2, <1>3

(* Where a rename takes the paths at and below p. *)
LEMMA RedirectedIs ==
    ASSUME NEW p \in Places, NEW r \in Places, NEW q \in Seq(Names), q = p \/ Below(p, q)
    PROVE  /\ Redirected(p, r, q) \in Places
           /\ Len(p) \in Nat /\ Len(q) \in Nat /\ Len(r) \in Nat /\ Len(p) <= Len(q)
           /\ Len(Redirected(p, r, q)) = Len(r) + (Len(q) - Len(p))
           /\ \A i \in 1..Len(r) : Redirected(p, r, q)[i] = r[i]
           /\ \A i \in (Len(p) + 1)..Len(q) : Redirected(p, r, q)[Len(r) + (i - Len(p))] = q[i]
<1> DEFINE t == SubSeq(q, Len(p) + 1, Len(q))
           a == Len(p)
           b == Len(q)
<1>1. p \in Seq(Names) /\ r \in Seq(Names) /\ r # <<>> /\ Len(r) \in Nat /\ a \in Nat /\ b \in Nat
  BY DEF Places
<1>2. a <= b
  BY <1>1, BelowIs
<1>3. \A i \in (a + 1)..b : q[i] \in Names
  BY <1>1
<1>4. /\ t \in Seq(Names) /\ Len(t) = IF a + 1 <= b THEN b - (a + 1) + 1 ELSE 0
      /\ \A i \in 1..(b - (a + 1) + 1) : t[i] = q[(a + 1) + i - 1]
  <2> HIDE DEF a, b
  <2>1. a + 1 \in Int /\ b \in Int
    BY <1>1
  <2>2. SubSeq(q, a + 1, b) \in Seq(Names)
    BY <1>3, <2>1, SubSeqProperties
  <2>3. Len(SubSeq(q, a + 1, b)) = IF a + 1 <= b THEN b - (a + 1) + 1 ELSE 0
    BY <1>3, <2>1, SubSeqProperties
  <2>4. \A i \in 1..(b - (a + 1) + 1) : SubSeq(q, a + 1, b)[i] = q[(a + 1) + i - 1]
    BY <1>3, <2>1, SubSeqProperties
  <2> QED
    BY <2>2, <2>3, <2>4 DEF a, b
<1> HIDE DEF t, a, b
<1>5. Len(t) = b - a /\ \A i \in 1..(b - a) : t[i] = q[a + i]
  BY <1>1, <1>2, <1>4
<1>6. Redirected(p, r, q) = r \o t
  BY DEF Redirected, t
<1>7. /\ r \o t \in Seq(Names) /\ Len(r \o t) = Len(r) + Len(t)
      /\ \A i \in 1..(Len(r) + Len(t)) : (r \o t)[i] = IF i <= Len(r) THEN r[i] ELSE t[i - Len(r)]
  BY <1>1, <1>4, ConcatProperties
<1>8. r \o t # <<>>
  BY <1>1, <1>4, ConcatEqualIffEmpty
<1>9. ASSUME NEW i \in (a + 1)..b PROVE (r \o t)[Len(r) + (i - a)] = q[i]
  <2> DEFINE j == i - a
  <2>1. j \in 1..(b - a) /\ a + j = i /\ Len(r) + j \in 1..(Len(r) + Len(t))
        /\ ~(Len(r) + j <= Len(r)) /\ (Len(r) + j) - Len(r) = j
    BY <1>1, <1>2, <1>5
  <2> HIDE DEF j
  <2>2. (r \o t)[Len(r) + j] = t[j]
    BY <1>7, <2>1
  <2> QED
    BY <1>5, <2>1, <2>2 DEF j
<1>10. \A i \in 1..Len(r) : (r \o t)[i] = r[i]
  BY <1>1, <1>2, <1>5, <1>7
<1> QED
  BY <1>1, <1>2, <1>5, <1>6, <1>7, <1>8, <1>9, <1>10 DEF Places, a, b

\* What is not at or below p stays where it is, what is below p is below r then.
LEMMA RedirectedStays ==
    ASSUME NEW p \in Places, NEW r \in Places, NEW q \in Seq(Names)
    PROVE  /\ Redirected(p, r, q) \in Seq(Names)
           /\ q \in Places => Redirected(p, r, q) \in Places
           /\ q # p /\ ~Below(p, q) => Redirected(p, r, q) = q
           /\ Below(p, q) => Below(r, Redirected(p, r, q))
           /\ Redirected(p, r, p) = r
           /\ Redirected(p, r, <<>>) = <<>>
<1>0. p \in Seq(Names) /\ r \in Seq(Names) /\ p # <<>>
  BY DEF Places
<1>1. Redirected(p, r, q) \in Seq(Names) /\ (q \in Places => Redirected(p, r, q) \in Places)
  BY RedirectedIs DEF Redirected, Places
<1>2. q # p /\ ~Below(p, q) => Redirected(p, r, q) = q
  BY DEF Redirected
<1>3. ASSUME Below(p, q) PROVE Below(r, Redirected(p, r, q))
  <2>1. Len(p) < Len(q)
    BY <1>0, <1>3, BelowIs
  <2>2. /\ Len(Redirected(p, r, q)) = Len(r) + (Len(q) - Len(p))
        /\ Len(p) \in Nat /\ Len(q) \in Nat /\ Len(r) \in Nat
        /\ \A i \in 1..Len(r) : Redirected(p, r, q)[i] = r[i]
    BY <1>3, RedirectedIs
  <2>3. Len(r) < Len(Redirected(p, r, q))
    BY <2>1, <2>2
  <2> QED
    BY <1>0, <1>1, <2>2, <2>3, BelowIs
<1>4. Redirected(p, r, p) = r
  <2>0. /\ Redirected(p, r, p) \in Places
        /\ Len(p) \in Nat /\ Len(r) \in Nat
        /\ Len(Redirected(p, r, p)) = Len(r) + (Len(p) - Len(p))
        /\ \A i \in 1..Len(r) : Redirected(p, r, p)[i] = r[i]
    BY <1>0, RedirectedIs
  <2>1. /\ Redirected(p, r, p) \in Places /\ Len(Redirected(p, r, p)) = Len(r)
        /\ \A i \in 1..Len(r) : Redirected(p, r, p)[i] = r[i]
    BY <2>0
  <2> QED
    BY <1>0, <2>1, SeqEqual DEF Places
<1>5. Redirected(p, r, <<>>) = <<>>
  <2>1. <<>> \in Seq(Names) /\ Len(<<>>) = 0
    BY EmptySeq
  <2>2. ~Below(p, <<>>)
    <3>1. Len(p) \in Nat /\ ~(Len(p) < 0)
      BY <1>0
    <3> QED
      BY <1>0, <2>1, <3>1, BelowIs
  <2> QED
    BY <1>0, <2>2 DEF Redirected
<1> QED
  BY <1>1, <1>2, <1>3, <1>4, <1>5

\* Redirecting keeps names, and redirects parents.
LEMMA RedirectedStep ==
    ASSUME NEW p \in Places, NEW r \in Places, NEW q \in Places, q # p
    PROVE  /\ Front(Redirected(p, r, q)) = Redirected(p, r, Front(q))
           /\ Last(Redirected(p, r, q)) = Last(q)
<1> DEFINE f == Front(q)
<1>0. /\ p \in Seq(Names) /\ q \in Seq(Names) /\ f \in Seq(Names) /\ Last(q) \in Names
      /\ Len(p) \in Nat /\ Len(r) \in Nat /\ Len(q) \in Nat \ {0} /\ Len(f) = Len(q) - 1
      /\ Last(q) = q[Len(q)] /\ \A i \in 1..Len(f) : f[i] = q[i]
  BY FrontIs DEF Places
<1> HIDE DEF f
<1>1. Below(p, q) <=> f = p \/ Below(p, f)
  BY <1>0, BelowFront DEF f
<1>2. CASE ~Below(p, q)
  BY <1>0, <1>1, <1>2, RedirectedStays DEF f
<1>3. CASE Below(p, q)
  <2> DEFINE s == Redirected(p, r, q)
             t == Redirected(p, r, f)
  <2>1. /\ s \in Places /\ Len(s) = Len(r) + (Len(q) - Len(p)) /\ Len(p) <= Len(f)
        /\ \A i \in 1..Len(r) : s[i] = r[i]
        /\ \A i \in (Len(p) + 1)..Len(q) : s[Len(r) + (i - Len(p))] = q[i]
    BY <1>0, <1>1, <1>3, RedirectedIs, ZenonT(40)
  <2>2. /\ t \in Places /\ Len(t) = Len(r) + (Len(f) - Len(p))
        /\ \A i \in 1..Len(r) : t[i] = r[i]
        /\ \A i \in (Len(p) + 1)..Len(f) : t[Len(r) + (i - Len(p))] = f[i]
    BY <1>0, <1>1, <1>3, RedirectedIs, ZenonT(40)
  <2> HIDE DEF s, t
  <2>3. Len(t) = Len(s) - 1 /\ Len(t) \in Nat /\ Len(s) \in Nat
    BY <1>0, <2>1, <2>2
  <2>4. Last(s) = Last(q)
    <3>1. Len(q) \in (Len(p) + 1)..Len(q)
      BY <1>0, <2>1
    <3>2. s[Len(s)] = q[Len(q)]
      BY <2>1, <3>1
    <3> QED
      BY <1>0, <2>1, <3>2, FrontIs
  <2>5. ASSUME NEW i \in 1..Len(t) PROVE s[i] = t[i]
    <3>1. CASE i <= Len(r)
      <4>1. i \in 1..Len(r)
        BY <1>0, <2>3, <3>1
      <4> QED
        BY <2>1, <2>2, <4>1
    <3>2. CASE i > Len(r)
      <4> DEFINE j == Len(p) + (i - Len(r))
      <4>1. /\ j \in (Len(p) + 1)..Len(f) /\ j \in (Len(p) + 1)..Len(q) /\ j \in 1..Len(f)
            /\ Len(r) + (j - Len(p)) = i
        BY <1>0, <2>2, <2>3, <3>2
      <4> HIDE DEF j
      <4>2. s[i] = q[j] /\ t[i] = f[j] /\ f[j] = q[j]
        BY <1>0, <2>1, <2>2, <4>1
      <4> QED
        BY <4>2
    <3> QED
      BY <1>0, <2>3, <3>1, <3>2
  <2>6. Front(s) \in Seq(Names) /\ Len(Front(s)) = Len(t) /\ \A i \in 1..Len(t) : Front(s)[i] = t[i]
    BY <2>1, <2>3, <2>5, FrontIs
  <2>7. Front(s) = t
    BY <2>2, <2>6, SeqEqual DEF Places
  <2> QED
    BY <2>4, <2>7 DEF s, t, f
<1> QED
  BY <1>2, <1>3

\* Two places at or below p do not go to the same one.
LEMMA RedirectedApart ==
    ASSUME NEW p \in Places, NEW r \in Places, NEW q \in Places, NEW s \in Places,
           q = p \/ Below(p, q), s = p \/ Below(p, s), Redirected(p, r, q) = Redirected(p, r, s)
    PROVE  q = s
<1>0. q \in Seq(Names) /\ s \in Seq(Names) /\ p \in Seq(Names) /\ Len(p) \in Nat /\ Len(r) \in Nat
      /\ Len(q) \in Nat /\ Len(s) \in Nat
  BY DEF Places
<1>1. Len(q) = Len(s)
  <2>1. Len(Redirected(p, r, q)) = Len(r) + (Len(q) - Len(p))
    BY <1>0, RedirectedIs
  <2>2. Len(Redirected(p, r, s)) = Len(r) + (Len(s) - Len(p))
    BY <1>0, RedirectedIs
  <2>3. \A a, b, c, d \in Nat : a + (b - c) = a + (d - c) => b = d
    OBVIOUS
  <2> QED
    BY <1>0, <2>1, <2>2, <2>3
<1>2. ASSUME NEW i \in 1..Len(q) PROVE q[i] = s[i]
  <2>1. CASE i <= Len(p)
    BY <1>0, <1>1, <2>1, BelowIs
  <2>2. CASE i > Len(p)
    <3>1. i \in (Len(p) + 1)..Len(q)
      BY <1>0, <2>2
    <3>2. Redirected(p, r, q)[Len(r) + (i - Len(p))] = q[i]
      BY <1>0, <3>1, RedirectedIs, ZenonT(40)
    <3>3. Redirected(p, r, s)[Len(r) + (i - Len(p))] = s[i]
      <4>1. \A k \in (Len(p) + 1)..Len(s) : Redirected(p, r, s)[Len(r) + (k - Len(p))] = s[k]
        BY <1>0, RedirectedIs
      <4> QED
        BY <1>1, <3>1, <4>1
    <3> QED
      BY <3>2, <3>3
  <2> QED
    BY <1>0, <2>1, <2>2
<1> QED
  BY <1>0, <1>1, <1>2, SeqEqual

\* A rename to the same place moves nothing.
LEMMA RedirectedToItself ==
    ASSUME NEW p \in Places, NEW q \in Places
    PROVE  Redirected(p, p, q) = q
<1>0. q \in Seq(Names) /\ p \in Seq(Names) /\ Len(p) \in Nat /\ Len(q) \in Nat
  BY DEF Places
<1>1. CASE q # p /\ ~Below(p, q)
  BY <1>1 DEF Redirected
<1>2. CASE q = p \/ Below(p, q)
  <2> DEFINE s == Redirected(p, p, q)
  <2>1. /\ s \in Places /\ Len(p) <= Len(q) /\ Len(s) = Len(p) + (Len(q) - Len(p))
        /\ \A i \in 1..Len(p) : s[i] = p[i]
        /\ \A i \in (Len(p) + 1)..Len(q) : s[Len(p) + (i - Len(p))] = q[i]
    BY <1>0, <1>2, RedirectedIs
  <2> HIDE DEF s
  <2>2. Len(s) = Len(q)
    BY <1>0, <2>1
  <2>3. ASSUME NEW i \in 1..Len(q) PROVE s[i] = q[i]
    <3>1. CASE i <= Len(p)
      <4>1. p[i] = q[i]
        BY <1>0, <1>2, <3>1, BelowIs
      <4> QED
        BY <1>0, <2>1, <3>1, <4>1
    <3>2. CASE i > Len(p)
      <4>1. i \in (Len(p) + 1)..Len(q) /\ Len(p) + (i - Len(p)) = i
        BY <1>0, <3>2
      <4> QED
        BY <2>1, <4>1
    <3> QED
      BY <1>0, <3>1, <3>2
  <2>4. s = q
    BY <1>0, <2>1, <2>2, <2>3, SeqEqual DEF Places
  <2> QED
    BY <2>4 DEF s
<1> QED
  BY <1>1, <1>2

-----------------------------------------------------------------------------
(* The host's directory tree. *)

Tree(dk, n) ==
    /\ DOMAIN dk \subseteq Paths /\ IsFiniteSet(DOMAIN dk)
    /\ \A p \in DOMAIN dk : dk[p].obj \in 1..n /\ dk[p].dir \in BOOLEAN /\ IsDir(dk, Front(p))
    /\ \A p, q \in DOMAIN dk : dk[p].obj = dk[q].obj => p = q

\* The paths of the model are the places that are not too deep.
LEMMA PathIs == \A p : p \in Paths <=> p \in Places /\ Len(p) <= MaxDepth
<1>0. MaxDepth \in Nat
  BY VolumeAssumption
<1>1. ASSUME NEW p \in Paths PROVE p \in Places /\ Len(p) <= MaxDepth
  <2>1. PICK m \in 0..MaxDepth : p \in [1..m -> Names]
    BY DEF Paths, BoundedSeq, SeqOf
  <2>2. p \in Seq(Names) /\ Len(p) = m
    BY <1>0, <2>1
  <2> QED
    BY <1>0, <2>1, <2>2 DEF Paths, Places
<1>2. ASSUME NEW p \in Places, Len(p) <= MaxDepth PROVE p \in Paths
  <2>1. p \in Seq(Names) /\ p # <<>> /\ Len(p) \in Nat
    BY DEF Places
  <2>2. p \in [1..Len(p) -> Names] /\ Len(p) \in 0..MaxDepth
    BY <1>0, <1>2, <2>1
  <2> QED
    BY <2>1, <2>2 DEF Paths, BoundedSeq, SeqOf
<1> QED
  BY <1>1, <1>2

\* In a tree, what something is below of is a directory.
LEMMA Ancestors ==
    ASSUME NEW dk, NEW n, Tree(dk, n), NEW q \in DOMAIN dk, NEW p \in Places, Below(p, q)
    PROVE  p \in DOMAIN dk /\ dk[p].dir
<1> DEFINE Fine(s) == Below(p, s) => p \in DOMAIN dk /\ dk[p].dir
           G == {m \in 0..MaxDepth : \A s \in DOMAIN dk : Len(s) <= m => Fine(s)}
<1>0. MaxDepth \in Nat
  BY VolumeAssumption
<1>1. \A s \in DOMAIN dk : s \in Places /\ Len(s) \in 1..MaxDepth /\ Front(s) \in Seq(Names)
                            /\ Len(Front(s)) = Len(s) - 1
  BY <1>0, PathIs, FrontIs DEF Tree
<1>2. 0 \in G
  BY <1>0, <1>1
<1>3. ASSUME NEW m \in 0..MaxDepth, m \in G, m < MaxDepth PROVE m + 1 \in G
  <2>1. ASSUME NEW s \in DOMAIN dk, Len(s) <= m + 1, Below(p, s) PROVE p \in DOMAIN dk /\ dk[p].dir
    <3>1. p = Front(s) \/ Below(p, Front(s))
      BY <1>1, <2>1, BelowFront DEF Places
    <3>2. Front(s) = <<>> \/ (Front(s) \in DOMAIN dk /\ dk[Front(s)].dir)
      BY DEF Tree, IsDir
    <3>3. CASE p = Front(s)
      BY <3>2, <3>3 DEF Places
    <3>4. CASE Below(p, Front(s))
      <4>1. Front(s) # <<>>
        <5>1. p \in Seq(Names) /\ Len(p) \in Nat /\ Len(p) < Len(Front(s))
          BY <1>1, <3>4, BelowIs DEF Places
        <5> QED
          BY <5>1, EmptySeq
      <4>2. Len(Front(s)) <= m
        BY <1>1, <2>1
      <4> QED
        BY <1>3, <3>2, <3>4, <4>1, <4>2
    <3> QED
      BY <3>1, <3>3, <3>4
  <2> QED
    BY <1>0, <1>3, <2>1
<1> HIDE DEF G
<1>4. \A m \in 0..MaxDepth : m \in G
  BY <1>0, <1>2, <1>3, Upwards
<1> QED
  BY <1>0, <1>1, <1>4 DEF G

\* A rename on the disk: all but what was at r is found where it was redirected to.
LEMMA RenamedIs ==
    ASSUME NEW dk, NEW n, Tree(dk, n), NEW p \in DOMAIN dk, NEW r \in Places, CanRename(dk, p, r)
    PROVE  /\ \A q \in DOMAIN dk : q # r \/ q = p =>
                /\ Redirected(p, r, q) \in DOMAIN Renamed(dk, p, r)
                /\ Renamed(dk, p, r)[Redirected(p, r, q)] = dk[q]
           /\ \A s \in DOMAIN Renamed(dk, p, r) : \E q \in DOMAIN dk :
                /\ q # r \/ q = p
                /\ s = Redirected(p, r, q) /\ Renamed(dk, p, r)[s] = dk[q]
<1> DEFINE stay == {q \in DOMAIN dk : q # p /\ ~Below(p, q) /\ q # r}
           gone == {q \in DOMAIN dk : q = p \/ Below(p, q)}
           Origin(s) == CHOOSE g \in gone : Redirected(p, r, g) = s
           new == [s \in stay \cup {Redirected(p, r, q) : q \in gone} |->
                      IF s \in stay THEN dk[s] ELSE dk[Origin(s)]]
<1>0. /\ Renamed(dk, p, r) = new
      /\ p \in Places /\ \A q \in DOMAIN dk : q \in Places
  BY PathIs DEF Renamed, Tree
<1>1. ASSUME NEW g \in gone PROVE Origin(Redirected(p, r, g)) = g
  <2>1. \E h \in gone : Redirected(p, r, h) = Redirected(p, r, g)
    OBVIOUS
  <2>2. /\ Origin(Redirected(p, r, g)) \in gone
        /\ Redirected(p, r, Origin(Redirected(p, r, g))) = Redirected(p, r, g)
    BY <2>1
  <2> HIDE DEF Origin
  <2> QED
    BY <1>0, <2>2, RedirectedApart
<1>2. ASSUME NEW g \in gone PROVE Redirected(p, r, g) \notin stay
  <2>1. CASE r = p
    BY <1>0, <2>1, RedirectedToItself
  <2>2. CASE r # p
    <3>1. Redirected(p, r, g) = r \/ Below(r, Redirected(p, r, g))
      BY <1>0, RedirectedStays DEF Places
    <3>2. r \in DOMAIN dk => IsEmpty(dk, r)
      BY <2>2 DEF CanRename
    <3>3. \A q \in DOMAIN dk : ~Below(r, q)
      BY <3>2, Ancestors DEF IsEmpty
    <3> QED
      BY <3>1, <3>3
  <2> QED
    BY <2>1, <2>2
<1>3. ASSUME NEW q \in DOMAIN dk, q # r \/ q = p
      PROVE  Redirected(p, r, q) \in DOMAIN new /\ new[Redirected(p, r, q)] = dk[q]
  <2>1. CASE q \in gone
    <3>1. Redirected(p, r, q) \in DOMAIN new /\ new[Redirected(p, r, q)] = dk[Origin(Redirected(p, r, q))]
      BY <1>2, <2>1
    <3> QED
      BY <1>1, <2>1, <3>1
  <2>2. CASE q \notin gone
    <3>1. q \in stay /\ Redirected(p, r, q) = q
      BY <1>0, <1>3, <2>2, RedirectedStays DEF Places
    <3> QED
      BY <3>1
  <2> QED
    BY <2>1, <2>2
<1>4. ASSUME NEW s \in DOMAIN new
      PROVE  \E q \in DOMAIN dk : (q # r \/ q = p) /\ s = Redirected(p, r, q) /\ new[s] = dk[q]
  <2>1. CASE s \in stay
    <3>1. Redirected(p, r, s) = s
      BY <1>0, <2>1, RedirectedStays DEF Places
    <3> QED
      BY <2>1, <3>1
  <2>2. CASE s \notin stay
    <3>1. PICK g \in gone : s = Redirected(p, r, g)
      BY <2>2
    <3>2. g # r \/ g = p
      <4>1. CASE g = p
        BY <4>1
      <4>2. CASE Below(p, g)
        BY <4>2 DEF CanRename
      <4> QED
        BY <4>1, <4>2
    <3>3. g \in DOMAIN dk
      OBVIOUS
    <3> HIDE DEF new, stay, gone
    <3> QED
      BY <1>3, <3>1, <3>2, <3>3
  <2> QED
    BY <2>1, <2>2
<1> HIDE DEF new
<1> QED
  BY <1>0, <1>3, <1>4

\* A new object is added to the others.
LEMMA WithIs ==
    ASSUME NEW dk, NEW p, NEW d
    PROVE  /\ DOMAIN With(dk, p, d) = DOMAIN dk \cup {p}
           /\ \A q \in DOMAIN dk : q # p => With(dk, p, d)[q] = dk[q]
           /\ With(dk, p, d)[p] = [obj |-> objects + 1, dir |-> d]
BY DEF With, Put

\* A new object in an existing directory leaves a tree.
LEMMA TreeWith ==
    ASSUME NEW dk, objects \in Nat, Tree(dk, objects), NEW p \in Paths, p \notin DOMAIN dk,
           IsDir(dk, Front(p)), NEW d \in BOOLEAN
    PROVE  Tree(With(dk, p, d), objects + 1)
<1> DEFINE w == With(dk, p, d)
<1>0. /\ DOMAIN w = DOMAIN dk \cup {p}
      /\ \A q \in DOMAIN dk : w[q] = dk[q]
      /\ w[p] = [obj |-> objects + 1, dir |-> d]
  <2>1. DOMAIN w = DOMAIN dk \cup {p}
    BY WithIs
  <2>2. \A q \in DOMAIN dk : q # p => w[q] = dk[q]
    BY DEF With, Put
  <2>3. w[p] = [obj |-> objects + 1, dir |-> d]
    BY DEF With, Put
  <2> HIDE DEF w
  <2> QED
    BY <2>1, <2>2, <2>3
<1>1. /\ DOMAIN w = DOMAIN dk \cup {p}
      /\ \A q \in DOMAIN dk : w[q] = dk[q]
      /\ w[p].obj = objects + 1 /\ w[p].dir = d
  <2> HIDE DEF w
  <2> QED
    BY <1>0
<1> HIDE DEF w
<1>2. IsFiniteSet(DOMAIN w)
  BY <1>1, FS_AddElement DEF Tree
<1>3. \A q : IsDir(dk, q) => IsDir(w, q)
  BY <1>1 DEF IsDir
<1>4. ASSUME NEW q \in DOMAIN w
      PROVE  w[q].obj \in 1..(objects + 1) /\ w[q].dir \in BOOLEAN /\ IsDir(w, Front(q))
  <2>1. CASE q = p
    BY <1>1, <1>3, <2>1
  <2>2. CASE q # p
    <3>1. q \in DOMAIN dk
      BY <1>1, <2>2
    <3>2. dk[q].obj \in 1..objects /\ dk[q].dir \in BOOLEAN /\ IsDir(dk, Front(q))
      BY <3>1 DEF Tree
    <3> QED
      BY <1>1, <1>3, <3>1, <3>2
  <2> QED
    BY <2>1, <2>2
<1>5. ASSUME NEW q \in DOMAIN w, NEW s \in DOMAIN w, w[q].obj = w[s].obj PROVE q = s
  <2>1. \A t \in DOMAIN dk : w[t].obj # objects + 1
    BY <1>1 DEF Tree
  <2> QED
    BY <1>1, <1>5, <2>1 DEF Tree
<1>6. DOMAIN w \subseteq Paths
  BY <1>1 DEF Tree
<1>7. Tree(w, objects + 1)
  BY <1>2, <1>4, <1>5, <1>6 DEF Tree
<1> QED
  BY <1>7 DEF w

\* Taking away what has nothing below it leaves a tree.
LEMMA TreeWithout ==
    ASSUME NEW dk, NEW n, Tree(dk, n), NEW p, IsEmpty(dk, p)
    PROVE  Tree(Without(dk, p), n)
<1> DEFINE w == Without(dk, p)
<1>1. DOMAIN w = DOMAIN dk \ {p} /\ \A q \in DOMAIN w : w[q] = dk[q]
  BY DEF Without
<1> HIDE DEF w
<1>2. IsFiniteSet(DOMAIN w)
  BY <1>1, FS_Subset DEF Tree
<1>3. ASSUME NEW q \in DOMAIN w PROVE IsDir(w, Front(q))
  <2>1. q \in Places /\ q \in DOMAIN dk /\ IsDir(dk, Front(q))
    BY <1>1, PathIs DEF Tree
  <2>2. Front(q) # p
    <3>1. ~Below(p, q)
      BY <2>1 DEF IsEmpty
    <3>2. Below(Front(q), q)
      BY <2>1, FrontIs, BelowFront
    <3> QED
      BY <3>1, <3>2
  <2> QED
    BY <1>1, <2>1, <2>2 DEF IsDir
<1>4. Tree(w, n)
  BY <1>1, <1>2, <1>3 DEF Tree
<1> QED
  BY <1>4 DEF w

\* fs::remove leaves a tree, a part of the one before, and a file is gone.
LEMMA RemovedIs ==
    ASSUME NEW dk, NEW n, Tree(dk, n), NEW p
    PROVE  /\ Tree(Removed(dk, p), n)
           /\ DOMAIN Removed(dk, p) \subseteq DOMAIN dk
           /\ \A q \in DOMAIN Removed(dk, p) : Removed(dk, p)[q] = dk[q]
           /\ p \in DOMAIN dk /\ ~dk[p].dir => p \notin DOMAIN Removed(dk, p)
<1>1. CASE p \in DOMAIN dk /\ IsEmpty(dk, p)
  BY <1>1, TreeWithout DEF Removed, Without
<1>2. CASE ~(p \in DOMAIN dk /\ IsEmpty(dk, p))
  <2>1. Removed(dk, p) = dk
    BY <1>2 DEF Removed
  <2>2. ASSUME p \in DOMAIN dk, ~dk[p].dir PROVE IsEmpty(dk, p)
    <3>1. p \in Places
      BY <2>2, PathIs DEF Tree
    <3> QED
      BY <2>2, <3>1, Ancestors DEF IsEmpty
  <2> QED
    BY <1>2, <2>1, <2>2
<1> QED
  BY <1>1, <1>2

\* A rename that the host allows leaves a tree.
LEMMA TreeRenamed ==
    ASSUME NEW dk, NEW n, Tree(dk, n), NEW p \in DOMAIN dk, NEW r \in Places, CanRename(dk, p, r)
    PROVE  Tree(Renamed(dk, p, r), n)
<1> DEFINE w == Renamed(dk, p, r)
           To(q) == Redirected(p, r, q)
<1>0. /\ p \in Places /\ p \in Seq(Names) /\ r \in Seq(Names) /\ p # <<>>
      /\ \A q \in DOMAIN dk : q \in Places /\ q \in Seq(Names)
      /\ Front(r) \in Seq(Names)
  BY PathIs, FrontIs DEF Tree, Places
<1>1. /\ \A q \in DOMAIN dk : q # r \/ q = p => To(q) \in DOMAIN w /\ w[To(q)] = dk[q]
      /\ \A s \in DOMAIN w : \E q \in DOMAIN dk : (q # r \/ q = p) /\ s = To(q) /\ w[s] = dk[q]
  BY RenamedIs
<1> HIDE DEF w
<1>2. \A q \in DOMAIN dk : To(q) \in Paths
  BY <1>0, PathIs, RedirectedStays DEF CanRename
<1>3. IsFiniteSet(DOMAIN w)
  <2> HIDE DEF To
  <2> DEFINE T == {To(q) : q \in DOMAIN dk}
  <2>1. IsFiniteSet(T)
    <3> DEFINE f == [q \in DOMAIN dk |-> To(q)]
    <3>1. f \in Surjection(DOMAIN dk, T)
      BY DEF Surjection
    <3> QED
      BY <3>1, FS_Surjection DEF Tree
  <2>2. DOMAIN w \subseteq T
    BY <1>1
  <2> HIDE DEF T
  <2> QED
    BY <2>1, <2>2, FS_Subset
<1>4. To(<<>>) = <<>>
  BY <1>0, RedirectedStays
<1>5. ASSUME NEW q \in DOMAIN dk, dk[q].dir, q # r \/ q = p PROVE IsDir(w, To(q))
  BY <1>1, <1>5 DEF IsDir
<1>6. ASSUME NEW s \in DOMAIN w PROVE IsDir(w, Front(s))
  <2>1. PICK q \in DOMAIN dk : (q # r \/ q = p) /\ s = To(q)
    BY <1>1
  <2>2. CASE q = p
    <3>1. s = r
      BY <1>0, <2>1, <2>2, RedirectedStays
    <3>2. Front(r) # p /\ ~Below(p, Front(r)) /\ Front(r) # r
      <4>1. ~Below(p, r)
        BY DEF CanRename
      <4>2. Front(r) # r
        BY FrontIs
      <4> QED
        BY <1>0, <4>1, <4>2, BelowFront
    <3>3. To(Front(r)) = Front(r)
      BY <1>0, <3>2, RedirectedStays
    <3>4. Front(r) = <<>> \/ (Front(r) \in DOMAIN dk /\ dk[Front(r)].dir)
      BY DEF CanRename, IsDir
    <3>5. CASE Front(r) = <<>>
      BY <3>1, <3>5 DEF IsDir
    <3>6. CASE Front(r) \in DOMAIN dk /\ dk[Front(r)].dir
      BY <1>5, <3>1, <3>2, <3>3, <3>6
    <3> QED
      BY <3>4, <3>5, <3>6
  <2>3. CASE q # p
    <3>1. Front(s) = To(Front(q))
      BY <1>0, <2>1, <2>3, RedirectedStep
    <3>2. Front(q) = <<>> \/ (Front(q) \in DOMAIN dk /\ dk[Front(q)].dir)
      BY DEF Tree, IsDir
    <3>3. CASE Front(q) = <<>>
      BY <1>4, <3>1, <3>3 DEF IsDir
    <3>4. CASE Front(q) \in DOMAIN dk /\ dk[Front(q)].dir
      <4>1. Front(q) # r \/ Front(q) = p
        <5>1. Below(Front(q), q)
          BY <1>0, FrontIs, BelowFront
        <5>2. r \in DOMAIN dk /\ r # p => ~Below(r, q)
          BY DEF CanRename, IsEmpty
        <5> QED
          BY <3>4, <5>1, <5>2
      <4> QED
        BY <1>5, <3>1, <3>4, <4>1
    <3> QED
      BY <3>2, <3>3, <3>4
  <2> QED
    BY <2>2, <2>3
<1>7. ASSUME NEW s \in DOMAIN w PROVE w[s].obj \in 1..n /\ w[s].dir \in BOOLEAN /\ s \in Paths
  BY <1>1, <1>2 DEF Tree
<1>8. ASSUME NEW s \in DOMAIN w, NEW t \in DOMAIN w, w[s].obj = w[t].obj PROVE s = t
  BY <1>1, <1>8 DEF Tree
<1>9. Tree(w, n)
  BY <1>3, <1>6, <1>7, <1>8 DEF Tree
<1> QED
  BY <1>9 DEF w

-----------------------------------------------------------------------------
(* The table and the catalogue of a volume, whatever the host does: each ID  *)
(* has one pair, an entry has the pair of its ID, and the catalogue does not *)
(* have an ID twice.                                                         *)

Entry == [cnid : Nat, parent : Nat, name : MacNames, path : Places, dir : BOOLEAN]
Key == [dir : Nat, name : MacNames, path : Places]

Shaped(v) == v = [catalog |-> v.catalog, forward |-> v.forward, reverse |-> v.reverse,
                  next |-> v.next, scanned |-> v.scanned]
Numbered(v) ==
    /\ v.next \in Nat /\ v.next >= FirstCnid
    /\ v.reverse \in [FirstCnid..(v.next - 1) -> Key]
    /\ \A c \in DOMAIN v.reverse : v.reverse[c].dir < v.next
PairsMatch(v) ==
    \A k \in DOMAIN v.forward :
        /\ v.forward[k] \in DOMAIN v.reverse
        /\ k = <<v.reverse[v.forward[k]].dir, v.reverse[v.forward[k]].name>>
EntriesMatch(v) ==
    /\ v.catalog \in Seq(Entry)
    /\ \A i \in DOMAIN v.catalog :
        LET e == v.catalog[i]
        IN  /\ e.cnid \in DOMAIN v.reverse
            /\ v.reverse[e.cnid].dir = e.parent /\ v.reverse[e.cnid].name = e.name
    /\ \A i, j \in DOMAIN v.catalog : v.catalog[i].cnid = v.catalog[j].cnid => i = j
CatalogOK(v) == Shaped(v) /\ Numbered(v) /\ PairsMatch(v) /\ EntriesMatch(v)

\* What the host has at a place has a name for the guest.
LEMMA MacNameIs == \A p \in Places : MacNameOf(p) \in MacNames
BY FrontIs DEF MacNameOf, MacNames

\* The first of a set of indices is in it, or 0.
LEMMA FirstIs ==
    ASSUME NEW S \in SUBSET Nat
    PROVE  (S = {} /\ First(S) = 0) \/ (S # {} /\ First(S) \in S)
<1>1. ASSUME S # {} PROVE First(S) \in S
  <2>1. \E m \in S : \A k \in S : m =< k
    BY <1>1, Least
  <2>2. Min(S) \in S
    BY <2>1 DEF Min
  <2> QED
    BY <1>1, <2>2 DEF First
<1> QED
  BY <1>1 DEF First

\* findByCNID finds the one entry with the ID, if there is one.
LEMMA IndexIs ==
    ASSUME NEW v, CatalogOK(v), NEW c
    PROVE  /\ IndexOf(v, c) = 0 => ~\E i \in DOMAIN v.catalog : v.catalog[i].cnid = c
           /\ \A i \in DOMAIN v.catalog : v.catalog[i].cnid = c => IndexOf(v, c) = i
           /\ IndexOf(v, c) # 0 => IndexOf(v, c) \in DOMAIN v.catalog
                                   /\ v.catalog[IndexOf(v, c)].cnid = c
<1> DEFINE S == {i \in DOMAIN v.catalog : v.catalog[i].cnid = c}
<1>1. S \in SUBSET Nat /\ 0 \notin S
  BY DEF CatalogOK, EntriesMatch
<1>2. (S = {} /\ First(S) = 0) \/ (S # {} /\ First(S) \in S)
  BY <1>1, FirstIs
<1>3. \A i, j \in S : i = j
  BY DEF CatalogOK, EntriesMatch
<1> QED
  BY <1>1, <1>2, <1>3 DEF IndexOf

\* findByName finds an entry with that pair, if there is one.
LEMMA FindIs ==
    ASSUME NEW v, CatalogOK(v), NEW d, NEW n
    PROVE  /\ Find(v, d, n) = 0 =>
                ~\E i \in DOMAIN v.catalog : v.catalog[i].parent = d /\ v.catalog[i].name = n
           /\ Find(v, d, n) # 0 =>
                /\ Find(v, d, n) \in DOMAIN v.catalog
                /\ v.catalog[Find(v, d, n)].parent = d /\ v.catalog[Find(v, d, n)].name = n
<1> DEFINE S == {i \in DOMAIN v.catalog : v.catalog[i].parent = d /\ v.catalog[i].name = n}
<1>1. S \in SUBSET Nat /\ 0 \notin S
  BY DEF CatalogOK, EntriesMatch
<1>2. (S = {} /\ First(S) = 0) \/ (S # {} /\ First(S) \in S)
  BY <1>1, FirstIs
<1> QED
  BY <1>1, <1>2 DEF Find

(* A table that grows: what it said of its IDs and pairs, it still says.    *)
Grown(v, w) ==
    /\ v.next <= w.next
    /\ \A c \in DOMAIN v.reverse : c \in DOMAIN w.reverse /\ w.reverse[c] = v.reverse[c]
    /\ \A k \in DOMAIN v.forward : k \in DOMAIN w.forward /\ w.forward[k] = v.forward[k]
    /\ \A k \in DOMAIN w.forward : k \notin DOMAIN v.forward => w.forward[k] \notin DOMAIN v.reverse

\* A table that grew twice has grown.
LEMMA GrownTwice ==
    ASSUME NEW u, NEW v, NEW w, CatalogOK(u), CatalogOK(v), CatalogOK(w), Grown(u, v), Grown(v, w)
    PROVE  Grown(u, w)
<1>1. u.next \in Nat /\ v.next \in Nat /\ w.next \in Nat
  BY DEF CatalogOK, Numbered
<1> QED
  BY <1>1 DEF Grown

\* CnidTable::resolve keeps the catalogue in order; a new ID is of this pair and path.
LEMMA ResolveIs ==
    ASSUME NEW v, CatalogOK(v), NEW d \in Nat, d < v.next, NEW n \in MacNames, NEW p \in Places,
           NEW w, w = Resolve(v, d, n, p)
    PROVE  /\ CatalogOK(w) /\ Grown(v, w) /\ w.catalog = v.catalog /\ w.scanned = v.scanned
           /\ <<d, n>> \in DOMAIN w.forward
           /\ \A c \in DOMAIN w.reverse : c \notin DOMAIN v.reverse =>
                /\ w.reverse[c] = [dir |-> d, name |-> n, path |-> p]
                /\ w.forward[<<d, n>>] = c
<1>1. CASE <<d, n>> \in DOMAIN v.forward
  <2>1. w = v
    BY <1>1 DEF Resolve
  <2>2. v.next \in Nat
    BY DEF CatalogOK, Numbered
  <2> QED
    BY <1>1, <2>1, <2>2 DEF Grown
<1>2. CASE <<d, n>> \notin DOMAIN v.forward
  <2> DEFINE k == [dir |-> d, name |-> n, path |-> p]
             f == Put(v.forward, <<d, n>>, v.next)
             r == Put(v.reverse, v.next, k)
  <2>0. w = [v EXCEPT !.forward = f, !.reverse = r, !.next = v.next + 1]
    BY <1>2 DEF Resolve
  <2> HIDE DEF f, r
  <2>1. /\ w.catalog = v.catalog /\ w.scanned = v.scanned /\ w.forward = f /\ w.reverse = r
        /\ w.next = v.next + 1 /\ Shaped(w)
    BY <2>0 DEF CatalogOK, Shaped
  <2>2. /\ v.next \in Nat /\ v.next >= 17 /\ v.reverse \in [17..(v.next - 1) -> Key]
        /\ \A c \in DOMAIN v.reverse : v.reverse[c].dir < v.next
        /\ v.next \notin DOMAIN v.reverse /\ DOMAIN v.reverse = 17..(v.next - 1)
    BY DEF CatalogOK, Numbered, FirstCnid
  <2>3. k \in Key /\ k.dir = d /\ k.name = n
    BY DEF Key
  <2> HIDE DEF k
  <2>4. /\ DOMAIN f = DOMAIN v.forward \cup {<<d, n>>} /\ f[<<d, n>>] = v.next
        /\ \A j \in DOMAIN v.forward : f[j] = v.forward[j]
    BY <1>2 DEF f, Put
  <2>5. /\ DOMAIN r = DOMAIN v.reverse \cup {v.next} /\ r[v.next] = k
        /\ \A c \in DOMAIN v.reverse : r[c] = v.reverse[c]
        /\ r = [c \in DOMAIN r |-> r[c]]
    BY <2>2 DEF r, Put
  <2>6. Numbered(w)
    <3>1. DOMAIN r = 17..((v.next + 1) - 1)
      BY <2>2, <2>5
    <3>2. \A c \in DOMAIN r : r[c] \in Key /\ r[c].dir < v.next + 1
      <4>1. ASSUME NEW c \in DOMAIN v.reverse PROVE r[c] \in Key /\ r[c].dir < v.next + 1
        <5>1. v.reverse[c] \in Key /\ v.reverse[c].dir < v.next
          BY <2>2
        <5>2. v.reverse[c].dir \in Nat
          BY <5>1 DEF Key
        <5> QED
          BY <2>2, <2>5, <5>1, <5>2
      <4>2. r[v.next] \in Key /\ r[v.next].dir < v.next + 1
        BY <2>2, <2>3, <2>5
      <4> QED
        BY <2>5, <4>1, <4>2
    <3>3. r \in [17..((v.next + 1) - 1) -> Key]
      BY <2>5, <3>1, <3>2
    <3> QED
      BY <2>1, <2>2, <3>2, <3>3 DEF Numbered, FirstCnid
  <2>7. PairsMatch(w)
    <3>1. ASSUME NEW j \in DOMAIN v.forward
          PROVE  f[j] \in DOMAIN r /\ j = <<r[f[j]].dir, r[f[j]].name>>
      <4>1. v.forward[j] \in DOMAIN v.reverse
            /\ j = <<v.reverse[v.forward[j]].dir, v.reverse[v.forward[j]].name>>
        BY DEF CatalogOK, PairsMatch
      <4> QED
        BY <2>4, <2>5, <4>1
    <3>2. f[<<d, n>>] \in DOMAIN r /\ <<d, n>> = <<r[f[<<d, n>>]].dir, r[f[<<d, n>>]].name>>
      BY <2>3, <2>4, <2>5
    <3> QED
      BY <2>1, <2>4, <3>1, <3>2 DEF PairsMatch
  <2>8. EntriesMatch(w)
    BY <2>1, <2>5 DEF CatalogOK, EntriesMatch
  <2>9. Grown(v, w)
    BY <2>1, <2>2, <2>4, <2>5 DEF Grown
  <2>10. \A c \in DOMAIN w.reverse : c \notin DOMAIN v.reverse => w.reverse[c] = k /\ w.forward[<<d, n>>] = c
    BY <2>1, <2>4, <2>5
  <2> QED
    BY <2>1, <2>4, <2>6, <2>7, <2>8, <2>9, <2>10 DEF CatalogOK, k
<1> QED
  BY <1>1, <1>2

-----------------------------------------------------------------------------
(* Where pairs lead. *)

\* A directory has one stored path at most; its home is that path, while its pair means it.
LEMMA HomeIs ==
    ASSUME NEW v, NEW d
    PROVE  /\ Home(v, d) \subseteq StoredPath(v, d)
           /\ \A p, q \in StoredPath(v, d) : p = q
           /\ d = kRootDirID => Home(v, d) = {<<>>}
           /\ Live(v, d) /\ d # kRootDirID => Home(v, d) = {v.reverse[d].path}
           /\ \A p \in StoredPath(v, d) : d = kRootDirID \/ d \in DOMAIN v.reverse
           /\ \A p \in Home(v, d) : d = kRootDirID \/ Live(v, d)
BY DEF Home, StoredPath, Live

\* A table that grows keeps what its pairs mean and where they lead.
LEMMA GrownMeans ==
    ASSUME NEW v, NEW w, CatalogOK(v), CatalogOK(w), Grown(v, w)
    PROVE  /\ \A d, n, c : Means(v, d, n, c) => Means(w, d, n, c)
           /\ \A d, n : \A c \in DOMAIN v.reverse : Means(w, d, n, c) => Means(v, d, n, c)
           /\ \A c \in DOMAIN v.reverse : Live(w, c) <=> Live(v, c)
           /\ \A d \in DOMAIN v.reverse \cup {kRootDirID} :
                Home(w, d) = Home(v, d) /\ StoredPath(w, d) = StoredPath(v, d)
           /\ \A d, n, c, p : Leads(v, d, n, c, p) => Leads(w, d, n, c, p)
<1>1. \A d, n, c : Means(v, d, n, c) => Means(w, d, n, c)
  BY DEF Grown, Means
<1>2. \A d, n : \A c \in DOMAIN v.reverse : Means(w, d, n, c) => Means(v, d, n, c)
  BY DEF Grown, Means
<1>3. \A c \in DOMAIN v.reverse : Live(w, c) <=> Live(v, c)
  BY <1>1, <1>2 DEF Grown, Live
<1>4. ASSUME NEW d \in DOMAIN v.reverse \cup {kRootDirID}
      PROVE  Home(w, d) = Home(v, d) /\ StoredPath(w, d) = StoredPath(v, d)
  <2>1. StoredPath(w, d) = StoredPath(v, d)
    BY DEF StoredPath, Grown
  <2> QED
    BY <1>3, <2>1 DEF Home
<1>5. ASSUME NEW d, NEW n, NEW c, NEW p, Leads(v, d, n, c, p) PROVE Leads(w, d, n, c, p)
  <2>1. Means(v, d, n, c) /\ MacNameOf(p) = n /\ Front(p) \in Home(v, d)
    BY <1>5 DEF Leads
  <2>2. d \in DOMAIN v.reverse \cup {kRootDirID}
    BY <2>1, HomeIs
  <2> QED
    BY <1>1, <1>4, <2>1, <2>2 DEF Leads
<1> QED
  BY <1>1, <1>2, <1>3, <1>4, <1>5

(* A pair leads to one name in one directory, and means one ID. *)
LEMMA LeadsOnce ==
    ASSUME NEW v, NEW d, NEW n, NEW b, NEW c, NEW p, NEW q, Leads(v, d, n, b, p), Leads(v, d, n, c, q)
    PROVE  Front(p) = Front(q) /\ MacNameOf(p) = MacNameOf(q) /\ b = c
BY HomeIs DEF Leads, Means

-----------------------------------------------------------------------------
(* Looking at a directory. *)

\* One turn of ensureScanned's loop: an entry for this name, the others untouched.
LEMMA MergedIs ==
    ASSUME NEW v, CatalogOK(v), NEW d \in Nat, d < v.next, NEW p \in Places,
           disk[p].dir \in BOOLEAN, NEW w, w = Merged(v, d, p)
    PROVE  /\ CatalogOK(w) /\ Grown(v, w) /\ w.scanned = v.scanned
           /\ \A i \in DOMAIN v.catalog :
                /\ i \in DOMAIN w.catalog /\ w.catalog[i].cnid = v.catalog[i].cnid
                /\ w.catalog[i].parent = v.catalog[i].parent /\ w.catalog[i].name = v.catalog[i].name
                /\ w.catalog[i].dir = v.catalog[i].dir
           /\ \A j \in DOMAIN w.catalog :
                \/ j \in DOMAIN v.catalog /\ w.catalog[j] = v.catalog[j]
                \/ /\ w.catalog[j].parent = d /\ w.catalog[j].name = MacNameOf(p)
                   /\ w.catalog[j].path = p /\ Means(w, d, MacNameOf(p), w.catalog[j].cnid)
           /\ \E j \in DOMAIN w.catalog :
                /\ w.catalog[j].parent = d /\ w.catalog[j].name = MacNameOf(p)
                /\ w.catalog[j].path = p /\ Means(w, d, MacNameOf(p), w.catalog[j].cnid)
           /\ \A c \in DOMAIN w.reverse : c \notin DOMAIN v.reverse =>
                /\ w.reverse[c] = [dir |-> d, name |-> MacNameOf(p), path |-> p]
                /\ Means(w, d, MacNameOf(p), c)
           /\ \A j \in DOMAIN w.catalog : j \notin DOMAIN v.catalog => w.catalog[j].dir = disk[p].dir
<1> DEFINE n == MacNameOf(p)
           u == Resolve(v, d, n, p)
           c == u.forward[<<d, n>>]
           i == IndexOf(u, c)
<1>0. n \in MacNames
  BY MacNameIs
<1> HIDE DEF n
<1>1. /\ CatalogOK(u) /\ Grown(v, u) /\ u.catalog = v.catalog /\ u.scanned = v.scanned
      /\ <<d, n>> \in DOMAIN u.forward
      /\ \A b \in DOMAIN u.reverse : b \notin DOMAIN v.reverse =>
            u.reverse[b] = [dir |-> d, name |-> n, path |-> p] /\ u.forward[<<d, n>>] = b
  BY <1>0, ResolveIs
<1> HIDE DEF u
<1>2. /\ Means(u, d, n, c) /\ c \in DOMAIN u.reverse
      /\ u.reverse[c].dir = d /\ u.reverse[c].name = n
  BY <1>1 DEF Means, CatalogOK, PairsMatch
<1>3. DOMAIN u.reverse \subseteq Nat /\ Shaped(u) /\ u.catalog \in Seq(Entry)
  BY <1>1 DEF CatalogOK, Numbered, EntriesMatch, FirstCnid
<1>4. /\ i = 0 => ~\E j \in DOMAIN u.catalog : u.catalog[j].cnid = c
      /\ i # 0 => i \in DOMAIN u.catalog /\ u.catalog[i].cnid = c
  BY <1>1, IndexIs
<1>5. /\ i # 0 => w = [u EXCEPT !.catalog[i].path = p]
      /\ i = 0 => w = [u EXCEPT !.catalog = Append(u.catalog,
                        [cnid |-> c, parent |-> d, name |-> n, path |-> p, dir |-> disk[p].dir])]
  BY DEF Merged, u, n
<1> HIDE DEF i, c
<1>6. /\ w.forward = u.forward /\ w.reverse = u.reverse /\ w.next = u.next
      /\ w.scanned = u.scanned /\ Shaped(w)
  <2>1. CASE i # 0
    BY <1>3, <1>5, <2>1 DEF Shaped
  <2>2. CASE i = 0
    BY <1>3, <1>5, <2>2 DEF Shaped
  <2> QED
    BY <2>1, <2>2
<1>7. /\ w.catalog \in Seq(Entry) /\ DOMAIN u.catalog \subseteq DOMAIN w.catalog
      /\ \A j \in DOMAIN u.catalog :
            /\ w.catalog[j].cnid = u.catalog[j].cnid /\ w.catalog[j].dir = u.catalog[j].dir
            /\ w.catalog[j].parent = u.catalog[j].parent /\ w.catalog[j].name = u.catalog[j].name
      /\ \A j \in DOMAIN w.catalog :
            \/ j \in DOMAIN u.catalog /\ w.catalog[j] = u.catalog[j]
            \/ /\ w.catalog[j].cnid = c /\ w.catalog[j].parent = d /\ w.catalog[j].name = n
               /\ w.catalog[j].path = p
      /\ \E j \in DOMAIN w.catalog :
            /\ w.catalog[j].cnid = c /\ w.catalog[j].parent = d /\ w.catalog[j].name = n
            /\ w.catalog[j].path = p
      /\ \A j, k \in DOMAIN w.catalog : w.catalog[j].cnid = w.catalog[k].cnid => j = k
      /\ \A j \in DOMAIN w.catalog : j \notin DOMAIN u.catalog => w.catalog[j].dir = disk[p].dir
  <2>0. \A j, k \in DOMAIN u.catalog : u.catalog[j].cnid = u.catalog[k].cnid => j = k
    BY <1>1 DEF CatalogOK, EntriesMatch
  <2>1. CASE i # 0
    <3>1. w.catalog = [u.catalog EXCEPT ![i].path = p]
      BY <1>3, <1>5, <2>1 DEF Shaped
    <3>2. i \in DOMAIN u.catalog /\ u.catalog[i] \in Entry /\ u.catalog[i].cnid = c
      BY <1>3, <1>4, <2>1
    <3>3. u.catalog[i].parent = d /\ u.catalog[i].name = n
      BY <1>1, <1>2, <3>2 DEF CatalogOK, EntriesMatch
    <3> DEFINE e == [u.catalog[i] EXCEPT !.path = p]
    <3>4. e \in Entry /\ e.cnid = c /\ e.parent = d /\ e.name = n /\ e.path = p
          /\ e.dir = u.catalog[i].dir
      BY <3>2, <3>3 DEF Entry
    <3>5. w.catalog = [u.catalog EXCEPT ![i] = e]
      BY <3>1
    <3> HIDE DEF e
    <3>6. /\ w.catalog \in Seq(Entry) /\ DOMAIN w.catalog = DOMAIN u.catalog
          /\ w.catalog[i] = e /\ \A j \in DOMAIN u.catalog : j # i => w.catalog[j] = u.catalog[j]
      BY <1>3, <3>2, <3>4, <3>5
    <3> QED
      BY <2>0, <3>2, <3>3, <3>4, <3>6
  <2>2. CASE i = 0
    <3> DEFINE e == [cnid |-> c, parent |-> d, name |-> n, path |-> p, dir |-> disk[p].dir]
    <3>1. w.catalog = Append(u.catalog, e)
      BY <1>3, <1>5, <2>2 DEF Shaped
    <3>2. /\ e \in Entry /\ e.cnid = c /\ e.parent = d /\ e.name = n /\ e.path = p
          /\ e.dir = disk[p].dir
      BY <1>0, <1>2, <1>3 DEF Entry
    <3> HIDE DEF e
    <3> DEFINE m == Len(u.catalog)
    <3>3. /\ w.catalog \in Seq(Entry) /\ m \in Nat /\ DOMAIN u.catalog = 1..m
          /\ DOMAIN w.catalog = 1..(m + 1)
          /\ w.catalog[m + 1] = e /\ \A j \in 1..m : w.catalog[j] = u.catalog[j]
      BY <1>3, <3>1, <3>2
    <3> HIDE DEF m
    <3>4. \A j \in DOMAIN w.catalog : j \in DOMAIN u.catalog \/ j = m + 1
      BY <3>3
    <3>5. m + 1 \in DOMAIN w.catalog /\ DOMAIN u.catalog \subseteq DOMAIN w.catalog
      BY <3>3
    <3>6. /\ \A j \in DOMAIN u.catalog : w.catalog[j] = u.catalog[j]
          /\ \A j \in DOMAIN u.catalog : w.catalog[j].cnid # c
          /\ w.catalog[m + 1].cnid = c /\ w.catalog[m + 1].parent = d
          /\ w.catalog[m + 1].name = n /\ w.catalog[m + 1].path = p
      BY <1>4, <2>2, <3>2, <3>3
    <3>7. \A j, k \in DOMAIN w.catalog : w.catalog[j].cnid = w.catalog[k].cnid => j = k
      <4> SUFFICES ASSUME NEW j \in DOMAIN w.catalog, NEW k \in DOMAIN w.catalog,
                          w.catalog[j].cnid = w.catalog[k].cnid
                   PROVE  j = k
        OBVIOUS
      <4>1. CASE j \in DOMAIN u.catalog /\ k \in DOMAIN u.catalog
        BY <2>0, <3>6, <4>1
      <4>2. CASE j = m + 1 /\ k = m + 1
        BY <4>2
      <4> QED
        BY <3>4, <3>6, <4>1, <4>2
    <3>8. \A j \in DOMAIN w.catalog :
            \/ j \in DOMAIN u.catalog /\ w.catalog[j] = u.catalog[j]
            \/ /\ w.catalog[j].cnid = c /\ w.catalog[j].parent = d /\ w.catalog[j].name = n
               /\ w.catalog[j].path = p
      BY <3>4, <3>6
    <3>9. \A j \in DOMAIN w.catalog : j \notin DOMAIN u.catalog => w.catalog[j].dir = disk[p].dir
      BY <3>2, <3>3, <3>4
    <3> QED
      BY <3>3, <3>5, <3>6, <3>7, <3>8, <3>9
  <2> QED
    BY <2>1, <2>2
<1>8. EntriesMatch(w)
  <2>1. ASSUME NEW j \in DOMAIN w.catalog
        PROVE  /\ w.catalog[j].cnid \in DOMAIN w.reverse
               /\ w.reverse[w.catalog[j].cnid].dir = w.catalog[j].parent
               /\ w.reverse[w.catalog[j].cnid].name = w.catalog[j].name
    <3>1. CASE j \in DOMAIN u.catalog /\ w.catalog[j] = u.catalog[j]
      BY <1>1, <1>6, <3>1 DEF CatalogOK, EntriesMatch
    <3>2. CASE w.catalog[j].cnid = c /\ w.catalog[j].parent = d /\ w.catalog[j].name = n
      BY <1>2, <1>6, <3>2
    <3> QED
      BY <1>7, <3>1, <3>2
  <2> QED
    BY <1>7, <2>1 DEF EntriesMatch
<1>9. CatalogOK(w) /\ Grown(v, w)
  <2>1. Numbered(w) /\ PairsMatch(w) /\ Grown(v, w)
    BY <1>1, <1>6 DEF CatalogOK, Numbered, PairsMatch, Grown
  <2> QED
    BY <1>6, <1>8, <2>1 DEF CatalogOK
<1>10. Means(w, d, n, c)
  BY <1>2, <1>6 DEF Means
<1>11. \A b \in DOMAIN w.reverse : b \notin DOMAIN v.reverse =>
            w.reverse[b] = [dir |-> d, name |-> n, path |-> p] /\ Means(w, d, n, b)
  BY <1>1, <1>6 DEF Means
<1>12. w.scanned = v.scanned
  BY <1>1, <1>6
<1>13. \A j \in DOMAIN v.catalog :
            /\ j \in DOMAIN w.catalog /\ w.catalog[j].cnid = v.catalog[j].cnid
            /\ w.catalog[j].parent = v.catalog[j].parent /\ w.catalog[j].name = v.catalog[j].name
            /\ w.catalog[j].dir = v.catalog[j].dir
  BY <1>1, <1>7
<1>14. \A j \in DOMAIN w.catalog :
            \/ j \in DOMAIN v.catalog /\ w.catalog[j] = v.catalog[j]
            \/ /\ w.catalog[j].parent = d /\ w.catalog[j].name = n
               /\ w.catalog[j].path = p /\ Means(w, d, n, w.catalog[j].cnid)
  BY <1>1, <1>7, <1>10
<1>15. \E j \in DOMAIN w.catalog :
            /\ w.catalog[j].parent = d /\ w.catalog[j].name = n
            /\ w.catalog[j].path = p /\ Means(w, d, n, w.catalog[j].cnid)
  BY <1>7, <1>10
<1>16. \A j \in DOMAIN w.catalog : j \notin DOMAIN v.catalog => w.catalog[j].dir = disk[p].dir
  BY <1>1, <1>7
<1> QED
  BY <1>9, <1>11, <1>12, <1>13, <1>14, <1>15, <1>16 DEF n

(* The loop of ensureScanned: the volume after each turn, up to the nth.    *)
Turns(v, d, ls, n, h) ==
    h = [i \in 0..n |-> IF i = 0 THEN v ELSE Merged(h[i - 1], d, ls[i])]

\* The turns of the loop over a listing have a result for any number of turns.
LEMMA TurnsExist ==
    ASSUME NEW v, NEW d, NEW ls, NEW n \in Nat
    PROVE  \E h : Turns(v, d, ls, n, h)
<1> DEFINE G == {m \in 0..n : \E h : Turns(v, d, ls, m, h)}
<1>1. 0 \in G
  <2>1. Turns(v, d, ls, 0, [i \in 0..0 |-> v])
    BY DEF Turns
  <2> QED
    BY <2>1
<1>2. ASSUME NEW m \in 0..n, m \in G, m < n PROVE m + 1 \in G
  <2>1. PICK h : Turns(v, d, ls, m, h)
    BY <1>2
  <2>2. PICK w : w = Merged(h[m], d, ls[m + 1])
    OBVIOUS
  <2>3. PICK f : f = [i \in 0..(m + 1) |-> IF i = m + 1 THEN w ELSE h[i]]
    OBVIOUS
  <2>4. ASSUME NEW i \in 0..(m + 1)
        PROVE  f[i] = IF i = 0 THEN v ELSE Merged(f[i - 1], d, ls[i])
    <3>1. CASE i = 0
      <4>1. f[0] = h[0] /\ h[0] = v
        BY <2>1, <2>3 DEF Turns
      <4> QED
        BY <3>1, <4>1
    <3>2. CASE i # 0 /\ i # m + 1
      <4>1. i \in 0..m /\ i - 1 \in 0..(m + 1) /\ i - 1 # m + 1
        BY <3>2
      <4>2. f[i] = h[i] /\ f[i - 1] = h[i - 1]
        BY <2>3, <3>2, <4>1
      <4>3. h[i] = Merged(h[i - 1], d, ls[i])
        BY <2>1, <3>2, <4>1 DEF Turns
      <4> QED
        BY <3>2, <4>2, <4>3
    <3>3. CASE i = m + 1
      <4>1. f[m + 1] = w /\ f[m] = h[m] /\ (m + 1) - 1 = m /\ m + 1 # 0
        BY <2>3
      <4> QED
        BY <2>2, <3>3, <4>1
    <3> QED
      BY <3>1, <3>2, <3>3
  <2>5. Turns(v, d, ls, m + 1, f)
    <3>1. f = [i \in 0..(m + 1) |-> f[i]]
      BY <2>3
    <3> QED
      BY <2>4, <3>1 DEF Turns
  <2> QED
    BY <1>2, <2>5
<1> HIDE DEF G
<1>3. n \in G
  BY <1>1, <1>2, Upwards
<1> QED
  BY <1>3 DEF G

\* The loop over a listing is its turns, one after the other.
LEMMA ListingByTurns ==
    ASSUME NEW v, NEW d, NEW ls, Len(ls) \in Nat
    PROVE  \E h : Turns(v, d, ls, Len(ls), h) /\ ListingMerged(v, d, ls) = h[Len(ls)]
<1> DEFINE g == CHOOSE h : Turns(v, d, ls, Len(ls), h)
<1>1. Turns(v, d, ls, Len(ls), g)
  <2>1. \E h : Turns(v, d, ls, Len(ls), h)
    BY TurnsExist
  <2> QED
    BY <2>1, Zenon
<1>2. ListingMerged(v, d, ls) = g[Len(ls)]
  BY Zenon DEF ListingMerged, Turns
<1> QED
  BY <1>1, <1>2

(* The loop that erases entries. *)
Keeps(cat, keep, n, h) ==
    h = [i \in 0..n |-> IF i = 0 THEN <<>>
                        ELSE IF i \in keep THEN Append(h[i - 1], cat[i]) ELSE h[i - 1]]

\* Going through a catalogue has a result for any number of entries.
LEMMA KeepsExist ==
    ASSUME NEW cat, NEW keep, NEW n \in Nat
    PROVE  \E h : Keeps(cat, keep, n, h)
<1> DEFINE G == {m \in 0..n : \E h : Keeps(cat, keep, m, h)}
           Turn(before, i) == IF i \in keep THEN Append(before, cat[i]) ELSE before
<1>1. 0 \in G
  <2>1. Keeps(cat, keep, 0, [i \in 0..0 |-> <<>>])
    BY DEF Keeps
  <2> QED
    BY <2>1
<1>2. ASSUME NEW m \in 0..n, m \in G, m < n PROVE m + 1 \in G
  <2>1. PICK h : Keeps(cat, keep, m, h)
    BY <1>2
  <2>2. PICK w : w = Turn(h[m], m + 1)
    OBVIOUS
  <2>3. PICK f : f = [i \in 0..(m + 1) |-> IF i = m + 1 THEN w ELSE h[i]]
    OBVIOUS
  <2>4. ASSUME NEW i \in 0..(m + 1)
        PROVE  f[i] = IF i = 0 THEN <<>> ELSE Turn(f[i - 1], i)
    <3>1. CASE i = 0
      <4>1. f[0] = h[0] /\ h[0] = <<>>
        BY <2>1, <2>3 DEF Keeps
      <4> QED
        BY <3>1, <4>1
    <3>2. CASE i # 0 /\ i # m + 1
      <4>1. i \in 0..m /\ i - 1 \in 0..(m + 1) /\ i - 1 # m + 1
        BY <3>2
      <4>2. f[i] = h[i] /\ f[i - 1] = h[i - 1]
        BY <2>3, <3>2, <4>1
      <4>3. h[i] = Turn(h[i - 1], i)
        BY <2>1, <3>2, <4>1 DEF Keeps
      <4> QED
        BY <3>2, <4>2, <4>3
    <3>3. CASE i = m + 1
      <4>1. f[m + 1] = w /\ f[m] = h[m] /\ (m + 1) - 1 = m /\ m + 1 # 0
        BY <2>3
      <4> QED
        BY <2>2, <3>3, <4>1
    <3> QED
      BY <3>1, <3>2, <3>3
  <2>5. Keeps(cat, keep, m + 1, f)
    <3>1. f = [i \in 0..(m + 1) |-> f[i]]
      BY <2>3
    <3> QED
      BY <2>4, <3>1 DEF Keeps
  <2> QED
    BY <1>2, <2>5
<1> HIDE DEF G
<1>3. n \in G
  BY <1>1, <1>2, Upwards
<1> QED
  BY <1>3 DEF G

(* t is the first n entries of cat without those that are not to be kept:   *)
(* at says where each came from.                                            *)
LeftOf(cat, keep, n, t, at) ==
    /\ t \in Seq(Entry) /\ DOMAIN at = DOMAIN t
    /\ \A i \in DOMAIN t : at[i] \in 1..n /\ at[i] \in keep /\ t[i] = cat[at[i]]
    /\ \A i, j \in DOMAIN t : at[i] = at[j] => i = j
    /\ \A k \in 1..n : k \in keep => \E i \in DOMAIN t : at[i] = k

\* What is left when a catalogue was gone through are its kept entries, each once.
LEMMA KeepsLeave ==
    ASSUME NEW cat \in Seq(Entry), NEW keep, NEW h, Keeps(cat, keep, Len(cat), h)
    PROVE  \E at : LeftOf(cat, keep, Len(cat), h[Len(cat)], at)
<1> DEFINE G == {m \in 0..Len(cat) : \E at : LeftOf(cat, keep, m, h[m], at)}
<1>0. Len(cat) \in Nat
  OBVIOUS
<1>1. 0 \in G
  <2>1. h[0] = <<>>
    BY <1>0 DEF Keeps
  <2>2. LeftOf(cat, keep, 0, <<>>, <<>>)
    BY DEF LeftOf
  <2> QED
    BY <1>0, <2>1, <2>2
<1>2. ASSUME NEW m \in 0..Len(cat), m \in G, m < Len(cat) PROVE m + 1 \in G
  <2>1. PICK at : LeftOf(cat, keep, m, h[m], at)
    BY <1>2
  <2>2. PICK t : t = h[m]
    OBVIOUS
  <2>3. h[m + 1] = IF m + 1 \in keep THEN Append(t, cat[m + 1]) ELSE t
    <3>1. m + 1 \in 0..Len(cat) /\ m + 1 # 0 /\ (m + 1) - 1 = m
      BY <1>0, <1>2
    <3> QED
      BY <2>2, <3>1 DEF Keeps
  <2>4. /\ t \in Seq(Entry) /\ DOMAIN at = DOMAIN t
        /\ \A i \in DOMAIN t : at[i] \in 1..m /\ at[i] \in keep /\ t[i] = cat[at[i]]
        /\ \A i, j \in DOMAIN t : at[i] = at[j] => i = j
        /\ \A k \in 1..m : k \in keep => \E i \in DOMAIN t : at[i] = k
    BY <2>1, <2>2 DEF LeftOf
  <2>5. CASE m + 1 \notin keep
    <3>1. \A k \in 1..(m + 1) : k \in keep => k \in 1..m
      BY <2>5
    <3>2. LeftOf(cat, keep, m + 1, t, at)
      BY <2>4, <3>1 DEF LeftOf
    <3> QED
      BY <1>2, <2>3, <2>5, <3>2
  <2>6. CASE m + 1 \in keep
    <3>1. PICK l \in Nat : l = Len(t)
      BY <2>4
    <3>2. PICK u : u = Append(t, cat[m + 1])
      OBVIOUS
    <3>3. PICK to : to = [i \in 1..(l + 1) |-> IF i = l + 1 THEN m + 1 ELSE at[i]]
      OBVIOUS
    <3>4. cat[m + 1] \in Entry
      BY <1>0, <1>2
    <3>5. /\ u \in Seq(Entry) /\ DOMAIN t = 1..l /\ DOMAIN u = 1..(l + 1)
          /\ u[l + 1] = cat[m + 1] /\ \A i \in 1..l : u[i] = t[i]
      BY <2>4, <3>1, <3>2, <3>4
    <3>6. DOMAIN to = 1..(l + 1) /\ to[l + 1] = m + 1 /\ \A i \in 1..l : to[i] = at[i]
      BY <3>1, <3>3
    <3>7. \A i \in 1..(l + 1) : i \in 1..l \/ i = l + 1
      OBVIOUS
    <3>8. \A i \in 1..l : to[i] # m + 1 /\ to[i] \in 1..(m + 1)
      <4>1. m \in Nat /\ \A k \in 1..m : k # m + 1 /\ k \in 1..(m + 1)
        BY <1>0
      <4>2. \A i \in 1..l : at[i] \in 1..m
        BY <2>4, <3>5
      <4> QED
        BY <3>6, <4>1, <4>2
    <3>9. \A i \in 1..(l + 1) : to[i] \in 1..(m + 1) /\ to[i] \in keep /\ u[i] = cat[to[i]]
      BY <2>4, <2>6, <3>5, <3>6, <3>7, <3>8
    <3>10. \A i, j \in 1..(l + 1) : to[i] = to[j] => i = j
      BY <2>4, <3>5, <3>6, <3>7, <3>8, ZenonT(40)
    <3>11. ASSUME NEW k \in 1..(m + 1), k \in keep PROVE \E i \in 1..(l + 1) : to[i] = k
      <4>1. CASE k = m + 1
        BY <3>6, <4>1
      <4>2. CASE k # m + 1
        <5>1. k \in 1..m
          BY <4>2
        <5>2. PICK i \in 1..l : at[i] = k
          BY <2>4, <3>5, <3>11, <5>1
        <5> QED
          BY <3>6, <5>2
      <4> QED
        BY <4>1, <4>2
    <3>12. LeftOf(cat, keep, m + 1, u, to)
      BY <3>5, <3>6, <3>9, <3>10, <3>11 DEF LeftOf
    <3>13. h[m + 1] = u /\ m + 1 \in 0..Len(cat)
      BY <1>0, <1>2, <2>3, <2>6, <3>2
    <3> QED
      BY <3>12, <3>13
  <2> QED
    BY <2>5, <2>6
<1> HIDE DEF G
<1>3. PICK len \in Nat : len = Len(cat)
  BY <1>0
<1>4. \A m \in 0..len : m \in G /\ m < len => m + 1 \in G
  BY <1>2, <1>3
<1>5. len \in G
  <2>1. \A m \in 0..len : m \in G
    BY <1>1, <1>4, Upwards
  <2> QED
    BY <2>1
<1> QED
  BY <1>3, <1>5 DEF G

\* What is kept of a catalogue are its entries at the indices kept, each once.
LEMMA KeepingIs ==
    ASSUME NEW cat \in Seq(Entry), NEW keep
    PROVE  \E at : LeftOf(cat, keep, Len(cat), Keeping(cat, keep), at)
<1> DEFINE g == CHOOSE h : Keeps(cat, keep, Len(cat), h)
<1>1. Keeps(cat, keep, Len(cat), g)
  <2>1. Len(cat) \in Nat
    OBVIOUS
  <2>2. \E h : Keeps(cat, keep, Len(cat), h)
    BY <2>1, KeepsExist
  <2> QED
    BY <2>2, Zenon
<1>2. Keeping(cat, keep) = g[Len(cat)]
  BY Zenon DEF Keeping, Keeps
<1> HIDE DEF g
<1> QED
  BY <1>1, <1>2, KeepsLeave

(* q is in the host's directory p. *)
Listed(p, q) == q \in DOMAIN disk /\ Front(q) = p

(* w is what v becomes after m turns over the listing ls of p, which is d.  *)
AfterTurns(v, d, p, ls, w, m) ==
    /\ CatalogOK(w) /\ Grown(v, w) /\ w.scanned = v.scanned
    /\ \A i \in DOMAIN v.catalog :
        /\ i \in DOMAIN w.catalog /\ w.catalog[i].cnid = v.catalog[i].cnid
        /\ w.catalog[i].parent = v.catalog[i].parent /\ w.catalog[i].dir = v.catalog[i].dir
    /\ \A j \in DOMAIN w.catalog :
        \/ j \in DOMAIN v.catalog /\ w.catalog[j] = v.catalog[j]
        \/ LET e == w.catalog[j]
           IN  e.parent = d /\ Listed(p, e.path) /\ e.name = MacNameOf(e.path) /\ Means(w, d, e.name, e.cnid)
    /\ \A i \in 1..m : \E j \in DOMAIN w.catalog :
        /\ w.catalog[j].parent = d /\ w.catalog[j].name = MacNameOf(ls[i]) /\ Listed(p, w.catalog[j].path)
    /\ \A c \in DOMAIN w.reverse : c \notin DOMAIN v.reverse =>
        LET k == w.reverse[c]
        IN  k.dir = d /\ Listed(p, k.path) /\ k.name = MacNameOf(k.path) /\ Means(w, d, k.name, c)
    /\ NoNamesakes(disk) => \A j \in DOMAIN w.catalog : j \notin DOMAIN v.catalog =>
        LET e == w.catalog[j] IN e.dir = disk[e.path].dir

\* A turn of the loop keeps what holds after the turns before it.
LEMMA TurnKeeps ==
    ASSUME NEW v, CatalogOK(v), NEW d \in Nat, d < v.next, NEW p, NEW ls, NEW w, NEW m \in Nat,
           AfterTurns(v, d, p, ls, w, m), ls[m + 1] \in Places, Listed(p, ls[m + 1]),
           disk[ls[m + 1]].dir \in BOOLEAN
    PROVE  AfterTurns(v, d, p, ls, Merged(w, d, ls[m + 1]), m + 1)
<1> PICK q : q = ls[m + 1]
  OBVIOUS
<1> PICK u : u = Merged(w, d, q)
  OBVIOUS
<1>1. CatalogOK(w) /\ Grown(v, w) /\ w.scanned = v.scanned
  BY DEF AfterTurns
<1>2. d < w.next
  <2>1. v.next \in Nat /\ w.next \in Nat /\ v.next <= w.next
    BY <1>1 DEF CatalogOK, Numbered, Grown
  <2> QED
    BY <2>1
<1>3. /\ CatalogOK(u) /\ Grown(w, u) /\ u.scanned = w.scanned
      /\ \A i \in DOMAIN w.catalog :
            /\ i \in DOMAIN u.catalog /\ u.catalog[i].cnid = w.catalog[i].cnid
            /\ u.catalog[i].parent = w.catalog[i].parent /\ u.catalog[i].name = w.catalog[i].name
            /\ u.catalog[i].dir = w.catalog[i].dir
      /\ \A j \in DOMAIN u.catalog :
            \/ j \in DOMAIN w.catalog /\ u.catalog[j] = w.catalog[j]
            \/ /\ u.catalog[j].parent = d /\ u.catalog[j].name = MacNameOf(q)
               /\ u.catalog[j].path = q /\ Means(u, d, MacNameOf(q), u.catalog[j].cnid)
      /\ \E j \in DOMAIN u.catalog :
            /\ u.catalog[j].parent = d /\ u.catalog[j].name = MacNameOf(q)
            /\ u.catalog[j].path = q /\ Means(u, d, MacNameOf(q), u.catalog[j].cnid)
      /\ \A c \in DOMAIN u.reverse : c \notin DOMAIN w.reverse =>
            /\ u.reverse[c] = [dir |-> d, name |-> MacNameOf(q), path |-> q]
            /\ Means(u, d, MacNameOf(q), c)
      /\ \A j \in DOMAIN u.catalog : j \notin DOMAIN w.catalog => u.catalog[j].dir = disk[q].dir
  BY <1>1, <1>2, MergedIs
<1>4. Listed(p, q)
  OBVIOUS
<1>5. CatalogOK(u) /\ Grown(v, u) /\ u.scanned = v.scanned
  BY <1>1, <1>3, GrownTwice
<1>6. \A dd, n, c : Means(w, dd, n, c) => Means(u, dd, n, c)
  BY <1>1, <1>3, GrownMeans
<1>7. \A i \in DOMAIN v.catalog :
        /\ i \in DOMAIN u.catalog /\ u.catalog[i].cnid = v.catalog[i].cnid
        /\ u.catalog[i].parent = v.catalog[i].parent /\ u.catalog[i].dir = v.catalog[i].dir
  <2>1. \A i \in DOMAIN v.catalog :
            /\ i \in DOMAIN w.catalog /\ w.catalog[i].cnid = v.catalog[i].cnid
            /\ w.catalog[i].parent = v.catalog[i].parent /\ w.catalog[i].dir = v.catalog[i].dir
    BY DEF AfterTurns
  <2>2. \A i \in DOMAIN w.catalog :
            /\ i \in DOMAIN u.catalog /\ u.catalog[i].cnid = w.catalog[i].cnid
            /\ u.catalog[i].parent = w.catalog[i].parent /\ u.catalog[i].dir = w.catalog[i].dir
    BY <1>3
  <2> QED
    BY <2>1, <2>2
<1>8. ASSUME NEW j \in DOMAIN u.catalog
      PROVE  \/ j \in DOMAIN v.catalog /\ u.catalog[j] = v.catalog[j]
             \/ LET e == u.catalog[j]
                IN  /\ e.parent = d /\ Listed(p, e.path) /\ e.name = MacNameOf(e.path)
                    /\ Means(u, d, e.name, e.cnid)
  <2>1. CASE j \in DOMAIN w.catalog /\ u.catalog[j] = w.catalog[j]
    BY <1>6, <2>1 DEF AfterTurns
  <2>2. CASE ~(j \in DOMAIN w.catalog /\ u.catalog[j] = w.catalog[j])
    <3>1. /\ u.catalog[j].parent = d /\ u.catalog[j].name = MacNameOf(q)
          /\ u.catalog[j].path = q /\ Means(u, d, MacNameOf(q), u.catalog[j].cnid)
      BY <1>3, <2>2
    <3> QED
      BY <1>4, <3>1
  <2> QED
    BY <2>1, <2>2
<1>9. ASSUME NEW i \in 1..(m + 1)
      PROVE  \E j \in DOMAIN u.catalog :
                /\ u.catalog[j].parent = d /\ u.catalog[j].name = MacNameOf(ls[i])
                /\ Listed(p, u.catalog[j].path)
  <2>1. CASE i = m + 1
    BY <1>3, <1>4, <2>1
  <2>2. CASE i # m + 1
    <3>1. i \in 1..m
      BY <2>2
    <3>2. PICK j \in DOMAIN w.catalog :
            /\ w.catalog[j].parent = d /\ w.catalog[j].name = MacNameOf(ls[i])
            /\ Listed(p, w.catalog[j].path)
      BY <3>1 DEF AfterTurns
    <3>3. /\ j \in DOMAIN u.catalog
          /\ u.catalog[j].parent = d /\ u.catalog[j].name = MacNameOf(ls[i])
      BY <1>3, <3>2
    <3>4. Listed(p, u.catalog[j].path)
      BY <1>3, <1>4, <3>2, <3>3
    <3> QED
      BY <3>3, <3>4
  <2> QED
    BY <2>1, <2>2
<1>10. ASSUME NEW c \in DOMAIN u.reverse, c \notin DOMAIN v.reverse
       PROVE  LET k == u.reverse[c]
              IN  k.dir = d /\ Listed(p, k.path) /\ k.name = MacNameOf(k.path) /\ Means(u, d, k.name, c)
  <2>1. CASE c \in DOMAIN w.reverse
    <3>1. u.reverse[c] = w.reverse[c]
      BY <1>3, <2>1 DEF Grown
    <3> QED
      BY <1>6, <1>10, <2>1, <3>1 DEF AfterTurns
  <2>2. CASE c \notin DOMAIN w.reverse
    <3>1. u.reverse[c] = [dir |-> d, name |-> MacNameOf(q), path |-> q] /\ Means(u, d, MacNameOf(q), c)
      BY <1>3, <2>2
    <3>2. u.reverse[c].dir = d /\ u.reverse[c].name = MacNameOf(q) /\ u.reverse[c].path = q
      BY <3>1
    <3> QED
      BY <1>4, <3>1, <3>2
  <2> QED
    BY <2>1, <2>2
<1>11. ASSUME NoNamesakes(disk), NEW j \in DOMAIN u.catalog, j \notin DOMAIN v.catalog
       PROVE  u.catalog[j].dir = disk[u.catalog[j].path].dir
  <2>1. CASE j \in DOMAIN w.catalog /\ u.catalog[j] = w.catalog[j]
    BY <1>11, <2>1 DEF AfterTurns
  <2>2. CASE j \notin DOMAIN w.catalog
    <3>1. u.catalog[j].dir = disk[q].dir
      BY <1>3, <2>2
    <3>2. u.catalog[j].path = q
      BY <1>3, <2>2
    <3> QED
      BY <3>1, <3>2
  <2>3. CASE j \in DOMAIN w.catalog /\ u.catalog[j] # w.catalog[j]
    <3>1. /\ w.catalog[j].dir = disk[w.catalog[j].path].dir
          /\ Listed(p, w.catalog[j].path) /\ w.catalog[j].name = MacNameOf(w.catalog[j].path)
      BY <1>11, <2>3 DEF AfterTurns
    <3>2. /\ u.catalog[j].path = q /\ u.catalog[j].name = MacNameOf(q)
          /\ u.catalog[j].name = w.catalog[j].name /\ u.catalog[j].dir = w.catalog[j].dir
      BY <1>3, <2>3
    <3>3. w.catalog[j].path = q
      BY <1>4, <1>11, <3>1, <3>2 DEF Listed, NoNamesakes
    <3> QED
      BY <3>1, <3>2, <3>3
  <2> QED
    BY <2>1, <2>2, <2>3
<1>12. AfterTurns(v, d, p, ls, u, m + 1)
  BY <1>5, <1>7, <1>8, <1>9, <1>10, <1>11 DEF AfterTurns
<1> QED
  BY <1>12

\* After the loop every name listed has its entry, and the other entries are the old ones.
LEMMA ListingKeeps ==
    ASSUME NEW v, CatalogOK(v), NEW d \in Nat, d < v.next, NEW p, NEW ls, Len(ls) \in Nat,
           NEW n, Tree(disk, n), \A i \in 1..Len(ls) : Listed(p, ls[i])
    PROVE  AfterTurns(v, d, p, ls, ListingMerged(v, d, ls), Len(ls))
<1> PICK len \in Nat : len = Len(ls)
  OBVIOUS
<1>1. PICK h : Turns(v, d, ls, len, h) /\ ListingMerged(v, d, ls) = h[len]
  BY ListingByTurns
<1> DEFINE G == {m \in 0..len : AfterTurns(v, d, p, ls, h[m], m)}
<1>2. 0 \in G
  <2>1. h[0] = v
    BY <1>1 DEF Turns
  <2>2. Grown(v, v)
    BY DEF Grown, CatalogOK, Numbered
  <2>3. AfterTurns(v, d, p, ls, v, 0)
    BY <2>2 DEF AfterTurns
  <2> QED
    BY <2>1, <2>3
<1>3. ASSUME NEW m \in 0..len, m \in G, m < len PROVE m + 1 \in G
  <2>1. m + 1 \in 1..len /\ (m + 1) - 1 = m /\ m + 1 # 0 /\ m \in Nat /\ m + 1 \in 0..len
    BY <1>3
  <2>2. h[m + 1] = Merged(h[m], d, ls[m + 1])
    BY <1>1, <2>1 DEF Turns
  <2>3. Listed(p, ls[m + 1])
    BY <2>1
  <2>4. ls[m + 1] \in Places /\ disk[ls[m + 1]].dir \in BOOLEAN
    BY <2>3, PathIs DEF Listed, Tree
  <2>5. AfterTurns(v, d, p, ls, h[m], m)
    BY <1>3
  <2>6. AfterTurns(v, d, p, ls, Merged(h[m], d, ls[m + 1]), m + 1)
    BY <2>1, <2>3, <2>4, <2>5, TurnKeeps
  <2> QED
    BY <2>1, <2>2, <2>6
<1> HIDE DEF G
<1>4. \A m \in 0..len : m \in G
  BY <1>2, <1>3, Upwards
<1>5. len \in G
  BY <1>4
<1> QED
  BY <1>1, <1>5 DEF G

(* w is v without some of its entries. *)
Thinned(v, w) ==
    /\ Shaped(w) /\ w.forward = v.forward /\ w.reverse = v.reverse /\ w.next = v.next
    /\ w.catalog \in Seq(Entry)
    /\ \A j \in DOMAIN w.catalog : \E i \in DOMAIN v.catalog : w.catalog[j] = v.catalog[i]
    /\ \A i, j \in DOMAIN w.catalog : w.catalog[i].cnid = w.catalog[j].cnid => i = j

\* A catalogue from which entries were taken is still in order.
LEMMA ThinnedOK ==
    ASSUME NEW v, CatalogOK(v), NEW w, Thinned(v, w)
    PROVE  CatalogOK(w) /\ Grown(v, w)
<1>1. Numbered(w) /\ PairsMatch(w)
  BY DEF CatalogOK, Numbered, PairsMatch, Thinned
<1>2. EntriesMatch(w)
  BY DEF CatalogOK, EntriesMatch, Thinned
<1>3. Grown(v, w)
  BY DEF CatalogOK, Numbered, Grown, Thinned
<1> QED
  BY <1>1, <1>2, <1>3 DEF CatalogOK, Thinned

\* Keeping some entries of a volume takes the others from it, and nothing else.
LEMMA KeepingThins ==
    ASSUME NEW v, CatalogOK(v), NEW keep, NEW w, Shaped(w), w.catalog = Keeping(v.catalog, keep),
           w.forward = v.forward, w.reverse = v.reverse, w.next = v.next
    PROVE  /\ Thinned(v, w)
           /\ \A j \in DOMAIN w.catalog : \E i \in DOMAIN v.catalog :
                i \in keep /\ w.catalog[j] = v.catalog[i]
           /\ \A i \in DOMAIN v.catalog : i \in keep =>
                \E j \in DOMAIN w.catalog : w.catalog[j] = v.catalog[i]
<1>1. v.catalog \in Seq(Entry) /\ DOMAIN v.catalog = 1..Len(v.catalog)
  BY DEF CatalogOK, EntriesMatch
<1>2. PICK at : LeftOf(v.catalog, keep, Len(v.catalog), w.catalog, at)
  BY <1>1, KeepingIs
<1>3. /\ w.catalog \in Seq(Entry)
      /\ \A i \in DOMAIN w.catalog :
            at[i] \in DOMAIN v.catalog /\ at[i] \in keep /\ w.catalog[i] = v.catalog[at[i]]
      /\ \A i, j \in DOMAIN w.catalog : at[i] = at[j] => i = j
      /\ \A k \in DOMAIN v.catalog : k \in keep => \E i \in DOMAIN w.catalog : at[i] = k
  BY <1>1, <1>2 DEF LeftOf
<1>4. \A i, j \in DOMAIN v.catalog : v.catalog[i].cnid = v.catalog[j].cnid => i = j
  BY DEF CatalogOK, EntriesMatch
<1>5. \A i, j \in DOMAIN w.catalog : w.catalog[i].cnid = w.catalog[j].cnid => i = j
  BY <1>3, <1>4
<1>6. Thinned(v, w)
  BY <1>3, <1>5 DEF Thinned
<1> QED
  BY <1>3, <1>6

\* Pruning takes the directory's entries that are not on the disk, and no others.
LEMMA PrunedIs ==
    ASSUME NEW v, CatalogOK(v), NEW d, NEW w, w = Pruned(v, d)
    PROVE  /\ Thinned(v, w) /\ w.scanned = v.scanned \cup {d}
           /\ \A j \in DOMAIN w.catalog :
                w.catalog[j].parent = d => w.catalog[j].path \in DOMAIN disk
           /\ \A i \in DOMAIN v.catalog :
                v.catalog[i].parent # d \/ v.catalog[i].path \in DOMAIN disk =>
                    \E j \in DOMAIN w.catalog : w.catalog[j] = v.catalog[i]
<1> DEFINE keep == {i \in DOMAIN v.catalog :
                        v.catalog[i].parent # d \/ v.catalog[i].path \in DOMAIN disk}
           t == Keeping(v.catalog, keep)
<1>1. w = [v EXCEPT !.catalog = t, !.scanned = v.scanned \cup {d}]
  BY DEF Pruned
<1> HIDE DEF t
<1>2. /\ w.catalog = t /\ w.forward = v.forward /\ w.reverse = v.reverse /\ w.next = v.next
      /\ w.scanned = v.scanned \cup {d} /\ Shaped(w)
  BY <1>1 DEF CatalogOK, Shaped
<1>3. /\ Thinned(v, w)
      /\ \A j \in DOMAIN w.catalog : \E i \in DOMAIN v.catalog :
            i \in keep /\ w.catalog[j] = v.catalog[i]
      /\ \A i \in DOMAIN v.catalog : i \in keep =>
            \E j \in DOMAIN w.catalog : w.catalog[j] = v.catalog[i]
  <2>1. w.catalog = Keeping(v.catalog, keep)
    BY <1>2 DEF t
  <2>2. PICK k : k = keep
    OBVIOUS
  <2>3. /\ Thinned(v, w)
        /\ \A j \in DOMAIN w.catalog : \E i \in DOMAIN v.catalog :
            i \in k /\ w.catalog[j] = v.catalog[i]
        /\ \A i \in DOMAIN v.catalog : i \in k =>
            \E j \in DOMAIN w.catalog : w.catalog[j] = v.catalog[i]
    <3> HIDE DEF keep
    <3>1. w.catalog = Keeping(v.catalog, k)
      BY <2>1, <2>2
    <3>2. Thinned(v, w)
      BY <1>2, <3>1, KeepingThins
    <3>3. \A j \in DOMAIN w.catalog : \E i \in DOMAIN v.catalog :
            i \in k /\ w.catalog[j] = v.catalog[i]
      BY <1>2, <3>1, KeepingThins
    <3>4. \A i \in DOMAIN v.catalog : i \in k =>
            \E j \in DOMAIN w.catalog : w.catalog[j] = v.catalog[i]
      <4>1. /\ Shaped(w) /\ w.forward = v.forward /\ w.reverse = v.reverse /\ w.next = v.next
        BY <1>2
      <4> SUFFICES ASSUME NEW i \in DOMAIN v.catalog, i \in k
                   PROVE  \E j \in DOMAIN w.catalog : w.catalog[j] = v.catalog[i]
        OBVIOUS
      <4> QED
        BY <4>1, <3>1, KeepingThins
    <3> QED
      BY <3>2, <3>3, <3>4
  <2> QED
    BY <2>2, <2>3
<1> QED
  BY <1>2, <1>3

(* A listing in any order has every file of the directory.                  *)
LEMMA AllListed ==
    ASSUME NEW S, IsFiniteSet(S), NEW ls \in SetToSeqs(S)
    PROVE  /\ Len(ls) \in Nat
           /\ \A i \in 1..Len(ls) : ls[i] \in S
           /\ \A q \in S : \E i \in 1..Len(ls) : ls[i] = q
<1> DEFINE n == Cardinality(S)
<1>1. n \in Nat
  BY FS_CardinalityType
<1> HIDE DEF n
<1>2. ls \in [1..n -> S] /\ \A i, j \in 1..n : i # j => ls[i] # ls[j]
  BY DEF SetToSeqs, n
<1>3. Len(ls) = n
  BY <1>1, <1>2
<1>4. ls \in Injection(1..n, S)
  BY <1>2 DEF Injection, IsInjective
<1>5. Cardinality(1..n) = n
  BY <1>1, FS_Interval
<1>6. ls \in Surjection(1..n, S)
  BY <1>4, <1>5, FS_Injection DEF n
<1> QED
  BY <1>1, <1>2, <1>3, <1>6 DEF Surjection

(* What a look at a directory does: w is v after a look at d, which is p.   *)
Looked(v, d, p, w) ==
    /\ p \in StoredPath(v, d) /\ IsDir(disk, p)
    /\ w.scanned = v.scanned \cup {d}
    /\ \A j \in DOMAIN w.catalog :
        \/ \E i \in DOMAIN v.catalog : w.catalog[j] = v.catalog[i]
        \/ LET e == w.catalog[j]
           IN  e.parent = d /\ Listed(p, e.path) /\ e.name = MacNameOf(e.path) /\ Means(w, d, e.name, e.cnid)
    /\ \A j \in DOMAIN w.catalog : w.catalog[j].parent = d => w.catalog[j].path \in DOMAIN disk
    /\ \A i \in DOMAIN v.catalog : v.catalog[i].path \in DOMAIN disk =>
        \E j \in DOMAIN w.catalog :
            w.catalog[j].cnid = v.catalog[i].cnid /\ w.catalog[j].dir = v.catalog[i].dir
    /\ \A q \in Listing(p) :
        \E j \in DOMAIN w.catalog : w.catalog[j].parent = d /\ w.catalog[j].name = MacNameOf(q)
    /\ \A c \in DOMAIN w.reverse : c \notin DOMAIN v.reverse =>
        LET k == w.reverse[c]
        IN  k.dir = d /\ Listed(p, k.path) /\ k.name = MacNameOf(k.path) /\ Means(w, d, k.name, c)
    \* entries keep the kind that they had
    /\ \A i \in DOMAIN v.catalog, j \in DOMAIN w.catalog :
        w.catalog[j].cnid = v.catalog[i].cnid => w.catalog[j].dir = v.catalog[i].dir
    \* and new ones have that of what is listed
    /\ NoNamesakes(disk) => \A j \in DOMAIN w.catalog :
        LET e == w.catalog[j]
        IN  (~\E i \in DOMAIN v.catalog : v.catalog[i].cnid = e.cnid) => e.dir = disk[e.path].dir

\* A stored path is a path, and its directory has an ID that was given out.
LEMMA StoredPathIs ==
    ASSUME NEW v, CatalogOK(v), NEW d, NEW p \in StoredPath(v, d)
    PROVE  p \in Seq(Names) /\ d \in Nat /\ d < v.next /\ (d # kRootDirID => p \in Places)
<1>1. CASE d = kRootDirID
  BY <1>1 DEF StoredPath, kRootDirID, CatalogOK, Numbered, FirstCnid
<1>2. CASE d # kRootDirID
  <2>1. d \in DOMAIN v.reverse /\ p = v.reverse[d].path
    BY <1>2 DEF StoredPath
  <2>2. v.reverse[d] \in Key
    BY <2>1 DEF CatalogOK, Numbered
  <2>3. d \in Nat /\ d < v.next
    BY <2>1 DEF CatalogOK, Numbered, FirstCnid
  <2> QED
    BY <1>2, <2>1, <2>2, <2>3 DEF Key, Places
<1> QED
  BY <1>1, <1>2

\* What a scan leaves: nothing changed, or a directory looked at.
LEMMA ScanIs ==
    ASSUME NEW v, CatalogOK(v), NEW n, Tree(disk, n), NEW d, NEW w \in EnsureScanned(v, d)
    PROVE  /\ CatalogOK(w) /\ Grown(v, w)
           /\ w = v \/ \E p : Looked(v, d, p, w)
<1>1. CASE d \in v.scanned \/ ~\E p \in StoredPath(v, d) : IsDir(disk, p)
  <2>1. w = v
    BY <1>1 DEF EnsureScanned
  <2> QED
    BY <2>1 DEF Grown, CatalogOK, Numbered
<1>2. CASE ~(d \in v.scanned \/ ~\E p \in StoredPath(v, d) : IsDir(disk, p))
  <2>1. PICK p \in StoredPath(v, d) : IsDir(disk, p)
    BY <1>2
  <2>2. p = CHOOSE q \in StoredPath(v, d) : TRUE
    BY <2>1, HomeIs
  <2> DEFINE S == Listing(p)
  <2>3. PICK ls \in SetToSeqs(S) : w = Pruned(ListingMerged(v, d, ls), d)
    BY <1>2, <2>2 DEF EnsureScanned
  <2>4. p \in Seq(Names) /\ d \in Nat /\ d < v.next
    BY StoredPathIs
  <2>5. IsFiniteSet(S)
    BY FS_Subset DEF Tree, Listing
  <2>6. \A q \in S : Listed(p, q)
    BY <2>4, ChildIs, PathIs DEF Tree, Listed, Listing
  <2> HIDE DEF S
  <2>7. /\ Len(ls) \in Nat /\ \A i \in 1..Len(ls) : Listed(p, ls[i])
        /\ \A q \in S : \E i \in 1..Len(ls) : ls[i] = q
    BY <2>5, <2>6, AllListed
  <2>8. PICK u : u = ListingMerged(v, d, ls)
    OBVIOUS
  <2>9. AfterTurns(v, d, p, ls, u, Len(ls))
    BY <2>4, <2>7, <2>8, ListingKeeps
  <2>10. CatalogOK(u) /\ Grown(v, u) /\ u.scanned = v.scanned
    BY <2>9 DEF AfterTurns
  <2>11. /\ Thinned(u, w) /\ w.scanned = u.scanned \cup {d}
         /\ \A j \in DOMAIN w.catalog :
                w.catalog[j].parent = d => w.catalog[j].path \in DOMAIN disk
         /\ \A i \in DOMAIN u.catalog :
                u.catalog[i].parent # d \/ u.catalog[i].path \in DOMAIN disk =>
                    \E j \in DOMAIN w.catalog : w.catalog[j] = u.catalog[i]
    BY <2>3, <2>8, <2>10, PrunedIs
  <2>12. CatalogOK(w) /\ Grown(u, w)
    BY <2>10, <2>11, ThinnedOK
  <2>13. Grown(v, w)
    BY <2>10, <2>12, GrownTwice
  <2>14. w.forward = u.forward /\ w.reverse = u.reverse
    BY <2>11 DEF Thinned
  <2>15. ASSUME NEW j \in DOMAIN w.catalog
         PROVE  \/ \E i \in DOMAIN v.catalog : w.catalog[j] = v.catalog[i]
                \/ LET e == w.catalog[j]
                   IN  /\ e.parent = d /\ Listed(p, e.path) /\ e.name = MacNameOf(e.path)
                       /\ Means(w, d, e.name, e.cnid)
    <3>1. PICK i \in DOMAIN u.catalog : w.catalog[j] = u.catalog[i]
      BY <2>11 DEF Thinned
    <3>2. \/ i \in DOMAIN v.catalog /\ u.catalog[i] = v.catalog[i]
          \/ LET e == u.catalog[i]
             IN  /\ e.parent = d /\ Listed(p, e.path) /\ e.name = MacNameOf(e.path)
                 /\ Means(u, d, e.name, e.cnid)
      BY <2>9, <3>1 DEF AfterTurns
    <3> QED
      BY <2>14, <3>1, <3>2 DEF Means
  <2>16. ASSUME NEW i \in DOMAIN v.catalog, v.catalog[i].path \in DOMAIN disk
         PROVE  \E j \in DOMAIN w.catalog :
                    w.catalog[j].cnid = v.catalog[i].cnid /\ w.catalog[j].dir = v.catalog[i].dir
    <3>1. i \in DOMAIN u.catalog /\ u.catalog[i].cnid = v.catalog[i].cnid
          /\ u.catalog[i].dir = v.catalog[i].dir
      BY <2>9 DEF AfterTurns
    <3>2. u.catalog[i].path \in DOMAIN disk
      BY <2>9, <2>16, <3>1 DEF AfterTurns, Listed
    <3> QED
      BY <2>11, <3>1, <3>2
  <2>17. ASSUME NEW q \in S
         PROVE  \E j \in DOMAIN w.catalog : w.catalog[j].parent = d /\ w.catalog[j].name = MacNameOf(q)
    <3>1. PICK i \in 1..Len(ls) : ls[i] = q
      BY <2>7
    <3>2. PICK j \in DOMAIN u.catalog :
            /\ u.catalog[j].parent = d /\ u.catalog[j].name = MacNameOf(q)
            /\ Listed(p, u.catalog[j].path)
      BY <2>9, <3>1 DEF AfterTurns
    <3> QED
      BY <2>11, <3>2 DEF Listed
  <2>18. ASSUME NEW c \in DOMAIN w.reverse, c \notin DOMAIN v.reverse
         PROVE  LET k == w.reverse[c]
                IN  k.dir = d /\ Listed(p, k.path) /\ k.name = MacNameOf(k.path) /\ Means(w, d, k.name, c)
    BY <2>9, <2>14, <2>18 DEF AfterTurns, Means
  <2>19. ASSUME NEW i \in DOMAIN v.catalog, NEW j \in DOMAIN w.catalog,
                w.catalog[j].cnid = v.catalog[i].cnid
         PROVE  w.catalog[j].dir = v.catalog[i].dir
    <3>1. PICK k \in DOMAIN u.catalog : w.catalog[j] = u.catalog[k]
      BY <2>11 DEF Thinned
    <3>2. i \in DOMAIN u.catalog /\ u.catalog[i].cnid = v.catalog[i].cnid
          /\ u.catalog[i].dir = v.catalog[i].dir
      BY <2>9 DEF AfterTurns
    <3>3. k = i
      BY <2>10, <2>19, <3>1, <3>2 DEF CatalogOK, EntriesMatch
    <3> QED
      BY <3>1, <3>2, <3>3
  <2>20. ASSUME NoNamesakes(disk), NEW j \in DOMAIN w.catalog,
                ~\E i \in DOMAIN v.catalog : v.catalog[i].cnid = w.catalog[j].cnid
         PROVE  w.catalog[j].dir = disk[w.catalog[j].path].dir
    <3>1. PICK k \in DOMAIN u.catalog : w.catalog[j] = u.catalog[k]
      BY <2>11 DEF Thinned
    <3>2. k \notin DOMAIN v.catalog
      BY <2>9, <2>20, <3>1 DEF AfterTurns
    <3> QED
      BY <2>9, <2>20, <3>1, <3>2 DEF AfterTurns
  <2>21. Looked(v, d, p, w)
    BY <2>1, <2>10, <2>11, <2>15, <2>16, <2>17, <2>18, <2>19, <2>20 DEF Looked, S
  <2> QED
    BY <2>12, <2>13, <2>21
<1> QED
  BY <1>1, <1>2

-----------------------------------------------------------------------------
(* What holds until paths and names disagree.                               *)

(* A known object is where the pair of its ID leads, *)
KnownLead(v, dk, kn) ==
    \A p \in DOMAIN dk : dk[p].obj \in DOMAIN kn =>
        LET c == kn[dk[p].obj]
        IN  /\ c \in DOMAIN v.reverse
            /\ Leads(v, v.reverse[c].dir, v.reverse[c].name, c, p)
(* an entry with its ID has its path, *)
KnownEntry(v, dk, kn) ==
    \A p \in DOMAIN dk, i \in DOMAIN v.catalog :
        dk[p].obj \in DOMAIN kn /\ v.catalog[i].cnid = kn[dk[p].obj] => v.catalog[i].path = p
(* the file of an open fork is known by the fork's ID, *)
ForksKnown(kn, fk) ==
    \A h \in DOMAIN fk : fk[h].obj # None =>
        fk[h].obj \in DOMAIN kn /\ kn[fk[h].obj] = fk[h].cnid
(* and it is in the catalogue as long as it exists, as a file.              *)
ForksFound(v, dk, fk) ==
    \A h \in DOMAIN fk, p \in DOMAIN dk : dk[p].obj = fk[h].obj =>
        /\ ~dk[p].dir
        /\ \E i \in DOMAIN v.catalog : v.catalog[i].cnid = fk[h].cnid /\ ~v.catalog[i].dir

(* The parts of PathsAgree, beside NoNamesakes. *)
EntriesLead(v, dk) ==
    \A i \in DOMAIN v.catalog :
        LET e == v.catalog[i]
        IN  e.path \in DOMAIN dk => Leads(v, e.parent, e.name, e.cnid, e.path)
DirsStored(v, dk) ==
    \A c \in DOMAIN v.reverse, p \in DOMAIN dk :
        LET k == v.reverse[c]
        IN  Live(v, c) /\ dk[p].dir => (k.path = p <=> Leads(v, k.dir, k.name, c, p))
KindsKept(v, dk) ==
    \A i \in DOMAIN v.catalog :
        LET e == v.catalog[i] IN e.path \in DOMAIN dk /\ dk[e.path].dir => e.dir

\* The parts of PathsAgree.
LEMMA AgreeParts ==
    ASSUME NEW v, NEW dk
    PROVE  PathsAgree(v, dk) <=>
                NoNamesakes(dk) /\ EntriesLead(v, dk) /\ KindsKept(v, dk) /\ DirsStored(v, dk)
BY DEF PathsAgree, EntriesLead, KindsKept, DirsStored

\* A table that grows leads to each known object as before.
LEMMA GrownKeepsLead ==
    ASSUME NEW v, NEW w, CatalogOK(v), CatalogOK(w), Grown(v, w), NEW dk, NEW kn,
           KnownLead(v, dk, kn)
    PROVE  KnownLead(w, dk, kn)
<1> SUFFICES ASSUME NEW p \in DOMAIN dk, dk[p].obj \in DOMAIN kn, NEW c, c = kn[dk[p].obj]
             PROVE  c \in DOMAIN w.reverse /\ Leads(w, w.reverse[c].dir, w.reverse[c].name, c, p)
  BY DEF KnownLead
<1>1. c \in DOMAIN v.reverse /\ Leads(v, v.reverse[c].dir, v.reverse[c].name, c, p)
  BY DEF KnownLead
<1>2. c \in DOMAIN w.reverse /\ w.reverse[c] = v.reverse[c]
  BY <1>1 DEF Grown
<1> QED
  BY <1>1, <1>2, GrownMeans

(* The pair of an ID that the table has given. *)
LEMMA MeansPair ==
    ASSUME NEW v, CatalogOK(v), NEW d, NEW n, NEW c, Means(v, d, n, c)
    PROVE  c \in DOMAIN v.reverse /\ v.reverse[c].dir = d /\ v.reverse[c].name = n /\ Live(v, c)
<1>1. c \in DOMAIN v.reverse /\ <<d, n>> = <<v.reverse[c].dir, v.reverse[c].name>>
  BY DEF Means, CatalogOK, PairsMatch
<1> QED
  BY <1>1 DEF Live

\* A scan keeps the entries of known objects at the objects' places.
LEMMA ScanKeepsEntry ==
    ASSUME NEW v, CatalogOK(v), NEW n, Tree(disk, n), NoNamesakes(disk), NEW d,
           NEW w \in EnsureScanned(v, d), NEW kn, KnownLead(v, disk, kn), KnownEntry(v, disk, kn)
    PROVE  KnownEntry(w, disk, kn)
<1>1. CatalogOK(w) /\ Grown(v, w) /\ (w = v \/ \E p : Looked(v, d, p, w))
  BY ScanIs
<1>2. CASE w = v
  BY <1>2
<1>3. ASSUME NEW p, Looked(v, d, p, w) PROVE KnownEntry(w, disk, kn)
  <2> SUFFICES ASSUME NEW q \in DOMAIN disk, NEW j \in DOMAIN w.catalog,
                      disk[q].obj \in DOMAIN kn, w.catalog[j].cnid = kn[disk[q].obj]
               PROVE  w.catalog[j].path = q
    BY DEF KnownEntry
  <2> PICK e : e = w.catalog[j]
    OBVIOUS
  <2>1. CASE \E i \in DOMAIN v.catalog : w.catalog[j] = v.catalog[i]
    BY <2>1 DEF KnownEntry
  <2>2. CASE e.parent = d /\ Listed(p, e.path) /\ e.name = MacNameOf(e.path) /\ Means(w, d, e.name, e.cnid)
    <3>1. KnownLead(w, disk, kn)
      BY <1>1, GrownKeepsLead
    <3>2. Leads(w, w.reverse[e.cnid].dir, w.reverse[e.cnid].name, e.cnid, q)
      BY <3>1 DEF KnownLead
    <3>3. Leads(w, d, e.name, e.cnid, q)
      BY <1>1, <2>2, <3>2, MeansPair
    <3>4. Front(q) \in StoredPath(w, d) /\ MacNameOf(q) = e.name
      BY <3>3, HomeIs DEF Leads
    <3>5. p \in StoredPath(w, d)
      <4>1. p \in StoredPath(v, d)
        BY <1>3 DEF Looked
      <4>2. d \in DOMAIN v.reverse \cup {kRootDirID}
        BY <4>1, HomeIs
      <4> QED
        BY <1>1, <4>1, <4>2, GrownMeans
    <3>6. Front(q) = Front(e.path) /\ MacNameOf(q) = MacNameOf(e.path)
      BY <2>2, <3>4, <3>5, HomeIs DEF Listed
    <3> QED
      BY <2>2, <3>6 DEF Listed, NoNamesakes
  <2> QED
    BY <1>3, <2>1, <2>2 DEF Looked
<1> QED
  BY <1>1, <1>2, <1>3

\* A scan keeps the objects of open forks where their entries say.
LEMMA ScanKeepsForks ==
    ASSUME NEW v, CatalogOK(v), NEW n, Tree(disk, n), NEW d, NEW w \in EnsureScanned(v, d),
           NEW kn, NEW fk, KnownEntry(v, disk, kn), ForksKnown(kn, fk), ForksFound(v, disk, fk)
    PROVE  ForksFound(w, disk, fk)
<1>1. w = v \/ \E p : Looked(v, d, p, w)
  BY ScanIs
<1>2. CASE w = v
  BY <1>2
<1>3. ASSUME NEW p, Looked(v, d, p, w) PROVE ForksFound(w, disk, fk)
  <2> SUFFICES ASSUME NEW h \in DOMAIN fk, NEW q \in DOMAIN disk, disk[q].obj = fk[h].obj
               PROVE  /\ ~disk[q].dir
                      /\ \E i \in DOMAIN w.catalog :
                            w.catalog[i].cnid = fk[h].cnid /\ ~w.catalog[i].dir
    BY DEF ForksFound
  <2>1. ~disk[q].dir
    BY DEF ForksFound
  <2>2. PICK i \in DOMAIN v.catalog : v.catalog[i].cnid = fk[h].cnid /\ ~v.catalog[i].dir
    BY DEF ForksFound
  <2>3. disk[q].obj # None
    BY DEF Tree, None
  <2>4. v.catalog[i].path = q
    BY <2>2, <2>3 DEF ForksKnown, KnownEntry
  <2>5. \E j \in DOMAIN w.catalog :
            w.catalog[j].cnid = v.catalog[i].cnid /\ w.catalog[j].dir = v.catalog[i].dir
    BY <1>3, <2>4 DEF Looked
  <2> QED
    BY <2>1, <2>2, <2>5
<1> QED
  BY <1>1, <1>2, <1>3

(* A pair's ID that was there before means what it meant.                   *)
LEMMA GrownLeads ==
    ASSUME NEW v, NEW w, CatalogOK(v), CatalogOK(w), Grown(v, w), NEW c \in DOMAIN v.reverse, NEW p
    PROVE  Leads(w, v.reverse[c].dir, v.reverse[c].name, c, p)
                <=> Leads(v, v.reverse[c].dir, v.reverse[c].name, c, p)
<1> PICK d : d = v.reverse[c].dir
  OBVIOUS
<1>1. d \in Nat /\ d < v.next
  BY DEF CatalogOK, Numbered, Key
<1>2. DOMAIN v.reverse = FirstCnid..(v.next - 1) /\ DOMAIN w.reverse = FirstCnid..(w.next - 1)
      /\ v.next \in Nat /\ w.next \in Nat
  BY DEF CatalogOK, Numbered
<1>3. d \in DOMAIN w.reverse => d \in DOMAIN v.reverse
  BY <1>1, <1>2 DEF FirstCnid
<1>4. ASSUME Leads(w, d, v.reverse[c].name, c, p) PROVE Leads(v, d, v.reverse[c].name, c, p)
  <2>1. d \in DOMAIN v.reverse \cup {kRootDirID}
    BY <1>3, <1>4, HomeIs DEF Leads
  <2> QED
    BY <1>4, <2>1, GrownMeans DEF Leads
<1> QED
  BY <1>4, GrownMeans

\* A scan of a directory whose pair means it leaves paths and names in agreement.
LEMMA ScanKeepsPaths ==
    ASSUME NEW v, CatalogOK(v), NEW n, Tree(disk, n), NoNamesakes(disk), NEW d,
           NEW w \in EnsureScanned(v, d), d = kRootDirID \/ Live(v, d),
           EntriesLead(v, disk), DirsStored(v, disk)
    PROVE  EntriesLead(w, disk) /\ DirsStored(w, disk)
<1>1. CatalogOK(w) /\ Grown(v, w) /\ (w = v \/ \E p : Looked(v, d, p, w))
  BY ScanIs
<1>2. CASE w = v
  BY <1>2
<1>3. ASSUME NEW p, Looked(v, d, p, w) PROVE EntriesLead(w, disk) /\ DirsStored(w, disk)
  <2>1. p \in Home(w, d) /\ p \in StoredPath(w, d)
    <3>1. p \in StoredPath(v, d)
      BY <1>3 DEF Looked
    <3>2. p \in Home(v, d) /\ d \in DOMAIN v.reverse \cup {kRootDirID}
      BY <3>1, HomeIs DEF Home
    <3> QED
      BY <1>1, <3>1, <3>2, GrownMeans
  <2>2. ASSUME NEW j \in DOMAIN w.catalog, w.catalog[j].path \in DOMAIN disk
        PROVE  LET e == w.catalog[j] IN Leads(w, e.parent, e.name, e.cnid, e.path)
    <3>1. CASE \E i \in DOMAIN v.catalog : w.catalog[j] = v.catalog[i]
      BY <1>1, <2>2, <3>1, GrownMeans DEF EntriesLead
    <3>2. CASE LET e == w.catalog[j]
               IN  /\ e.parent = d /\ Listed(p, e.path) /\ e.name = MacNameOf(e.path)
                   /\ Means(w, d, e.name, e.cnid)
      BY <2>1, <3>2 DEF Leads, Listed
    <3> QED
      BY <1>3, <3>1, <3>2 DEF Looked
  <2>3. ASSUME NEW c \in DOMAIN w.reverse, NEW q \in DOMAIN disk, Live(w, c), disk[q].dir
        PROVE  LET k == w.reverse[c] IN k.path = q <=> Leads(w, k.dir, k.name, c, q)
    <3>1. CASE c \in DOMAIN v.reverse
      <4>1. w.reverse[c] = v.reverse[c] /\ Live(v, c)
        BY <1>1, <2>3, <3>1, GrownMeans DEF Grown
      <4>2. v.reverse[c].path = q <=> Leads(v, v.reverse[c].dir, v.reverse[c].name, c, q)
        BY <2>3, <3>1, <4>1 DEF DirsStored
      <4> QED
        BY <1>1, <3>1, <4>1, <4>2, GrownLeads
    <3>2. CASE c \notin DOMAIN v.reverse
      <4> PICK k : k = w.reverse[c]
        OBVIOUS
      <4>1. k.dir = d /\ Listed(p, k.path) /\ k.name = MacNameOf(k.path) /\ Means(w, d, k.name, c)
        BY <1>3, <3>2 DEF Looked
      <4>2. k.path \in DOMAIN disk
        BY <4>1 DEF Listed
      <4>3. Leads(w, d, k.name, c, k.path)
        BY <2>1, <4>1 DEF Leads, Listed
      <4>4. Leads(w, d, k.name, c, q) => q = k.path
        BY <4>2, <4>3, LeadsOnce DEF NoNamesakes
      <4> QED
        BY <4>1, <4>3, <4>4
    <3> QED
      BY <3>1, <3>2
  <2> QED
    BY <2>2, <2>3 DEF EntriesLead, DirsStored
<1> QED
  BY <1>1, <1>2, <1>3

-----------------------------------------------------------------------------
(* A place that exists has one pair. *)

\* Two IDs that are at home in one directory are equal: up the tree, level by level.
LEMMA OneHome ==
    ASSUME NEW v, CatalogOK(v), NEW dk, NEW n, Tree(dk, n), DirsStored(v, dk),
           NEW g, IsDir(dk, g), NEW c, NEW d, g \in Home(v, c), g \in Home(v, d)
    PROVE  c = d
<1> DEFINE G == {m \in 0..MaxDepth : \A p, a, b :
                    IsDir(dk, p) /\ Len(p) <= m /\ p \in Home(v, a) /\ p \in Home(v, b) => a = b}
<1>0. MaxDepth \in Nat
  BY VolumeAssumption
<1>1. \A p : IsDir(dk, p) => p = <<>> \/ (p \in DOMAIN dk /\ dk[p].dir /\ p \in Places
                                           /\ Len(p) \in 1..MaxDepth)
  BY <1>0, PathIs, FrontIs DEF IsDir, Tree
<1>2. ASSUME NEW a, <<>> \in Home(v, a) PROVE a = kRootDirID
  <2>1. ASSUME a # kRootDirID PROVE FALSE
    <3>1. Live(v, a) /\ <<>> = v.reverse[a].path
      BY <1>2, <2>1, HomeIs
    <3>2. v.reverse[a] \in Key
      BY <3>1 DEF Live, CatalogOK, Numbered
    <3> QED
      BY <3>1, <3>2 DEF Key, Places
  <2> QED
    BY <2>1
<1>3. ASSUME NEW p, p # <<>>, IsDir(dk, p), NEW a, p \in Home(v, a)
      PROVE  /\ Live(v, a)
             /\ Leads(v, v.reverse[a].dir, v.reverse[a].name, a, p)
             /\ IsDir(dk, Front(p)) /\ Front(p) \in Home(v, v.reverse[a].dir)
  <2>1. a # kRootDirID /\ Live(v, a) /\ p = v.reverse[a].path
    BY <1>3, HomeIs
  <2>2. p \in DOMAIN dk /\ dk[p].dir
    BY <1>1, <1>3
  <2>3. Leads(v, v.reverse[a].dir, v.reverse[a].name, a, p)
    BY <2>1, <2>2 DEF DirsStored, Live
  <2> QED
    BY <2>1, <2>2, <2>3 DEF Leads, Tree
<1>4. 0 \in G
  <2>1. ASSUME NEW p, IsDir(dk, p), Len(p) <= 0 PROVE p = <<>>
    BY <1>1, <2>1
  <2> QED
    BY <1>0, <1>2, <2>1
<1>5. ASSUME NEW m \in 0..MaxDepth, m \in G, m < MaxDepth PROVE m + 1 \in G
  <2>1. ASSUME NEW p, NEW a, NEW b, IsDir(dk, p), Len(p) <= m + 1, p \in Home(v, a), p \in Home(v, b)
        PROVE  a = b
    <3>1. CASE p = <<>>
      BY <1>2, <2>1, <3>1
    <3>2. CASE p # <<>>
      <4>1. p \in Places /\ Len(p) \in 1..MaxDepth
        BY <1>1, <2>1, <3>2
      <4>2. Len(Front(p)) <= m
        BY <2>1, <4>1, FrontIs
      <4>3. /\ Leads(v, v.reverse[a].dir, v.reverse[a].name, a, p)
            /\ IsDir(dk, Front(p)) /\ Front(p) \in Home(v, v.reverse[a].dir)
        BY <1>3, <2>1, <3>2
      <4>4. /\ Leads(v, v.reverse[b].dir, v.reverse[b].name, b, p)
            /\ Front(p) \in Home(v, v.reverse[b].dir)
        BY <1>3, <2>1, <3>2
      <4>5. v.reverse[a].dir = v.reverse[b].dir
        BY <1>5, <4>2, <4>3, <4>4
      <4>6. v.reverse[a].name = v.reverse[b].name
        BY <4>3, <4>4 DEF Leads
      <4> QED
        BY <4>1, <4>3, <4>4, <4>5, <4>6, LeadsOnce
    <3> QED
      BY <3>1, <3>2
  <2> QED
    BY <1>0, <1>5, <2>1
<1> HIDE DEF G
<1>6. \A m \in 0..MaxDepth : m \in G
  BY <1>0, <1>4, <1>5, Upwards
<1>7. MaxDepth \in G
  BY <1>0, <1>6
<1>8. Len(g) <= MaxDepth
  BY <1>0, <1>1
<1> QED
  BY <1>7, <1>8 DEF G

\* Only one pair leads to a place.
LEMMA OnePair ==
    ASSUME NEW v, CatalogOK(v), NEW dk, NEW n, Tree(dk, n), DirsStored(v, dk), NEW p \in DOMAIN dk,
           NEW a, NEW x, NEW b, Leads(v, a, x, b, p), NEW c, NEW y, NEW d, Leads(v, c, y, d, p)
    PROVE  a = c /\ x = y /\ b = d
<1>1. x = y /\ IsDir(dk, Front(p))
  BY DEF Leads, Tree
<1>2. a = c
  BY <1>1, OneHome DEF Leads
<1> QED
  BY <1>1, <1>2, LeadsOnce

(* An object that is known has the ID of its entry. *)
LEMMA KnownID ==
    ASSUME NEW v, CatalogOK(v), NEW dk, NEW n, Tree(dk, n), EntriesLead(v, dk), DirsStored(v, dk),
           NEW kn, KnownLead(v, dk, kn), NEW i \in DOMAIN v.catalog,
           v.catalog[i].path \in DOMAIN dk, dk[v.catalog[i].path].obj \in DOMAIN kn
    PROVE  kn[dk[v.catalog[i].path].obj] = v.catalog[i].cnid
<1> PICK e : e = v.catalog[i]
  OBVIOUS
<1> PICK c : c = kn[dk[e.path].obj]
  OBVIOUS
<1>1. Leads(v, e.parent, e.name, e.cnid, e.path)
  BY DEF EntriesLead
<1>2. Leads(v, v.reverse[c].dir, v.reverse[c].name, c, e.path)
  BY DEF KnownLead
<1>3. e.cnid = c
  <2>1. e.path \in DOMAIN dk
    OBVIOUS
  <2>2. \A a, x, b, f, y, h : Leads(v, a, x, b, e.path) /\ Leads(v, f, y, h, e.path) => b = h
    BY <2>1, OnePair
  <2> QED
    BY <1>1, <1>2, <2>2
<1> QED
  BY <1>3

(* What the guest notices keeps to all this. *)
LEMMA NoticedKeeps ==
    ASSUME NEW v, CatalogOK(v), NEW dk, NEW n, Tree(dk, n), EntriesLead(v, dk), DirsStored(v, dk),
           NEW old, KnownLead(v, dk, old), KnownEntry(v, dk, old), NEW kn, kn = Noticed(old, v, dk)
    PROVE  KnownLead(v, dk, kn) /\ KnownEntry(v, dk, kn)
<1> DEFINE ObjOf(i) == dk[v.catalog[i].path].obj
           seen == {i \in DOMAIN v.catalog : v.catalog[i].path \in DOMAIN dk}
<1>1. /\ DOMAIN kn = DOMAIN old \cup {ObjOf(i) : i \in seen}
      /\ \A o \in DOMAIN old : kn[o] = old[o]
      /\ \A o \in DOMAIN kn : o \notin DOMAIN old =>
            kn[o] = v.catalog[CHOOSE i \in seen : ObjOf(i) = o].cnid
  BY DEF Noticed
<1>2. ASSUME NEW p \in DOMAIN dk, dk[p].obj \in DOMAIN kn, dk[p].obj \notin DOMAIN old
      PROVE  \E i \in DOMAIN v.catalog : v.catalog[i].path = p /\ kn[dk[p].obj] = v.catalog[i].cnid
  <2>0. DOMAIN kn = DOMAIN old \cup {ObjOf(i) : i \in seen}
    BY <1>1
  <2>1. PICK j \in seen : ObjOf(j) = dk[p].obj
    BY <1>2, <2>0
  <2>2. PICK i : i = CHOOSE m \in seen : ObjOf(m) = dk[p].obj
    OBVIOUS
  <2>3. i \in seen /\ ObjOf(i) = dk[p].obj
    BY <2>1, <2>2
  <2>4. v.catalog[i].path = p
    BY <2>3 DEF Tree
  <2> QED
    BY <1>1, <1>2, <2>2, <2>3, <2>4
<1>3. KnownLead(v, dk, kn)
  <2> SUFFICES ASSUME NEW p \in DOMAIN dk, dk[p].obj \in DOMAIN kn, NEW c, c = kn[dk[p].obj]
               PROVE  c \in DOMAIN v.reverse /\ Leads(v, v.reverse[c].dir, v.reverse[c].name, c, p)
    BY DEF KnownLead
  <2>1. CASE dk[p].obj \in DOMAIN old
    BY <1>1, <2>1 DEF KnownLead
  <2>2. CASE dk[p].obj \notin DOMAIN old
    <3>1. PICK i \in DOMAIN v.catalog : v.catalog[i].path = p /\ c = v.catalog[i].cnid
      BY <1>2, <2>2
    <3>2. Leads(v, v.catalog[i].parent, v.catalog[i].name, c, p)
      BY <3>1 DEF EntriesLead
    <3> QED
      BY <3>1, <3>2 DEF CatalogOK, EntriesMatch
  <2> QED
    BY <2>1, <2>2
<1>4. KnownEntry(v, dk, kn)
  <2> SUFFICES ASSUME NEW p \in DOMAIN dk, NEW j \in DOMAIN v.catalog, dk[p].obj \in DOMAIN kn,
                      v.catalog[j].cnid = kn[dk[p].obj]
               PROVE  v.catalog[j].path = p
    BY DEF KnownEntry
  <2>1. CASE dk[p].obj \in DOMAIN old
    <3>1. kn[dk[p].obj] = old[dk[p].obj]
      BY <1>1, <2>1
    <3>2. v.catalog[j].cnid = old[dk[p].obj]
      BY <3>1
    <3> QED
      BY <2>1, <3>2 DEF KnownEntry
  <2>2. CASE dk[p].obj \notin DOMAIN old
    <3>1. PICK i \in DOMAIN v.catalog : v.catalog[i].path = p /\ kn[dk[p].obj] = v.catalog[i].cnid
      BY <1>2, <2>2
    <3>2. i = j
      BY <3>1 DEF CatalogOK, EntriesMatch
    <3> QED
      BY <3>1, <3>2
  <2> QED
    BY <2>1, <2>2
<1> QED
  BY <1>3, <1>4

\* What the guest notices are objects of the disk; what it knew stays known.
LEMMA NoticedDomain ==
    ASSUME NEW v, NEW dk, NEW n, Tree(dk, n), NEW old, DOMAIN old \subseteq 1..n
    PROVE  /\ DOMAIN Noticed(old, v, dk) \subseteq 1..n
           /\ \A o \in DOMAIN old : o \in DOMAIN Noticed(old, v, dk) /\ Noticed(old, v, dk)[o] = old[o]
           /\ \A i \in DOMAIN v.catalog : v.catalog[i].path \in DOMAIN dk =>
                dk[v.catalog[i].path].obj \in DOMAIN Noticed(old, v, dk)
BY DEF Noticed, Tree

-----------------------------------------------------------------------------
(* The inductive invariant: the table and the catalogue are in order, two    *)
(* open forks of an ID do not both write, and until paths and names disagree *)
(* the known objects and the open forks are found where they should be.      *)

ForksInOrder ==
    /\ DOMAIN forks \subseteq 1..handles /\ handles \in Nat
    /\ \A h \in DOMAIN forks : forks[h].cnid \in DOMAIN vol.reverse /\ forks[h].write \in BOOLEAN
    /\ \A g, h \in DOMAIN forks :
        g # h /\ forks[g].write /\ forks[h].write /\ forks[g].fork = forks[h].fork =>
            forks[g].cnid # forks[h].cnid
Agreed(v, dk, kn, fk) ==
    /\ KnownLead(v, dk, kn) /\ KnownEntry(v, dk, kn)
    /\ ForksKnown(kn, fk) /\ ForksFound(v, dk, fk)
IInv ==
    /\ objects \in Nat /\ Tree(disk, objects) /\ CatalogOK(vol)
    /\ DOMAIN known \subseteq 1..objects
    /\ ForksInOrder
    /\ astray \in BOOLEAN
    /\ ~astray => PathsAgree(vol, disk) /\ Agreed(vol, disk, known, forks)

(* Each step keeps the history of what went astray. *)
AstrayKept == astray' \in BOOLEAN /\ (~astray' => ~astray /\ PathsAgree(vol', disk'))

(* What the guest's steps have in common, when no fork is opened or closed.  *)
LEMMA StepKeeps ==
    ASSUME IInv, NEW v, NEW dk, Becomes(v, dk), AstrayKept,
           objects' \in Nat, objects <= objects', Tree(dk, objects'),
           CatalogOK(v), vol.next <= v.next, UNCHANGED <<forks, handles>>,
           ~astray' /\ ~astray /\ PathsAgree(v, dk) =>
                KnownLead(v, dk, known) /\ KnownEntry(v, dk, known) /\ ForksFound(v, dk, forks)
    PROVE  IInv'
<1>1. vol' = v /\ disk' = dk /\ known' = Noticed(known, v, dk)
  BY DEF Becomes
<1>2. DOMAIN known \subseteq 1..objects'
  BY DEF IInv
<1>3. /\ DOMAIN known' \subseteq 1..objects'
      /\ \A o \in DOMAIN known : o \in DOMAIN known' /\ known'[o] = known[o]
  <2> PICK kn : kn = Noticed(known, v, dk)
    OBVIOUS
  <2>1. DOMAIN kn \subseteq 1..objects'
        /\ \A o \in DOMAIN known : o \in DOMAIN kn /\ kn[o] = known[o]
    <3> PICK m : m = objects'
      OBVIOUS
    <3>1. Tree(dk, m) /\ DOMAIN known \subseteq 1..m
      BY <1>2
    <3>2. /\ DOMAIN Noticed(known, v, dk) \subseteq 1..m
          /\ \A o \in DOMAIN known :
                o \in DOMAIN Noticed(known, v, dk) /\ Noticed(known, v, dk)[o] = known[o]
      BY ONLY <3>1 DEF Noticed, Tree
    <3> QED
      BY <3>2
  <2> QED
    BY <1>1, <2>1
<1>4. ForksInOrder'
  <2>1. DOMAIN vol.reverse \subseteq DOMAIN v.reverse
    <3>1. /\ DOMAIN vol.reverse = FirstCnid..(vol.next - 1) /\ vol.next \in Nat
          /\ DOMAIN v.reverse = FirstCnid..(v.next - 1) /\ v.next \in Nat
      BY DEF IInv, CatalogOK, Numbered
    <3> QED
      BY <3>1 DEF FirstCnid
  <2> QED
    BY <1>1, <2>1 DEF IInv, ForksInOrder
<1>5. astray' \in BOOLEAN
  BY DEF AstrayKept
<1>6. ASSUME ~astray' PROVE PathsAgree(v, dk) /\ Agreed(v, dk, known', forks)
  <2>1. ~astray /\ PathsAgree(v, dk)
    BY <1>1, <1>6 DEF AstrayKept
  <2>2. EntriesLead(v, dk) /\ DirsStored(v, dk)
    BY <2>1, AgreeParts
  <2>3. KnownLead(v, dk, known') /\ KnownEntry(v, dk, known')
    BY <1>1, <1>6, <2>1, <2>2, NoticedKeeps
  <2>4. ForksKnown(known', forks)
    BY <1>3, <2>1 DEF IInv, Agreed, ForksKnown
  <2> QED
    BY <1>6, <2>1, <2>3, <2>4 DEF Agreed
<1> QED
  BY <1>1, <1>3, <1>4, <1>5, <1>6 DEF IInv

(* What a step finds after it has looked at a directory.                     *)
AfterScan(v) ==
    /\ CatalogOK(v) /\ vol.next <= v.next
    /\ ~astray => /\ KnownLead(v, disk, known) /\ KnownEntry(v, disk, known)
                  /\ ForksKnown(known, forks) /\ ForksFound(v, disk, forks)

\* Every operation of the guest starts from such a volume.
LEMMA ScanStep ==
    ASSUME IInv, NEW d, NEW v \in EnsureScanned(vol, d)
    PROVE  AfterScan(v)
<1>1. CatalogOK(v) /\ Grown(vol, v)
  BY ScanIs DEF IInv
<1>2. ASSUME ~astray
      PROVE  /\ KnownLead(v, disk, known) /\ KnownEntry(v, disk, known)
             /\ ForksKnown(known, forks) /\ ForksFound(v, disk, forks)
  <2>1. /\ CatalogOK(vol) /\ Tree(disk, objects) /\ PathsAgree(vol, disk)
        /\ KnownLead(vol, disk, known) /\ KnownEntry(vol, disk, known)
        /\ ForksKnown(known, forks) /\ ForksFound(vol, disk, forks)
    BY <1>2 DEF IInv, Agreed
  <2>2. KnownLead(v, disk, known)
    BY <1>1, <2>1, GrownKeepsLead
  <2>3. KnownEntry(v, disk, known)
    BY <2>1, AgreeParts, ScanKeepsEntry
  <2>4. ForksFound(v, disk, forks)
    BY <2>1, ScanKeepsForks
  <2> QED
    BY <2>1, <2>2, <2>3, <2>4
<1> QED
  BY <1>1, <1>2 DEF AfterScan, Grown

(* And after it has looked at a second one. *)
LEMMA SecondScan ==
    ASSUME IInv, NEW v, AfterScan(v), NEW d, NEW w \in EnsureScanned(v, d)
    PROVE  AfterScan(w)
<1>1. CatalogOK(v) /\ Tree(disk, objects)
  BY DEF IInv, AfterScan
<1>2. CatalogOK(w) /\ Grown(v, w)
  BY <1>1, ScanIs
<1>3. vol.next <= w.next
  BY <1>1, <1>2 DEF IInv, AfterScan, Grown, CatalogOK, Numbered
<1>4. ASSUME ~astray
      PROVE  /\ KnownLead(w, disk, known) /\ KnownEntry(w, disk, known)
             /\ ForksKnown(known, forks) /\ ForksFound(w, disk, forks)
  <2>1. /\ KnownLead(v, disk, known) /\ KnownEntry(v, disk, known)
        /\ ForksKnown(known, forks) /\ ForksFound(v, disk, forks) /\ NoNamesakes(disk)
    BY <1>4, AgreeParts DEF AfterScan, IInv
  <2>2. KnownLead(w, disk, known)
    BY <1>1, <1>2, <2>1, GrownKeepsLead
  <2>3. KnownEntry(w, disk, known)
    BY <1>1, <2>1, ScanKeepsEntry
  <2>4. ForksFound(w, disk, forks)
    BY <1>1, <2>1, ScanKeepsForks
  <2> QED
    BY <2>1, <2>2, <2>3, <2>4
<1> QED
  BY <1>2, <1>3, <1>4 DEF AfterScan

(* The disk gains no object that the guest knows. *)
OldOnly(dk, kn) ==
    \A q \in DOMAIN dk : dk[q].obj \in DOMAIN kn => q \in DOMAIN disk /\ disk[q] = dk[q]

\* A disk on which known objects are where they were keeps what is said of them.
LEMMA OldKeeps ==
    ASSUME NEW v, NEW dk, NEW n, Tree(dk, n), NEW kn, NEW fk, OldOnly(dk, kn),
           KnownLead(v, disk, kn), KnownEntry(v, disk, kn), ForksKnown(kn, fk), ForksFound(v, disk, fk)
    PROVE  KnownLead(v, dk, kn) /\ KnownEntry(v, dk, kn) /\ ForksFound(v, dk, fk)
<1>1. KnownLead(v, dk, kn)
  BY DEF KnownLead, OldOnly
<1>2. KnownEntry(v, dk, kn)
  BY DEF KnownEntry, OldOnly
<1>3. ForksFound(v, dk, fk)
  <2> SUFFICES ASSUME NEW h \in DOMAIN fk, NEW q \in DOMAIN dk, dk[q].obj = fk[h].obj
               PROVE  /\ ~dk[q].dir
                      /\ \E i \in DOMAIN v.catalog :
                            v.catalog[i].cnid = fk[h].cnid /\ ~v.catalog[i].dir
    BY DEF ForksFound
  <2>1. fk[h].obj # None
    BY DEF Tree, None
  <2>2. q \in DOMAIN disk /\ disk[q] = dk[q]
    BY <2>1 DEF ForksKnown, OldOnly
  <2> QED
    BY <2>2 DEF ForksFound
<1> QED
  BY <1>1, <1>2, <1>3

\* A new object leaves the known ones where they were.
LEMMA WithOldOnly ==
    ASSUME objects \in Nat, NEW p, p \notin DOMAIN disk, NEW d, NEW kn, DOMAIN kn \subseteq 1..objects
    PROVE  OldOnly(With(disk, p, d), kn)
<1> DEFINE dk == With(disk, p, d)
<1>1. /\ DOMAIN dk = DOMAIN disk \cup {p}
      /\ \A q \in DOMAIN disk : q # p => dk[q] = disk[q]
      /\ dk[p] = [obj |-> objects + 1, dir |-> d]
  BY DEF With, Put
<1> HIDE DEF dk
<1>2. dk[p].obj \notin DOMAIN kn
  BY <1>1
<1> QED
  BY <1>1, <1>2 DEF OldOnly, dk

\* So does taking objects away.
LEMMA FewerOldOnly ==
    ASSUME NEW dk, DOMAIN dk \subseteq DOMAIN disk, \A q \in DOMAIN dk : dk[q] = disk[q], NEW kn
    PROVE  OldOnly(dk, kn)
BY DEF OldOnly

-----------------------------------------------------------------------------
(* Creation. *)

\* createFile and createDir append an entry of the new pair at the new path.
LEMMA EnteredIs ==
    ASSUME NEW v, CatalogOK(v), NEW d, NEW p \in StoredPath(v, d), NEW n \in MacNames,
           NEW l \in Names, NEW b \in BOOLEAN, Find(v, d, n) = 0,
           NEW w, w = Entered(v, d, n, Append(p, l), b)
    PROVE  /\ CatalogOK(w) /\ Grown(v, w)
           /\ \E e \in Entry :
                /\ e.parent = d /\ e.name = n /\ e.path = Append(p, l) /\ Means(w, d, n, e.cnid)
                /\ w.catalog = Append(v.catalog, e)
<1>1. d \in Nat /\ d < v.next /\ p \in Seq(Names)
  BY StoredPathIs
<1>2. PICK q : q = Append(p, l)
  OBVIOUS
<1>3. q \in Places
  BY <1>1, <1>2, AppendIs
<1> DEFINE u == Resolve(v, d, n, q)
<1>5. /\ CatalogOK(u) /\ Grown(v, u) /\ u.catalog = v.catalog /\ u.scanned = v.scanned
      /\ <<d, n>> \in DOMAIN u.forward
      /\ \A c \in DOMAIN u.reverse : c \notin DOMAIN v.reverse =>
            u.reverse[c] = [dir |-> d, name |-> n, path |-> q] /\ u.forward[<<d, n>>] = c
  BY <1>1, <1>3, ResolveIs
<1>6. PICK e : e = [cnid |-> u.forward[<<d, n>>], parent |-> d, name |-> n, path |-> q, dir |-> b]
  OBVIOUS
<1>7. w = [u EXCEPT !.catalog = Append(u.catalog, e)]
  BY <1>2, <1>6 DEF Entered
<1> HIDE DEF u
<1>8. /\ Shaped(w) /\ w.catalog = Append(u.catalog, e)
      /\ w.forward = u.forward /\ w.reverse = u.reverse /\ w.next = u.next
  <2>1. u = [catalog |-> u.catalog, forward |-> u.forward, reverse |-> u.reverse,
             next |-> u.next, scanned |-> u.scanned]
    BY <1>5 DEF CatalogOK, Shaped
  <2> QED
    BY <1>7, <2>1 DEF Shaped
<1>9. Means(u, d, n, e.cnid)
  BY <1>5, <1>6 DEF Means
<1>10. /\ e.cnid \in DOMAIN u.reverse /\ u.reverse[e.cnid].dir = d /\ u.reverse[e.cnid].name = n
  BY <1>5, <1>9, MeansPair
<1>11. e \in Entry
  <2>1. e.cnid \in Nat
    BY <1>5, <1>10 DEF CatalogOK, Numbered, FirstCnid
  <2> QED
    BY <1>1, <1>3, <1>6, <2>1 DEF Entry
<1>12. \A i \in DOMAIN v.catalog : v.catalog[i].cnid # e.cnid
  <2> SUFFICES ASSUME NEW i \in DOMAIN v.catalog, v.catalog[i].cnid = e.cnid PROVE FALSE
    OBVIOUS
  <2>1. /\ e.cnid \in DOMAIN v.reverse
        /\ v.reverse[e.cnid].dir = v.catalog[i].parent /\ v.reverse[e.cnid].name = v.catalog[i].name
    BY DEF CatalogOK, EntriesMatch
  <2>2. v.catalog[i].parent = d /\ v.catalog[i].name = n
    BY <1>5, <1>10, <2>1 DEF Grown
  <2> QED
    BY <2>2, FindIs
<1>13. EntriesMatch(w)
  <2>1. u.catalog \in Seq(Entry)
    BY <1>5 DEF CatalogOK, EntriesMatch
  <2>2. /\ w.catalog \in Seq(Entry) /\ Len(w.catalog) = Len(u.catalog) + 1
        /\ \A i \in 1..Len(u.catalog) : w.catalog[i] = u.catalog[i]
        /\ w.catalog[Len(u.catalog) + 1] = e
    BY <1>8, <1>11, <2>1, AppendProperties
  <2>3. DOMAIN w.catalog = 1..Len(w.catalog) /\ DOMAIN u.catalog = 1..Len(u.catalog)
        /\ Len(u.catalog) \in Nat
    BY <2>1, <2>2
  <2>4. ASSUME NEW i \in DOMAIN w.catalog
        PROVE  (i \in DOMAIN u.catalog /\ w.catalog[i] = u.catalog[i])
               \/ (i = Len(u.catalog) + 1 /\ w.catalog[i] = e)
    BY <2>2, <2>3
  <2>5. /\ \A i \in DOMAIN u.catalog :
            LET f == u.catalog[i]
            IN  /\ f.cnid \in DOMAIN u.reverse
                /\ u.reverse[f.cnid].dir = f.parent /\ u.reverse[f.cnid].name = f.name
        /\ \A i, j \in DOMAIN u.catalog : u.catalog[i].cnid = u.catalog[j].cnid => i = j
    BY <1>5 DEF CatalogOK, EntriesMatch
  <2>6. ASSUME NEW i \in DOMAIN w.catalog
        PROVE  LET f == w.catalog[i]
               IN  /\ f.cnid \in DOMAIN w.reverse
                   /\ w.reverse[f.cnid].dir = f.parent /\ w.reverse[f.cnid].name = f.name
    <3>1. e.parent = d /\ e.name = n
      BY <1>6
    <3> QED
      BY <1>8, <1>10, <2>4, <2>5, <3>1
  <2>7. ASSUME NEW i \in DOMAIN w.catalog, NEW j \in DOMAIN w.catalog,
               w.catalog[i].cnid = w.catalog[j].cnid
        PROVE  i = j
    BY <1>5, <1>12, <2>4, <2>5, <2>7
  <2> QED
    BY <2>2, <2>6, <2>7 DEF EntriesMatch
<1>14. CatalogOK(w)
  BY <1>5, <1>8, <1>13 DEF CatalogOK, Numbered, PairsMatch
<1>15. Grown(v, w)
  BY <1>5, <1>8 DEF Grown
<1>16. Means(w, d, n, e.cnid)
  BY <1>8, <1>9 DEF Means
<1> QED
  BY <1>2, <1>5, <1>6, <1>8, <1>11, <1>14, <1>15, <1>16

\* The new entry is of no known object, and the known ones keep theirs.
LEMMA CreateKeeps ==
    ASSUME IInv, NEW v, AfterScan(v), NEW d, NEW p \in StoredPath(v, d), NEW n \in MacNames,
           NEW l \in Names, NEW path, path = Append(p, l), NEW b \in BOOLEAN, Find(v, d, n) = 0,
           NEW w, w = Entered(v, d, n, path, b),
           NEW dk, NEW m, Tree(dk, m), path \in DOMAIN dk, OldOnly(dk, known),
           ~astray, PathsAgree(w, dk)
    PROVE  KnownLead(w, dk, known) /\ KnownEntry(w, dk, known) /\ ForksFound(w, dk, forks)
<1>0. CatalogOK(v) /\ NoNamesakes(dk) /\ EntriesLead(w, dk)
  BY AgreeParts DEF AfterScan
<1>1. KnownLead(v, dk, known) /\ KnownEntry(v, dk, known) /\ ForksFound(v, dk, forks)
  BY OldKeeps DEF AfterScan
<1>2. CatalogOK(w) /\ Grown(v, w)
  BY <1>0, EnteredIs
<1>3. PICK e \in Entry :
        /\ e.parent = d /\ e.name = n /\ e.path = path /\ Means(w, d, n, e.cnid)
        /\ w.catalog = Append(v.catalog, e)
  BY <1>0, EnteredIs
<1>4. KnownLead(w, dk, known)
  BY <1>0, <1>1, <1>2, GrownKeepsLead
<1>5. v.catalog \in Seq(Entry)
  BY <1>0 DEF CatalogOK, EntriesMatch
<1>6. /\ w.catalog \in Seq(Entry) /\ Len(w.catalog) = Len(v.catalog) + 1
      /\ \A i \in 1..Len(v.catalog) : w.catalog[i] = v.catalog[i]
      /\ w.catalog[Len(v.catalog) + 1] = e
  BY <1>3, <1>5, AppendProperties
<1> PICK len \in Nat : len = Len(v.catalog)
  BY <1>5
<1>6a. DOMAIN v.catalog = 1..len /\ DOMAIN w.catalog = 1..(len + 1)
  BY <1>5, <1>6
<1>7. \A i \in DOMAIN w.catalog : (i \in DOMAIN v.catalog /\ w.catalog[i] = v.catalog[i]) \/ w.catalog[i] = e
  BY <1>6, <1>6a
<1>8. \A i \in DOMAIN v.catalog : i \in DOMAIN w.catalog /\ w.catalog[i] = v.catalog[i]
  BY <1>6, <1>6a
<1>9. KnownEntry(w, dk, known)
  <2> SUFFICES ASSUME NEW q \in DOMAIN dk, NEW i \in DOMAIN w.catalog, dk[q].obj \in DOMAIN known,
                      w.catalog[i].cnid = known[dk[q].obj]
               PROVE  w.catalog[i].path = q
    BY DEF KnownEntry
  <2>1. CASE i \in DOMAIN v.catalog /\ w.catalog[i] = v.catalog[i]
    BY <1>1, <2>1 DEF KnownEntry
  <2>2. CASE w.catalog[i] = e
    <3>1. Leads(w, w.reverse[e.cnid].dir, w.reverse[e.cnid].name, e.cnid, q)
      BY <1>4, <2>2 DEF KnownLead
    <3>2. Leads(w, d, n, e.cnid, q)
      BY <1>2, <1>3, <3>1, MeansPair
    <3>3. Leads(w, d, n, e.cnid, path)
      BY <1>0, <1>3, <2>2 DEF EntriesLead
    <3>4. Front(q) = Front(path) /\ MacNameOf(q) = MacNameOf(path)
      BY <3>2, <3>3, LeadsOnce
    <3>5. q = path
      BY <1>0, <3>4 DEF NoNamesakes
    <3> QED
      BY <1>3, <2>2, <3>5
  <2> QED
    BY <1>7, <2>1, <2>2
<1>10. ForksFound(w, dk, forks)
  BY <1>1, <1>8 DEF ForksFound
<1> QED
  BY <1>4, <1>9, <1>10

-----------------------------------------------------------------------------
(* Removal. *)

\* Erasing one entry leaves the others.
LEMMA RemoveAtIs ==
    ASSUME NEW s \in Seq(Entry), NEW i \in 0..Len(s)
    PROVE  \E at : LeftOf(s, 1..Len(s) \ {i}, Len(s), RemoveAt(s, i), at)
<1> PICK n \in Nat : n = Len(s)
  OBVIOUS
<1> DEFINE a == SubSeq(s, 1, i - 1)
           b == SubSeq(s, i + 1, n)
           t == a \o b
           l == IF i = 0 THEN 0 ELSE i - 1
<1>0. /\ DOMAIN s = 1..n /\ i \in 0..n /\ l \in 0..n /\ n - i \in Nat /\ l + (n - i) \in 0..n
      /\ i \in Nat /\ l \in Nat
  OBVIOUS
<1>1. a \in Seq(Entry) /\ Len(a) = l /\ \A j \in 1..l : a[j] = s[j]
  <2>1. \A j \in 1..(i - 1) : s[j] \in Entry
    BY <1>0
  <2>2. i - 1 \in Int
    BY <1>0
  <2> PICK m \in Int : m = i - 1
    BY <2>2
  <2>3. /\ SubSeq(s, 1, m) \in Seq(Entry)
        /\ Len(SubSeq(s, 1, m)) = IF 1 <= m THEN m - 1 + 1 ELSE 0
        /\ \A j \in 1..(m - 1 + 1) : SubSeq(s, 1, m)[j] = s[1 + j - 1]
    BY <2>1, SubSeqProperties
  <2> QED
    BY <1>0, <2>3
<1>2. b \in Seq(Entry) /\ Len(b) = n - i /\ \A j \in 1..(n - i) : b[j] = s[i + j]
  <2>1. \A j \in (i + 1)..n : s[j] \in Entry
    BY <1>0
  <2> PICK m \in Int : m = i + 1
    BY <1>0
  <2>3. /\ SubSeq(s, m, n) \in Seq(Entry)
        /\ Len(SubSeq(s, m, n)) = IF m <= n THEN n - m + 1 ELSE 0
        /\ \A j \in 1..(n - m + 1) : SubSeq(s, m, n)[j] = s[m + j - 1]
    BY <2>1, SubSeqProperties
  <2>4. \A j \in Nat : m + j - 1 = i + j
    BY <1>0
  <2>5. n - m + 1 = n - i /\ (m <= n => n - m + 1 = n - i) /\ (~(m <= n) => n - i = 0)
    BY <1>0
  <2>6. b = SubSeq(s, m, n)
    OBVIOUS
  <2> HIDE DEF b
  <2> QED
    BY <2>3, <2>4, <2>5, <2>6
<1> HIDE DEF a, b
<1>3. /\ t \in Seq(Entry) /\ Len(t) = l + (n - i)
      /\ \A j \in 1..(l + (n - i)) : t[j] = IF j <= l THEN a[j] ELSE b[j - l]
  <2>1. t \in Seq(Entry) /\ Len(t) = Len(a) + Len(b)
        /\ \A j \in 1..(Len(a) + Len(b)) : t[j] = IF j <= Len(a) THEN a[j] ELSE b[j - Len(a)]
    BY <1>1, <1>2, ConcatProperties
  <2> QED
    BY <1>1, <1>2, <2>1
<1> HIDE DEF t
<1> PICK at : at = [j \in 1..(l + (n - i)) |-> IF j <= l THEN j ELSE i + (j - l)]
  OBVIOUS
<1>4. ASSUME NEW j \in 1..(l + (n - i))
      PROVE  at[j] \in 1..n /\ at[j] # i /\ t[j] = s[at[j]]
  <2>1. CASE j <= l
    <3>1. at[j] = j /\ j \in 1..l /\ j \in 1..n /\ j # i
      BY <1>0, <2>1
    <3> QED
      BY <1>1, <1>3, <2>1, <3>1
  <2>2. CASE ~(j <= l)
    <3>1. at[j] = i + (j - l) /\ j - l \in 1..(n - i) /\ i + (j - l) \in 1..n /\ i + (j - l) # i
      BY <1>0, <2>2
    <3>2. t[j] = b[j - l]
      BY <1>3, <2>2
    <3> QED
      BY <1>2, <3>1, <3>2
  <2> QED
    BY <2>1, <2>2
<1>5. ASSUME NEW j \in 1..(l + (n - i)), NEW k \in 1..(l + (n - i)), at[j] = at[k] PROVE j = k
  <2>1. at[j] = (IF j <= l THEN j ELSE i + (j - l)) /\ at[k] = (IF k <= l THEN k ELSE i + (k - l))
    OBVIOUS
  <2>2. (IF j <= l THEN j ELSE i + (j - l)) = (IF k <= l THEN k ELSE i + (k - l))
    BY <1>5, <2>1
  <2> QED
    BY <1>0, <2>2
<1>6. ASSUME NEW k \in 1..n, k # i PROVE \E j \in 1..(l + (n - i)) : at[j] = k
  <2>1. CASE k < i
    <3>1. k \in 1..(l + (n - i)) /\ k <= l
      BY <1>0, <2>1
    <3> QED
      BY <3>1
  <2>2. CASE ~(k < i)
    <3> PICK j \in Int : j = l + (k - i)
      BY <1>0
    <3>1. j \in 1..(l + (n - i)) /\ ~(j <= l) /\ i + (j - l) = k
      BY <1>0, <1>6, <2>2
    <3> QED
      BY <3>1
  <2> QED
    BY <2>1, <2>2
<1>7. DOMAIN t = 1..(l + (n - i)) /\ DOMAIN at = 1..(l + (n - i))
  <2>1. l + (n - i) \in Nat
    BY <1>0
  <2> QED
    BY <1>3, <2>1
<1>8. t = RemoveAt(s, i)
  BY DEF t, a, b, RemoveAt
<1> HIDE DEF l
<1>9. LeftOf(s, 1..n \ {i}, n, t, at)
  BY <1>3, <1>4, <1>5, <1>6, <1>7, ZenonT(40) DEF LeftOf
<1> QED
  BY <1>8, <1>9

\* remove's end takes one entry from the catalogue, by its ID.
LEMMA StruckIs ==
    ASSUME NEW v, CatalogOK(v), NEW c, NEW w, w = Struck(v, c)
    PROVE  /\ Thinned(v, w)
           /\ \A i \in DOMAIN v.catalog : v.catalog[i].cnid # c =>
                \E j \in DOMAIN w.catalog : w.catalog[j] = v.catalog[i]
<1> PICK i : i = IndexOf(v, c)
  OBVIOUS
<1>1. v.catalog \in Seq(Entry) /\ DOMAIN v.catalog = 1..Len(v.catalog) /\ Len(v.catalog) \in Nat
  BY DEF CatalogOK, EntriesMatch
<1>2. i \in 0..Len(v.catalog) /\ (i # 0 => v.catalog[i].cnid = c)
  <2>1. i # 0 => i \in DOMAIN v.catalog /\ v.catalog[i].cnid = c
    BY IndexIs
  <2> QED
    BY <1>1, <2>1
<1>3. PICK at : LeftOf(v.catalog, 1..Len(v.catalog) \ {i}, Len(v.catalog), RemoveAt(v.catalog, i), at)
  BY <1>1, <1>2, RemoveAtIs
<1>4. /\ Shaped(w) /\ w.catalog = RemoveAt(v.catalog, i)
      /\ w.forward = v.forward /\ w.reverse = v.reverse /\ w.next = v.next
  <2>1. v = [catalog |-> v.catalog, forward |-> v.forward, reverse |-> v.reverse,
             next |-> v.next, scanned |-> v.scanned]
    BY DEF CatalogOK, Shaped
  <2>2. w = [v EXCEPT !.catalog = RemoveAt(v.catalog, i)]
    BY DEF Struck
  <2> QED
    BY <2>1, <2>2 DEF Shaped
<1>5. /\ w.catalog \in Seq(Entry)
      /\ \A j \in DOMAIN w.catalog : at[j] \in DOMAIN v.catalog /\ w.catalog[j] = v.catalog[at[j]]
      /\ \A j, k \in DOMAIN w.catalog : at[j] = at[k] => j = k
      /\ \A k \in DOMAIN v.catalog : k # i => \E j \in DOMAIN w.catalog : at[j] = k
  BY <1>1, <1>3, <1>4 DEF LeftOf
<1>6. \A j, k \in DOMAIN v.catalog : v.catalog[j].cnid = v.catalog[k].cnid => j = k
  BY DEF CatalogOK, EntriesMatch
<1>7. \A j, k \in DOMAIN w.catalog : w.catalog[j].cnid = w.catalog[k].cnid => j = k
  BY <1>5, <1>6
<1>8. Thinned(v, w)
  BY <1>4, <1>5, <1>7 DEF Thinned
<1>9. ASSUME NEW k \in DOMAIN v.catalog, v.catalog[k].cnid # c
      PROVE  \E j \in DOMAIN w.catalog : w.catalog[j] = v.catalog[k]
  <2>1. k # i
    BY <1>1, <1>2, <1>9
  <2> QED
    BY <1>5, <2>1
<1> QED
  BY <1>8, <1>9

(* The entry of c is struck, and its file removed if it is one. *)
LEMMA RemoveKeeps ==
    ASSUME IInv, NEW v, AfterScan(v), NEW c, NEW w, w = Struck(v, c), NEW dk, Tree(dk, objects),
           DOMAIN dk \subseteq DOMAIN disk, \A q \in DOMAIN dk : dk[q] = disk[q],
           \A i \in DOMAIN v.catalog :
                v.catalog[i].cnid = c =>
                    v.catalog[i].dir \/ v.catalog[i].path \notin DOMAIN dk \/ dk[v.catalog[i].path].dir,
           ~astray
    PROVE  KnownLead(w, dk, known) /\ KnownEntry(w, dk, known) /\ ForksFound(w, dk, forks)
<1>0. CatalogOK(v)
  BY DEF AfterScan
<1>1. /\ KnownLead(v, disk, known) /\ KnownEntry(v, disk, known)
      /\ ForksKnown(known, forks) /\ ForksFound(v, disk, forks)
  BY DEF AfterScan
<1>2. OldOnly(dk, known)
  BY FewerOldOnly
<1>3. KnownLead(v, dk, known) /\ KnownEntry(v, dk, known) /\ ForksFound(v, dk, forks)
  BY <1>1, <1>2, OldKeeps
<1>4. Thinned(v, w)
  BY <1>0, StruckIs
<1>5. KnownLead(w, dk, known)
  BY <1>0, <1>3, <1>4, ThinnedOK, GrownKeepsLead
<1>6. KnownEntry(w, dk, known)
  <2> SUFFICES ASSUME NEW p \in DOMAIN dk, NEW j \in DOMAIN w.catalog, dk[p].obj \in DOMAIN known,
                      w.catalog[j].cnid = known[dk[p].obj]
               PROVE  w.catalog[j].path = p
    BY DEF KnownEntry
  <2>1. PICK i \in DOMAIN v.catalog : w.catalog[j] = v.catalog[i]
    BY <1>4 DEF Thinned
  <2> QED
    BY <1>3, <2>1 DEF KnownEntry
<1>7. ForksFound(w, dk, forks)
  <2> SUFFICES ASSUME NEW h \in DOMAIN forks, NEW q \in DOMAIN dk, dk[q].obj = forks[h].obj
               PROVE  /\ ~dk[q].dir
                      /\ \E i \in DOMAIN w.catalog :
                            w.catalog[i].cnid = forks[h].cnid /\ ~w.catalog[i].dir
    BY DEF ForksFound
  <2>1. ~dk[q].dir
    BY <1>3 DEF ForksFound
  <2>2. PICK i \in DOMAIN v.catalog : v.catalog[i].cnid = forks[h].cnid /\ ~v.catalog[i].dir
    BY <1>3 DEF ForksFound
  <2>3. forks[h].obj # None
    BY DEF Tree, None
  <2>4. v.catalog[i].path = q
    BY <1>1, <1>3, <2>2, <2>3 DEF ForksKnown, KnownEntry
  <2>5. v.catalog[i].cnid # c
    BY <2>1, <2>2, <2>4
  <2>6. PICK j \in DOMAIN w.catalog : w.catalog[j] = v.catalog[i]
    BY <1>0, <2>5, StruckIs
  <2> QED
    BY <2>1, <2>2, <2>6
<1> QED
  BY <1>5, <1>6, <1>7

-----------------------------------------------------------------------------
(* The steps, but for renames and moves. *)

\* A step that only looks keeps the invariant.
LEMMA LookKeeps ==
    ASSUME IInv, NEW v, AfterScan(v), Looks(v), UNCHANGED <<forks, handles>>,
           AstrayKept
    PROVE  IInv'
<1>1. Becomes(v, disk) /\ objects' = objects /\ forks' = forks /\ handles' = handles
  BY DEF Looks
<1>2. objects' \in Nat /\ objects <= objects' /\ Tree(disk, objects')
  BY <1>1 DEF IInv
<1>3. CatalogOK(v) /\ vol.next <= v.next
  BY DEF AfterScan
<1>4. ~astray => KnownLead(v, disk, known) /\ KnownEntry(v, disk, known) /\ ForksFound(v, disk, forks)
  BY DEF AfterScan
<1> QED
  BY <1>1, <1>2, <1>3, <1>4, StepKeeps

\* So does an access to a fork, which may bring its entry back.
LEMMA AccessKeeps ==
    ASSUME IInv, NEW h \in DOMAIN forks, Access(h), AstrayKept
    PROVE  IInv'
<1>1. PICK v \in Resurrected(vol, forks[h].cnid) : v # vol /\ Looks(v) /\ UNCHANGED <<forks, handles>>
  BY DEF Access
<1>2. PICK d : v \in EnsureScanned(vol, d)
  BY <1>1 DEF Resurrected
<1>3. AfterScan(v)
  BY <1>2, ScanStep
<1> QED
  BY <1>1, <1>3, LookKeeps

(* A new entry with its file or directory. *)
LEMMA EnterKeeps ==
    ASSUME IInv, NEW v, AfterScan(v), NEW d, NEW p \in StoredPath(v, d), NEW n \in MacNames,
           NEW l \in Names, NEW b \in BOOLEAN, Find(v, d, n) = 0,
           NEW w, w = Entered(v, d, n, Append(p, l), b),
           NEW dk, Tree(dk, objects'), Append(p, l) \in DOMAIN dk, OldOnly(dk, known), Becomes(w, dk),
           objects' \in Nat, objects <= objects', UNCHANGED <<forks, handles>>, AstrayKept
    PROVE  IInv'
<1>1. CatalogOK(v) /\ vol.next <= v.next
  BY DEF AfterScan
<1>2. CatalogOK(w) /\ Grown(v, w)
  BY <1>1, EnteredIs
<1>3. vol.next <= w.next
  BY <1>1, <1>2 DEF IInv, Grown, CatalogOK, Numbered
<1>4. ~astray /\ PathsAgree(w, dk) =>
        KnownLead(w, dk, known) /\ KnownEntry(w, dk, known) /\ ForksFound(w, dk, forks)
  <2> PICK m : m = objects'
    OBVIOUS
  <2>1. Tree(dk, m)
    OBVIOUS
  <2> QED
    BY <2>1, CreateKeeps
<1> QED
  BY <1>2, <1>3, <1>4, StepKeeps

\* A name in a stored directory is a place whose parent it is.
LEMMA ChildPlace ==
    ASSUME NEW v, CatalogOK(v), NEW d, NEW p \in StoredPath(v, d), NEW n \in Names,
           Len(Append(p, n)) <= MaxDepth
    PROVE  Append(p, n) \in Paths /\ Front(Append(p, n)) = p
<1>1. p \in Seq(Names)
  BY StoredPathIs
<1> QED
  BY <1>1, AppendIs, PathIs

\* createFile keeps the invariant.
LEMMA CreateFileKeeps ==
    ASSUME IInv, NEW d, NEW v \in EnsureScanned(vol, d), NEW g \in Given, CreateFile(v, d, g),
           AstrayKept
    PROVE  IInv'
<1>0. g.mac \in MacNames /\ g.host \in Names
  BY VolumeAssumption DEF MacNames
<1>1. AfterScan(v) /\ CatalogOK(v)
  BY ScanStep DEF AfterScan
<1>2. UNCHANGED <<forks, handles>> /\ Find(v, d, g.mac) = 0
  BY DEF CreateFile
<1>3. PICK p \in StoredPath(v, d) :
        /\ IsDir(disk, p) /\ Len(Append(p, g.host)) <= MaxDepth
        /\ \/ /\ Append(p, g.host) \notin DOMAIN disk
              /\ objects' = objects + 1
              /\ Becomes(Entered(v, d, g.mac, Append(p, g.host), FALSE), With(disk, Append(p, g.host), FALSE))
           \/ /\ Append(p, g.host) \in DOMAIN disk /\ objects' = objects
              /\ Becomes(Entered(v, d, g.mac, Append(p, g.host), FALSE), disk)
  BY DEF CreateFile
<1>4. objects \in Nat /\ Tree(disk, objects) /\ DOMAIN known \subseteq 1..objects
  BY DEF IInv
<1>5. CASE /\ Append(p, g.host) \notin DOMAIN disk
           /\ objects' = objects + 1
           /\ Becomes(Entered(v, d, g.mac, Append(p, g.host), FALSE), With(disk, Append(p, g.host), FALSE))
  <2>1. Append(p, g.host) \in Paths /\ IsDir(disk, Front(Append(p, g.host)))
    BY <1>0, <1>1, <1>3, ChildPlace
  <2>2. Tree(With(disk, Append(p, g.host), FALSE), objects')
    BY <1>4, <1>5, <2>1, TreeWith
  <2>3. OldOnly(With(disk, Append(p, g.host), FALSE), known)
    BY <1>4, <1>5, WithOldOnly
  <2>4. objects' \in Nat /\ objects <= objects'
    BY <1>4, <1>5
  <2>5. Append(p, g.host) \in DOMAIN With(disk, Append(p, g.host), FALSE)
    BY DEF With, Put
  <2> QED
    BY <1>0, <1>1, <1>2, <1>5, <2>2, <2>3, <2>4, <2>5, EnterKeeps
<1>6. CASE /\ Append(p, g.host) \in DOMAIN disk /\ objects' = objects
           /\ Becomes(Entered(v, d, g.mac, Append(p, g.host), FALSE), disk)
  <2>1. OldOnly(disk, known)
    BY DEF OldOnly
  <2>2. objects' \in Nat /\ objects <= objects' /\ Tree(disk, objects')
    BY <1>4, <1>6
  <2> QED
    BY <1>0, <1>1, <1>2, <1>6, <2>1, <2>2, EnterKeeps
<1> QED
  BY <1>3, <1>5, <1>6

\* createDir keeps the invariant.
LEMMA CreateDirKeeps ==
    ASSUME IInv, NEW d, NEW v \in EnsureScanned(vol, d), NEW g \in Given, CreateDir(v, d, g),
           AstrayKept
    PROVE  IInv'
<1>0. g.mac \in MacNames /\ g.host \in Names
  BY VolumeAssumption DEF MacNames
<1>1. AfterScan(v) /\ CatalogOK(v)
  BY ScanStep DEF AfterScan
<1>2. UNCHANGED <<forks, handles>> /\ Find(v, d, g.mac) = 0
  BY DEF CreateDir
<1>3. PICK p \in StoredPath(v, d) :
        /\ IsDir(disk, p) /\ Len(Append(p, g.host)) <= MaxDepth /\ Append(p, g.host) \notin DOMAIN disk
        /\ objects' = objects + 1
        /\ Becomes(Entered(v, d, g.mac, Append(p, g.host), TRUE), With(disk, Append(p, g.host), TRUE))
  BY DEF CreateDir
<1>4. objects \in Nat /\ Tree(disk, objects) /\ DOMAIN known \subseteq 1..objects
  BY DEF IInv
<1>5. Append(p, g.host) \in Paths /\ IsDir(disk, Front(Append(p, g.host)))
  BY <1>0, <1>1, <1>3, ChildPlace
<1>6. Tree(With(disk, Append(p, g.host), TRUE), objects')
  BY <1>3, <1>4, <1>5, TreeWith
<1>7. OldOnly(With(disk, Append(p, g.host), TRUE), known)
  BY <1>3, <1>4, WithOldOnly
<1>8. objects' \in Nat /\ objects <= objects'
  BY <1>3, <1>4
<1>9. Append(p, g.host) \in DOMAIN With(disk, Append(p, g.host), TRUE)
  BY DEF With, Put
<1> QED
  BY <1>0, <1>1, <1>2, <1>3, <1>6, <1>7, <1>8, <1>9, EnterKeeps

(* An entry that goes, with or without its file. *)
LEMMA StrikeKeeps ==
    ASSUME IInv, NEW v, AfterScan(v), NEW c, NEW w, w = Struck(v, c), NEW dk, Becomes(w, dk),
           Tree(dk, objects), DOMAIN dk \subseteq DOMAIN disk, \A q \in DOMAIN dk : dk[q] = disk[q],
           \A i \in DOMAIN v.catalog :
                v.catalog[i].cnid = c =>
                    v.catalog[i].dir \/ v.catalog[i].path \notin DOMAIN dk \/ dk[v.catalog[i].path].dir,
           UNCHANGED <<forks, handles, objects>>, AstrayKept
    PROVE  IInv'
<1>1. CatalogOK(v) /\ vol.next <= v.next
  BY DEF AfterScan
<1>2. Thinned(v, w)
  BY <1>1, StruckIs
<1>3. CatalogOK(w) /\ w.next = v.next
  BY <1>1, <1>2, ThinnedOK DEF Thinned
<1>4. ~astray => KnownLead(w, dk, known) /\ KnownEntry(w, dk, known) /\ ForksFound(w, dk, forks)
  BY RemoveKeeps
<1>5. objects' \in Nat /\ objects <= objects' /\ Tree(dk, objects')
  BY DEF IInv
<1> QED
  BY <1>1, <1>3, <1>4, <1>5, StepKeeps

\* remove of a file keeps the invariant.
LEMMA RemoveFileKeeps ==
    ASSUME IInv, NEW d, NEW v \in EnsureScanned(vol, d), NEW i \in DOMAIN v.catalog, RemoveFile(v, i),
           AstrayKept
    PROVE  IInv'
<1>1. AfterScan(v) /\ CatalogOK(v)
  BY ScanStep DEF AfterScan
<1> DEFINE c == v.catalog[i].cnid
           p == v.catalog[i].path
           w == Struck(v, c)
           dk == Removed(disk, p)
<1>2. Becomes(w, dk) /\ UNCHANGED <<forks, handles, objects>>
  BY DEF RemoveFile
<1>3. Tree(disk, objects)
  BY DEF IInv
<1>4. /\ Tree(dk, objects) /\ DOMAIN dk \subseteq DOMAIN disk
      /\ \A q \in DOMAIN dk : dk[q] = disk[q]
      /\ p \in DOMAIN disk /\ ~disk[p].dir => p \notin DOMAIN dk
  BY <1>3, RemovedIs
<1> HIDE DEF dk
<1>5. \A j \in DOMAIN v.catalog : v.catalog[j].cnid = c =>
        v.catalog[j].dir \/ v.catalog[j].path \notin DOMAIN dk \/ dk[v.catalog[j].path].dir
  <2>1. \A j \in DOMAIN v.catalog : v.catalog[j].cnid = c => j = i
    BY <1>1 DEF CatalogOK, EntriesMatch
  <2> QED
    BY <1>4, <2>1
<1> HIDE DEF c, w
<1>6. w = Struck(v, c)
  BY DEF w
<1> QED
  BY <1>1, <1>2, <1>4, <1>5, <1>6, StrikeKeeps

\* remove of a directory keeps it, also when it removes the wrong thing.
LEMMA RemoveDirKeeps ==
    ASSUME IInv, NEW d, NEW v \in EnsureScanned(vol, d), NEW i \in DOMAIN v.catalog, RemoveDir(v, i),
           AstrayKept
    PROVE  IInv'
<1>1. AfterScan(v) /\ CatalogOK(v)
  BY ScanStep DEF AfterScan
<1> PICK c : c = v.catalog[i].cnid
  OBVIOUS
<1>2. PICK w \in EnsureScanned(v, c) :
        IF i <= Len(w.catalog)
        THEN Becomes(Struck(w, w.catalog[i].cnid), Removed(disk, w.catalog[i].path))
        ELSE Becomes(Struck(w, c), disk)
  BY DEF RemoveDir
<1>3. UNCHANGED <<forks, handles, objects>> /\ v.catalog[i].dir
  BY DEF RemoveDir
<1>4. AfterScan(w) /\ CatalogOK(w)
  BY <1>1, SecondScan DEF AfterScan
<1>5. Tree(disk, objects)
  BY DEF IInv
<1>6. CASE i <= Len(w.catalog)
  <2>1. i \in DOMAIN w.catalog
    <3>1. i \in Nat \ {0}
      BY <1>1 DEF CatalogOK, EntriesMatch
    <3> QED
      BY <1>4, <1>6, <3>1 DEF CatalogOK, EntriesMatch
  <2> DEFINE b == w.catalog[i].cnid
             p == w.catalog[i].path
             dk == Removed(disk, p)
  <2>2. Becomes(Struck(w, b), dk)
    BY <1>2, <1>6
  <2>3. /\ Tree(dk, objects) /\ DOMAIN dk \subseteq DOMAIN disk
        /\ \A q \in DOMAIN dk : dk[q] = disk[q]
        /\ p \in DOMAIN disk /\ ~disk[p].dir => p \notin DOMAIN dk
    BY <1>5, RemovedIs
  <2>4. dk = Removed(disk, p)
    OBVIOUS
  <2> HIDE DEF dk
  <2>5. \A j \in DOMAIN w.catalog : w.catalog[j].cnid = b =>
          w.catalog[j].dir \/ w.catalog[j].path \notin DOMAIN dk \/ dk[w.catalog[j].path].dir
    <3>1. \A j \in DOMAIN w.catalog : w.catalog[j].cnid = b => j = i
      BY <1>4, <2>1 DEF CatalogOK, EntriesMatch
    <3>2. w.catalog[i].path \in DOMAIN dk => dk[w.catalog[i].path].dir
      <4>1. p \in DOMAIN dk => p \in DOMAIN disk /\ dk[p] = disk[p] /\ disk[p].dir \in BOOLEAN
        BY <1>5, <2>3 DEF Tree
      <4> QED
        BY <2>3, <4>1
    <3> QED
      BY <3>1, <3>2
  <2> HIDE DEF b, p
  <2> QED
    BY <1>3, <1>4, <2>2, <2>3, <2>5, StrikeKeeps
<1>7. CASE ~(i <= Len(w.catalog))
  <2>1. Becomes(Struck(w, c), disk)
    BY <1>2, <1>7
  <2>2. \A j \in DOMAIN w.catalog : w.catalog[j].cnid = c => w.catalog[j].dir
    <3>1. w = v \/ \E p : Looked(v, c, p, w)
      BY <1>1, <1>5, ScanIs
    <3>2. CASE w = v
      <4>1. \A j \in DOMAIN v.catalog : v.catalog[j].cnid = c => j = i
        BY <1>1 DEF CatalogOK, EntriesMatch
      <4> QED
        BY <1>3, <3>2, <4>1
    <3>3. ASSUME NEW p, Looked(v, c, p, w) PROVE \A j \in DOMAIN w.catalog : w.catalog[j].cnid = c => w.catalog[j].dir
      <4>1. \A a \in DOMAIN v.catalog, j \in DOMAIN w.catalog :
                w.catalog[j].cnid = v.catalog[a].cnid => w.catalog[j].dir = v.catalog[a].dir
        BY <3>3 DEF Looked
      <4> QED
        BY <1>3, <4>1
    <3> QED
      BY <3>1, <3>2, <3>3
  <2>3. DOMAIN disk \subseteq DOMAIN disk /\ \A q \in DOMAIN disk : disk[q] = disk[q]
    OBVIOUS
  <2> QED
    BY <1>3, <1>4, <1>5, <2>1, <2>2, <2>3, StrikeKeeps
<1> QED
  BY <1>6, <1>7

\* openFork keeps the invariant: the conflict check, and the file it makes.
LEMMA OpenForkKeeps ==
    ASSUME IInv, NEW d, NEW v \in EnsureScanned(vol, d), NEW i \in DOMAIN v.catalog,
           NEW fork, NEW perm \in Permissions, OpenFork(v, i, fork, perm),
           AstrayKept
    PROVE  IInv'
<1>1. AfterScan(v) /\ CatalogOK(v) /\ vol.next <= v.next
  BY ScanStep DEF AfterScan
<1>2. objects \in Nat /\ Tree(disk, objects) /\ DOMAIN known \subseteq 1..objects /\ CatalogOK(vol)
  BY DEF IInv
<1> PICK e : e = v.catalog[i]
  OBVIOUS
<1> DEFINE missing == fork = "data" /\ e.path \notin DOMAIN disk
           dk == IF missing THEN With(disk, e.path, FALSE) ELSE disk
           f == [cnid |-> e.cnid, fork |-> fork, write |-> Writes(perm),
                 path |-> e.path, obj |-> ObjectAt(dk, e.path)]
<1>3. /\ ~e.dir /\ ~IsDir(disk, e.path) /\ ~Conflict(e.cnid, fork, perm)
      /\ handles' = handles + 1
      /\ forks' = Put(forks, handles + 1, f)
      /\ \/ /\ missing /\ IsDir(disk, Front(e.path)) /\ Len(e.path) <= MaxDepth
            /\ objects' = objects + 1
         \/ ~missing /\ objects' = objects
      /\ Becomes(v, dk)
  BY DEF OpenFork
<1>4. e \in Entry
  <2>1. v.catalog \in Seq(Entry)
    BY <1>1 DEF CatalogOK, EntriesMatch
  <2> QED
    BY <2>1
<1>5. /\ objects' \in Nat /\ objects <= objects' /\ Tree(dk, objects') /\ OldOnly(dk, known)
      /\ e.path \in DOMAIN dk => ~dk[e.path].dir
  <2>1. CASE missing
    <3>1. e.path \in Places
      BY <1>4 DEF Entry
    <3>2. e.path \in Paths /\ objects' = objects + 1 /\ IsDir(disk, Front(e.path))
      BY <1>3, <2>1, <3>1, PathIs
    <3>3. Tree(With(disk, e.path, FALSE), objects + 1)
      BY <1>2, <2>1, <3>2, TreeWith
    <3>4. OldOnly(With(disk, e.path, FALSE), known)
      BY <1>2, <2>1, WithOldOnly
    <3>5. ~With(disk, e.path, FALSE)[e.path].dir
      BY DEF With, Put
    <3>6. dk = With(disk, e.path, FALSE)
      BY <2>1
    <3> HIDE DEF dk, missing
    <3>7. Tree(dk, objects')
      BY <3>2, <3>3, <3>6
    <3>8. OldOnly(dk, known)
      BY <3>4, <3>6
    <3>9. ~dk[e.path].dir
      BY <3>5, <3>6
    <3> QED
      BY <1>2, <3>2, <3>7, <3>8, <3>9
  <2>2. CASE ~missing
    <3>1. objects' = objects /\ dk = disk
      BY <1>3, <2>2
    <3>2. OldOnly(disk, known)
      BY DEF OldOnly
    <3>3. e.path \in DOMAIN disk => ~disk[e.path].dir
      BY <1>3 DEF IsDir
    <3> HIDE DEF dk, missing
    <3> QED
      BY <1>2, <3>1, <3>2, <3>3
  <2> QED
    BY <2>1, <2>2
<1> HIDE DEF dk, missing
<1>6. vol' = v /\ disk' = dk /\ known' = Noticed(known, v, dk)
  BY <1>3 DEF Becomes
<1> PICK kn : kn = Noticed(known, v, dk)
  OBVIOUS
<1> PICK m : m = objects'
  OBVIOUS
<1>7. /\ DOMAIN kn \subseteq 1..m
      /\ \A o \in DOMAIN known : o \in DOMAIN kn /\ kn[o] = known[o]
      /\ \A j \in DOMAIN v.catalog : v.catalog[j].path \in DOMAIN dk =>
            dk[v.catalog[j].path].obj \in DOMAIN kn
  <2>1. Tree(dk, m) /\ DOMAIN known \subseteq 1..m
    BY <1>2, <1>5
  <2>2. /\ DOMAIN Noticed(known, v, dk) \subseteq 1..m
        /\ \A o \in DOMAIN known :
              o \in DOMAIN Noticed(known, v, dk) /\ Noticed(known, v, dk)[o] = known[o]
        /\ \A j \in DOMAIN v.catalog : v.catalog[j].path \in DOMAIN dk =>
              dk[v.catalog[j].path].obj \in DOMAIN Noticed(known, v, dk)
    BY ONLY <2>1 DEF Noticed, Tree
  <2> QED
    BY <2>2
<1>8. /\ DOMAIN forks \subseteq 1..handles /\ handles \in Nat
      /\ \A h \in DOMAIN forks : forks[h].cnid \in DOMAIN vol.reverse /\ forks[h].write \in BOOLEAN
      /\ \A g, h \in DOMAIN forks :
          g # h /\ forks[g].write /\ forks[h].write /\ forks[g].fork = forks[h].fork =>
              forks[g].cnid # forks[h].cnid
  BY DEF IInv, ForksInOrder
<1> PICK fk : fk = Put(forks, handles + 1, f)
  OBVIOUS
<1>9. f.cnid = e.cnid /\ f.fork = fork /\ f.write = Writes(perm) /\ f.obj = ObjectAt(dk, e.path)
  OBVIOUS
<1> HIDE DEF f
<1>10. /\ DOMAIN fk = DOMAIN forks \cup {handles + 1}
       /\ \A h \in DOMAIN forks : fk[h] = forks[h] /\ h # handles + 1
       /\ fk[handles + 1] = f
  <2>1. handles + 1 \notin DOMAIN forks
    BY <1>8
  <2> QED
    BY <2>1 DEF Put
<1>11. ForksInOrder'
  <2>1. DOMAIN fk \subseteq 1..(handles + 1) /\ handles + 1 \in Nat
    BY <1>8, <1>10
  <2>2. DOMAIN vol.reverse \subseteq DOMAIN v.reverse
    <3>1. /\ DOMAIN vol.reverse = FirstCnid..(vol.next - 1) /\ vol.next \in Nat
          /\ DOMAIN v.reverse = FirstCnid..(v.next - 1) /\ v.next \in Nat
      BY <1>1, <1>2 DEF CatalogOK, Numbered
    <3> QED
      BY <1>1, <3>1 DEF FirstCnid
  <2>3. f.cnid \in DOMAIN v.reverse /\ f.write \in BOOLEAN
    BY <1>1, <1>9 DEF CatalogOK, EntriesMatch, Writes
  <2>4. \A h \in DOMAIN fk : fk[h].cnid \in DOMAIN v.reverse /\ fk[h].write \in BOOLEAN
    BY <1>8, <1>10, <2>2, <2>3
  <2>5. ASSUME NEW g \in DOMAIN forks, forks[g].write, f.write, forks[g].fork = f.fork
        PROVE  forks[g].cnid # f.cnid
    <3>1. perm = "exclusive" \/ perm = "write"
      BY <1>9, <2>5, VolumeAssumption DEF Writes
    <3> QED
      BY <1>3, <1>9, <2>5, <3>1 DEF Conflict
  <2>6. \A g, h \in DOMAIN fk :
          g # h /\ fk[g].write /\ fk[h].write /\ fk[g].fork = fk[h].fork => fk[g].cnid # fk[h].cnid
    BY <1>8, <1>10, <2>5
  <2>7. forks' = fk /\ handles' = handles + 1 /\ vol' = v
    BY <1>3, <1>6
  <2> QED
    BY <2>1, <2>4, <2>6, <2>7 DEF ForksInOrder
<1>12. ASSUME ~astray' PROVE PathsAgree(v, dk) /\ Agreed(v, dk, kn, fk)
  <2>1. ~astray /\ PathsAgree(v, dk)
    BY <1>6, <1>12 DEF AstrayKept
  <2>2. EntriesLead(v, dk) /\ DirsStored(v, dk)
    BY <2>1, AgreeParts
  <2>3. /\ KnownLead(v, disk, known) /\ KnownEntry(v, disk, known)
        /\ ForksKnown(known, forks) /\ ForksFound(v, disk, forks)
    BY <1>1, <2>1 DEF AfterScan
  <2>4. Tree(dk, m)
    BY <1>5
  <2>5. KnownLead(v, dk, known) /\ KnownEntry(v, dk, known) /\ ForksFound(v, dk, forks)
    BY <1>5, <2>3, <2>4, OldKeeps
  <2>6. KnownLead(v, dk, kn) /\ KnownEntry(v, dk, kn)
    BY <1>1, <2>2, <2>4, <2>5, NoticedKeeps
  <2>7. f.obj # None => e.path \in DOMAIN dk /\ f.obj = dk[e.path].obj
    BY <1>9 DEF ObjectAt
  <2>8. f.obj # None => f.obj \in DOMAIN kn /\ kn[f.obj] = f.cnid
    BY <1>1, <1>7, <1>9, <2>2, <2>4, <2>6, <2>7, KnownID
  <2>9. ForksKnown(kn, fk)
    BY <1>7, <1>10, <2>3, <2>8 DEF ForksKnown
  <2>10. ASSUME NEW p \in DOMAIN dk, dk[p].obj = f.obj
         PROVE  ~dk[p].dir /\ \E j \in DOMAIN v.catalog : v.catalog[j].cnid = f.cnid /\ ~v.catalog[j].dir
    <3>1. f.obj # None
      BY <2>4, <2>10 DEF Tree, None
    <3>2. p = e.path
      BY <2>4, <2>7, <2>10, <3>1 DEF Tree
    <3> QED
      BY <1>3, <1>5, <1>9, <3>2
  <2>11. ForksFound(v, dk, fk)
    BY <1>10, <2>5, <2>10 DEF ForksFound
  <2> QED
    BY <2>1, <2>6, <2>9, <2>11 DEF Agreed
<1>13. astray' \in BOOLEAN
  BY DEF AstrayKept
<1>14. forks' = fk /\ known' = kn
  BY <1>3, <1>6
<1> QED
  BY <1>1, <1>5, <1>6, <1>7, <1>11, <1>12, <1>13, <1>14 DEF IInv

\* closeFork keeps the invariant.
LEMMA CloseForkKeeps ==
    ASSUME IInv, NEW c, CloseFork(c), AstrayKept
    PROVE  IInv'
<1>1. /\ forks' = [g \in DOMAIN forks \ {c} |-> forks[g]]
      /\ disk' = disk /\ vol' = vol /\ handles' = handles /\ objects' = objects /\ known' = known
  BY DEF CloseFork
<1>2. DOMAIN forks' \subseteq DOMAIN forks /\ \A h \in DOMAIN forks' : forks'[h] = forks[h]
  BY <1>1
<1>3. ForksInOrder'
  BY <1>1, <1>2 DEF IInv, ForksInOrder
<1>4. Agreed(vol, disk, known, forks) => Agreed(vol, disk, known, forks')
  <2>1. ForksKnown(known, forks) => ForksKnown(known, forks')
    BY <1>2 DEF ForksKnown
  <2>2. ForksFound(vol, disk, forks) => ForksFound(vol, disk, forks')
    BY <1>2 DEF ForksFound
  <2> QED
    BY <2>1, <2>2 DEF Agreed
<1>5. astray' \in BOOLEAN /\ (~astray' => ~astray)
  BY DEF AstrayKept
<1> QED
  BY <1>1, <1>3, <1>4, <1>5 DEF IInv

\* invalidateAll keeps the invariant: what has an open fork stays.
LEMMA InvalidateKeeps ==
    ASSUME IInv, InvalidateAll, AstrayKept
    PROVE  IInv'
<1> PICK v : v = Invalidated
  OBVIOUS
<1>1. Looks(v) /\ UNCHANGED <<forks, handles>>
  BY DEF InvalidateAll
<1>2. CatalogOK(vol)
  BY DEF IInv
<1> DEFINE keep == {i \in DOMAIN vol.catalog : HasFork(vol.catalog[i].cnid)}
<1>3. /\ Shaped(v) /\ v.catalog = Keeping(vol.catalog, keep)
      /\ v.forward = vol.forward /\ v.reverse = vol.reverse /\ v.next = vol.next
  <2>1. vol = [catalog |-> vol.catalog, forward |-> vol.forward, reverse |-> vol.reverse,
               next |-> vol.next, scanned |-> vol.scanned]
    BY <1>2 DEF CatalogOK, Shaped
  <2> HIDE DEF keep
  <2>2. v = [vol EXCEPT !.catalog = Keeping(vol.catalog, keep), !.scanned = {}]
    BY DEF Invalidated, keep
  <2> QED
    BY <2>1, <2>2 DEF Shaped
<1>4. \A i \in DOMAIN vol.catalog : i \in keep <=> HasFork(vol.catalog[i].cnid)
  OBVIOUS
<1> HIDE DEF keep
<1>5. /\ Thinned(vol, v)
      /\ \A i \in DOMAIN vol.catalog : i \in keep =>
            \E j \in DOMAIN v.catalog : v.catalog[j] = vol.catalog[i]
  BY <1>2, <1>3, KeepingThins
<1>6. CatalogOK(v) /\ Grown(vol, v) /\ vol.next <= v.next
  BY <1>2, <1>5, ThinnedOK DEF Grown
<1>7. ASSUME ~astray
      PROVE  /\ KnownLead(v, disk, known) /\ KnownEntry(v, disk, known)
             /\ ForksKnown(known, forks) /\ ForksFound(v, disk, forks)
  <2>1. /\ KnownLead(vol, disk, known) /\ KnownEntry(vol, disk, known)
        /\ ForksKnown(known, forks) /\ ForksFound(vol, disk, forks)
    BY <1>7 DEF IInv, Agreed
  <2>2. KnownLead(v, disk, known)
    BY <1>2, <1>6, <2>1, GrownKeepsLead
  <2>3. KnownEntry(v, disk, known)
    <3> SUFFICES ASSUME NEW p \in DOMAIN disk, NEW j \in DOMAIN v.catalog, disk[p].obj \in DOMAIN known,
                        v.catalog[j].cnid = known[disk[p].obj]
                 PROVE  v.catalog[j].path = p
      BY DEF KnownEntry
    <3>1. PICK i \in DOMAIN vol.catalog : v.catalog[j] = vol.catalog[i]
      BY <1>5 DEF Thinned
    <3> QED
      BY <2>1, <3>1 DEF KnownEntry
  <2>4. ForksFound(v, disk, forks)
    <3> SUFFICES ASSUME NEW h \in DOMAIN forks, NEW q \in DOMAIN disk, disk[q].obj = forks[h].obj
                 PROVE  /\ ~disk[q].dir
                        /\ \E i \in DOMAIN v.catalog :
                              v.catalog[i].cnid = forks[h].cnid /\ ~v.catalog[i].dir
      BY DEF ForksFound
    <3>1. ~disk[q].dir
      BY <2>1 DEF ForksFound
    <3>2. PICK i \in DOMAIN vol.catalog : vol.catalog[i].cnid = forks[h].cnid /\ ~vol.catalog[i].dir
      BY <2>1 DEF ForksFound
    <3>3. HasFork(vol.catalog[i].cnid)
      BY <3>2 DEF HasFork
    <3>4. PICK j \in DOMAIN v.catalog : v.catalog[j] = vol.catalog[i]
      BY <1>4, <1>5, <3>3
    <3> QED
      BY <3>1, <3>2, <3>4
  <2> QED
    BY <2>1, <2>2, <2>3, <2>4
<1>8. AfterScan(v)
  BY <1>6, <1>7 DEF AfterScan
<1> QED
  BY <1>1, <1>8, LookKeeps

(* The host creates or deletes, and the volume does not notice. *)
LEMMA HostKeeps ==
    ASSUME IInv, NEW dk, disk' = dk, objects' \in Nat, objects <= objects', Tree(dk, objects'),
           OldOnly(dk, known), UNCHANGED <<vol, forks, handles, known>>,
           AstrayKept
    PROVE  IInv'
<1>1. CatalogOK(vol) /\ DOMAIN known \subseteq 1..objects' /\ astray' \in BOOLEAN
  BY DEF IInv, AstrayKept
<1>2. ForksInOrder'
  BY DEF IInv, ForksInOrder
<1>3. ASSUME ~astray' PROVE PathsAgree(vol, dk) /\ Agreed(vol, dk, known, forks)
  <2>1. ~astray /\ PathsAgree(vol, dk)
    BY <1>3 DEF AstrayKept
  <2>2. /\ KnownLead(vol, disk, known) /\ KnownEntry(vol, disk, known)
        /\ ForksKnown(known, forks) /\ ForksFound(vol, disk, forks)
    BY <2>1 DEF IInv, Agreed
  <2> PICK m : m = objects'
    OBVIOUS
  <2>3. Tree(dk, m)
    OBVIOUS
  <2>4. KnownLead(vol, dk, known) /\ KnownEntry(vol, dk, known) /\ ForksFound(vol, dk, forks)
    BY <2>2, <2>3, OldKeeps
  <2> QED
    BY <2>1, <2>2, <2>4 DEF Agreed
<1> QED
  BY <1>1, <1>2, <1>3 DEF IInv

\* A new file or directory of the host keeps the invariant.
LEMMA HostCreateKeeps ==
    ASSUME IInv, NEW p \in Paths, NEW b \in BOOLEAN, HostCreate(p, b),
           AstrayKept
    PROVE  IInv'
<1>1. /\ p \notin DOMAIN disk /\ IsDir(disk, Front(p)) /\ disk' = With(disk, p, b)
      /\ objects' = objects + 1 /\ UNCHANGED <<vol, forks, handles, known>>
  BY DEF HostCreate
<1>2. objects \in Nat /\ Tree(disk, objects) /\ DOMAIN known \subseteq 1..objects
  BY DEF IInv
<1>3. Tree(With(disk, p, b), objects + 1) /\ OldOnly(With(disk, p, b), known)
  BY <1>1, <1>2, TreeWith, WithOldOnly
<1>4. objects' \in Nat /\ objects <= objects' /\ Tree(With(disk, p, b), objects')
  BY <1>1, <1>2, <1>3
<1> QED
  BY <1>1, <1>3, <1>4, HostKeeps

\* A deletion by the host keeps the invariant.
LEMMA HostDeleteKeeps ==
    ASSUME IInv, NEW p \in DOMAIN disk, HostDelete(p), AstrayKept
    PROVE  IInv'
<1>1. /\ IsEmpty(disk, p) /\ disk' = Without(disk, p) /\ objects' = objects
      /\ UNCHANGED <<vol, forks, handles, known>>
  BY DEF HostDelete
<1>2. objects \in Nat /\ Tree(disk, objects)
  BY DEF IInv
<1>3. Tree(Without(disk, p), objects)
  BY <1>1, <1>2, TreeWithout
<1>4. OldOnly(Without(disk, p), known)
  BY DEF OldOnly, Without
<1>5. objects' \in Nat /\ objects <= objects' /\ Tree(Without(disk, p), objects')
  BY <1>1, <1>2, <1>3
<1> QED
  BY <1>1, <1>4, <1>5, HostKeeps

-----------------------------------------------------------------------------
(* Renames and moves.  What they make of the volume: w is v after entry i has*)
(* gone to the name n of directory d, which is at path.                      *)

MovedTo(v, i, d, n, path, w) ==
    LET e == v.catalog[i]
    IN  /\ w.next = v.next /\ w.catalog \in Seq(Entry) /\ DOMAIN w.catalog = DOMAIN v.catalog
        /\ w.reverse \in [DOMAIN v.reverse -> Key]
        /\ w.catalog[i] = [cnid |-> e.cnid, parent |-> d, name |-> n, path |-> path, dir |-> e.dir]
        /\ \A j \in DOMAIN v.catalog : j # i =>
            w.catalog[j] =
                [cnid |-> v.catalog[j].cnid, parent |-> v.catalog[j].parent, name |-> v.catalog[j].name,
                 path |-> IF e.dir /\ Below(e.path, v.catalog[j].path)
                          THEN Redirected(e.path, path, v.catalog[j].path) ELSE v.catalog[j].path,
                 dir |-> v.catalog[j].dir]
        /\ w.reverse[e.cnid] = [dir |-> d, name |-> n, path |-> path]
        /\ \A b \in DOMAIN v.reverse : b # e.cnid =>
            w.reverse[b].dir = v.reverse[b].dir /\ w.reverse[b].name = v.reverse[b].name
        /\ <<d, n>> \in DOMAIN w.forward /\ w.forward[<<d, n>>] = e.cnid
        /\ \A k \in DOMAIN w.forward : k # <<d, n>> =>
            k \in DOMAIN v.forward /\ k # <<e.parent, e.name>> /\ w.forward[k] = v.forward[k]
        /\ \A k \in DOMAIN v.forward : k # <<d, n>> /\ k # <<e.parent, e.name>> =>
            k \in DOMAIN w.forward /\ w.forward[k] = v.forward[k]

\* What the loops of rename and move do to the catalogue and the table.
LEMMA MovedIs ==
    ASSUME NEW v, CatalogOK(v), NEW i \in DOMAIN v.catalog, NEW d \in Nat,
           NEW n \in MacNames, NEW path \in Places, NEW w, w = Moved(v, i, d, n, path)
    PROVE  Shaped(w) /\ MovedTo(v, i, d, n, path, w)
<1> DEFINE e == v.catalog[i]
           c == e.cnid
<1>0. /\ v.catalog \in Seq(Entry) /\ e \in Entry
      /\ c \in DOMAIN v.reverse /\ v.reverse[c].dir = e.parent /\ v.reverse[c].name = e.name
      /\ \A j, k \in DOMAIN v.catalog : v.catalog[j].cnid = v.catalog[k].cnid => j = k
  BY DEF CatalogOK, EntriesMatch
<1> DEFINE follows == {j \in DOMAIN v.catalog \ {i} : e.dir /\ Below(e.path, v.catalog[j].path)}
           cat == [j \in DOMAIN v.catalog |->
                     IF j = i THEN [e EXCEPT !.parent = d, !.name = n, !.path = path]
                     ELSE IF j \in follows
                          THEN [v.catalog[j] EXCEPT !.path = Redirected(e.path, path, @)]
                          ELSE v.catalog[j]]
           below == {j \in DOMAIN cat : e.dir /\ Below(path, cat[j].path)}
           k0 == [dir |-> d, name |-> n, path |-> path]
           rest == [k \in DOMAIN v.forward \ {<<e.parent, e.name>>} |-> v.forward[k]]
           fwd == Put(rest, <<d, n>>, c)
           rev == [v.reverse EXCEPT ![c] = k0]
           last == [b \in DOMAIN rev |->
                      IF \E j \in below : cat[j].cnid = b
                      THEN [rev[b] EXCEPT !.path = cat[CHOOSE j \in below : cat[j].cnid = b].path]
                      ELSE rev[b]]
<1>1. /\ Shaped(w) /\ w.catalog = cat /\ w.forward = fwd /\ w.reverse = last /\ w.next = v.next
  <2> DEFINE u == [v EXCEPT !.catalog = cat]
             x == UpdateKey(u, c, d, n, path)
  <2>1. v = [catalog |-> v.catalog, forward |-> v.forward, reverse |-> v.reverse,
             next |-> v.next, scanned |-> v.scanned]
    BY DEF CatalogOK, Shaped
  <2>2. w = [x EXCEPT !.reverse = [b \in DOMAIN @ |->
                      IF \E j \in below : cat[j].cnid = b
                      THEN [@[b] EXCEPT !.path = cat[CHOOSE j \in below : cat[j].cnid = b].path]
                      ELSE @[b]]]
    BY DEF Moved
  <2> HIDE DEF cat, below
  <2>3. /\ u.catalog = cat /\ u.forward = v.forward /\ u.reverse = v.reverse /\ u.next = v.next
        /\ u.scanned = v.scanned /\ Shaped(u)
    BY <2>1 DEF Shaped
  <2>4. x = [u EXCEPT !.forward = fwd, !.reverse[c] = k0]
    <3>1. v.reverse[c].dir = e.parent /\ v.reverse[c].name = e.name
      BY <1>0
    <3> HIDE DEF u, k0, e, c
    <3>2. x = [u EXCEPT !.forward = Put([k \in DOMAIN u.forward \ {<<u.reverse[c].dir, u.reverse[c].name>>} |->
                                            u.forward[k]], <<d, n>>, c),
                        !.reverse[c] = [dir |-> d, name |-> n, path |-> path]]
      BY DEF UpdateKey
    <3>3. [k \in DOMAIN u.forward \ {<<u.reverse[c].dir, u.reverse[c].name>>} |-> u.forward[k]] = rest
      BY <2>3, <3>1
    <3> HIDE DEF rest
    <3> QED
      BY <3>2, <3>3 DEF k0
  <2> HIDE DEF u, x, fwd, k0, e, c
  <2>5. /\ x.catalog = cat /\ x.forward = fwd /\ x.reverse = [u.reverse EXCEPT ![c] = k0]
        /\ x.next = u.next /\ x.scanned = u.scanned /\ Shaped(x)
    BY <2>3, <2>4 DEF Shaped
  <2>6. x.reverse = rev
    BY <2>3, <2>5
  <2> HIDE DEF rev
  <2>7. w = [x EXCEPT !.reverse = last]
    BY <2>2, <2>6
  <2> HIDE DEF last
  <2> QED
    BY <2>3, <2>5, <2>7 DEF Shaped
<1>2. /\ DOMAIN cat = DOMAIN v.catalog
      /\ cat[i] = [cnid |-> c, parent |-> d, name |-> n, path |-> path, dir |-> e.dir]
  BY <1>0 DEF Entry
<1>2a. e = v.catalog[i] /\ c = e.cnid
  OBVIOUS
<1> HIDE DEF e, c
<1>3. ASSUME NEW j \in DOMAIN v.catalog, j # i
      PROVE  cat[j] = [cnid |-> v.catalog[j].cnid, parent |-> v.catalog[j].parent,
                       name |-> v.catalog[j].name,
                       path |-> IF e.dir /\ Below(e.path, v.catalog[j].path)
                                THEN Redirected(e.path, path, v.catalog[j].path) ELSE v.catalog[j].path,
                       dir |-> v.catalog[j].dir]
  <2> PICK f \in Entry : f = v.catalog[j]
    BY <1>0
  <2>1. cat[j] = IF e.dir /\ Below(e.path, f.path) THEN [f EXCEPT !.path = Redirected(e.path, path, @)] ELSE f
    BY <1>3
  <2>2. f = [cnid |-> f.cnid, parent |-> f.parent, name |-> f.name, path |-> f.path, dir |-> f.dir]
    BY DEF Entry
  <2> HIDE DEF cat
  <2> QED
    BY <2>1, <2>2
<1>4. \A j \in DOMAIN cat : cat[j].path \in Places /\ cat[j].cnid = v.catalog[j].cnid
  <2> SUFFICES ASSUME NEW j \in DOMAIN v.catalog PROVE cat[j].path \in Places /\ cat[j].cnid = v.catalog[j].cnid
    BY <1>2
  <2>1. CASE j = i
    BY <1>2, <1>2a, <2>1
  <2>2. CASE j # i
    <3>0. v.catalog[j] \in Entry
      BY <1>0
    <3>1. v.catalog[j].path \in Places /\ e.path \in Places /\ v.catalog[j].path \in Seq(Names)
      BY <1>0, <3>0 DEF Entry, Places
    <3>2. Redirected(e.path, path, v.catalog[j].path) \in Places
      BY <3>1, RedirectedStays
    <3> HIDE DEF cat
    <3>3. /\ cat[j].path = IF e.dir /\ Below(e.path, v.catalog[j].path)
                           THEN Redirected(e.path, path, v.catalog[j].path) ELSE v.catalog[j].path
          /\ cat[j].cnid = v.catalog[j].cnid
      <4> PICK z : z = IF e.dir /\ Below(e.path, v.catalog[j].path)
                       THEN Redirected(e.path, path, v.catalog[j].path) ELSE v.catalog[j].path
        OBVIOUS
      <4>1. cat[j] = [cnid |-> v.catalog[j].cnid, parent |-> v.catalog[j].parent,
                      name |-> v.catalog[j].name, path |-> z, dir |-> v.catalog[j].dir]
        BY <1>3, <2>2
      <4> QED
        BY <4>1
    <3> QED
      BY <3>1, <3>2, <3>3
  <2> QED
    BY <2>1, <2>2
<1> HIDE DEF cat
<1>5. ~\E j \in below : cat[j].cnid = c
  <2> SUFFICES ASSUME NEW j \in below, cat[j].cnid = c PROVE FALSE
    OBVIOUS
  <2>1. j = i
    BY <1>0, <1>2, <1>4
  <2>2. Below(path, path)
    BY <1>2, <2>1
  <2>3. path \in Seq(Names)
    BY DEF Places
  <2> QED
    BY <2>2, <2>3, BelowIs
<1>6. \A b \in DOMAIN v.reverse : v.reverse[b] \in Key
  BY DEF CatalogOK, Numbered
<1>7. DOMAIN rev = DOMAIN v.reverse /\ rev[c] = k0 /\ \A b \in DOMAIN v.reverse : b # c => rev[b] = v.reverse[b]
  BY <1>0
<1> HIDE DEF rev
<1>8. DOMAIN last = DOMAIN v.reverse /\ last[c] = k0
  <2> HIDE DEF below, k0
  <2> QED
    BY <1>0, <1>5, <1>7
<1>9. ASSUME NEW b \in DOMAIN v.reverse, b # c
      PROVE  last[b].dir = v.reverse[b].dir /\ last[b].name = v.reverse[b].name /\ last[b] \in Key
  <2> PICK k \in Key : k = v.reverse[b]
    BY <1>6
  <2>1. rev[b] = k
    BY <1>7, <1>9
  <2>2. k = [dir |-> k.dir, name |-> k.name, path |-> k.path]
    BY DEF Key
  <2> PICK j0 : j0 = CHOOSE j \in below : cat[j].cnid = b
    OBVIOUS
  <2>3. (\E j \in below : cat[j].cnid = b) => j0 \in below
    <3> HIDE DEF below
    <3> QED
      OBVIOUS
  <2>4. (\E j \in below : cat[j].cnid = b) => cat[j0].path \in Places
    BY <1>4, <2>3
  <2> HIDE DEF below
  <2>5. last[b] = IF \E j \in below : cat[j].cnid = b THEN [k EXCEPT !.path = cat[j0].path] ELSE k
    BY <1>7, <2>1
  <2> HIDE DEF last
  <2> QED
    BY <2>2, <2>4, <2>5 DEF Key
<1>9a. last \in [DOMAIN v.reverse -> Key]
  <2>1. k0 \in Key
    BY DEF Key
  <2>2. \A b \in DOMAIN v.reverse : last[b] \in Key
    <3> HIDE DEF last, k0
    <3> QED
      BY <1>8, <1>9, <2>1
  <2>3. last = [b \in DOMAIN last |-> last[b]]
    OBVIOUS
  <2> HIDE DEF last
  <2> QED
    BY <1>8, <2>2, <2>3
<1> HIDE DEF last
<1>9b. cat \in Seq(Entry)
  <2>1. \A j \in DOMAIN v.catalog : v.catalog[j] \in Entry
    BY <1>0
  <2>2. ASSUME NEW j \in DOMAIN v.catalog PROVE cat[j] \in Entry
    <3>1. CASE j = i
      BY <1>0, <1>2, <1>2a, <3>1 DEF Entry
    <3>2. CASE j # i
      <4>1. cat[j].path \in Places
        BY <1>2, <1>4
      <4>2. v.catalog[j] \in Entry
        BY <2>1
      <4> PICK f : f = v.catalog[j]
        OBVIOUS
      <4> PICK y : y = cat[j].path
        OBVIOUS
      <4> PICK z : z = IF e.dir /\ Below(e.path, f.path) THEN Redirected(e.path, path, f.path) ELSE f.path
        OBVIOUS
      <4>3. cat[j] = [cnid |-> f.cnid, parent |-> f.parent, name |-> f.name, path |-> z, dir |-> f.dir]
        BY <1>3, <3>2
      <4>4. z \in Places
        BY <4>1, <4>3
      <4> QED
        BY <4>2, <4>3, <4>4 DEF Entry
    <3> QED
      BY <3>1, <3>2
  <2>3. cat = [j \in DOMAIN v.catalog |-> cat[j]]
    BY DEF cat
  <2>4. DOMAIN v.catalog = 1..Len(v.catalog) /\ Len(v.catalog) \in Nat
    BY <1>0
  <2>5. cat \in [1..Len(v.catalog) -> Entry]
    BY <2>2, <2>3, <2>4
  <2> QED
    BY <2>4, <2>5, SeqDef
<1>10. /\ <<d, n>> \in DOMAIN fwd /\ fwd[<<d, n>>] = c
       /\ \A k \in DOMAIN fwd : k # <<d, n>> =>
            k \in DOMAIN v.forward /\ k # <<e.parent, e.name>> /\ fwd[k] = v.forward[k]
       /\ \A k \in DOMAIN v.forward : k # <<d, n>> /\ k # <<e.parent, e.name>> =>
            k \in DOMAIN fwd /\ fwd[k] = v.forward[k]
  <2> DEFINE t == <<d, n>>
             o == <<e.parent, e.name>>
  <2>1. fwd = Put([k \in DOMAIN v.forward \ {o} |-> v.forward[k]], t, c)
    OBVIOUS
  <2> HIDE DEF t, o, fwd
  <2>2. /\ t \in DOMAIN fwd /\ fwd[t] = c
        /\ \A k \in DOMAIN fwd : k # t => k \in DOMAIN v.forward /\ k # o /\ fwd[k] = v.forward[k]
        /\ \A k \in DOMAIN v.forward : k # t /\ k # o => k \in DOMAIN fwd /\ fwd[k] = v.forward[k]
    BY <2>1 DEF Put
  <2> QED
    BY <2>2 DEF t, o
<1> HIDE DEF fwd
<1> QED
  BY <1>1, <1>2, <1>2a, <1>3, <1>8, <1>9, <1>9a, <1>9b, <1>10 DEF MovedTo

\* They leave the catalogue in order.
LEMMA MovedOK ==
    ASSUME NEW v, CatalogOK(v), NEW i \in DOMAIN v.catalog, NEW d \in Nat, d < v.next,
           NEW n \in MacNames, NEW path \in Places, NEW w, Shaped(w), MovedTo(v, i, d, n, path, w)
    PROVE  CatalogOK(w)
<1> PICK e : e = v.catalog[i]
  OBVIOUS
<1>0. /\ v.catalog \in Seq(Entry) /\ e \in Entry /\ e.cnid \in DOMAIN v.reverse
      /\ v.next \in Nat /\ v.next >= FirstCnid /\ v.reverse \in [FirstCnid..(v.next - 1) -> Key]
      /\ v.reverse[e.cnid].dir = e.parent /\ v.reverse[e.cnid].name = e.name
  BY DEF CatalogOK, EntriesMatch, Numbered
<1>1. /\ w.next = v.next /\ w.catalog \in Seq(Entry) /\ DOMAIN w.catalog = DOMAIN v.catalog
      /\ w.reverse \in [DOMAIN v.reverse -> Key]
      /\ w.catalog[i] = [cnid |-> e.cnid, parent |-> d, name |-> n, path |-> path, dir |-> e.dir]
      /\ w.reverse[e.cnid] = [dir |-> d, name |-> n, path |-> path]
      /\ \A b \in DOMAIN v.reverse : b # e.cnid =>
            w.reverse[b].dir = v.reverse[b].dir /\ w.reverse[b].name = v.reverse[b].name
  BY DEF MovedTo
<1>2. \A j \in DOMAIN v.catalog : j # i =>
        /\ w.catalog[j].cnid = v.catalog[j].cnid /\ w.catalog[j].parent = v.catalog[j].parent
        /\ w.catalog[j].name = v.catalog[j].name
  <2>1. \A j \in DOMAIN v.catalog : j # i =>
            w.catalog[j] =
                [cnid |-> v.catalog[j].cnid, parent |-> v.catalog[j].parent, name |-> v.catalog[j].name,
                 path |-> IF e.dir /\ Below(e.path, v.catalog[j].path)
                          THEN Redirected(e.path, path, v.catalog[j].path) ELSE v.catalog[j].path,
                 dir |-> v.catalog[j].dir]
    BY DEF MovedTo
  <2> SUFFICES ASSUME NEW j \in DOMAIN v.catalog, j # i
               PROVE  /\ w.catalog[j].cnid = v.catalog[j].cnid /\ w.catalog[j].parent = v.catalog[j].parent
                      /\ w.catalog[j].name = v.catalog[j].name
    OBVIOUS
  <2> PICK z : z = IF e.dir /\ Below(e.path, v.catalog[j].path)
                   THEN Redirected(e.path, path, v.catalog[j].path) ELSE v.catalog[j].path
    OBVIOUS
  <2>2. w.catalog[j] = [cnid |-> v.catalog[j].cnid, parent |-> v.catalog[j].parent,
                        name |-> v.catalog[j].name, path |-> z, dir |-> v.catalog[j].dir]
    BY <2>1
  <2> QED
    BY <2>2
<1>3. /\ <<d, n>> \in DOMAIN w.forward /\ w.forward[<<d, n>>] = e.cnid
      /\ \A k \in DOMAIN w.forward : k # <<d, n>> =>
            k \in DOMAIN v.forward /\ k # <<e.parent, e.name>> /\ w.forward[k] = v.forward[k]
  BY DEF MovedTo
<1>4. Numbered(w)
  <2>1. \A b \in DOMAIN v.reverse : v.reverse[b].dir < v.next
    BY DEF CatalogOK, Numbered
  <2>2. DOMAIN w.reverse = DOMAIN v.reverse /\ DOMAIN v.reverse = FirstCnid..(v.next - 1)
    BY <1>0, <1>1
  <2>3. \A b \in DOMAIN w.reverse : w.reverse[b].dir < w.next
    BY <1>1, <2>1, <2>2
  <2> QED
    BY <1>0, <1>1, <2>2, <2>3 DEF Numbered
<1>5. PairsMatch(w)
  <2> SUFFICES ASSUME NEW k \in DOMAIN w.forward
               PROVE  /\ w.forward[k] \in DOMAIN w.reverse
                      /\ k = <<w.reverse[w.forward[k]].dir, w.reverse[w.forward[k]].name>>
    BY DEF PairsMatch
  <2>1. CASE k = <<d, n>>
    BY <1>0, <1>1, <1>3, <2>1
  <2>2. CASE k # <<d, n>>
    <3>1. k \in DOMAIN v.forward /\ k # <<e.parent, e.name>> /\ w.forward[k] = v.forward[k]
      BY <1>3, <2>2
    <3>2. /\ v.forward[k] \in DOMAIN v.reverse
          /\ k = <<v.reverse[v.forward[k]].dir, v.reverse[v.forward[k]].name>>
      BY <3>1 DEF CatalogOK, PairsMatch
    <3>3. v.forward[k] # e.cnid
      BY <1>0, <3>1, <3>2
    <3> QED
      BY <1>1, <3>1, <3>2, <3>3
  <2> QED
    BY <2>1, <2>2
<1>6. EntriesMatch(w)
  <2>1. \A j, k \in DOMAIN v.catalog : v.catalog[j].cnid = v.catalog[k].cnid => j = k
    BY DEF CatalogOK, EntriesMatch
  <2>2. \A j \in DOMAIN v.catalog : w.catalog[j].cnid = v.catalog[j].cnid
    BY <1>1, <1>2
  <2>3. \A j, k \in DOMAIN w.catalog : w.catalog[j].cnid = w.catalog[k].cnid => j = k
    BY <1>1, <2>1, <2>2
  <2>4. ASSUME NEW j \in DOMAIN w.catalog
        PROVE  LET f == w.catalog[j]
               IN  /\ f.cnid \in DOMAIN w.reverse
                   /\ w.reverse[f.cnid].dir = f.parent /\ w.reverse[f.cnid].name = f.name
    <3>1. CASE j = i
      BY <1>0, <1>1, <3>1
    <3>2. CASE j # i
      <4>1. /\ v.catalog[j].cnid \in DOMAIN v.reverse
            /\ v.reverse[v.catalog[j].cnid].dir = v.catalog[j].parent
            /\ v.reverse[v.catalog[j].cnid].name = v.catalog[j].name
        BY <1>1 DEF CatalogOK, EntriesMatch
      <4>2. v.catalog[j].cnid # e.cnid
        BY <1>1, <2>1, <3>2
      <4>3. /\ w.catalog[j].cnid = v.catalog[j].cnid /\ w.catalog[j].parent = v.catalog[j].parent
            /\ w.catalog[j].name = v.catalog[j].name
        BY <1>1, <1>2, <3>2
      <4> QED
        BY <1>1, <4>1, <4>2, <4>3
    <3> QED
      BY <3>1, <3>2
  <2> QED
    BY <1>1, <2>3, <2>4 DEF EntriesMatch
<1> QED
  BY <1>4, <1>5, <1>6 DEF CatalogOK

(* Where a move takes what the table says of the places below. *)

RenameOf(v, i, d, n, path, w, dk) ==
    /\ CatalogOK(v) /\ CatalogOK(w) /\ MovedTo(v, i, d, n, path, w)
    /\ i \in DOMAIN v.catalog
    /\ CanRename(disk, v.catalog[i].path, path) /\ dk = Renamed(disk, v.catalog[i].path, path)
    /\ path \in Places /\ MacNameOf(path) = n /\ Front(path) \in StoredPath(v, d)
    /\ NoNamesakes(disk) /\ EntriesLead(v, disk) /\ DirsStored(v, disk)
    /\ NoNamesakes(dk) /\ EntriesLead(w, dk) /\ DirsStored(w, dk) /\ KindsKept(w, dk)

\* A home is the root, or where its own pair leads.
LEMMA DirHome ==
    ASSUME NEW v, CatalogOK(v), NEW dk, NEW n, Tree(dk, n), DirsStored(v, dk),
           NEW p, IsDir(dk, p), NEW a, p \in Home(v, a)
    PROVE  /\ p = <<>> => a = kRootDirID
           /\ p # <<>> =>
                /\ Live(v, a) /\ p \in DOMAIN dk /\ dk[p].dir /\ p \in Places /\ Len(p) \in 1..MaxDepth
                /\ Leads(v, v.reverse[a].dir, v.reverse[a].name, a, p)
                /\ IsDir(dk, Front(p)) /\ Front(p) \in Home(v, v.reverse[a].dir)
<1>1. CASE a = kRootDirID
  BY <1>1, HomeIs
<1>2. CASE a # kRootDirID
  <2>1. Live(v, a) /\ p = v.reverse[a].path
    BY <1>2, HomeIs
  <2>2. p \in Places /\ p # <<>>
    BY <2>1 DEF Live, CatalogOK, Numbered, Key, Places
  <2>3. p \in DOMAIN dk /\ dk[p].dir
    BY <2>2 DEF IsDir
  <2>4. Len(p) \in 1..MaxDepth
    BY <2>2, <2>3, PathIs, FrontIs, VolumeAssumption DEF Tree
  <2>5. Leads(v, v.reverse[a].dir, v.reverse[a].name, a, p)
    BY <2>1, <2>3 DEF DirsStored, Live
  <2>6. Front(p) \in Home(v, v.reverse[a].dir)
    BY <2>5 DEF Leads
  <2>7. IsDir(dk, Front(p))
    BY <2>3 DEF Tree
  <2> QED
    BY <2>1, <2>2, <2>3, <2>4, <2>5, <2>6, <2>7
<1> QED
  BY <1>1, <1>2

(* A pair that leads to another place still means its ID. *)
LEMMA PairKept ==
    ASSUME NEW v, NEW i, NEW d, NEW n, NEW path, NEW w, NEW dk, RenameOf(v, i, d, n, path, w, dk),
           Tree(disk, objects), NEW q \in DOMAIN disk, q # path, q # v.catalog[i].path,
           NEW a, NEW x, NEW g, Leads(v, a, x, g, q)
    PROVE  /\ Means(w, a, x, g) /\ g # v.catalog[i].cnid /\ Live(w, g)
           /\ g \in DOMAIN v.reverse /\ w.reverse[g].dir = a /\ w.reverse[g].name = x
<1> PICK e : e = v.catalog[i]
  OBVIOUS
<1>0. /\ CatalogOK(v) /\ CatalogOK(w) /\ EntriesLead(v, disk) /\ i \in DOMAIN v.catalog
      /\ CanRename(disk, e.path, path) /\ dk = Renamed(disk, e.path, path) /\ e.path \in DOMAIN disk
      /\ path \in Places /\ MacNameOf(path) = n /\ Front(path) \in StoredPath(v, d)
      /\ NoNamesakes(disk) /\ NoNamesakes(dk)
  BY DEF RenameOf, CanRename
<1>1. Leads(v, e.parent, e.name, e.cnid, e.path)
  BY <1>0 DEF EntriesLead
<1>2. q \in Places /\ e.path \in Places
  BY <1>0, PathIs DEF Tree
<1>3. <<a, x>> # <<e.parent, e.name>>
  <2> SUFFICES ASSUME a = e.parent, x = e.name PROVE FALSE
    OBVIOUS
  <2>1. Leads(v, e.parent, e.name, g, q)
    OBVIOUS
  <2>2. q = e.path
    BY <1>0, <1>1, <2>1, LeadsOnce DEF NoNamesakes
  <2> QED
    BY <2>2
<1>4. <<a, x>> # <<d, n>>
  <2> SUFFICES ASSUME a = d, x = n PROVE FALSE
    OBVIOUS
  <2>1. MacNameOf(q) = n /\ Front(q) \in StoredPath(v, d)
    BY HomeIs DEF Leads
  <2>2. Front(q) = Front(path)
    BY <1>0, <2>1, HomeIs
  <2>3. ~Below(e.path, q)
    <3>1. ~Below(e.path, path) /\ e.path \in Seq(Names)
      BY <1>0, <1>2 DEF CanRename, Places
    <3> QED
      BY <1>0, <1>2, <2>2, <3>1, BelowFront
  <2>4. Redirected(e.path, path, q) = q /\ Redirected(e.path, path, e.path) = path
    BY <1>0, <1>2, <2>3, RedirectedStays DEF Places
  <2>5. q \in DOMAIN dk /\ path \in DOMAIN dk
    BY <1>0, <2>4, RenamedIs
  <2>6. q = path
    BY <1>0, <2>1, <2>2, <2>5 DEF NoNamesakes
  <2> QED
    BY <2>6
<1>5. <<a, x>> \in DOMAIN v.forward /\ v.forward[<<a, x>>] = g
  BY DEF Leads, Means
<1>6. Means(w, a, x, g)
  <2>1. \A k \in DOMAIN v.forward : k # <<d, n>> /\ k # <<e.parent, e.name>> =>
            k \in DOMAIN w.forward /\ w.forward[k] = v.forward[k]
    BY DEF RenameOf, MovedTo
  <2> QED
    BY <1>3, <1>4, <1>5, <2>1 DEF Means
<1>7. g \in DOMAIN w.reverse /\ w.reverse[g].dir = a /\ w.reverse[g].name = x /\ Live(w, g)
  BY <1>0, <1>6, MeansPair
<1>8. g \in DOMAIN v.reverse /\ v.reverse[g].dir = a /\ v.reverse[g].name = x
  BY <1>0, <1>5, MeansPair DEF Means
<1>9. v.reverse[e.cnid].dir = e.parent /\ v.reverse[e.cnid].name = e.name
  BY <1>0 DEF CatalogOK, EntriesMatch
<1> QED
  BY <1>3, <1>6, <1>7, <1>8, <1>9

\* A directory that moved is at home where it was redirected to: up the tree.
LEMMA HomeMoves ==
    ASSUME NEW v, NEW i, NEW d, NEW n, NEW path, NEW w, NEW dk, RenameOf(v, i, d, n, path, w, dk),
           Tree(disk, objects), NEW f, IsDir(disk, f), f # path \/ f = v.catalog[i].path,
           NEW g, f \in Home(v, g)
    PROVE  Redirected(v.catalog[i].path, path, f) \in Home(w, g)
<1> PICK e : e = v.catalog[i]
  OBVIOUS
<1> DEFINE R(q) == Redirected(e.path, path, q)
           G == {m \in 0..MaxDepth : \A p, a :
                    IsDir(disk, p) /\ Len(p) <= m /\ (p # path \/ p = e.path) /\ p \in Home(v, a)
                        => R(p) \in Home(w, a)}
<1>0. /\ CatalogOK(v) /\ CatalogOK(w) /\ MovedTo(v, i, d, n, path, w) /\ i \in DOMAIN v.catalog
      /\ CanRename(disk, e.path, path) /\ dk = Renamed(disk, e.path, path)
      /\ path \in Places /\ MacNameOf(path) = n
      /\ EntriesLead(v, disk) /\ DirsStored(v, disk) /\ EntriesLead(w, dk) /\ DirsStored(w, dk)
  BY DEF RenameOf
<1>1. e.path \in DOMAIN disk /\ e.path \in Places
  BY <1>0, PathIs DEF CanRename, Tree
<1>2. MaxDepth \in Nat
  BY VolumeAssumption
<1>3. /\ w.catalog[i] = [cnid |-> e.cnid, parent |-> d, name |-> n, path |-> path, dir |-> e.dir]
      /\ w.reverse[e.cnid] = [dir |-> d, name |-> n, path |-> path]
      /\ DOMAIN w.reverse = DOMAIN v.reverse /\ DOMAIN w.catalog = DOMAIN v.catalog
      /\ Means(w, d, n, e.cnid) /\ e.cnid \in DOMAIN v.reverse
  <2>1. e.cnid \in DOMAIN v.reverse
    BY <1>0 DEF CatalogOK, EntriesMatch
  <2> QED
    BY <1>0, <2>1 DEF MovedTo, Means
<1>4. Live(w, e.cnid) /\ e.cnid # kRootDirID
  <2>1. e.cnid \in 17..(v.next - 1) /\ v.next \in Nat
    BY <1>0, <1>3 DEF CatalogOK, Numbered, FirstCnid
  <2> QED
    BY <1>3, <2>1 DEF Live, kRootDirID
<1>5. ASSUME NEW p, p = <<>>, NEW a, p \in Home(v, a) PROVE R(p) \in Home(w, a)
  <2>1. IsDir(disk, p)
    BY <1>5 DEF IsDir
  <2>2. a = kRootDirID
    BY <1>0, <1>5, <2>1, DirHome
  <2>3. R(p) = <<>>
    <3>1. <<>> \in Seq(Names)
      OBVIOUS
    <3> QED
      BY <1>0, <1>1, <1>5, <3>1, RedirectedStays
  <2> QED
    BY <2>2, <2>3, HomeIs
<1>6. 0 \in G
  <2>1. ASSUME NEW p, IsDir(disk, p), Len(p) <= 0, NEW a, p \in Home(v, a) PROVE p = <<>>
    <3>1. p # <<>> => Len(p) \in 1..MaxDepth
      BY <1>0, <2>1, DirHome
    <3> QED
      BY <1>2, <2>1, <3>1
  <2> QED
    BY <1>2, <1>5, <2>1
<1>7. ASSUME NEW m \in 0..MaxDepth, m \in G, m < MaxDepth PROVE m + 1 \in G
  <2>1. ASSUME NEW p, NEW a, IsDir(disk, p), Len(p) <= m + 1, p # path \/ p = e.path, p \in Home(v, a)
        PROVE  R(p) \in Home(w, a)
    <3>1. CASE p = <<>>
      BY <1>5, <2>1, <3>1
    <3>2. CASE p # <<>>
      <4> PICK b : b = v.reverse[a].dir
        OBVIOUS
      <4> PICK x : x = v.reverse[a].name
        OBVIOUS
      <4>1. /\ Live(v, a) /\ p \in DOMAIN disk /\ disk[p].dir /\ p \in Places /\ Len(p) \in 1..MaxDepth
            /\ Leads(v, b, x, a, p)
            /\ IsDir(disk, Front(p)) /\ Front(p) \in Home(v, b)
        BY <1>0, <2>1, <3>2, DirHome
      <4>2. R(p) \in DOMAIN dk /\ dk[R(p)] = disk[p]
        BY <1>0, <1>1, <2>1, <4>1, RenamedIs
      <4>3. CASE p = e.path
        <5>1. Leads(v, e.parent, e.name, e.cnid, p)
          BY <1>0, <1>1, <4>3 DEF EntriesLead
        <5>2. a = e.cnid
          BY <1>0, <4>1, <5>1, OnePair
        <5>3. R(p) = path
          <6>1. p \in Seq(Names)
            BY <4>1 DEF Places
          <6> QED
            BY <1>0, <1>1, <4>3, <6>1, RedirectedStays
        <5>4. Home(w, e.cnid) = {w.reverse[e.cnid].path}
          BY <1>4, HomeIs
        <5> QED
          BY <1>3, <5>2, <5>3, <5>4
      <4>4. CASE p # e.path
        <5>1. /\ Means(w, b, x, a) /\ a # e.cnid /\ Live(w, a)
              /\ a \in DOMAIN v.reverse /\ w.reverse[a].dir = b /\ w.reverse[a].name = x
          BY <2>1, <4>1, <4>4, PairKept
        <5>2. Front(p) # path \/ Front(p) = e.path
          <6> SUFFICES ASSUME Front(p) = path, path # e.path PROVE FALSE
            OBVIOUS
          <6>1. path \in DOMAIN disk
            BY <1>0, <4>1 DEF IsDir, Places
          <6>2. IsEmpty(disk, path)
            BY <1>0, <6>1 DEF CanRename
          <6>3. path \in Seq(Names)
            BY <1>0 DEF Places
          <6>4. Below(path, p)
            BY <4>1, <6>3, BelowFront
          <6> QED
            BY <4>1, <6>2, <6>4 DEF IsEmpty
        <5>3. Len(Front(p)) <= m
          BY <2>1, <4>1, FrontIs
        <5>4. R(Front(p)) \in Home(w, b)
          BY <1>7, <4>1, <5>2, <5>3
        <5>5. Front(R(p)) = R(Front(p)) /\ MacNameOf(R(p)) = MacNameOf(p)
          BY <1>0, <1>1, <4>1, <4>4, RedirectedStep DEF MacNameOf
        <5>6. MacNameOf(p) = x
          BY <4>1 DEF Leads
        <5> HIDE DEF R
        <5>7. Leads(w, b, x, a, R(p))
          BY <5>1, <5>4, <5>5, <5>6 DEF Leads
        <5>8. w.reverse[a].path = R(p)
          BY <1>0, <4>1, <4>2, <5>1, <5>7 DEF DirsStored, Live
        <5>9. a # kRootDirID
          <6>1. a \in 17..(v.next - 1) /\ v.next \in Nat
            BY <1>0, <5>1 DEF CatalogOK, Numbered, FirstCnid
          <6> QED
            BY <6>1 DEF kRootDirID
        <5>10. Home(w, a) = {w.reverse[a].path}
          BY <5>1, <5>9, HomeIs
        <5> QED
          BY <5>8, <5>10
      <4> QED
        BY <4>3, <4>4
    <3> QED
      BY <3>1, <3>2
  <2> HIDE DEF R
  <2> QED
    BY <1>2, <1>7, <2>1
<1> HIDE DEF G
<1>8. MaxDepth \in G
  BY <1>2, <1>6, <1>7, Upwards
<1>9. Len(f) <= MaxDepth
  <2>1. f # <<>> => Len(f) \in 1..MaxDepth
    BY <1>0, DirHome
  <2> QED
    BY <1>2, <2>1
<1> QED
  BY <1>8, <1>9 DEF G, R

\* A rename keeps IDs and forks with the objects that move.
LEMMA RenameKeepsKnown ==
    ASSUME NEW v, NEW i, NEW d, NEW n, NEW path, NEW w, NEW dk, RenameOf(v, i, d, n, path, w, dk),
           Tree(disk, objects), NEW kn, NEW fk,
           KnownLead(v, disk, kn), KnownEntry(v, disk, kn), ForksFound(v, disk, fk)
    PROVE  KnownLead(w, dk, kn) /\ KnownEntry(w, dk, kn) /\ ForksFound(w, dk, fk)
<1> PICK e : e = v.catalog[i]
  OBVIOUS
<1> PICK from : from = e.path
  OBVIOUS
<1>0. /\ CatalogOK(v) /\ CatalogOK(w) /\ MovedTo(v, i, d, n, path, w) /\ i \in DOMAIN v.catalog
      /\ CanRename(disk, from, path) /\ dk = Renamed(disk, from, path)
      /\ path \in Places /\ MacNameOf(path) = n
      /\ EntriesLead(v, disk) /\ DirsStored(v, disk)
      /\ EntriesLead(w, dk) /\ DirsStored(w, dk) /\ KindsKept(w, dk)
  BY DEF RenameOf
<1>1. from \in DOMAIN disk /\ from \in Places /\ from \in Seq(Names)
  BY <1>0, PathIs DEF CanRename, Tree, Places
<1>2. /\ w.catalog[i] = [cnid |-> e.cnid, parent |-> d, name |-> n, path |-> path, dir |-> e.dir]
      /\ w.reverse[e.cnid] = [dir |-> d, name |-> n, path |-> path]
      /\ DOMAIN w.reverse = DOMAIN v.reverse /\ DOMAIN w.catalog = DOMAIN v.catalog
      /\ e.cnid \in DOMAIN v.reverse
      /\ \A j, k \in DOMAIN v.catalog : v.catalog[j].cnid = v.catalog[k].cnid => j = k
  <2>1. /\ e.cnid \in DOMAIN v.reverse
        /\ \A j, k \in DOMAIN v.catalog : v.catalog[j].cnid = v.catalog[k].cnid => j = k
    BY <1>0 DEF CatalogOK, EntriesMatch
  <2> QED
    BY <1>0, <2>1 DEF MovedTo
<1>3. ASSUME NEW j \in DOMAIN v.catalog, j # i
      PROVE  /\ w.catalog[j].cnid = v.catalog[j].cnid /\ w.catalog[j].dir = v.catalog[j].dir
             /\ w.catalog[j].path = IF e.dir /\ Below(from, v.catalog[j].path)
                                    THEN Redirected(from, path, v.catalog[j].path)
                                    ELSE v.catalog[j].path
  <2> PICK z : z = IF e.dir /\ Below(from, v.catalog[j].path)
                   THEN Redirected(from, path, v.catalog[j].path) ELSE v.catalog[j].path
    OBVIOUS
  <2>1. w.catalog[j] = [cnid |-> v.catalog[j].cnid, parent |-> v.catalog[j].parent,
                        name |-> v.catalog[j].name, path |-> z, dir |-> v.catalog[j].dir]
    BY <1>0, <1>3 DEF MovedTo
  <2> QED
    BY <2>1
<1>4. ASSUME NEW s \in DOMAIN dk
      PROVE  \E q \in DOMAIN disk :
                (q # path \/ q = from) /\ s = Redirected(from, path, q) /\ dk[s] = disk[q] /\ q \in Places
  <2>1. PICK q \in DOMAIN disk :
            (q # path \/ q = from) /\ s = Redirected(from, path, q) /\ dk[s] = disk[q]
    BY <1>0, <1>1, RenamedIs
  <2>2. q \in Places
    BY PathIs DEF Tree
  <2> QED
    BY <2>1, <2>2
<1>5. path \in DOMAIN dk /\ dk[path] = disk[from] /\ Redirected(from, path, from) = path
  <2>1. Redirected(from, path, from) = path
    BY <1>0, <1>1, RedirectedStays
  <2>2. Redirected(from, path, from) \in DOMAIN dk /\ dk[Redirected(from, path, from)] = disk[from]
    BY <1>0, <1>1, RenamedIs
  <2> QED
    BY <2>1, <2>2
<1>6. disk[from].obj \in DOMAIN kn => kn[disk[from].obj] = e.cnid
  BY <1>0, <1>1, KnownID
<1>7. KnownLead(w, dk, kn)
  <2> SUFFICES ASSUME NEW s \in DOMAIN dk, dk[s].obj \in DOMAIN kn, NEW b, b = kn[dk[s].obj]
               PROVE  b \in DOMAIN w.reverse /\ Leads(w, w.reverse[b].dir, w.reverse[b].name, b, s)
    BY DEF KnownLead
  <2>1. PICK q \in DOMAIN disk :
            (q # path \/ q = from) /\ s = Redirected(from, path, q) /\ dk[s] = disk[q] /\ q \in Places
    BY <1>4
  <2>2. CASE q = from
    <3>1. s = path /\ b = e.cnid
      BY <1>5, <1>6, <2>1, <2>2
    <3>2. Leads(w, d, n, e.cnid, path)
      BY <1>0, <1>2, <1>5 DEF EntriesLead
    <3> QED
      BY <1>2, <3>1, <3>2
  <2>3. CASE q # from
    <3> PICK a : a = v.reverse[b].dir
      OBVIOUS
    <3> PICK x : x = v.reverse[b].name
      OBVIOUS
    <3>1. b \in DOMAIN v.reverse /\ Leads(v, a, x, b, q)
      BY <2>1 DEF KnownLead
    <3>2. Means(w, a, x, b) /\ w.reverse[b].dir = a /\ w.reverse[b].name = x
      BY <2>1, <2>3, <3>1, PairKept
    <3>3. Front(q) \in Home(v, a) /\ MacNameOf(q) = x
      BY <3>1 DEF Leads
    <3>4. IsDir(disk, Front(q))
      BY DEF Tree
    <3>5. Front(q) # path \/ Front(q) = from
      <4> SUFFICES ASSUME Front(q) = path, path # from PROVE FALSE
        OBVIOUS
      <4>1. path \in DOMAIN disk
        BY <1>0, <3>4 DEF IsDir, Places
      <4>2. IsEmpty(disk, path)
        BY <1>0, <4>1 DEF CanRename
      <4>3. path \in Seq(Names)
        BY <1>0 DEF Places
      <4>4. Below(path, q)
        BY <2>1, <4>3, BelowFront
      <4> QED
        BY <4>2, <4>4 DEF IsEmpty
    <3>6. Redirected(from, path, Front(q)) \in Home(w, a)
      BY <3>3, <3>4, <3>5, HomeMoves
    <3>7. Front(s) = Redirected(from, path, Front(q)) /\ MacNameOf(s) = MacNameOf(q)
      BY <1>0, <1>1, <2>1, <2>3, RedirectedStep DEF MacNameOf
    <3> QED
      BY <1>2, <3>1, <3>2, <3>3, <3>6, <3>7 DEF Leads
  <2> QED
    BY <2>2, <2>3
<1>8. KnownEntry(w, dk, kn)
  <2> SUFFICES ASSUME NEW s \in DOMAIN dk, NEW j \in DOMAIN w.catalog, dk[s].obj \in DOMAIN kn,
                      w.catalog[j].cnid = kn[dk[s].obj]
               PROVE  w.catalog[j].path = s
    BY DEF KnownEntry
  <2>1. PICK q \in DOMAIN disk :
            (q # path \/ q = from) /\ s = Redirected(from, path, q) /\ dk[s] = disk[q] /\ q \in Places
    BY <1>4
  <2>2. v.catalog[j].path = q
    <3>1. w.catalog[j].cnid = v.catalog[j].cnid
      BY <1>2, <1>3
    <3> QED
      BY <1>2, <2>1, <3>1 DEF KnownEntry
  <2>3. CASE j = i
    BY <1>2, <1>5, <2>1, <2>2, <2>3
  <2>4. CASE j # i
    <3>1. q # from
      <4>0. SUFFICES ASSUME q = from PROVE FALSE
        OBVIOUS
      <4>1. kn[dk[s].obj] = e.cnid
        BY <1>6, <2>1, <4>0
      <4>2. w.catalog[j].cnid = v.catalog[j].cnid
        BY <1>2, <1>3, <2>4
      <4>3. w.catalog[j].cnid = v.catalog[i].cnid
        <5>1. v.catalog[i].cnid = e.cnid
          OBVIOUS
        <5>2. dk[s].obj = disk[from].obj
          BY <2>1, <4>0
        <5> QED
          BY <4>1, <5>1, <5>2
      <4>4. j \in DOMAIN v.catalog /\ v.catalog[j].cnid = v.catalog[i].cnid
        BY <1>2, <4>2, <4>3
      <4> QED
        BY <1>0, <1>2, <2>4, <4>4
    <3>2. CASE Below(from, q)
      <4>1. disk[from].dir
        BY <1>1, <3>2, Ancestors
      <4>2. e.dir
        <5>1. w.catalog[i].path = path /\ w.catalog[i].dir = e.dir /\ i \in DOMAIN w.catalog
          BY <1>0, <1>2
        <5>2. path \in DOMAIN dk /\ dk[path].dir
          BY <1>5, <4>1
        <5> QED
          BY <1>0, <5>1, <5>2 DEF KindsKept
      <4> QED
        BY <1>2, <1>3, <2>1, <2>2, <2>4, <3>2, <4>2
    <3>3. CASE ~Below(from, q)
      <4>1. q \in Seq(Names)
        BY <2>1 DEF Places
      <4>2. Redirected(from, path, q) = q
        BY <1>0, <1>1, <3>1, <3>3, <4>1, RedirectedStays
      <4> QED
        BY <1>2, <1>3, <2>1, <2>2, <2>4, <3>3, <4>2
    <3> QED
      BY <3>2, <3>3
  <2> QED
    BY <2>3, <2>4
<1>9. ForksFound(w, dk, fk)
  <2> SUFFICES ASSUME NEW h \in DOMAIN fk, NEW s \in DOMAIN dk, dk[s].obj = fk[h].obj
               PROVE  /\ ~dk[s].dir
                      /\ \E j \in DOMAIN w.catalog : w.catalog[j].cnid = fk[h].cnid /\ ~w.catalog[j].dir
    BY DEF ForksFound
  <2>1. PICK q \in DOMAIN disk : dk[s] = disk[q]
    BY <1>4
  <2>2. /\ ~disk[q].dir
        /\ \E j \in DOMAIN v.catalog : v.catalog[j].cnid = fk[h].cnid /\ ~v.catalog[j].dir
    BY <2>1 DEF ForksFound
  <2>3. \A j \in DOMAIN v.catalog :
            w.catalog[j].cnid = v.catalog[j].cnid /\ w.catalog[j].dir = v.catalog[j].dir
    BY <1>2, <1>3
  <2> QED
    BY <1>2, <2>1, <2>2, <2>3
<1> QED
  BY <1>7, <1>8, <1>9

(* What renames and moves have in common. *)
LEMMA GoesKeeps ==
    ASSUME IInv, NEW o, ~astray' => o = kRootDirID \/ Live(vol, o),
           NEW v \in EnsureScanned(vol, o), NEW i \in DOMAIN v.catalog,
           NEW d, NEW p \in StoredPath(v, d), NEW n \in MacNames, NEW l \in Names,
           NEW path, path = Append(p, l), CanRename(disk, v.catalog[i].path, path),
           NEW w, w = Moved(v, i, d, n, path),
           NEW dk, dk = Renamed(disk, v.catalog[i].path, path), Becomes(w, dk),
           MacName[l] = n \/ (l = Last(v.catalog[i].path) /\ n = v.catalog[i].name),
           UNCHANGED <<forks, handles, objects>>, AstrayKept
    PROVE  IInv'
<1>1. AfterScan(v) /\ CatalogOK(v) /\ vol.next <= v.next
  BY ScanStep DEF AfterScan
<1>2. objects \in Nat /\ Tree(disk, objects) /\ CatalogOK(vol)
  BY DEF IInv
<1>3. p \in Seq(Names) /\ d \in Nat /\ d < v.next
  BY <1>1, StoredPathIs
<1>4. path \in Places /\ Front(path) = p /\ MacNameOf(path) = MacName[l]
  BY <1>3, AppendIs DEF MacNameOf
<1>5. Shaped(w) /\ MovedTo(v, i, d, n, path, w)
  BY <1>1, <1>3, <1>4, MovedIs
<1>6. CatalogOK(w) /\ vol.next <= w.next
  <2>1. CatalogOK(w)
    BY <1>1, <1>3, <1>4, <1>5, MovedOK
  <2>2. w.next = v.next
    BY <1>5 DEF MovedTo
  <2> QED
    BY <1>1, <2>1, <2>2
<1>7. v.catalog[i].path \in DOMAIN disk
  BY DEF CanRename
<1>8. Tree(dk, objects)
  BY <1>2, <1>4, <1>7, TreeRenamed
<1>9. ASSUME ~astray', ~astray, PathsAgree(w, dk)
      PROVE  KnownLead(w, dk, known) /\ KnownEntry(w, dk, known) /\ ForksFound(w, dk, forks)
  <2>1. NoNamesakes(disk) /\ EntriesLead(vol, disk) /\ DirsStored(vol, disk)
    BY <1>9, AgreeParts DEF IInv
  <2>2. o = kRootDirID \/ Live(vol, o)
    BY <1>9
  <2>3. EntriesLead(v, disk) /\ DirsStored(v, disk)
    BY <1>2, <2>1, <2>2, ScanKeepsPaths
  <2>4. NoNamesakes(dk) /\ EntriesLead(w, dk) /\ DirsStored(w, dk) /\ KindsKept(w, dk)
    BY <1>9, AgreeParts
  <2>5. MacName[Last(v.catalog[i].path)] = v.catalog[i].name
    BY <1>7, <2>3 DEF EntriesLead, Leads, MacNameOf
  <2>6. MacNameOf(path) = n
    BY <1>4, <2>5
  <2>7. RenameOf(v, i, d, n, path, w, dk)
    BY <1>1, <1>4, <1>5, <1>6, <2>1, <2>3, <2>4, <2>6 DEF RenameOf
  <2>8. KnownLead(v, disk, known) /\ KnownEntry(v, disk, known) /\ ForksFound(v, disk, forks)
    BY <1>1, <1>9 DEF AfterScan
  <2> QED
    BY <1>2, <2>7, <2>8, RenameKeepsKnown
<1>10. objects' \in Nat /\ objects <= objects' /\ Tree(dk, objects')
  BY <1>2, <1>8
<1> QED
  BY <1>6, <1>9, <1>10, StepKeeps

\* rename keeps the invariant.
LEMMA RenameKeeps ==
    ASSUME IInv, NEW o, ~astray' => o = kRootDirID \/ Live(vol, o),
           NEW v \in EnsureScanned(vol, o), NEW i \in DOMAIN v.catalog,
           NEW g \in Given, Rename(v, i, o, g), AstrayKept
    PROVE  IInv'
<1> PICK n, l : n = g.mac /\ l = g.host
  OBVIOUS
<1>0. n \in MacNames /\ l \in Names
  BY VolumeAssumption DEF MacNames
<1>1. PICK p \in StoredPath(v, o) :
        /\ CanRename(disk, v.catalog[i].path, Append(p, l))
        /\ Becomes(Moved(v, i, o, n, Append(p, l)), Renamed(disk, v.catalog[i].path, Append(p, l)))
  BY DEF Rename
<1>2. UNCHANGED <<forks, handles, objects>> /\ MacName[l] = n
  BY DEF Rename
<1> QED
  BY <1>0, <1>1, <1>2, GoesKeeps

\* move keeps the invariant.
LEMMA MoveKeeps ==
    ASSUME IInv, NEW o, ~astray' => o = kRootDirID \/ Live(vol, o),
           NEW v \in EnsureScanned(vol, o), NEW i \in DOMAIN v.catalog,
           NEW n \in MacNames, v.catalog[i].name = n, NEW dst, Move(v, i, n, dst), AstrayKept
    PROVE  IInv'
<1> PICK l : l = Last(v.catalog[i].path)
  OBVIOUS
<1>1. PICK p \in StoredPath(v, dst) :
        /\ CanRename(disk, v.catalog[i].path, Append(p, l))
        /\ Becomes(Moved(v, i, dst, n, Append(p, l)), Renamed(disk, v.catalog[i].path, Append(p, l)))
  BY DEF Move
<1>2. UNCHANGED <<forks, handles, objects>>
  BY DEF Move
<1>3. l \in Names
  <2>1. v.catalog[i].path \in DOMAIN disk
    BY <1>1 DEF CanRename
  <2>2. v.catalog[i].path \in Places
    BY <2>1, PathIs DEF IInv, Tree
  <2> QED
    BY <2>2, FrontIs
<1> QED
  BY <1>1, <1>2, <1>3, GoesKeeps

(* What the guest does in the directory o. *)
LEMMA GuestKeeps ==
    ASSUME IInv, NEW o, ~astray' => o = kRootDirID \/ Live(vol, o), GuestIn(o), AstrayKept
    PROVE  IInv'
<1>1. PICK v \in EnsureScanned(vol, o) :
        \/ Scan(v)
        \/ \E g \in Given : CreateFile(v, o, g) \/ CreateDir(v, o, g)
        \/ \E n \in MacNames : \E i \in {Find(v, o, n)} \ {0} :
            \/ RemoveFile(v, i) \/ RemoveDir(v, i)
            \/ \E g \in Given : Rename(v, i, o, g)
            \/ \E dst \in Dirs : Move(v, i, n, dst)
            \/ \E fork \in ForkTypes, perm \in Permissions : OpenFork(v, i, fork, perm)
  BY DEF GuestIn
<1>2. AfterScan(v) /\ CatalogOK(v)
  BY ScanStep DEF AfterScan
<1>3. CASE Scan(v)
  BY <1>2, <1>3, LookKeeps DEF Scan
<1>4. CASE \E g \in Given : CreateFile(v, o, g) \/ CreateDir(v, o, g)
  BY <1>4, CreateFileKeeps, CreateDirKeeps
<1>5. ASSUME NEW n \in MacNames, NEW i \in {Find(v, o, n)} \ {0},
             \/ RemoveFile(v, i) \/ RemoveDir(v, i)
             \/ \E g \in Given : Rename(v, i, o, g)
             \/ \E dst \in Dirs : Move(v, i, n, dst)
             \/ \E fork \in ForkTypes, perm \in Permissions : OpenFork(v, i, fork, perm)
      PROVE  IInv'
  <2>1. i \in DOMAIN v.catalog /\ v.catalog[i].name = n
    BY <1>2, FindIs
  <2>2. CASE RemoveFile(v, i)
    BY <2>1, <2>2, RemoveFileKeeps
  <2>3. CASE RemoveDir(v, i)
    BY <2>1, <2>3, RemoveDirKeeps
  <2>4. CASE \E g \in Given : Rename(v, i, o, g)
    BY <2>1, <2>4, RenameKeeps
  <2>5. CASE \E dst \in Dirs : Move(v, i, n, dst)
    BY <2>1, <2>5, MoveKeeps
  <2>6. CASE \E fork \in ForkTypes, perm \in Permissions : OpenFork(v, i, fork, perm)
    BY <2>1, <2>6, OpenForkKeeps
  <2> QED
    BY <1>5, <2>2, <2>3, <2>4, <2>5, <2>6
<1> QED
  BY <1>1, <1>3, <1>4, <1>5

\* Every step keeps the invariant, one action after the other.
LEMMA NextIInv == IInv /\ [Next]_vars => IInv'
<1> SUFFICES ASSUME IInv, [Next]_vars PROVE IInv'
  OBVIOUS
<1>0. astray \in BOOLEAN
  BY DEF IInv
<1>1. ASSUME NEW o \in Dirs, GuestIn(o), astray' = (astray \/ Stale(o) \/ ~PathsAgree(vol', disk'))
      PROVE  IInv'
  <2>1. AstrayKept
    BY <1>0, <1>1, Zenon DEF AstrayKept
  <2>2. ~astray' => ~Stale(o)
    BY <1>1
  <2>3. ~astray' => o = kRootDirID \/ Live(vol, o)
    BY <2>2 DEF Stale
  <2> QED
    BY <1>1, <2>1, <2>3, GuestKeeps
<1>2. ASSUME GuestFork \/ InvalidateAll \/ Host, astray' = (astray \/ ~PathsAgree(vol', disk'))
      PROVE  IInv'
  <2>1. AstrayKept
    BY <1>0, <1>2, Zenon DEF AstrayKept
  <2>2. CASE GuestFork
    BY <2>1, <2>2, AccessKeeps, CloseForkKeeps DEF GuestFork
  <2>3. CASE InvalidateAll
    BY <2>1, <2>3, InvalidateKeeps
  <2>4. CASE Host
    <3>1. ASSUME NEW p \in BoundedSeq(Names, MaxDepth) \ {<<>>}, NEW b \in BOOLEAN, HostCreate(p, b)
          PROVE  IInv'
      <4>1. p \in Paths
        BY DEF Paths
      <4> QED
        BY <2>1, <3>1, <4>1, HostCreateKeeps
    <3>2. ASSUME NEW p \in DOMAIN disk, HostDelete(p) PROVE IInv'
      BY <2>1, <3>2, HostDeleteKeeps
    <3> QED
      BY <2>4, <3>1, <3>2 DEF Host
  <2> QED
    BY <1>2, <2>2, <2>3, <2>4
<1>3. CASE UNCHANGED vars
  <2>1. /\ disk' = disk /\ vol' = vol /\ forks' = forks /\ handles' = handles
        /\ objects' = objects /\ known' = known /\ astray' = astray
    BY <1>3 DEF vars
  <2> QED
    BY <2>1 DEF IInv, ForksInOrder
<1> QED
  BY <1>1, <1>2, <1>3 DEF Next

-----------------------------------------------------------------------------
(* When the volume is mounted. *)

(* The numbering of the host's objects gives each its own. *)
LEMMA PathsNumbered ==
    ASSUME NEW S, IsFiniteSet(S), NEW ps, ps = SetToSeq(S)
    PROVE  /\ Len(ps) = Cardinality(S) /\ Len(ps) \in Nat
           /\ \A q \in S : \E i \in 1..Len(ps) : ps[i] = q
           /\ DOMAIN ps = 1..Len(ps)
<1> DEFINE n == Cardinality(S)
<1>1. n \in Nat /\ ExistsBijection(1..n, S)
  BY FS_CardinalityType
<1> HIDE DEF n
<1>2. \E f \in [1..n -> S] : IsInjective(f)
  <2>1. PICK f : f \in Bijection(1..n, S)
    BY <1>1 DEF ExistsBijection
  <2>2. f \in [1..n -> S] /\ IsInjective(f)
    BY <2>1 DEF Bijection, Injection
  <2> QED
    BY <2>2
<1>3. ps = CHOOSE f \in [1..n -> S] : IsInjective(f)
  BY DEF SetToSeq, n
<1>4. ps \in [1..n -> S] /\ IsInjective(ps)
  BY <1>2, <1>3
<1>5. ps \in Injection(1..n, S)
  BY <1>4 DEF Injection
<1>6. Cardinality(1..n) = n /\ IsFiniteSet(1..n)
  BY <1>1, FS_Interval
<1>7. ps \in Surjection(1..n, S)
  BY <1>5, <1>6, FS_Injection DEF n
<1>8. Len(ps) = n
  BY <1>1, <1>4
<1> QED
  BY <1>1, <1>4, <1>7, <1>8 DEF Surjection, n

\* The directory that is mounted is a tree.
LEMMA InitTree == Init => objects \in Nat /\ Tree(disk, objects)
<1> SUFFICES ASSUME Init PROVE objects \in Nat /\ Tree(disk, objects)
  OBVIOUS
<1> PICK ps : ps = SetToSeq(DOMAIN InitialDisk)
  OBVIOUS
<1>1. IsFiniteSet(DOMAIN InitialDisk)
  BY VolumeAssumption
<1>2. /\ Len(ps) \in Nat /\ DOMAIN ps = 1..Len(ps)
      /\ \A q \in DOMAIN InitialDisk : \E i \in 1..Len(ps) : ps[i] = q
  BY <1>1, PathsNumbered
<1>3. /\ disk = [p \in DOMAIN InitialDisk |->
                    [obj |-> CHOOSE i \in DOMAIN ps : ps[i] = p, dir |-> InitialDisk[p]]]
      /\ objects = Len(ps)
  BY DEF Init
<1>4. DOMAIN disk = DOMAIN InitialDisk
  BY <1>3
<1>5. ASSUME NEW p \in DOMAIN disk
      PROVE  disk[p].obj \in 1..objects /\ ps[disk[p].obj] = p /\ disk[p].dir = InitialDisk[p]
  <2> PICK o : o = CHOOSE i \in DOMAIN ps : ps[i] = p
    OBVIOUS
  <2>1. o \in 1..Len(ps) /\ ps[o] = p
    BY <1>2, <1>4
  <2>2. disk[p] = [obj |-> o, dir |-> InitialDisk[p]]
    BY <1>3, <1>4
  <2> QED
    BY <1>3, <2>1, <2>2
<1>6. \A p \in DOMAIN disk :
        p \in Paths /\ InitialDisk[p] \in BOOLEAN
        /\ (Front(p) = <<>> \/ (Front(p) \in DOMAIN disk /\ InitialDisk[Front(p)]))
  BY <1>4, VolumeAssumption DEF Paths
<1>7. \A p \in DOMAIN disk : IsDir(disk, Front(p))
  BY <1>5, <1>6 DEF IsDir
<1> QED
  BY <1>1, <1>2, <1>3, <1>4, <1>5, <1>6, <1>7 DEF Tree

\* The invariant holds once the root was scanned.
LEMMA InitIInv == Init => IInv
<1> SUFFICES ASSUME Init PROVE IInv
  OBVIOUS
<1> DEFINE m == [catalog |-> <<>>, forward |-> <<>>, reverse |-> <<>>,
                 next |-> FirstCnid, scanned |-> {}]
<1>1. /\ vol \in EnsureScanned(m, kRootDirID) /\ known = Noticed(<<>>, vol, disk)
      /\ forks = <<>> /\ handles = 0 /\ astray = ~NoNamesakes(disk)
  BY DEF Init
<1>2. objects \in Nat /\ Tree(disk, objects)
  BY InitTree
<1>3. /\ m.catalog = <<>> /\ DOMAIN m.forward = {} /\ DOMAIN m.reverse = {}
      /\ DOMAIN m.catalog = {} /\ CatalogOK(m)
  <2>1. Shaped(m) /\ m.catalog = <<>> /\ DOMAIN m.catalog = {}
    BY DEF Shaped
  <2>2. Numbered(m) /\ DOMAIN m.reverse = {}
    <3>1. m.next = 17 /\ m.reverse = <<>>
      BY DEF FirstCnid
    <3>2. 17..16 = {} /\ <<>> \in [{} -> Key]
      OBVIOUS
    <3> QED
      BY <3>1, <3>2 DEF Numbered, FirstCnid
  <2>3. PairsMatch(m) /\ DOMAIN m.forward = {}
    BY DEF PairsMatch
  <2>4. EntriesMatch(m)
    BY DEF EntriesMatch
  <2> QED
    BY <2>1, <2>2, <2>3, <2>4 DEF CatalogOK
<1> HIDE DEF m
<1>4. CatalogOK(vol)
  BY <1>1, <1>2, <1>3, ScanIs
<1>5. ASSUME NoNamesakes(disk) PROVE EntriesLead(vol, disk) /\ DirsStored(vol, disk)
  <2>1. EntriesLead(m, disk) /\ DirsStored(m, disk)
    BY <1>3 DEF EntriesLead, DirsStored
  <2> QED
    BY <1>1, <1>2, <1>3, <1>5, <2>1, ScanKeepsPaths
<1>6. ASSUME NoNamesakes(disk) PROVE KindsKept(vol, disk)
  <2>1. CASE vol = m
    BY <1>3, <2>1 DEF KindsKept
  <2>2. ASSUME NEW p, Looked(m, kRootDirID, p, vol) PROVE KindsKept(vol, disk)
    <3>1. \A j \in DOMAIN vol.catalog : vol.catalog[j].dir = disk[vol.catalog[j].path].dir
      BY <1>3, <1>6, <2>2 DEF Looked
    <3> QED
      BY <3>1 DEF KindsKept
  <2> QED
    BY <1>1, <1>2, <1>3, <2>1, <2>2, ScanIs
<1>7. ASSUME NoNamesakes(disk) PROVE PathsAgree(vol, disk)
  BY <1>5, <1>6, <1>7, AgreeParts
<1>8. DOMAIN known \subseteq 1..objects
  <2>1. DOMAIN <<>> \subseteq 1..objects
    OBVIOUS
  <2> QED
    BY <1>1, <1>2, <2>1, NoticedDomain
<1>9. ASSUME NoNamesakes(disk) PROVE KnownLead(vol, disk, known) /\ KnownEntry(vol, disk, known)
  <2>1. KnownLead(vol, disk, <<>>) /\ KnownEntry(vol, disk, <<>>)
    BY DEF KnownLead, KnownEntry
  <2> QED
    BY <1>1, <1>2, <1>4, <1>5, <1>9, <2>1, NoticedKeeps
<1>10. DOMAIN forks = {}
  BY <1>1
<1>11. ForksInOrder
  BY <1>1, <1>10 DEF ForksInOrder
<1>12. ForksKnown(known, forks) /\ ForksFound(vol, disk, forks)
  BY <1>10 DEF ForksKnown, ForksFound
<1> QED
  BY <1>1, <1>2, <1>4, <1>7, <1>8, <1>9, <1>11, <1>12 DEF IInv, Agreed

-----------------------------------------------------------------------------
(* What follows for the specification.                                      *)

(* The table, the catalogue and the open forks are in order in every state,  *)
(* and until a step leads astray, paths and pairs name the same places and an*)
(* object is known by the ID that its path leads to.  What leads astray are  *)
(* two files with one name for the guest, and the rest that PathsAgree names.*)
THEOREM Invariance == Spec => []IInv
<1>1. Init => IInv
  BY InitIInv
<1>2. IInv /\ [Next]_vars => IInv'
  BY NextIInv
<1> QED
  BY <1>1, <1>2, PTL DEF Spec

\* The types, from the invariant.
LEMMA TypeFollows == IInv => TypeOK
<1> SUFFICES ASSUME IInv PROVE TypeOK
  OBVIOUS
<1>1. /\ DOMAIN disk \subseteq Paths
      /\ \A p \in DOMAIN disk : disk[p].obj \in 1..objects /\ disk[p].dir \in BOOLEAN
      /\ \A p \in DOMAIN disk : IsDir(disk, Front(p))
  BY DEF IInv, Tree
<1>2. DOMAIN vol.reverse = Cnids
  BY DEF IInv, CatalogOK, Numbered, Cnids
<1>3. /\ \A i \in DOMAIN vol.catalog : vol.catalog[i].cnid \in Cnids
      /\ \A k \in DOMAIN vol.forward : vol.forward[k] \in Cnids
  BY <1>2 DEF IInv, CatalogOK, PairsMatch, EntriesMatch
<1>4. \A h \in DOMAIN forks : h <= handles /\ forks[h].cnid \in Cnids
  BY <1>2 DEF IInv, ForksInOrder
<1> QED
  BY <1>1, <1>2, <1>3, <1>4 DEF TypeOK

(* The volume's tables stay well typed: every node ID in the catalogue, in   *)
(* the pairs and in an open fork was given out by CnidTable::resolve, and the*)
(* host's tree has a directory above everything.                             *)
THEOREM TypeCorrect == Spec => []TypeOK
BY Invariance, TypeFollows, PTL

\* Identity, from the invariant.
LEMMA IdentityFollows == IInv => IdentityKept
<1> SUFFICES ASSUME IInv PROVE IdentityKept
  OBVIOUS
<1>1. CatalogOK(vol) /\ Tree(disk, objects)
  BY DEF IInv
<1>2. \A i, j \in DOMAIN vol.catalog : vol.catalog[i].cnid = vol.catalog[j].cnid => i = j
  BY <1>1 DEF CatalogOK, EntriesMatch
<1>3. ASSUME ~astray
      PROVE  /\ NoNamesakes(disk) /\ EntriesLead(vol, disk) /\ DirsStored(vol, disk)
             /\ KnownLead(vol, disk, known) /\ KnownEntry(vol, disk, known)
  BY <1>3, AgreeParts DEF IInv, Agreed
<1>4. ASSUME ~astray, NEW i \in DOMAIN vol.catalog, vol.catalog[i].path \in DOMAIN disk,
             disk[vol.catalog[i].path].obj \in DOMAIN known
      PROVE  known[disk[vol.catalog[i].path].obj] = vol.catalog[i].cnid
  BY <1>1, <1>3, <1>4, KnownID
<1>5. ASSUME ~astray, NEW p \in DOMAIN disk, NEW q \in DOMAIN disk, disk[p].obj \in DOMAIN known,
             disk[q].obj \in DOMAIN known, known[disk[p].obj] = known[disk[q].obj]
      PROVE  p = q
  <2> PICK c : c = known[disk[p].obj]
    OBVIOUS
  <2>1. /\ Leads(vol, vol.reverse[c].dir, vol.reverse[c].name, c, p)
        /\ Leads(vol, vol.reverse[c].dir, vol.reverse[c].name, c, q)
    BY <1>3, <1>5 DEF KnownLead
  <2>2. Front(p) = Front(q) /\ MacNameOf(p) = MacNameOf(q)
    BY <2>1, LeadsOnce
  <2> QED
    BY <1>3, <1>5, <2>2 DEF NoNamesakes
<1> QED
  BY <1>2, <1>4, <1>5 DEF IdentityKept

(* IDs "uniquely tag an entry for its entire lifetime": for any names, disk  *)
(* and number of changes, over evictions, new scans, renames and moves, an   *)
(* object keeps the ID it was first seen with and shares it with no other,   *)
(* until one of the five things that PathsAgree names has happened, or a     *)
(* directory was used by a stale ID.  No two entries share an ID in any case.*)
THEOREM IdentityAlways == Spec => []IdentityKept
BY Invariance, IdentityFollows, PTL

\* What a handle reaches, from the invariant.
LEMMA ReachFollows == IInv => HandleReaches
<1> SUFFICES ASSUME IInv, NEW h \in DOMAIN forks, ~astray, NEW p \in DOMAIN disk,
                    disk[p].obj = forks[h].obj, NEW v \in Resurrected(vol, forks[h].cnid)
             PROVE  ObjectAt(disk, AccessPath(v, h)) = forks[h].obj
  BY DEF HandleReaches
<1> PICK c : c = forks[h].cnid
  OBVIOUS
<1>1. /\ CatalogOK(vol) /\ KnownEntry(vol, disk, known)
      /\ ForksKnown(known, forks) /\ ForksFound(vol, disk, forks)
  BY DEF IInv, Agreed
<1>2. forks[h].obj # None
  BY DEF IInv, Tree, None
<1>3. disk[p].obj \in DOMAIN known /\ known[disk[p].obj] = c
  BY <1>1, <1>2 DEF ForksKnown
<1>4. PICK i \in DOMAIN vol.catalog : vol.catalog[i].cnid = c
  BY <1>1 DEF ForksFound
<1>5. vol.catalog[i].path = p
  BY <1>1, <1>3, <1>4 DEF KnownEntry
<1>6. i # 0 /\ IndexOf(vol, c) = i
  BY <1>1, <1>4, IndexIs DEF CatalogOK, EntriesMatch
<1>7. InCatalog(vol, c) /\ v = vol
  BY <1>6 DEF InCatalog, Resurrected
<1>8. AccessPath(v, h) = p
  BY <1>5, <1>6, <1>7 DEF AccessPath
<1> QED
  BY <1>8 DEF ObjectAt

(* "Open forks survive eviction": while its file exists, an open resource    *)
(* fork reaches it, wherever the file or directories above it were moved,    *)
(* until one of the five things that PathsAgree names has happened, a moved  *)
(* directory with directories below that are not in the catalogue among them.*)
THEOREM ReachAlways == Spec => []HandleReaches
BY Invariance, ReachFollows, PTL

\* At most one writer, from the invariant.
LEMMA WriterFollows == IInv => OneWriter
<1> SUFFICES ASSUME IInv, NEW g \in DOMAIN forks, NEW h \in DOMAIN forks, g # h,
                    forks[g].write, forks[h].write, forks[g].fork = forks[h].fork,
                    forks[g].obj = forks[h].obj, forks[g].obj # None
             PROVE  astray
  BY DEF OneWriter
<1>1. forks[g].cnid # forks[h].cnid
  BY DEF IInv, ForksInOrder
<1>2. ASSUME ~astray PROVE FALSE
  <2>1. ForksKnown(known, forks)
    BY <1>2 DEF IInv, Agreed
  <2> QED
    BY <1>1, <2>1 DEF ForksKnown
<1> QED
  BY <1>2

(* openFork's conflict check by ID keeps two forks from writing the same     *)
(* file, however often the file was evicted, renamed or moved between the two*)
(* calls, until paths and names disagree.                                    *)
THEOREM WriterAlways == Spec => []OneWriter
BY Invariance, WriterFollows, PTL

(* A look at a directory whose stored path is its place shows what is there. *)
LEMMA LookShows ==
    ASSUME IInv, NEW d, NEW v \in EnsureScanned(vol, d), EntriesLead(v, disk),
           NEW a \in v.scanned \ vol.scanned, NEW p \in StoredPath(v, a)
    PROVE  /\ \A j \in DOMAIN v.catalog : v.catalog[j].parent = a =>
                \E q \in DOMAIN disk : IsChild(p, q) /\ MacNameOf(q) = v.catalog[j].name
           /\ \A q \in Listing(p) :
                \E j \in DOMAIN v.catalog : v.catalog[j].parent = a /\ v.catalog[j].name = MacNameOf(q)
<1>1. CatalogOK(vol) /\ Tree(disk, objects)
  BY DEF IInv
<1>2. CatalogOK(v) /\ Grown(vol, v) /\ (v = vol \/ \E r : Looked(vol, d, r, v))
  BY <1>1, ScanIs
<1>3. PICK r : Looked(vol, d, r, v)
  BY <1>2
<1>4. a = d
  BY <1>3 DEF Looked
<1>5. r = p
  <2>1. r \in StoredPath(vol, d)
    BY <1>3 DEF Looked
  <2>2. r \in StoredPath(v, d)
    BY <1>2, <2>1 DEF StoredPath, Grown
  <2> QED
    BY <1>4, <2>2, HomeIs
<1>6. p \in Seq(Names)
  BY <1>2, StoredPathIs
<1>7. \A q \in DOMAIN disk : IsChild(p, q) <=> Front(q) = p
  BY <1>1, <1>6, ChildIs, PathIs DEF Tree
<1>8. ASSUME NEW j \in DOMAIN v.catalog, v.catalog[j].parent = a
      PROVE  \E q \in DOMAIN disk : IsChild(p, q) /\ MacNameOf(q) = v.catalog[j].name
  <2> PICK e : e = v.catalog[j]
    OBVIOUS
  <2>1. e.path \in DOMAIN disk
    BY <1>3, <1>4, <1>8 DEF Looked
  <2>2. MacNameOf(e.path) = e.name /\ Front(e.path) \in Home(v, a)
    BY <1>8, <2>1 DEF EntriesLead, Leads
  <2>3. Front(e.path) = p
    BY <2>2, HomeIs DEF Home
  <2> QED
    BY <1>7, <2>1, <2>2, <2>3
<1>9. ASSUME NEW q \in Listing(p)
      PROVE  \E j \in DOMAIN v.catalog : v.catalog[j].parent = a /\ v.catalog[j].name = MacNameOf(q)
  BY <1>3, <1>4, <1>5 DEF Looked
<1> QED
  BY <1>8, <1>9

\* The number of changes is a number.
LEMMA CountKept == changes \in Nat /\ [Next]_vars => changes' \in Nat
<1> SUFFICES ASSUME changes \in Nat, [Next]_vars PROVE changes' \in Nat
  OBVIOUS
<1>1. ASSUME NEW o \in Dirs, GuestIn(o) PROVE changes' \in Nat
  <2>1. ASSUME NEW v, Scan(v) PROVE changes' \in Nat
    BY <2>1 DEF Scan, Looks
  <2>2. ASSUME NEW v, NEW g, CreateFile(v, o, g) \/ CreateDir(v, o, g) PROVE changes' \in Nat
    <3>1. CASE CreateFile(v, o, g)
      BY <3>1 DEF CreateFile, Changes
    <3>2. CASE CreateDir(v, o, g)
      BY <3>2 DEF CreateDir, Changes
    <3> QED
      BY <2>2, <3>1, <3>2
  <2>3. ASSUME NEW v, NEW i, RemoveFile(v, i) \/ RemoveDir(v, i) PROVE changes' \in Nat
    BY <2>3 DEF RemoveFile, RemoveDir, Changes
  <2>4. ASSUME NEW v, NEW i, NEW g, Rename(v, i, o, g) PROVE changes' \in Nat
    BY <2>4 DEF Rename, Changes
  <2>5. ASSUME NEW v, NEW i, NEW n, NEW dst, Move(v, i, n, dst) PROVE changes' \in Nat
    BY <2>5 DEF Move, Changes
  <2>6. ASSUME NEW v, NEW i, NEW fork, NEW perm, OpenFork(v, i, fork, perm) PROVE changes' \in Nat
    BY <2>6 DEF OpenFork, Changes
  <2> QED
    BY <1>1, <2>1, <2>2, <2>3, <2>4, <2>5, <2>6 DEF GuestIn
<1>2. CASE GuestFork
  BY <1>2 DEF GuestFork, Access, Looks, CloseFork
<1>3. CASE InvalidateAll
  BY <1>3 DEF InvalidateAll, Looks
<1>4. CASE Host
  BY <1>4 DEF Host, HostCreate, HostDelete, Changes
<1>5. CASE UNCHANGED vars
  BY <1>5 DEF vars
<1> QED
  BY <1>1, <1>2, <1>3, <1>4, <1>5 DEF Next

\* A newly scanned directory shows the disk, from the invariant, action by action.
LEMMA ShownFollows == IInv /\ IInv' /\ changes \in Nat /\ [Next]_vars => NewlyShown
<1> SUFFICES ASSUME IInv, IInv', changes \in Nat, [Next]_vars,
                    NEW a \in vol'.scanned \ vol.scanned, changes' = changes, ~astray',
                    NEW p \in StoredPath(vol', a)
             PROVE  /\ Namely(Listing(p)') \subseteq ShownIn(a)'
                    /\ ShownIn(a)' \subseteq Namely({q \in DOMAIN disk' : IsChild(p, q)})
  BY DEF NewlyShown
<1>1. ~Changes
  BY DEF Changes
<1>2. \E d : vol' \in EnsureScanned(vol, d) /\ disk' = disk
  <2>1. vol' # vol
    OBVIOUS
  <2>2. ~InvalidateAll
    <3> PICK v : v = Invalidated
      OBVIOUS
    <3>1. vol = [catalog |-> vol.catalog, forward |-> vol.forward, reverse |-> vol.reverse,
                 next |-> vol.next, scanned |-> vol.scanned]
      BY DEF IInv, CatalogOK, Shaped
    <3> DEFINE t == Keeping(vol.catalog, {i \in DOMAIN vol.catalog : HasFork(vol.catalog[i].cnid)})
    <3>2. v = [vol EXCEPT !.catalog = t, !.scanned = {}]
      BY DEF Invalidated
    <3> HIDE DEF t
    <3>3. v.scanned = {}
      BY <3>1, <3>2
    <3>4. InvalidateAll => vol' = v
      BY DEF InvalidateAll, Looks, Becomes
    <3> QED
      BY <3>3, <3>4
  <2>3. ~Host /\ ~UNCHANGED vars
    BY <1>1, <2>1 DEF Host, HostCreate, HostDelete, vars
  <2>4. GuestFork \/ \E d \in Dirs : GuestIn(d)
    BY <2>2, <2>3 DEF Next
  <2>5. ASSUME NEW h \in DOMAIN forks, Access(h) \/ CloseFork(h)
        PROVE  \E d : vol' \in EnsureScanned(vol, d) /\ disk' = disk
    <3>1. Access(h)
      BY <2>1, <2>5 DEF CloseFork
    <3>2. PICK v \in Resurrected(vol, forks[h].cnid) : v # vol /\ vol' = v /\ disk' = disk
      BY <3>1 DEF Access, Looks, Becomes
    <3> QED
      BY <3>2 DEF Resurrected
  <2>6. ASSUME NEW d, NEW v \in EnsureScanned(vol, d), Scan(v)
        PROVE  \E b : vol' \in EnsureScanned(vol, b) /\ disk' = disk
    BY <2>6 DEF Scan, Looks, Becomes
  <2>7. ASSUME NEW d, NEW v \in EnsureScanned(vol, d), NEW i, NEW fork, NEW perm,
               OpenFork(v, i, fork, perm)
        PROVE  \E b : vol' \in EnsureScanned(vol, b) /\ disk' = disk
    BY <1>1, <2>7 DEF OpenFork, Becomes
  <2>8. \A v, i : ~RemoveFile(v, i) /\ ~RemoveDir(v, i)
    BY <1>1 DEF RemoveFile, RemoveDir
  <2>9. \A v, d, g, i : ~Rename(v, i, d, g)
    BY <1>1 DEF Rename
  <2>10. \A v, d, n, i : ~Move(v, i, n, d)
    BY <1>1 DEF Move
  <2>11. \A v, d, g : ~CreateFile(v, d, g)
    BY <1>1 DEF CreateFile
  <2>12. \A v, d, g : ~CreateDir(v, d, g)
    BY <1>1 DEF CreateDir
  <2>13. ASSUME NEW d, GuestIn(d) PROVE \E b : vol' \in EnsureScanned(vol, b) /\ disk' = disk
    BY <2>6, <2>7, <2>8, <2>9, <2>10, <2>11, <2>12, <2>13 DEF GuestIn
  <2>14. CASE GuestFork
    BY <2>5, <2>14 DEF GuestFork
  <2> QED
    BY <2>4, <2>13, <2>14
<1>3. PICK d : vol' \in EnsureScanned(vol, d) /\ disk' = disk
  BY <1>2
<1> PICK v : v = vol'
  OBVIOUS
<1>4. EntriesLead(v, disk)
  <2>1. PathsAgree(vol', disk')
    BY DEF IInv
  <2> QED
    BY <1>3, <2>1, AgreeParts
<1>5. v \in EnsureScanned(vol, d) /\ a \in v.scanned \ vol.scanned /\ p \in StoredPath(v, a)
  BY <1>3
<1> DEFINE shown == {v.catalog[i].name : i \in {j \in DOMAIN v.catalog : v.catalog[j].parent = a}}
<1>6. /\ Namely(Listing(p)) \subseteq shown
      /\ shown \subseteq Namely({q \in DOMAIN disk : IsChild(p, q)})
  <2>1. \A j \in DOMAIN v.catalog : v.catalog[j].parent = a =>
            \E q \in DOMAIN disk : IsChild(p, q) /\ MacNameOf(q) = v.catalog[j].name
    BY <1>4, <1>5, LookShows
  <2>2. \A q \in Listing(p) :
            \E j \in DOMAIN v.catalog : v.catalog[j].parent = a /\ v.catalog[j].name = MacNameOf(q)
    BY <1>4, <1>5, LookShows
  <2> QED
    BY <2>1, <2>2 DEF Namely
<1>7. ShownIn(a)' = shown /\ Listing(p)' = Listing(p)
  BY <1>3 DEF ShownIn, Listing
<1> QED
  BY <1>3, <1>6, <1>7

(* "Periodic invalidation forces re-scan from disk, picking up external      *)
(* changes": whatever the host did since the last look and whatever entries  *)
(* open forks have kept, a directory that is scanned shows the names that are*)
(* on the disk, all that are not hidden and no others, unless paths and names*)
(* disagree.                                                                 *)
THEOREM ScanAlwaysShows == Spec => ScanShowsDisk
<1>1. Init => changes \in Nat
  BY DEF Init
<1>2. changes \in Nat /\ [Next]_vars => (changes \in Nat)'
  BY CountKept
<1>3. IInv /\ IInv' /\ changes \in Nat /\ [Next]_vars => NewlyShown
  BY ShownFollows
<1> QED
  BY <1>1, <1>2, <1>3, Invariance, PTL DEF Spec, ScanShowsDisk
=============================================================================
