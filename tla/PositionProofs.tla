--------------------------- MODULE PositionProofs ---------------------------
(***************************************************************************)
(* Theorems about PositionExits, for every history of rows. What match_fifo  *)
(* folds is folded by induction over prefixes; a sell is then shown to take  *)
(* the oldest lot steps, lot by lot, and the holding of the account to cover  *)
(* what every row sells.                                                     *)
(***************************************************************************)
EXTENDS PositionExits, SequenceTheorems, FiniteSetTheorems, NaturalsInduction,
        WellFoundedInduction, TLAPS

-----------------------------------------------------------------------------
(* Folds *)

\* Induction over the naturals, with the claim as a set of them: there is no
\* smallest natural outside it.
LEMMA PrefixInduction ==
    ASSUME NEW Claim, 0 \in Claim,
           ASSUME NEW n \in Nat, n \in Claim PROVE n + 1 \in Claim
    PROVE  \A n \in Nat : n \in Claim
<1> DEFINE Bad == {n \in Nat : n \notin Claim}
<1> SUFFICES ASSUME Bad # {} PROVE FALSE
  OBVIOUS
<1>1. PICK n \in Bad : \A m \in Bad : <<m, n>> \notin OpToRel(<, Nat)
  <2>1. IsWellFoundedOn(OpToRel(<, Nat), Nat)
    BY NatLessThanWellFounded
  <2>2. Bad \subseteq Nat
    OBVIOUS
  <2> HIDE DEF Bad
  <2> QED
    BY <2>1, <2>2, WFMin
<1>2. n \in Nat \ {0} /\ n - 1 \in Nat /\ (n - 1) + 1 = n
  <2>1. n \in Nat /\ n # 0
    BY <1>1
  <2> QED
    BY <2>1
<1>3. <<n - 1, n>> \in OpToRel(<, Nat)
  BY <1>2 DEF OpToRel
<1>4. n - 1 \in Claim
  BY <1>1, <1>2, <1>3
<1> QED
  BY <1>1, <1>2, <1>4

LEMMA LargestOf ==
    ASSUME NEW n \in Nat, NEW t \in SUBSET (1..(n + 1)), n + 1 \in t
    PROVE  Max(t) = n + 1 /\ t \ {n + 1} \in SUBSET (1..n) /\ t # {}
<1>1. \A y \in t : n + 1 >= y
  OBVIOUS
<1>2. \A x \in t : (\A y \in t : x >= y) => x = n + 1
  BY <1>1
<1>3. Max(t) = CHOOSE x \in t : \A y \in t : x >= y
  BY DEF Max
<1>4. Max(t) = n + 1
  BY <1>1, <1>2, <1>3
<1> QED
  BY <1>4

\* A set of positions that is not empty has a largest.
LEMMA LargestIn ==
    \A n \in Nat : \A t \in SUBSET (1..n) : t # {} => Max(t) \in t
<1> DEFINE Claim == {n \in Nat : \A t \in SUBSET (1..n) : t # {} => Max(t) \in t}
<1>1. 0 \in Claim
  <2>1. \A t \in SUBSET (1..0) : t = {}
    OBVIOUS
  <2> QED
    BY <2>1
<1>2. ASSUME NEW n \in Nat, n \in Claim PROVE n + 1 \in Claim
  <2> SUFFICES ASSUME NEW t \in SUBSET (1..(n + 1)), t # {} PROVE Max(t) \in t
    OBVIOUS
  <2>1. CASE n + 1 \in t
    BY <2>1, LargestOf
  <2>2. CASE n + 1 \notin t
    <3>1. t \in SUBSET (1..n)
      BY <2>2
    <3> QED
      BY <1>2, <3>1
  <2> QED
    BY <2>1, <2>2
<1> HIDE DEF Claim
<1>3. \A n \in Nat : n \in Claim
  BY <1>1, <1>2, PrefixInduction
<1> QED
  BY <1>3 DEF Claim

\* What FoldLeft iterates over the positions of a sequence s, for a step that is
\* a function h
Iterates(g, h, base, s) ==
    g = [t \in SUBSET DOMAIN s |->
           IF t = {} THEN base ELSE h[<<g[t \ {Max(t)}], s[Max(t)]>>]]
Folded(h, base, s) == (CHOOSE g : Iterates(g, h, base, s))[DOMAIN s]

\* What holds of the empty set of positions, and goes from a set without its
\* largest to the set, holds of all.
LEMMA PositionInduction ==
    ASSUME NEW n \in Nat, NEW Claim,
           ASSUME NEW t \in SUBSET (1..n), t = {} \/ t \ {Max(t)} \in Claim
           PROVE  t \in Claim
    PROVE  \A t \in SUBSET (1..n) : t \in Claim
<1> DEFINE Upto == {m \in Nat : m <= n => \A t \in SUBSET (1..m) : t \in Claim}
<1>1. 0 \in Upto
  <2>1. {} \in Claim
    OBVIOUS
  <2>2. \A t \in SUBSET (1..0) : t = {}
    OBVIOUS
  <2> QED
    BY <2>1, <2>2
<1>2. ASSUME NEW m \in Nat, m \in Upto PROVE m + 1 \in Upto
  <2> SUFFICES ASSUME m + 1 <= n, NEW t \in SUBSET (1..(m + 1)) PROVE t \in Claim
    OBVIOUS
  <2>1. t \in SUBSET (1..n)
    OBVIOUS
  <2>2. CASE m + 1 \in t
    <3>1. Max(t) = m + 1 /\ t \ {m + 1} \in SUBSET (1..m)
      BY <2>2, LargestOf
    <3>2. t \ {Max(t)} \in Claim
      BY <1>2, <3>1
    <3> QED
      BY <2>1, <3>2
  <2>3. CASE m + 1 \notin t
    <3>1. t \in SUBSET (1..m)
      BY <2>3
    <3> QED
      BY <1>2, <3>1
  <2> QED
    BY <2>2, <2>3
<1> HIDE DEF Upto
<1>3. n \in Upto
  BY <1>1, <1>2, PrefixInduction
<1> QED
  BY <1>3 DEF Upto

LEMMA IteratesExist ==
    ASSUME NEW h, NEW base, NEW s
    PROVE  \A n \in Nat : DOMAIN s = 1..n => \E g : Iterates(g, h, base, s)
<1> DEFINE Step(g, t) == IF t = {} THEN base ELSE h[<<g[t \ {Max(t)}], s[Max(t)]>>]
           Claim == {n \in Nat : \E g : g = [t \in SUBSET (1..n) |-> Step(g, t)]}
<1>1. 0 \in Claim
  <2> DEFINE g == [t \in SUBSET (1..0) |-> base]
  <2>1. g = [t \in SUBSET (1..0) |-> Step(g, t)]
    OBVIOUS
  <2> QED
    BY <2>1
<1>2. ASSUME NEW n \in Nat, n \in Claim PROVE n + 1 \in Claim
  <2>1. PICK g : g = [t \in SUBSET (1..n) |-> Step(g, t)]
    BY <1>2
  <2> DEFINE f == [t \in SUBSET (1..(n + 1)) |->
                     IF n + 1 \in t THEN h[<<g[t \ {n + 1}], s[n + 1]>>] ELSE g[t]]
  <2>2. ASSUME NEW t \in SUBSET (1..(n + 1)) PROVE f[t] = Step(f, t)
    <3>1. CASE n + 1 \in t
      <4>1. Max(t) = n + 1 /\ t \ {n + 1} \in SUBSET (1..n) /\ t # {}
        BY <3>1, LargestOf
      <4>2. t \ {n + 1} \in SUBSET (1..(n + 1)) /\ n + 1 \notin t \ {n + 1}
        OBVIOUS
      <4>3. f[t \ {n + 1}] = g[t \ {n + 1}]
        BY <4>2
      <4>4. f[t] = h[<<g[t \ {n + 1}], s[n + 1]>>]
        BY <3>1
      <4> HIDE DEF f
      <4> QED
        BY <4>1, <4>3, <4>4
    <3>2. CASE n + 1 \notin t
      <4>1. t \in SUBSET (1..n)
        BY <3>2
      <4>2. t \ {Max(t)} \in SUBSET (1..(n + 1)) /\ n + 1 \notin t \ {Max(t)}
        BY <3>2
      <4>3. f[t \ {Max(t)}] = g[t \ {Max(t)}]
        BY <4>2
      <4>4. f[t] = g[t]
        BY <3>2
      <4>5. g[t] = Step(g, t)
        BY <2>1, <4>1
      <4> HIDE DEF f
      <4> QED
        BY <4>3, <4>4, <4>5
    <3> QED
      BY <3>1, <3>2
  <2>3. f = [t \in SUBSET (1..(n + 1)) |-> f[t]]
    OBVIOUS
  <2> HIDE DEF f, Step
  <2>4. f = [t \in SUBSET (1..(n + 1)) |-> Step(f, t)]
    BY <2>2, <2>3
  <2> QED
    BY <2>4
<1> HIDE DEF Claim
<1>3. \A n \in Nat : n \in Claim
  BY <1>1, <1>2, PrefixInduction
<1> QED
  BY <1>3 DEF Claim, Iterates

\* The fold of a function: over nothing its base, over one element more its value
\* at what it was and that element.
LEMMA FoldedUnfolds ==
    ASSUME NEW h, NEW base, NEW E, NEW s \in Seq(E), NEW e \in E
    PROVE  /\ Folded(h, base, <<>>) = base
           /\ Folded(h, base, Append(s, e)) = h[<<Folded(h, base, s), e>>]
<1> DEFINE It(r) == CHOOSE g : Iterates(g, h, base, r)
           n == Len(s)
           r == Append(s, e)
<1>1. /\ n \in Nat /\ DOMAIN s = 1..n /\ DOMAIN r = 1..(n + 1)
      /\ \A i \in 1..n : r[i] = s[i]
      /\ r[n + 1] = e
  BY AppendProperties
<1>2. DOMAIN <<>> = 1..0 /\ 1..0 = {}
  OBVIOUS
<1>3. Iterates(It(s), h, base, s) /\ Iterates(It(r), h, base, r) /\ Iterates(It(<<>>), h, base, <<>>)
  <2> HIDE DEF n, r
  <2>1. /\ \E g : Iterates(g, h, base, s)
        /\ \E g : Iterates(g, h, base, r)
        /\ \E g : Iterates(g, h, base, <<>>)
    <3>1. n + 1 \in Nat /\ 0 \in Nat
      BY <1>1
    <3> QED
      BY <1>1, <1>2, <3>1, IteratesExist
  <2> QED
    BY <2>1
<1>4. /\ Folded(h, base, s) = It(s)[1..n] /\ Folded(h, base, r) = It(r)[1..(n + 1)]
      /\ Folded(h, base, <<>>) = It(<<>>)[{}]
  BY <1>1, <1>2 DEF Folded
<1> HIDE DEF It, n, r
<1>5. It(<<>>)[{}] = base
  BY <1>2, <1>3 DEF Iterates
<1>6. \A t \in SUBSET (1..n) : It(s)[t] = It(r)[t]
  <2> DEFINE Claim == {t \in SUBSET (1..n) : It(s)[t] = It(r)[t]}
  <2>1. ASSUME NEW t \in SUBSET (1..n), t = {} \/ t \ {Max(t)} \in Claim
        PROVE  t \in Claim
    <3>1. t \in SUBSET (1..(n + 1))
      BY <1>1
    <3>2. It(s)[t] = IF t = {} THEN base ELSE h[<<It(s)[t \ {Max(t)}], s[Max(t)]>>]
      BY <1>1, <1>3 DEF Iterates
    <3>3. It(r)[t] = IF t = {} THEN base ELSE h[<<It(r)[t \ {Max(t)}], r[Max(t)]>>]
      BY <1>1, <1>3, <3>1 DEF Iterates
    <3>4. t # {} => Max(t) \in 1..n
      BY <1>1, LargestIn
    <3> QED
      BY <1>1, <2>1, <3>2, <3>3, <3>4
  <2> HIDE DEF Claim
  <2>2. \A t \in SUBSET (1..n) : t \in Claim
    BY <1>1, <2>1, PositionInduction
  <2> QED
    BY <2>2 DEF Claim
<1>7. It(r)[1..(n + 1)] = h[<<It(r)[1..n], e>>]
  <2>1. n + 1 \in 1..(n + 1) /\ 1..(n + 1) \in SUBSET (1..(n + 1))
    BY <1>1
  <2>2. Max(1..(n + 1)) = n + 1 /\ 1..(n + 1) # {}
    BY <1>1, <2>1, LargestOf
  <2>3. (1..(n + 1)) \ {n + 1} = 1..n
    BY <1>1
  <2>4. It(r)[1..(n + 1)] = h[<<It(r)[(1..(n + 1)) \ {n + 1}], r[n + 1]>>]
    BY <1>1, <1>3, <2>1, <2>2 DEF Iterates
  <2> QED
    BY <1>1, <2>3, <2>4
<1>8. Folded(h, base, <<>>) = base
  BY <1>4, <1>5
<1>9. Folded(h, base, r) = h[<<Folded(h, base, s), e>>]
  BY <1>4, <1>6, <1>7
<1> QED
  BY <1>8, <1>9 DEF r

\* Two iterates of one function over one sequence are the same.
LEMMA IteratesAgree ==
    ASSUME NEW h, NEW base, NEW E, NEW s \in Seq(E), NEW f, NEW g,
           Iterates(f, h, base, s), Iterates(g, h, base, s)
    PROVE  f[DOMAIN s] = g[DOMAIN s]
<1> DEFINE n == Len(s)
           Claim == {t \in SUBSET (1..n) : f[t] = g[t]}
<1>1. n \in Nat /\ DOMAIN s = 1..n
  OBVIOUS
<1> HIDE DEF n
<1>2. ASSUME NEW t \in SUBSET (1..n), t = {} \/ t \ {Max(t)} \in Claim
      PROVE  t \in Claim
  BY <1>1, <1>2 DEF Iterates
<1> HIDE DEF Claim
<1>3. \A t \in SUBSET (1..n) : t \in Claim
  BY <1>1, <1>2, PositionInduction
<1> QED
  BY <1>1, <1>3 DEF Claim

\* There is one, and it stays where its base and its step lead.
LEMMA IterateExists ==
    ASSUME NEW D, NEW E, NEW base \in D, NEW s \in Seq(E), NEW h
    PROVE  \E g : Iterates(g, h, base, s)
<1>1. Len(s) \in Nat /\ DOMAIN s = 1..Len(s)
  OBVIOUS
<1> QED
  BY <1>1, IteratesExist

\* The same, of a step known to be h only between D and E
Within(g, h, base, s, D, E) ==
    /\ g = [t \in SUBSET DOMAIN s |-> g[t]]
    /\ \A t \in SUBSET DOMAIN s :
         /\ t = {} => g[t] = base
         /\ t # {} /\ g[t \ {Max(t)}] \in D /\ s[Max(t)] \in E
              => g[t] = h[<<g[t \ {Max(t)}], s[Max(t)]>>]

EndsAt(g, s, end, D) == g[DOMAIN s] = end /\ end \in D

\* It stays where its base is, and there it is the fold of h.
LEMMA FoldedStays ==
    ASSUME NEW D, NEW E, NEW base \in D, NEW s \in Seq(E), NEW h \in [D \X E -> D],
           NEW g, Within(g, h, base, s, D, E)
    PROVE  /\ Iterates(g, h, base, s)
           /\ EndsAt(g, s, Folded(h, base, s), D)
           /\ \A t \in SUBSET DOMAIN s :
                t # {} => g[t \ {Max(t)}] \in D /\ s[Max(t)] \in E
<1> DEFINE n == Len(s)
           Claim == {t \in SUBSET (1..n) : g[t] \in D}
<1>1. n \in Nat /\ DOMAIN s = 1..n /\ \A i \in 1..n : s[i] \in E
  OBVIOUS
<1> HIDE DEF n
<1>2. \A t \in SUBSET (1..n) : t # {} => Max(t) \in 1..n /\ s[Max(t)] \in E
  BY <1>1, LargestIn
<1>3. ASSUME NEW t \in SUBSET (1..n), t = {} \/ t \ {Max(t)} \in Claim
      PROVE  t \in Claim
  <2>1. CASE t = {}
    BY <1>1, <2>1 DEF Within
  <2>2. CASE t # {}
    <3>1. g[t \ {Max(t)}] \in D /\ s[Max(t)] \in E
      BY <1>2, <1>3, <2>2
    <3>2. g[t] = h[<<g[t \ {Max(t)}], s[Max(t)]>>]
      BY <1>1, <2>2, <3>1 DEF Within
    <3>3. <<g[t \ {Max(t)}], s[Max(t)]>> \in D \X E
      BY <3>1
    <3>4. h[<<g[t \ {Max(t)}], s[Max(t)]>>] \in D
      BY <3>3
    <3> QED
      BY <3>2, <3>4
  <2> QED
    BY <2>1, <2>2
<1>4. \A t \in SUBSET (1..n) : g[t] \in D
  <2> HIDE DEF Claim
  <2>1. \A t \in SUBSET (1..n) : t \in Claim
    BY <1>1, <1>3, PositionInduction
  <2> QED
    BY <2>1 DEF Claim
<1>5. \A t \in SUBSET DOMAIN s :
         g[t] = IF t = {} THEN base ELSE h[<<g[t \ {Max(t)}], s[Max(t)]>>]
  BY <1>1, <1>2, <1>4 DEF Within
<1>6. Iterates(g, h, base, s)
  BY <1>5 DEF Iterates, Within
<1>7. g[DOMAIN s] = Folded(h, base, s)
  <2> DEFINE C == CHOOSE f : Iterates(f, h, base, s)
  <2>1. Iterates(C, h, base, s)
    BY <1>6
  <2> HIDE DEF C
  <2>2. g[DOMAIN s] = C[DOMAIN s]
    BY <1>6, <2>1, IteratesAgree
  <2> QED
    BY <2>2 DEF C, Folded
<1> QED
  BY <1>1, <1>2, <1>4, <1>6, <1>7 DEF EndsAt

\* What holds of no elements, and goes from some to one more, holds of every
\* sequence.
LEMMA AppendInduction ==
    ASSUME NEW E, NEW Claim, <<>> \in Claim,
           ASSUME NEW s \in Seq(E), s \in Claim, NEW e \in E PROVE Append(s, e) \in Claim
    PROVE  \A s \in Seq(E) : s \in Claim
<1> DEFINE Long == {n \in Nat : \A s \in Seq(E) : Len(s) = n => s \in Claim}
<1>1. 0 \in Long
  BY EmptySeq
<1>2. ASSUME NEW n \in Nat, n \in Long PROVE n + 1 \in Long
  <2> SUFFICES ASSUME NEW s \in Seq(E), Len(s) = n + 1 PROVE s \in Claim
    OBVIOUS
  <2>1. s # <<>>
    BY EmptySeq
  <2>2. PICK r \in Seq(E), e \in E : s = Append(r, e)
    BY <2>1, SequenceEmptyOrAppend
  <2>3. Len(r) = n
    BY <2>2, AppendProperties, LenProperties
  <2> QED
    BY <1>2, <2>2, <2>3
<1> HIDE DEF Long
<1>3. \A n \in Nat : n \in Long
  BY <1>1, <1>2, PrefixInduction
<1> QED
  BY <1>3, LenProperties DEF Long

-----------------------------------------------------------------------------
(* The folds of match_fifo *)

Lots == [id : Nat, remaining : Nat \ {0}]
Closings == [entry : Nat, exit : Nat, quantity : Nat \ {0}]
Sales == [id : Nat, left : Nat, lots : Seq(Lots), closed : Seq(Closings)]
Matches == [lots : Seq(Lots), closed : Seq(Closings), unmatched : Nat]
Trades == [id : Nat, side : {"buy", "sell"}, quantity : Nat \ {0}]

TakeStep == [p \in Sales \X Lots |-> TakeFrom(p[1], p[2])]

LEMMA MinOfTwo ==
    ASSUME NEW a \in Int, NEW b \in Int
    PROVE  Min({a, b}) = IF a < b THEN a ELSE b
<1> DEFINE m == IF a < b THEN a ELSE b
<1>1. m \in {a, b} /\ \A y \in {a, b} : m <= y
  OBVIOUS
<1>2. \A x \in {a, b} : (\A y \in {a, b} : x <= y) => x = m
  OBVIOUS
<1> HIDE DEF m
<1>3. Min({a, b}) = CHOOSE x \in {a, b} : \A y \in {a, b} : x <= y
  BY DEF Min
<1>4. Min({a, b}) = m
  BY <1>1, <1>2, <1>3
<1> QED
  BY <1>4 DEF m

\* What a sale takes of a lot
LEMMA TakeTyped ==
    ASSUME NEW from \in Sales, NEW lot \in Lots
    PROVE  LET m == IF from.left < lot.remaining THEN from.left ELSE lot.remaining
           IN  /\ TakeFrom(from, lot) \in Sales
               /\ m \in Nat
               /\ TakeFrom(from, lot).id = from.id
               /\ TakeFrom(from, lot).left = from.left - m
               /\ TakeFrom(from, lot).lots =
                    IF lot.remaining > m
                    THEN Append(from.lots, [id |-> lot.id, remaining |-> lot.remaining - m])
                    ELSE from.lots
               /\ TakeFrom(from, lot).closed =
                    IF m > 0
                    THEN Append(from.closed, [entry |-> lot.id, exit |-> from.id, quantity |-> m])
                    ELSE from.closed
<1> DEFINE m == IF from.left < lot.remaining THEN from.left ELSE lot.remaining
           over == [id |-> lot.id, remaining |-> lot.remaining - m]
           closing == [entry |-> lot.id, exit |-> from.id, quantity |-> m]
<1>1. /\ from.id \in Nat /\ from.left \in Nat /\ lot.id \in Nat
      /\ lot.remaining \in Nat \ {0}
      /\ from.lots \in Seq(Lots) /\ from.closed \in Seq(Closings)
  BY DEF Sales, Lots
<1>2. Min({from.left, lot.remaining}) = m
  BY <1>1, MinOfTwo
<1>3. m \in Nat /\ m <= from.left /\ m <= lot.remaining
  BY <1>1
<1> HIDE DEF m
<1>4. [lot EXCEPT !.remaining = @ - m] = over
  BY DEF Lots
<1>5. TakeFrom(from, lot) =
        [id |-> from.id, left |-> from.left - m,
         lots |-> IF lot.remaining > m THEN Append(from.lots, over) ELSE from.lots,
         closed |-> IF m > 0 THEN Append(from.closed, closing) ELSE from.closed]
  <2>1. TakeFrom(from, lot) =
          [from EXCEPT
             !.left = @ - m,
             !.lots = IF lot.remaining > m THEN Append(@, over) ELSE @,
             !.closed = IF m > 0 THEN Append(@, closing) ELSE @]
    BY <1>2, <1>4, Zenon DEF TakeFrom
  <2> HIDE DEF over, closing
  <2> QED
    BY <2>1 DEF Sales
<1>6. lot.remaining > m => over \in Lots
  BY <1>1, <1>3 DEF Lots
<1>7. m > 0 => closing \in Closings
  BY <1>1, <1>3 DEF Closings
<1>8. from.left - m \in Nat
  BY <1>1, <1>3
<1>9. (IF lot.remaining > m THEN Append(from.lots, over) ELSE from.lots) \in Seq(Lots)
  BY <1>1, <1>6
<1>10. (IF m > 0 THEN Append(from.closed, closing) ELSE from.closed) \in Seq(Closings)
  BY <1>1, <1>7
<1> HIDE DEF over, closing
<1>11. TakeFrom(from, lot) \in Sales
  BY <1>1, <1>5, <1>8, <1>9, <1>10 DEF Sales
<1> QED
  BY <1>3, <1>5, <1>11 DEF m, over, closing

LEMMA TakesFold ==
    ASSUME NEW base \in Sales, NEW s \in Seq(Lots)
    PROVE  /\ FoldLeft(TakeFrom, base, s) = Folded(TakeStep, base, s)
           /\ FoldLeft(TakeFrom, base, s) \in Sales
<1> DEFINE Loops(g) == g = [t \in SUBSET DOMAIN s |->
                               IF t = {} THEN base
                               ELSE TakeFrom(g[t \ {Max(t)}], s[Max(t)])]
           G == CHOOSE g : Loops(g)
<1>1. FoldLeft(TakeFrom, base, s) = G[DOMAIN s]
  BY DEF FoldLeft, MapThenFoldSet
<1>2. TakeStep \in [Sales \X Lots -> Sales]
  BY TakeTyped DEF TakeStep
<1>3. \A a \in Sales, b \in Lots : TakeStep[<<a, b>>] = TakeFrom(a, b)
  BY DEF TakeStep
<1>4. PICK f : Iterates(f, TakeStep, base, s)
  BY IterateExists
<1>5. \A t \in SUBSET DOMAIN s : t # {} => f[t \ {Max(t)}] \in Sales /\ s[Max(t)] \in Lots
  <2>1. Within(f, TakeStep, base, s, Sales, Lots)
    BY <1>4 DEF Iterates, Within
  <2> QED
    BY <1>2, <2>1, FoldedStays
<1>6. Loops(f)
  <2>1. f = [t \in SUBSET DOMAIN s |->
               IF t = {} THEN base ELSE TakeStep[<<f[t \ {Max(t)}], s[Max(t)]>>]]
    BY <1>4 DEF Iterates
  <2>2. \A t \in SUBSET DOMAIN s :
          (IF t = {} THEN base ELSE TakeStep[<<f[t \ {Max(t)}], s[Max(t)]>>])
            = (IF t = {} THEN base ELSE TakeFrom(f[t \ {Max(t)}], s[Max(t)]))
    BY <1>3, <1>5
  <2> QED
    BY <2>1, <2>2
<1>7. Loops(G)
  BY <1>6
<1> HIDE DEF G
<1>8. Within(G, TakeStep, base, s, Sales, Lots)
  BY <1>3, <1>7 DEF Within
<1> HIDE DEF Loops
<1>9. G[DOMAIN s] = Folded(TakeStep, base, s) /\ G[DOMAIN s] \in Sales
  <2>1. EndsAt(G, s, Folded(TakeStep, base, s), Sales)
    BY <1>2, <1>8, FoldedStays
  <2> QED
    BY <2>1 DEF EndsAt
<1> QED
  BY <1>1, <1>9

-----------------------------------------------------------------------------
(* Flattening *)

Flattens(f, ss, n) == f = [i \in 1..n |-> IF i = 1 THEN ss[i] ELSE f[i - 1] \o ss[i]]

LEMMA FlatteningExists ==
    ASSUME NEW ss
    PROVE  \A n \in Nat : \E f : Flattens(f, ss, n)
<1> DEFINE Claim == {n \in Nat : \E f : Flattens(f, ss, n)}
<1>1. 0 \in Claim
  <2> DEFINE f == [i \in 1..0 |-> ss]
  <2>1. Flattens(f, ss, 0)
    BY DEF Flattens
  <2> QED
    BY <2>1
<1>2. ASSUME NEW n \in Nat, n \in Claim PROVE n + 1 \in Claim
  <2>1. PICK g : Flattens(g, ss, n)
    BY <1>2
  <2> DEFINE f == [i \in 1..(n + 1) |->
                     IF i = n + 1 THEN (IF i = 1 THEN ss[i] ELSE g[n] \o ss[i]) ELSE g[i]]
  <2>2. ASSUME NEW i \in 1..(n + 1)
        PROVE  f[i] = IF i = 1 THEN ss[i] ELSE f[i - 1] \o ss[i]
    <3>1. CASE i = n + 1
      <4>1. CASE i = 1
        BY <3>1, <4>1
      <4>2. CASE i # 1
        <5>1. i - 1 = n /\ n \in 1..(n + 1) /\ n # n + 1
          BY <3>1, <4>2
        <5>2. f[n] = g[n]
          BY <5>1
        <5>3. f[i] = g[n] \o ss[i]
          BY <3>1, <4>2
        <5> HIDE DEF f
        <5> QED
          BY <4>2, <5>1, <5>2, <5>3
      <4> QED
        BY <4>1, <4>2
    <3>2. CASE i # n + 1
      <4>1. i \in 1..n /\ f[i] = g[i]
        BY <3>2
      <4>2. i # 1 => i - 1 \in 1..n /\ i - 1 \in 1..(n + 1) /\ i - 1 # n + 1
        BY <4>1
      <4>3. i # 1 => f[i - 1] = g[i - 1]
        BY <4>2
      <4>4. g[i] = IF i = 1 THEN ss[i] ELSE g[i - 1] \o ss[i]
        BY <2>1, <4>1 DEF Flattens
      <4> HIDE DEF f
      <4> QED
        BY <4>1, <4>3, <4>4
    <3> QED
      BY <3>1, <3>2
  <2>3. f = [i \in 1..(n + 1) |-> f[i]]
    OBVIOUS
  <2> HIDE DEF f
  <2>4. Flattens(f, ss, n + 1)
    BY <2>2, <2>3 DEF Flattens
  <2> QED
    BY <2>4
<1> HIDE DEF Claim
<1>3. \A n \in Nat : n \in Claim
  BY <1>1, <1>2, PrefixInduction
<1> QED
  BY <1>3 DEF Claim

LEMMA FlatteningAt ==
    ASSUME NEW n \in Nat, NEW ss, NEW f, Flattens(f, ss, n), NEW i \in Nat, i + 1 \in 1..n
    PROVE  f[i + 1] = IF i = 0 THEN ss[i + 1] ELSE f[i] \o ss[i + 1]
<1>1. f[i + 1] = IF i + 1 = 1 THEN ss[i + 1] ELSE f[(i + 1) - 1] \o ss[i + 1]
  <2> DEFINE k == i + 1
  <2>1. k \in 1..n
    OBVIOUS
  <2> HIDE DEF k
  <2>2. f[k] = IF k = 1 THEN ss[k] ELSE f[k - 1] \o ss[k]
    BY <2>1 DEF Flattens
  <2> QED
    BY <2>2, Zenon DEF k
<1>2. (i + 1) - 1 = i /\ (i + 1 = 1 <=> i = 0)
  OBVIOUS
<1> QED
  BY <1>1, <1>2, Zenon

LEMMA FlatteningsAgree ==
    ASSUME NEW n \in Nat, NEW m \in Nat, n <= m, NEW ss, NEW tt, NEW f, NEW g,
           Flattens(f, ss, n), Flattens(g, tt, m), \A i \in 1..n : ss[i] = tt[i]
    PROVE  \A i \in 1..n : f[i] = g[i]
<1> DEFINE Claim == {i \in Nat : i \in 1..n => f[i] = g[i]}
<1>1. 0 \in Claim
  OBVIOUS
<1>2. ASSUME NEW i \in Nat, i \in Claim PROVE i + 1 \in Claim
  <2> SUFFICES ASSUME i + 1 \in 1..n PROVE f[i + 1] = g[i + 1]
    OBVIOUS
  <2>1. i + 1 \in 1..m /\ (i + 1) - 1 = i /\ ss[i + 1] = tt[i + 1]
    OBVIOUS
  <2>2. f[i + 1] = IF i = 0 THEN ss[i + 1] ELSE f[i] \o ss[i + 1]
    BY FlatteningAt
  <2>3. g[i + 1] = IF i = 0 THEN tt[i + 1] ELSE g[i] \o tt[i + 1]
    BY <2>1, FlatteningAt
  <2>4. i # 0 => f[i] = g[i]
    BY <1>2
  <2> QED
    BY <2>1, <2>2, <2>3, <2>4
<1> HIDE DEF Claim
<1>3. \A i \in Nat : i \in Claim
  BY <1>1, <1>2, PrefixInduction
<1> QED
  BY <1>3 DEF Claim

\* Flattening one sequence more puts it behind what was flattened.
LEMMA FlattenAppend ==
    ASSUME NEW E, NEW ss \in Seq(Seq(E)), NEW t \in Seq(E),
           NEW flat \in Seq(E), flat = FlattenSeq(ss)
    PROVE  /\ FlattenSeq(Append(ss, t)) = flat \o t
           /\ FlattenSeq(Append(ss, t)) \in Seq(E)
<1> DEFINE n == Len(ss)
           r == Append(ss, t)
           F(q) == CHOOSE f : Flattens(f, q, Len(q))
<1>1. /\ n \in Nat
      /\ Len(r) = n + 1
      /\ \A i \in 1..n : ss[i] = r[i]
      /\ r[n + 1] = t
  BY AppendProperties
<1>2. FlattenSeq(r) = F(r)[n + 1]
  <2> HIDE DEF r, n
  <2>1. Len(r) = n + 1 /\ Len(r) # 0
    BY <1>1
  <2>2. FlattenSeq(r) = F(r)[Len(r)]
    BY <2>1 DEF FlattenSeq, Flattens
  <2> QED
    BY <2>1, <2>2
<1>3. n # 0 => FlattenSeq(ss) = F(ss)[n]
  BY DEF FlattenSeq, Flattens
<1>4. n = 0 => flat = <<>>
  BY EmptySeq DEF FlattenSeq
<1> HIDE DEF r, n
<1>5. Flattens(F(r), r, n + 1) /\ Flattens(F(ss), ss, n)
  <2>1. n + 1 \in Nat /\ Len(ss) = n
    BY <1>1 DEF n
  <2>2. (\E f : Flattens(f, r, Len(r))) /\ (\E f : Flattens(f, ss, Len(ss)))
    BY <1>1, <2>1, FlatteningExists
  <2> QED
    BY <1>1, <2>1, <2>2
<1> HIDE DEF F
<1>6. F(r)[n + 1] = IF n = 0 THEN t ELSE F(r)[n] \o t
  <2>1. n + 1 \in Nat /\ n + 1 \in 1..(n + 1)
    BY <1>1
  <2>2. F(r)[n + 1] = IF n = 0 THEN r[n + 1] ELSE F(r)[n] \o r[n + 1]
    BY <1>1, <1>5, <2>1, FlatteningAt
  <2> QED
    BY <1>1, <2>2, Zenon
<1>7. n # 0 => F(r)[n] = F(ss)[n]
  <2>1. n + 1 \in Nat /\ n <= n + 1
    BY <1>1
  <2>2. \A i \in 1..n : F(ss)[i] = F(r)[i]
    BY <1>1, <1>5, <2>1, FlatteningsAgree
  <2> QED
    BY <1>1, <2>2
<1>8. FlattenSeq(r) = flat \o t
  <2>1. CASE n = 0
    BY <1>2, <1>4, <1>6, <2>1, ConcatEmptySeq
  <2>2. CASE n # 0
    BY <1>2, <1>3, <1>6, <1>7, <2>2
  <2> QED
    BY <2>1, <2>2
<1>9. flat \o t \in Seq(E)
  BY ConcatProperties
<1> QED
  BY <1>8, <1>9 DEF r

LEMMA FlattenTyped ==
    ASSUME NEW E
    PROVE  FlattenSeq(<<>>) = <<>> /\ \A ss \in Seq(Seq(E)) : FlattenSeq(ss) \in Seq(E)
<1> DEFINE Claim == {ss \in Seq(Seq(E)) : FlattenSeq(ss) \in Seq(E)}
<1>1. FlattenSeq(<<>>) = <<>>
  BY EmptySeq DEF FlattenSeq
<1>2. <<>> \in Claim
  BY <1>1, EmptySeq
<1>3. ASSUME NEW ss \in Seq(Seq(E)), ss \in Claim, NEW t \in Seq(E)
      PROVE  Append(ss, t) \in Claim
  <2>1. FlattenSeq(ss) \in Seq(E)
    BY <1>3
  <2>2. FlattenSeq(Append(ss, t)) \in Seq(E)
    BY <2>1, FlattenAppend
  <2> QED
    BY <2>2, AppendProperties
<1> HIDE DEF Claim
<1>4. \A ss \in Seq(Seq(E)) : ss \in Claim
  BY <1>2, <1>3, AppendInduction
<1> QED
  BY <1>1, <1>4 DEF Claim

-----------------------------------------------------------------------------
(* The single lot steps *)

Copies(e, n) == [k \in 1..n |-> e]
Pairs == Nat \X Nat

LEMMA CopiesTyped ==
    ASSUME NEW E, NEW e \in E, NEW n \in Nat
    PROVE  Copies(e, n) \in Seq(E) /\ Len(Copies(e, n)) = n /\ \A k \in 1..n : Copies(e, n)[k] = e
BY DEF Copies

LEMMA TupleIsSeq ==
    ASSUME NEW E, NEW n \in Nat, NEW f \in [1..n -> E]
    PROVE  f \in Seq(E) /\ Len(f) = n
OBVIOUS

\* A row more than rows, flattened
LEMMA FlattenOneMore ==
    ASSUME NEW E, NEW n \in Nat, NEW rows \in [1..n -> Seq(E)],
           NEW more \in [1..(n + 1) -> Seq(E)], \A i \in 1..n : more[i] = rows[i]
    PROVE  /\ FlattenSeq(more) = FlattenSeq(rows) \o more[n + 1]
           /\ FlattenSeq(rows) \in Seq(E)
<1> DEFINE row == more[n + 1]
<1>1. rows \in Seq(Seq(E)) /\ Len(rows) = n
  BY TupleIsSeq
<1>2. more \in Seq(Seq(E)) /\ Len(more) = n + 1
  <2>1. n + 1 \in Nat
    OBVIOUS
  <2> QED
    BY <2>1, TupleIsSeq
<1>3. row \in Seq(E)
  OBVIOUS
<1> HIDE DEF row
<1>4. /\ Append(rows, row) \in Seq(Seq(E)) /\ Len(Append(rows, row)) = n + 1
      /\ \A i \in 1..n : Append(rows, row)[i] = rows[i]
      /\ Append(rows, row)[n + 1] = row
  BY <1>1, <1>3, AppendProperties
<1>5. \A i \in 1..(n + 1) : Append(rows, row)[i] = more[i]
  <2>1. more[n + 1] = row
    BY DEF row
  <2>2. \A i \in 1..(n + 1) : i \in 1..n \/ i = n + 1
    OBVIOUS
  <2> QED
    BY <1>4, <2>1, <2>2
<1>6. Append(rows, row) = more
  BY <1>2, <1>4, <1>5, SeqEqual
<1>7. FlattenSeq(rows) \in Seq(E)
  BY <1>1, FlattenTyped
<1>8. FlattenSeq(Append(rows, row)) = FlattenSeq(rows) \o row
  BY <1>1, <1>3, <1>7, FlattenAppend
<1> QED
  BY <1>6, <1>7, <1>8 DEF row

\* The steps of a lot more come after those of the lots before it.
LEMMA LotUnitsUnfold ==
    /\ LotUnits(<<>>) = <<>>
    /\ \A lots \in Seq(Lots), lot \in Lots :
         /\ LotUnits(lots) \in Seq(Nat)
         /\ LotUnits(Append(lots, lot)) = LotUnits(lots) \o Copies(lot.id, lot.remaining)
<1> DEFINE Rows(lots) == [i \in DOMAIN lots |-> Copies(lots[i].id, lots[i].remaining)]
<1>1. \A lots : LotUnits(lots) = FlattenSeq(Rows(lots))
  BY DEF LotUnits, Copies
<1>2. Rows(<<>>) = <<>>
  OBVIOUS
<1>3. ASSUME NEW lots \in Seq(Lots), NEW lot \in Lots
      PROVE  /\ LotUnits(lots) \in Seq(Nat)
             /\ LotUnits(Append(lots, lot)) = LotUnits(lots) \o Copies(lot.id, lot.remaining)
  <2> DEFINE n == Len(lots)
             more == Append(lots, lot)
  <2>1. /\ n \in Nat /\ DOMAIN lots = 1..n /\ \A i \in 1..n : lots[i] \in Lots
        /\ more \in Seq(Lots) /\ Len(more) = n + 1
        /\ \A i \in 1..n : more[i] = lots[i]
        /\ more[n + 1] = lot
    BY AppendProperties, ElementOfSeq
  <2> HIDE DEF n, more
  <2>2. DOMAIN more = 1..(n + 1)
    BY <2>1, LenProperties
  <2>3. \A l \in Lots : Copies(l.id, l.remaining) \in Seq(Nat)
    BY CopiesTyped DEF Lots
  <2>4. Rows(lots) \in [1..n -> Seq(Nat)]
    BY <2>1, <2>3
  <2>5. n + 1 \in 1..(n + 1) /\ \A i \in 1..n : i \in 1..(n + 1)
    BY <2>1
  <2>6. /\ Rows(more) \in [1..(n + 1) -> Seq(Nat)]
        /\ \A i \in 1..n : Rows(more)[i] = Rows(lots)[i]
        /\ Rows(more)[n + 1] = Copies(lot.id, lot.remaining)
    BY <2>1, <2>2, <2>3, <2>5
  <2> HIDE DEF Rows
  <2>7. /\ FlattenSeq(Rows(more)) = FlattenSeq(Rows(lots)) \o Copies(lot.id, lot.remaining)
        /\ FlattenSeq(Rows(lots)) \in Seq(Nat)
    BY <2>1, <2>4, <2>6, FlattenOneMore
  <2> QED
    BY <1>1, <2>7 DEF more
<1> HIDE DEF Rows
<1> QED
  BY <1>1, <1>2, <1>3, FlattenTyped

\* And the pairs of a position closed last come last.
LEMMA PairUnitsUnfold ==
    /\ PairUnits(<<>>) = <<>>
    /\ \A closed \in Seq(Closings), c \in Closings :
         /\ PairUnits(closed) \in Seq(Pairs)
         /\ PairUnits(Append(closed, c)) = PairUnits(closed) \o Copies(<<c.entry, c.exit>>, c.quantity)
<1> DEFINE Rows(closed) == [i \in DOMAIN closed |->
                              Copies(<<closed[i].entry, closed[i].exit>>, closed[i].quantity)]
<1>1. \A closed : PairUnits(closed) = FlattenSeq(Rows(closed))
  BY DEF PairUnits, Copies
<1>2. Rows(<<>>) = <<>>
  OBVIOUS
<1>3. ASSUME NEW closed \in Seq(Closings), NEW c \in Closings
      PROVE  /\ PairUnits(closed) \in Seq(Pairs)
             /\ PairUnits(Append(closed, c)) = PairUnits(closed) \o Copies(<<c.entry, c.exit>>, c.quantity)
  <2> DEFINE n == Len(closed)
             more == Append(closed, c)
  <2>1. /\ n \in Nat /\ DOMAIN closed = 1..n /\ \A i \in 1..n : closed[i] \in Closings
        /\ more \in Seq(Closings) /\ Len(more) = n + 1
        /\ \A i \in 1..n : more[i] = closed[i]
        /\ more[n + 1] = c
    BY AppendProperties, ElementOfSeq
  <2> HIDE DEF n, more
  <2>2. DOMAIN more = 1..(n + 1)
    BY <2>1, LenProperties
  <2>3. \A d \in Closings : Copies(<<d.entry, d.exit>>, d.quantity) \in Seq(Pairs)
    <3>1. \A d \in Closings : <<d.entry, d.exit>> \in Pairs /\ d.quantity \in Nat
      BY DEF Closings, Pairs
    <3> QED
      BY <3>1, CopiesTyped
  <2>4. Rows(closed) \in [1..n -> Seq(Pairs)]
    BY <2>1, <2>3
  <2>5. n + 1 \in 1..(n + 1) /\ \A i \in 1..n : i \in 1..(n + 1)
    BY <2>1
  <2>6. /\ Rows(more) \in [1..(n + 1) -> Seq(Pairs)]
        /\ \A i \in 1..n : Rows(more)[i] = Rows(closed)[i]
        /\ Rows(more)[n + 1] = Copies(<<c.entry, c.exit>>, c.quantity)
    <3>1. \A i \in 1..(n + 1) : more[i] \in Closings
      BY <2>1, ElementOfSeq
    <3>2. Rows(more) = [i \in 1..(n + 1) |->
                          Copies(<<more[i].entry, more[i].exit>>, more[i].quantity)]
      BY <2>2
    <3>3. Rows(closed) = [i \in 1..n |->
                          Copies(<<closed[i].entry, closed[i].exit>>, closed[i].quantity)]
      BY <2>1
    <3> HIDE DEF Rows
    <3>4. Rows(more) \in [1..(n + 1) -> Seq(Pairs)]
      BY <2>3, <3>1, <3>2
    <3> QED
      BY <2>1, <2>5, <3>2, <3>3, <3>4
  <2> HIDE DEF Rows
  <2>7. /\ FlattenSeq(Rows(more)) = FlattenSeq(Rows(closed)) \o Copies(<<c.entry, c.exit>>, c.quantity)
        /\ FlattenSeq(Rows(closed)) \in Seq(Pairs)
    BY <2>1, <2>4, <2>6, FlattenOneMore
  <2> QED
    BY <1>1, <2>7 DEF more
<1> HIDE DEF Rows
<1> QED
  BY <1>1, <1>2, <1>3, FlattenTyped

-----------------------------------------------------------------------------
(* A sell takes the oldest lot steps *)

\* What a sell of q gets of the open lot steps, and how it pairs them
Got(open, q) == IF q < Len(open) THEN q ELSE Len(open)
Paired(open, id, n) == [i \in 1..n |-> <<open[i], id>>]

LEMMA RestOfMore ==
    ASSUME NEW E, NEW open \in Seq(E), NEW e \in E, NEW r \in Nat,
           NEW n \in 0..Len(open), NEW m \in 0..r, m = 0 \/ n = Len(open)
    PROVE  SubSeq(open, n + 1, Len(open)) \o Copies(e, r - m)
             = SubSeq(open \o Copies(e, r), n + m + 1, Len(open) + r)
<1> DEFINE N == Len(open)
           rest == SubSeq(open, n + 1, N)
           over == Copies(e, r - m)
           more == open \o Copies(e, r)
           last == SubSeq(more, n + m + 1, N + r)
<1>1. N \in Nat /\ n \in Nat /\ m \in Nat /\ n <= N /\ m <= r
  OBVIOUS
<1>2. rest \in Seq(E) /\ Len(rest) = N - n /\ \A i \in 1..(N - n) : rest[i] = open[n + i]
  <2>1. \A i \in (n + 1)..N : open[i] \in E
    BY <1>1
  <2>2. n + 1 \in Int /\ N \in Int
    BY <1>1
  <2>3. /\ rest \in Seq(E)
        /\ Len(rest) = IF n + 1 <= N THEN N - (n + 1) + 1 ELSE 0
        /\ \A i \in 1..(N - (n + 1) + 1) : rest[i] = open[(n + 1) + i - 1]
    BY <2>1, <2>2, SubSeqProperties
  <2>4. \A i \in Int : (n + 1) + i - 1 = n + i
    BY <1>1
  <2> HIDE DEF rest, N
  <2> QED
    BY <1>1, <2>3, <2>4
<1>3. over \in Seq(E) /\ Len(over) = r - m /\ \A i \in 1..(r - m) : over[i] = e
  <2>1. r - m \in Nat
    BY <1>1
  <2> QED
    BY <2>1, CopiesTyped
<1>4. /\ more \in Seq(E) /\ Len(more) = N + r
      /\ \A i \in 1..(N + r) : more[i] = IF i <= N THEN open[i] ELSE e
  <2>1. /\ Copies(e, r) \in Seq(E) /\ Len(Copies(e, r)) = r
        /\ \A i \in 1..r : Copies(e, r)[i] = e
    BY CopiesTyped
  <2>2. /\ more \in Seq(E) /\ Len(more) = N + r
        /\ \A i \in 1..(N + r) : more[i] = IF i <= N THEN open[i] ELSE Copies(e, r)[i - N]
    BY <2>1, ConcatProperties
  <2>3. \A i \in 1..(N + r) : i > N => i - N \in 1..r
    BY <1>1
  <2> HIDE DEF more, N
  <2> QED
    BY <1>1, <2>1, <2>2, <2>3
<1> HIDE DEF N, rest, over, more
<1>5. /\ last \in Seq(E) /\ Len(last) = (N - n) + (r - m)
      /\ \A i \in 1..((N - n) + (r - m)) :
           last[i] = IF n + m + i <= N THEN open[n + m + i] ELSE e
  <2>1. \A i \in (n + m + 1)..(N + r) : more[i] \in E
    <3>1. \A i \in (n + m + 1)..(N + r) : i \in 1..Len(more)
      BY <1>1, <1>4
    <3> QED
      BY <1>4, <3>1, ElementOfSeq
  <2>2. n + m + 1 \in Int /\ N + r \in Int
    BY <1>1
  <2>3. /\ last \in Seq(E)
        /\ Len(last) = IF n + m + 1 <= N + r THEN (N + r) - (n + m + 1) + 1 ELSE 0
        /\ \A i \in 1..((N + r) - (n + m + 1) + 1) : last[i] = more[(n + m + 1) + i - 1]
    <3> DEFINE a == n + m + 1
               b == N + r
    <3>1. a \in Int /\ b \in Int /\ \A i \in a..b : more[i] \in E
      BY <2>1, <2>2
    <3>2. last = SubSeq(more, a, b)
      OBVIOUS
    <3> HIDE DEF a, b, last
    <3>3. /\ last \in Seq(E)
          /\ Len(last) = IF a <= b THEN b - a + 1 ELSE 0
          /\ \A i \in 1..(b - a + 1) : last[i] = more[a + i - 1]
      BY <3>1, <3>2, SubSeqProperties
    <3> QED
      BY <3>3 DEF a, b
  <2>4. (N + r) - (n + m + 1) + 1 = (N - n) + (r - m)
    BY <1>1
  <2>5. \A i \in 1..((N - n) + (r - m)) :
          (n + m + 1) + i - 1 = n + m + i /\ n + m + i \in 1..(N + r)
    BY <1>1
  <2> HIDE DEF last
  <2> QED
    BY <1>1, <1>4, <2>3, <2>4, <2>5
<1> HIDE DEF last
<1>6. /\ rest \o over \in Seq(E) /\ Len(rest \o over) = (N - n) + (r - m)
      /\ \A i \in 1..((N - n) + (r - m)) :
           (rest \o over)[i] = IF i <= N - n THEN rest[i] ELSE over[i - (N - n)]
  <2>1. /\ rest \o over \in Seq(E) /\ Len(rest \o over) = Len(rest) + Len(over)
        /\ \A i \in 1..(Len(rest) + Len(over)) :
             (rest \o over)[i] = IF i <= Len(rest) THEN rest[i] ELSE over[i - Len(rest)]
    BY <1>2, <1>3, ConcatProperties
  <2> QED
    BY <1>2, <1>3, <2>1, Zenon
<1>7. ASSUME NEW i \in 1..((N - n) + (r - m)) PROVE (rest \o over)[i] = last[i]
  <2>1. CASE i <= N - n
    <3>1. i \in 1..(N - n) /\ m = 0 /\ n + m + i = n + i /\ n + i <= N
      BY <1>1, <2>1 DEF N
    <3> QED
      BY <1>2, <1>5, <1>6, <2>1, <3>1
  <2>2. CASE ~(i <= N - n)
    <3>1. i - (N - n) \in 1..(r - m) /\ ~(n + m + i <= N)
      BY <1>1, <2>2
    <3> QED
      BY <1>3, <1>5, <1>6, <2>2, <3>1
  <2> QED
    BY <2>1, <2>2
<1>8. rest \o over = last
  BY <1>5, <1>6, <1>7, SeqEqual
<1> QED
  BY <1>8 DEF rest, over, last, more, N

LEMMA PairedTyped ==
    ASSUME NEW open \in Seq(Nat), NEW id \in Nat, NEW n \in 0..Len(open)
    PROVE  /\ Paired(open, id, n) \in Seq(Pairs) /\ Len(Paired(open, id, n)) = n
           /\ \A i \in 1..n : Paired(open, id, n)[i] = <<open[i], id>>
<1>1. n \in Nat /\ \A i \in 1..n : open[i] \in Nat
  OBVIOUS
<1>2. Paired(open, id, n) \in [1..n -> Pairs]
  BY <1>1 DEF Paired, Pairs
<1>3. \A i \in 1..n : Paired(open, id, n)[i] = <<open[i], id>>
  BY DEF Paired
<1> QED
  BY <1>1, <1>2, <1>3, TupleIsSeq

LEMMA PairsOfMore ==
    ASSUME NEW open \in Seq(Nat), NEW e \in Nat, NEW r \in Nat, NEW id \in Nat,
           NEW n \in 0..Len(open), NEW m \in 0..r, m = 0 \/ n = Len(open)
    PROVE  Paired(open, id, n) \o Copies(<<e, id>>, m)
             = Paired(open \o Copies(e, r), id, n + m)
<1> DEFINE N == Len(open)
           more == open \o Copies(e, r)
           old == Paired(open, id, n)
           new == Copies(<<e, id>>, m)
           all == Paired(more, id, n + m)
<1>1. N \in Nat /\ n \in Nat /\ m \in Nat /\ n <= N /\ m <= r
  OBVIOUS
<1>2. /\ more \in Seq(Nat) /\ Len(more) = N + r
      /\ \A i \in 1..(N + r) : more[i] = IF i <= N THEN open[i] ELSE e
  <2>1. /\ Copies(e, r) \in Seq(Nat) /\ Len(Copies(e, r)) = r
        /\ \A i \in 1..r : Copies(e, r)[i] = e
    BY CopiesTyped
  <2>2. /\ more \in Seq(Nat) /\ Len(more) = N + r
        /\ \A i \in 1..(N + r) : more[i] = IF i <= N THEN open[i] ELSE Copies(e, r)[i - N]
    BY <2>1, ConcatProperties
  <2>3. \A i \in 1..(N + r) : i > N => i - N \in 1..r
    BY <1>1
  <2> HIDE DEF more, N
  <2> QED
    BY <1>1, <2>1, <2>2, <2>3
<1>3. old \in Seq(Pairs) /\ Len(old) = n /\ \A i \in 1..n : old[i] = <<open[i], id>>
  BY PairedTyped
<1>4. new \in Seq(Pairs) /\ Len(new) = m /\ \A i \in 1..m : new[i] = <<e, id>>
  <2>1. <<e, id>> \in Pairs
    BY DEF Pairs
  <2> QED
    BY <1>1, <2>1, CopiesTyped
<1> HIDE DEF N, more, old, new
<1>5. all \in Seq(Pairs) /\ Len(all) = n + m /\ \A i \in 1..(n + m) : all[i] = <<more[i], id>>
  <2>1. n + m \in 0..Len(more)
    BY <1>1, <1>2
  <2> QED
    BY <1>2, <2>1, PairedTyped
<1> HIDE DEF all
<1>6. /\ old \o new \in Seq(Pairs) /\ Len(old \o new) = n + m
      /\ \A i \in 1..(n + m) : (old \o new)[i] = IF i <= n THEN old[i] ELSE new[i - n]
  BY <1>3, <1>4, ConcatProperties
<1>7. ASSUME NEW i \in 1..(n + m) PROVE (old \o new)[i] = all[i]
  <2>1. i \in 1..(N + r)
    BY <1>1
  <2>2. CASE i <= n
    <3>1. i \in 1..n /\ i <= N
      BY <1>1, <2>2
    <3> QED
      BY <1>2, <1>3, <1>5, <1>6, <2>1, <2>2, <3>1
  <2>3. CASE ~(i <= n)
    <3>1. i - n \in 1..m /\ ~(i <= N)
      BY <1>1, <2>3 DEF N
    <3> QED
      BY <1>2, <1>4, <1>5, <1>6, <2>1, <2>3, <3>1
  <2> QED
    BY <2>2, <2>3
<1>8. old \o new = all
  BY <1>5, <1>6, <1>7, SeqEqual
<1> QED
  BY <1>8 DEF old, new, all, more

LEMMA MorePaired ==
    \A open \in Seq(Nat), e, r, id \in Nat : \A n \in 0..Len(open), m \in 0..r :
        m = 0 \/ n = Len(open) =>
          Paired(open, id, n) \o Copies(<<e, id>>, m) = Paired(open \o Copies(e, r), id, n + m)
BY PairsOfMore

LEMMA PairsAssociate ==
    \A a, b, c \in Seq(Pairs) : (a \o b) \o c = a \o (b \o c)
BY ConcatAssociative

\* What a sale that has gone through lots has of them
Took(trade, closed, lots, from) ==
    LET open == LotUnits(lots)
        n == Got(open, trade.quantity)
    IN  /\ from \in Sales
        /\ from.id = trade.id
        /\ from.left = trade.quantity - n
        /\ LotUnits(from.lots) = SubSeq(open, n + 1, Len(open))
        /\ PairUnits(from.closed) = PairUnits(closed) \o Paired(open, trade.id, n)

LEMMA TookOneMore ==
    ASSUME NEW trade \in Trades, NEW closed \in Seq(Closings), NEW lots \in Seq(Lots),
           NEW lot \in Lots, NEW from, Took(trade, closed, lots, from)
    PROVE  Took(trade, closed, Append(lots, lot), TakeFrom(from, lot))
<1> DEFINE q == trade.quantity
           open == LotUnits(lots)
           N == Len(open)
           n == Got(open, q)
           r == lot.remaining
           m == IF from.left < r THEN from.left ELSE r
           next == TakeFrom(from, lot)
           more == open \o Copies(lot.id, r)
           over == [id |-> lot.id, remaining |-> r - m]
           closing == [entry |-> lot.id, exit |-> trade.id, quantity |-> m]
           old == PairUnits(closed)
<1>1. /\ q \in Nat /\ trade.id \in Nat /\ lot.id \in Nat /\ r \in Nat /\ r # 0
      /\ open \in Seq(Nat) /\ old \in Seq(Pairs)
      /\ LotUnits(Append(lots, lot)) = more
  <2>1. \A c \in Closings : PairUnits(closed) \in Seq(Pairs)
    BY PairUnitsUnfold
  <2>2. [entry |-> 0, exit |-> 0, quantity |-> 1] \in Closings
    BY DEF Closings
  <2> QED
    BY <2>1, <2>2, LotUnitsUnfold DEF Trades, Lots
<1>2. /\ from \in Sales /\ from.id = trade.id /\ from.left = q - n
      /\ from.lots \in Seq(Lots) /\ from.closed \in Seq(Closings)
      /\ LotUnits(from.lots) = SubSeq(open, n + 1, N)
      /\ PairUnits(from.closed) = old \o Paired(open, trade.id, n)
  BY DEF Took, Sales
<1>3. N \in Nat /\ n \in 0..N /\ (n = q \/ n = N) /\ n <= q
  BY <1>1 DEF Got
<1>4. m \in 0..r /\ (m = 0 \/ n = N) /\ m <= q - n
  <2>1. q \in Nat /\ r \in Nat /\ from.left = q - n
    BY <1>1, <1>2
  <2> HIDE DEF q, open, N, n, r
  <2> QED
    BY <1>3, <2>1
<1>5. more \in Seq(Nat) /\ Len(more) = N + r
  <2> DEFINE C == Copies(lot.id, r)
  <2>1. C \in Seq(Nat) /\ Len(C) = r /\ open \in Seq(Nat)
    BY <1>1, CopiesTyped
  <2> HIDE DEF C, open, r
  <2>2. open \o C \in Seq(Nat) /\ Len(open \o C) = Len(open) + Len(C)
    BY <2>1, ConcatProperties
  <2> QED
    BY <2>1, <2>2 DEF C
<1>6. /\ next \in Sales
      /\ next.id = from.id
      /\ next.left = from.left - m
      /\ next.lots = IF r > m THEN Append(from.lots, over) ELSE from.lots
      /\ next.closed = IF m > 0 THEN Append(from.closed, closing) ELSE from.closed
  BY <1>2, TakeTyped
<1>7. Got(more, q) = n + m /\ q - (n + m) = from.left - m
  <2>1. N = Len(open) /\ n = IF q < N THEN q ELSE N
    BY DEF Got
  <2>2. Got(more, q) = IF q < N + r THEN q ELSE N + r
    BY <1>5 DEF Got
  <2>3. q \in Nat /\ r \in Nat /\ from.left = q - n
    BY <1>1, <1>2
  <2> HIDE DEF more, open, N, n, q, r, next
  <2>4. CASE q < N
    BY <1>3, <2>1, <2>2, <2>3, <2>4
  <2>5. CASE ~(q < N) /\ q < N + r
    BY <1>3, <2>1, <2>2, <2>3, <2>5
  <2>6. CASE ~(q < N + r)
    <3>1. ~(q < N) /\ n = N /\ m = r /\ Got(more, q) = N + r
      BY <1>3, <2>1, <2>2, <2>3, <2>6
    <3> HIDE DEF m
    <3> QED
      BY <1>3, <2>3, <3>1
  <2> QED
    BY <2>4, <2>5, <2>6
<1> HIDE DEF q, open, N, n, r, m, next, more, over, closing, old
<1>8. LotUnits(next.lots) = SubSeq(more, n + m + 1, N + r)
  <2>1. SubSeq(open, n + 1, N) \o Copies(lot.id, r - m) = SubSeq(more, n + m + 1, N + r)
    BY <1>1, <1>3, <1>4, RestOfMore DEF more, N
  <2>2. LotUnits(next.lots) = LotUnits(from.lots) \o Copies(lot.id, r - m)
    <3>1. CASE r > m
      <4>1. over \in Lots /\ over.id = lot.id /\ over.remaining = r - m
        BY <1>1, <1>4, <3>1 DEF over, Lots
      <4>2. next.lots = Append(from.lots, over)
        BY <1>6, <3>1
      <4> QED
        BY <1>2, <4>1, <4>2, LotUnitsUnfold
    <3>2. CASE ~(r > m)
      <4>1. r - m = 0
        BY <1>1, <1>4, <3>2
      <4>2. Copies(lot.id, 0) = <<>>
        BY DEF Copies
      <4>3. LotUnits(from.lots) \in Seq(Nat)
        BY <1>2, LotUnitsUnfold
      <4>4. LotUnits(from.lots) \o <<>> = LotUnits(from.lots)
        BY <4>3, ConcatEmptySeq
      <4>5. next.lots = from.lots
        BY <1>6, <3>2
      <4> QED
        BY <4>1, <4>2, <4>4, <4>5
    <3> QED
      BY <3>1, <3>2
  <2> QED
    BY <1>2, <2>1, <2>2
<1>9. PairUnits(next.closed) = old \o Paired(more, trade.id, n + m)
  <2>1. Paired(open, trade.id, n) \o Copies(<<lot.id, trade.id>>, m)
          = Paired(more, trade.id, n + m)
    <3>1. /\ open \in Seq(Nat) /\ lot.id \in Nat /\ r \in Nat /\ trade.id \in Nat
          /\ n \in 0..Len(open) /\ m \in 0..r /\ (m = 0 \/ n = Len(open))
      BY <1>1, <1>3, <1>4 DEF N
    <3> DEFINE e == lot.id
               id == trade.id
    <3>2. e \in Nat /\ id \in Nat
      BY <3>1
    <3> HIDE DEF e, id
    <3>3. Paired(open, id, n) \o Copies(<<e, id>>, m) = Paired(open \o Copies(e, r), id, n + m)
      <4>1. \A i \in 0..Len(open), j \in 0..r :
              j = 0 \/ i = Len(open) =>
                Paired(open, id, i) \o Copies(<<e, id>>, j) = Paired(open \o Copies(e, r), id, i + j)
        BY <3>1, <3>2, MorePaired, Zenon
      <4> QED
        BY <3>1, <4>1, Zenon
    <3> QED
      BY <3>3 DEF e, id, more
  <2>2. PairUnits(next.closed) = PairUnits(from.closed) \o Copies(<<lot.id, trade.id>>, m)
    <3>1. CASE m > 0
      <4>1. /\ closing \in Closings
            /\ <<closing.entry, closing.exit>> = <<lot.id, trade.id>> /\ closing.quantity = m
        BY <1>1, <1>4, <3>1 DEF closing, Closings
      <4>2. next.closed = Append(from.closed, closing)
        BY <1>6, <3>1
      <4>3. PairUnits(Append(from.closed, closing))
              = PairUnits(from.closed) \o Copies(<<closing.entry, closing.exit>>, closing.quantity)
        BY <1>2, <4>1, PairUnitsUnfold
      <4> QED
        BY <4>1, <4>2, <4>3
    <3>2. CASE ~(m > 0)
      <4>1. m = 0
        BY <1>1, <1>4, <3>2
      <4>2. Copies(<<lot.id, trade.id>>, 0) = <<>>
        BY DEF Copies
      <4>3. PairUnits(from.closed) \in Seq(Pairs)
        <5>1. Paired(open, trade.id, n) \in Seq(Pairs)
          BY <1>1, <1>3, PairedTyped DEF N
        <5> QED
          BY <1>1, <1>2, <5>1, ConcatProperties
      <4>4. PairUnits(from.closed) \o <<>> = PairUnits(from.closed)
        BY <4>3, ConcatEmptySeq
      <4>5. next.closed = from.closed
        BY <1>6, <3>2
      <4> QED
        BY <4>1, <4>2, <4>4, <4>5
    <3> QED
      BY <3>1, <3>2
  <2>3. (old \o Paired(open, trade.id, n)) \o Copies(<<lot.id, trade.id>>, m)
          = old \o (Paired(open, trade.id, n) \o Copies(<<lot.id, trade.id>>, m))
    <3> DEFINE P == Paired(open, trade.id, n)
               C == Copies(<<lot.id, trade.id>>, m)
    <3>1. P \in Seq(Pairs)
      BY <1>1, <1>3, PairedTyped DEF N
    <3>2. <<lot.id, trade.id>> \in Pairs /\ m \in Nat
      BY <1>1, <1>4 DEF Pairs
    <3>3. C \in Seq(Pairs)
      BY <3>2, CopiesTyped
    <3> HIDE DEF P, C
    <3>4. (old \o P) \o C = old \o (P \o C)
      BY <1>1, <3>1, <3>3, PairsAssociate
    <3> QED
      BY <3>4 DEF P, C
  <2> QED
    BY <1>2, <2>1, <2>2, <2>3
<1>10. Took(trade, closed, Append(lots, lot), next)
  <2>1. /\ LotUnits(Append(lots, lot)) = more /\ Got(more, trade.quantity) = n + m
        /\ Len(more) = N + r
    BY <1>1, <1>5, <1>7 DEF q
  <2>2. next.left = trade.quantity - (n + m) /\ next.id = trade.id
    BY <1>2, <1>6, <1>7 DEF q
  <2> QED
    BY <1>6, <1>8, <1>9, <2>1, <2>2 DEF Took, old
<1> QED
  BY <1>10 DEF next

\* A sell takes the oldest lot steps, and leaves the others as they are.
LEMMA SaleTakesOldest ==
    ASSUME NEW trade \in Trades, NEW closed \in Seq(Closings)
    PROVE  \A lots \in Seq(Lots) :
             Took(trade, closed, lots, FoldLeft(TakeFrom, Sale(trade, closed), lots))
<1> DEFINE base == Sale(trade, closed)
           Fold(lots) == FoldLeft(TakeFrom, base, lots)
           Claim == {lots \in Seq(Lots) : Took(trade, closed, lots, Fold(lots))}
<1>1. base \in Sales
  BY EmptySeq DEF Sale, Sales, Trades
<1> HIDE DEF base
<1>2. TakeStep \in [Sales \X Lots -> Sales]
  BY TakeTyped DEF TakeStep
<1>3. \A a \in Sales, b \in Lots : TakeStep[<<a, b>>] = TakeFrom(a, b)
  BY DEF TakeStep
<1>4. \A lots \in Seq(Lots) : Fold(lots) = Folded(TakeStep, base, lots) /\ Fold(lots) \in Sales
  BY <1>1, TakesFold
<1> HIDE DEF Fold
<1>5. Fold(<<>>) = base
  <2>1. <<>> \in Seq(Lots) /\ [id |-> 0, remaining |-> 1] \in Lots
    BY EmptySeq DEF Lots
  <2>2. Folded(TakeStep, base, <<>>) = base
    BY <2>1, FoldedUnfolds
  <2> QED
    BY <1>4, <2>1, <2>2
<1>6. <<>> \in Claim
  <2>1. LotUnits(<<>>) = <<>> /\ Len(<<>>) = 0 /\ Got(<<>>, trade.quantity) = 0
    <3>1. trade.quantity \in Nat
      BY DEF Trades
    <3> QED
      BY <3>1, LotUnitsUnfold, EmptySeq DEF Got
  <2>2. /\ base.id = trade.id /\ base.left = trade.quantity - 0
        /\ base.lots = <<>> /\ base.closed = closed
    BY DEF base, Sale, Trades
  <2>3. SubSeq(<<>>, 0 + 1, 0) = <<>> /\ Paired(<<>>, trade.id, 0) = <<>>
    BY SubSeqEmpty DEF Paired
  <2>4. PairUnits(closed) \o <<>> = PairUnits(closed)
    <3>1. [entry |-> 0, exit |-> 0, quantity |-> 1] \in Closings
      BY DEF Closings
    <3> QED
      BY <3>1, PairUnitsUnfold, ConcatEmptySeq
  <2>5. Took(trade, closed, <<>>, base)
    BY <1>1, <2>1, <2>2, <2>3, <2>4, Zenon DEF Took
  <2> QED
    BY <1>5, <2>5, EmptySeq
<1>7. ASSUME NEW lots \in Seq(Lots), lots \in Claim, NEW lot \in Lots
      PROVE  Append(lots, lot) \in Claim
  <2>1. Append(lots, lot) \in Seq(Lots)
    BY AppendProperties
  <2>2. Folded(TakeStep, base, Append(lots, lot)) = TakeStep[<<Folded(TakeStep, base, lots), lot>>]
    BY FoldedUnfolds
  <2>3. Fold(Append(lots, lot)) = TakeFrom(Fold(lots), lot)
    BY <1>3, <1>4, <2>1, <2>2
  <2>4. Took(trade, closed, lots, Fold(lots))
    BY <1>7
  <2>5. Took(trade, closed, Append(lots, lot), TakeFrom(Fold(lots), lot))
    BY <2>4, TookOneMore
  <2> QED
    BY <2>1, <2>3, <2>5
<1> HIDE DEF Claim
<1>8. \A lots \in Seq(Lots) : lots \in Claim
  BY <1>6, <1>7, AppendInduction
<1> QED
  BY <1>8 DEF Claim, Fold, base

-----------------------------------------------------------------------------
(* match_fifo is a queue of single lot steps *)

MatchStep == [p \in Matches \X Trades |-> Match(p[1], p[2])]

\* A buy opens a lot behind the others.
LEMMA BuyOpens ==
    ASSUME NEW match \in Matches, NEW trade \in Trades, trade.side = "buy"
    PROVE  LET lot == [id |-> trade.id, remaining |-> trade.quantity]
           IN  /\ lot \in Lots
               /\ Match(match, trade) \in Matches
               /\ Match(match, trade).lots = Append(match.lots, lot)
               /\ Match(match, trade).closed = match.closed
               /\ Match(match, trade).unmatched = match.unmatched
<1> DEFINE lot == [id |-> trade.id, remaining |-> trade.quantity]
<1>1. lot \in Lots
  BY DEF Lots, Trades
<1>2. match.lots \in Seq(Lots) /\ match.closed \in Seq(Closings) /\ match.unmatched \in Nat
  BY DEF Matches
<1>3. Match(match, trade) = [match EXCEPT !.lots = Append(@, lot)]
  BY DEF Match, Opened
<1> HIDE DEF lot
<1>4. Match(match, trade) = [lots |-> Append(match.lots, lot), closed |-> match.closed,
                             unmatched |-> match.unmatched]
  BY <1>3 DEF Matches
<1>5. Append(match.lots, lot) \in Seq(Lots)
  BY <1>1, <1>2, AppendProperties
<1> QED
  BY <1>1, <1>2, <1>4, <1>5 DEF Matches, lot

\* A sell is a sale that goes through all the lots.
LEMMA SellCloses ==
    ASSUME NEW match \in Matches, NEW trade \in Trades, trade.side # "buy"
    PROVE  \E from \in Sales :
             /\ Took(trade, match.closed, match.lots, from)
             /\ Match(match, trade) \in Matches
             /\ Match(match, trade).lots = from.lots
             /\ Match(match, trade).closed = from.closed
             /\ Match(match, trade).unmatched = match.unmatched + from.left
<1> DEFINE from == FoldLeft(TakeFrom, Sale(trade, match.closed), match.lots)
<1>1. match.lots \in Seq(Lots) /\ match.closed \in Seq(Closings) /\ match.unmatched \in Nat
  BY DEF Matches
<1>2. Match(match, trade) = [lots |-> from.lots, closed |-> from.closed,
                             unmatched |-> match.unmatched + from.left]
  BY DEF Match, Closed
<1>3. Took(trade, match.closed, match.lots, from)
  BY <1>1, SaleTakesOldest
<1> HIDE DEF from
<1>4. from \in Sales
  BY <1>3 DEF Took
<1>5. from.lots \in Seq(Lots) /\ from.closed \in Seq(Closings) /\ match.unmatched + from.left \in Nat
  BY <1>1, <1>4 DEF Sales
<1>6. Match(match, trade) \in Matches
  BY <1>2, <1>5 DEF Matches
<1> QED
  BY <1>2, <1>3, <1>4, <1>6

LEMMA MatchTyped ==
    MatchStep \in [Matches \X Trades -> Matches] /\ NoMatch \in Matches
<1>1. \A match \in Matches, trade \in Trades : Match(match, trade) \in Matches
  BY BuyOpens, SellCloses
<1>2. NoMatch \in Matches
  BY EmptySeq DEF NoMatch, Matches
<1> QED
  BY <1>1, <1>2 DEF MatchStep

LEMMA MatchesFold ==
    ASSUME NEW s \in Seq(Trades)
    PROVE  MatchFifo(s) = Folded(MatchStep, NoMatch, s) /\ MatchFifo(s) \in Matches
<1> DEFINE Loops(g) == g = [t \in SUBSET DOMAIN s |->
                               IF t = {} THEN NoMatch
                               ELSE Match(g[t \ {Max(t)}], s[Max(t)])]
           G == CHOOSE g : Loops(g)
<1>1. MatchFifo(s) = G[DOMAIN s]
  BY DEF MatchFifo, FoldLeft, MapThenFoldSet
<1>2. MatchStep \in [Matches \X Trades -> Matches] /\ NoMatch \in Matches
  BY MatchTyped
<1>3. \A a \in Matches, b \in Trades : MatchStep[<<a, b>>] = Match(a, b)
  BY DEF MatchStep
<1>4. PICK f : Iterates(f, MatchStep, NoMatch, s)
  BY <1>2, IterateExists
<1>5. \A t \in SUBSET DOMAIN s : t # {} => f[t \ {Max(t)}] \in Matches /\ s[Max(t)] \in Trades
  <2>1. Within(f, MatchStep, NoMatch, s, Matches, Trades)
    BY <1>4 DEF Iterates, Within
  <2> QED
    BY <1>2, <2>1, FoldedStays
<1>6. Loops(f)
  <2>1. f = [t \in SUBSET DOMAIN s |->
               IF t = {} THEN NoMatch ELSE MatchStep[<<f[t \ {Max(t)}], s[Max(t)]>>]]
    BY <1>4 DEF Iterates
  <2>2. \A t \in SUBSET DOMAIN s :
          (IF t = {} THEN NoMatch ELSE MatchStep[<<f[t \ {Max(t)}], s[Max(t)]>>])
            = (IF t = {} THEN NoMatch ELSE Match(f[t \ {Max(t)}], s[Max(t)]))
    BY <1>3, <1>5
  <2> QED
    BY <2>1, <2>2
<1>7. Loops(G)
  BY <1>6
<1> HIDE DEF G
<1>8. Within(G, MatchStep, NoMatch, s, Matches, Trades)
  BY <1>3, <1>7 DEF Within
<1> HIDE DEF Loops
<1>9. EndsAt(G, s, Folded(MatchStep, NoMatch, s), Matches)
  BY <1>2, <1>8, FoldedStays
<1> QED
  BY <1>1, <1>9 DEF EndsAt

UnitStates == [queue : Seq(Nat), pairs : Seq(Pairs), unmatched : Nat]
QueueStep == [p \in UnitStates \X Trades |-> UnitStep(p[1], p[2])]

LEMMA BuyQueues ==
    ASSUME NEW units \in UnitStates, NEW trade \in Trades, trade.side = "buy"
    PROVE  /\ UnitStep(units, trade) \in UnitStates
           /\ UnitStep(units, trade).queue = units.queue \o Copies(trade.id, trade.quantity)
           /\ UnitStep(units, trade).pairs = units.pairs
           /\ UnitStep(units, trade).unmatched = units.unmatched
<1> DEFINE more == Copies(trade.id, trade.quantity)
<1>1. UnitStep(units, trade) = [units EXCEPT !.queue = @ \o more]
  BY DEF UnitStep, Copies
<1>2. trade.id \in Nat /\ trade.quantity \in Nat
  BY DEF Trades
<1>3. more \in Seq(Nat)
  BY <1>2, CopiesTyped
<1> HIDE DEF more
<1>4. UnitStep(units, trade) = [queue |-> units.queue \o more, pairs |-> units.pairs,
                                unmatched |-> units.unmatched]
  BY <1>1 DEF UnitStates
<1>5. units.queue \in Seq(Nat) /\ units.pairs \in Seq(Pairs) /\ units.unmatched \in Nat
  BY DEF UnitStates
<1>6. units.queue \o more \in Seq(Nat)
  BY <1>3, <1>5, ConcatProperties
<1> QED
  BY <1>4, <1>5, <1>6 DEF UnitStates, more

LEMMA SellDequeues ==
    ASSUME NEW units \in UnitStates, NEW trade \in Trades, trade.side # "buy"
    PROVE  LET n == Got(units.queue, trade.quantity)
           IN  /\ UnitStep(units, trade) \in UnitStates
               /\ UnitStep(units, trade).queue = SubSeq(units.queue, n + 1, Len(units.queue))
               /\ UnitStep(units, trade).pairs = units.pairs \o Paired(units.queue, trade.id, n)
               /\ UnitStep(units, trade).unmatched = units.unmatched + (trade.quantity - n)
<1> DEFINE q == trade.quantity
           open == units.queue
           N == Len(open)
           n == Got(open, q)
           rest == SubSeq(open, n + 1, N)
           pairs == Paired(open, trade.id, n)
<1>1. /\ open \in Seq(Nat) /\ units.pairs \in Seq(Pairs) /\ units.unmatched \in Nat
      /\ q \in Nat /\ trade.id \in Nat /\ N \in Nat
  BY LenProperties DEF UnitStates, Trades
<1>2. Min({q, N}) = n
  <2>1. n = IF q < N THEN q ELSE N
    BY DEF Got
  <2> HIDE DEF q, N, n
  <2> QED
    BY <1>1, <2>1, MinOfTwo
<1>3. UnitStep(units, trade) = [queue |-> rest, pairs |-> units.pairs \o pairs,
                                unmatched |-> units.unmatched + q - n]
  BY <1>2 DEF UnitStep, Paired
<1>4. n \in 0..N /\ n <= q
  BY <1>1 DEF Got
<1> HIDE DEF q, N, n, rest, pairs
<1>5. rest \in Seq(Nat)
  <2>1. \A i \in (n + 1)..N : open[i] \in Nat
    <3>1. \A i \in (n + 1)..N : i \in 1..N
      BY <1>1, <1>4
    <3> QED
      BY <1>1, <3>1, ElementOfSeq DEF N
  <2>2. n + 1 \in Int /\ N \in Int
    BY <1>1, <1>4
  <2> QED
    BY <2>1, <2>2, SubSeqProperties DEF rest
<1>6. pairs \in Seq(Pairs)
  BY <1>1, <1>4, PairedTyped DEF N, pairs
<1>7. units.pairs \o pairs \in Seq(Pairs)
  BY <1>1, <1>6, ConcatProperties
<1>8. units.unmatched + q - n = units.unmatched + (q - n) /\ units.unmatched + (q - n) \in Nat
  BY <1>1, <1>4
<1> HIDE DEF open
<1>9. UnitStep(units, trade) \in UnitStates
  BY <1>3, <1>5, <1>7, <1>8 DEF UnitStates
<1>10. /\ UnitStep(units, trade).queue = rest
       /\ UnitStep(units, trade).pairs = units.pairs \o pairs
       /\ UnitStep(units, trade).unmatched = units.unmatched + (q - n)
  BY <1>3, <1>8
<1> QED
  BY <1>9, <1>10, Zenon DEF open, q, n, N, rest, pairs

LEMMA QueueTyped ==
    QueueStep \in [UnitStates \X Trades -> UnitStates] /\ UnitQueue \in UnitStates
<1>1. \A units \in UnitStates, trade \in Trades : UnitStep(units, trade) \in UnitStates
  BY BuyQueues, SellDequeues
<1>2. UnitQueue \in UnitStates
  BY EmptySeq DEF UnitQueue, UnitStates
<1> QED
  BY <1>1, <1>2 DEF QueueStep

LEMMA UnitsFold ==
    ASSUME NEW s \in Seq(Trades)
    PROVE  Units(s) = Folded(QueueStep, UnitQueue, s) /\ Units(s) \in UnitStates
<1> DEFINE Loops(g) == g = [t \in SUBSET DOMAIN s |->
                               IF t = {} THEN UnitQueue
                               ELSE UnitStep(g[t \ {Max(t)}], s[Max(t)])]
           G == CHOOSE g : Loops(g)
<1>1. Units(s) = G[DOMAIN s]
  BY DEF Units, FoldLeft, MapThenFoldSet
<1>2. QueueStep \in [UnitStates \X Trades -> UnitStates] /\ UnitQueue \in UnitStates
  BY QueueTyped
<1>3. \A a \in UnitStates, b \in Trades : QueueStep[<<a, b>>] = UnitStep(a, b)
  BY DEF QueueStep
<1>4. PICK f : Iterates(f, QueueStep, UnitQueue, s)
  BY <1>2, IterateExists
<1>5. \A t \in SUBSET DOMAIN s : t # {} => f[t \ {Max(t)}] \in UnitStates /\ s[Max(t)] \in Trades
  <2>1. Within(f, QueueStep, UnitQueue, s, UnitStates, Trades)
    BY <1>4 DEF Iterates, Within
  <2> QED
    BY <1>2, <2>1, FoldedStays
<1>6. Loops(f)
  <2>1. f = [t \in SUBSET DOMAIN s |->
               IF t = {} THEN UnitQueue ELSE QueueStep[<<f[t \ {Max(t)}], s[Max(t)]>>]]
    BY <1>4 DEF Iterates
  <2>2. \A t \in SUBSET DOMAIN s :
          (IF t = {} THEN UnitQueue ELSE QueueStep[<<f[t \ {Max(t)}], s[Max(t)]>>])
            = (IF t = {} THEN UnitQueue ELSE UnitStep(f[t \ {Max(t)}], s[Max(t)]))
    BY <1>3, <1>5
  <2> QED
    BY <2>1, <2>2
<1>7. Loops(G)
  BY <1>6
<1> HIDE DEF G
<1>8. Within(G, QueueStep, UnitQueue, s, UnitStates, Trades)
  BY <1>3, <1>7 DEF Within
<1> HIDE DEF Loops
<1>9. EndsAt(G, s, Folded(QueueStep, UnitQueue, s), UnitStates)
  BY <1>2, <1>8, FoldedStays
<1> QED
  BY <1>1, <1>9 DEF EndsAt

\* What a trade more does to both
LEMMA UnfoldTrades ==
    ASSUME NEW s \in Seq(Trades), NEW trade \in Trades
    PROVE  /\ MatchFifo(<<>>) = NoMatch /\ Units(<<>>) = UnitQueue
           /\ MatchFifo(s) \in Matches /\ Units(s) \in UnitStates
           /\ MatchFifo(Append(s, trade)) = Match(MatchFifo(s), trade)
           /\ Units(Append(s, trade)) = UnitStep(Units(s), trade)
<1>1. <<>> \in Seq(Trades) /\ Append(s, trade) \in Seq(Trades)
  BY EmptySeq, AppendProperties
<1>2. MatchFifo(<<>>) = NoMatch /\ Units(<<>>) = UnitQueue
  BY <1>1, MatchesFold, UnitsFold, FoldedUnfolds
<1>3. MatchFifo(s) \in Matches /\ Units(s) \in UnitStates
  BY MatchesFold, UnitsFold
<1>4. MatchFifo(Append(s, trade)) = MatchStep[<<MatchFifo(s), trade>>]
  <2>1. Folded(MatchStep, NoMatch, Append(s, trade)) = MatchStep[<<Folded(MatchStep, NoMatch, s), trade>>]
    BY FoldedUnfolds
  <2> QED
    BY <1>1, <2>1, MatchesFold
<1>5. Units(Append(s, trade)) = QueueStep[<<Units(s), trade>>]
  <2>1. Folded(QueueStep, UnitQueue, Append(s, trade)) = QueueStep[<<Folded(QueueStep, UnitQueue, s), trade>>]
    BY FoldedUnfolds
  <2> QED
    BY <1>1, <2>1, UnitsFold
<1>6. MatchStep[<<MatchFifo(s), trade>>] = Match(MatchFifo(s), trade)
  BY <1>3 DEF MatchStep
<1>7. QueueStep[<<Units(s), trade>>] = UnitStep(Units(s), trade)
  BY <1>3 DEF QueueStep
<1> QED
  BY <1>2, <1>3, <1>4, <1>5, <1>6, <1>7

Same(match, units) ==
    /\ LotUnits(match.lots) = units.queue
    /\ PairUnits(match.closed) = units.pairs
    /\ match.unmatched = units.unmatched

LEMMA SameAfter ==
    ASSUME NEW match \in Matches, NEW units \in UnitStates, NEW trade \in Trades,
           Same(match, units)
    PROVE  Same(Match(match, trade), UnitStep(units, trade))
<1>1. match.lots \in Seq(Lots)
  BY DEF Matches
<1>2. CASE trade.side = "buy"
  <2> DEFINE lot == [id |-> trade.id, remaining |-> trade.quantity]
  <2>1. /\ lot \in Lots /\ lot.id = trade.id /\ lot.remaining = trade.quantity
        /\ Match(match, trade).lots = Append(match.lots, lot)
        /\ Match(match, trade).closed = match.closed
        /\ Match(match, trade).unmatched = match.unmatched
    BY <1>2, BuyOpens
  <2> HIDE DEF lot
  <2>2. LotUnits(Append(match.lots, lot)) = LotUnits(match.lots) \o Copies(lot.id, lot.remaining)
    BY <1>1, <2>1, LotUnitsUnfold
  <2> QED
    BY <1>2, <2>1, <2>2, BuyQueues DEF Same
<1>3. CASE trade.side # "buy"
  <2>1. PICK from \in Sales :
          /\ Took(trade, match.closed, match.lots, from)
          /\ Match(match, trade).lots = from.lots
          /\ Match(match, trade).closed = from.closed
          /\ Match(match, trade).unmatched = match.unmatched + from.left
    BY <1>3, SellCloses
  <2> DEFINE n == Got(units.queue, trade.quantity)
  <2>2. /\ from.left = trade.quantity - n
        /\ LotUnits(from.lots) = SubSeq(units.queue, n + 1, Len(units.queue))
        /\ PairUnits(from.closed) = units.pairs \o Paired(units.queue, trade.id, n)
    BY <2>1 DEF Took, Same
  <2>3. /\ UnitStep(units, trade).queue = SubSeq(units.queue, n + 1, Len(units.queue))
        /\ UnitStep(units, trade).pairs = units.pairs \o Paired(units.queue, trade.id, n)
        /\ UnitStep(units, trade).unmatched = units.unmatched + (trade.quantity - n)
    BY <1>3, SellDequeues
  <2> HIDE DEF n
  <2> QED
    BY <2>1, <2>2, <2>3 DEF Same
<1> QED
  BY <1>2, <1>3

\* For every sequence of trades, match_fifo pairs the lot steps as a queue does.
THEOREM FifoForEveryHistory ==
    \A s \in Seq(Trades) : AgreesWithQueue(s)
<1> DEFINE Claim == {s \in Seq(Trades) : Same(MatchFifo(s), Units(s))}
<1>1. <<>> \in Claim
  <2>1. [id |-> 0, side |-> "buy", quantity |-> 1] \in Trades
    BY DEF Trades
  <2>2. <<>> \in Seq(Trades)
    BY EmptySeq
  <2>3. MatchFifo(<<>>) = NoMatch /\ Units(<<>>) = UnitQueue
    BY <2>1, <2>2, UnfoldTrades
  <2>4. Same(NoMatch, UnitQueue)
    BY LotUnitsUnfold, PairUnitsUnfold DEF Same, NoMatch, UnitQueue
  <2> QED
    BY <2>2, <2>3, <2>4
<1>2. ASSUME NEW s \in Seq(Trades), s \in Claim, NEW trade \in Trades
      PROVE  Append(s, trade) \in Claim
  <2>1. Append(s, trade) \in Seq(Trades)
    BY AppendProperties
  <2>2. Same(Match(MatchFifo(s), trade), UnitStep(Units(s), trade))
    BY <1>2, UnfoldTrades, SameAfter
  <2> QED
    BY <2>1, <2>2, UnfoldTrades
<1> HIDE DEF Claim
<1>3. \A s \in Seq(Trades) : s \in Claim
  BY <1>1, <1>2, AppendInduction
<1>4. ASSUME NEW s \in Seq(Trades)
      PROVE  \A i \in DOMAIN MatchFifo(s).lots : MatchFifo(s).lots[i].remaining > 0
  <2>1. MatchFifo(s).lots \in Seq(Lots)
    BY MatchesFold DEF Matches
  <2> DEFINE lots == MatchFifo(s).lots
  <2> HIDE DEF lots
  <2>2. lots \in Seq(Lots)
    BY <2>1 DEF lots
  <2>3. \A i \in DOMAIN lots : lots[i].remaining \in Nat \ {0}
    <3>1. \A i \in DOMAIN lots : lots[i] \in Lots
      BY <2>2
    <3> QED
      BY <3>1 DEF Lots
  <2>4. \A i \in DOMAIN lots : lots[i].remaining > 0
    BY <2>3
  <2> QED
    BY <2>4 DEF lots
<1>5. \A s \in Seq(Trades) : Same(MatchFifo(s), Units(s))
  BY <1>3 DEF Claim
<1> QED
  BY <1>4, <1>5 DEF AgreesWithQueue, Same

-----------------------------------------------------------------------------
(* The rows as trades *)

TradeRows == [side : {"buy", "sell"}, quantity : Nat \ {0},
              status : {"filled", "submitted"}, of : Nat]

\* Every row, executed or not, as the trade it is or will be
AsTrades(rows) == [i \in DOMAIN rows |-> [id |-> i, side |-> rows[i].side,
                                          quantity |-> rows[i].quantity]]

Upto(n) == [i \in 1..n |-> i]
RecordStep == [p \in Seq(Trades) \X DOMAIN trades |-> Recorded(p[1], p[2])]

LEMMA RowOf ==
    ASSUME NEW rows \in Seq(TradeRows), NEW i \in DOMAIN rows
    PROVE  /\ i \in Nat /\ rows[i] \in TradeRows
           /\ rows[i].side \in {"buy", "sell"} /\ rows[i].quantity \in Nat \ {0}
           /\ rows[i].status \in {"filled", "submitted"}
           /\ [id |-> i, side |-> rows[i].side, quantity |-> rows[i].quantity] \in Trades
<1>1. i \in Nat /\ rows[i] \in TradeRows
  OBVIOUS
<1>2. /\ rows[i].side \in {"buy", "sell"} /\ rows[i].quantity \in Nat \ {0}
      /\ rows[i].status \in {"filled", "submitted"}
  BY <1>1 DEF TradeRows
<1> QED
  BY <1>1, <1>2 DEF Trades

LEMMA RecordTyped ==
    ASSUME trades \in Seq(TradeRows)
    PROVE  RecordStep \in [Seq(Trades) \X DOMAIN trades -> Seq(Trades)]
<1>1. ASSUME NEW records \in Seq(Trades), NEW i \in DOMAIN trades
      PROVE  Recorded(records, i) \in Seq(Trades)
  BY RowOf, AppendProperties DEF Recorded
<1> QED
  BY <1>1 DEF RecordStep

LEMMA RecordsFold ==
    ASSUME trades \in Seq(TradeRows)
    PROVE  Executed = Folded(RecordStep, <<>>, Upto(Len(trades))) /\ Executed \in Seq(Trades)
<1> DEFINE s == Upto(Len(trades))
           D == Seq(Trades)
           E == DOMAIN trades
           Loops(g) == g = [t \in SUBSET DOMAIN s |->
                               IF t = {} THEN <<>>
                               ELSE Recorded(g[t \ {Max(t)}], s[Max(t)])]
           G == CHOOSE g : Loops(g)
<1>1. Executed = G[DOMAIN s]
  <2>1. DOMAIN trades = 1..Len(trades)
    OBVIOUS
  <2>2. [i \in DOMAIN trades |-> i] = s
    BY <2>1 DEF Upto
  <2> HIDE DEF s
  <2>3. FoldLeft(Recorded, <<>>, s) = G[DOMAIN s]
    BY DEF FoldLeft, MapThenFoldSet
  <2> QED
    BY <2>2, <2>3 DEF Executed, FoldLeftDomain
<1>2. RecordStep \in [D \X E -> D] /\ <<>> \in D
  BY RecordTyped, EmptySeq
<1>3. \A a \in D, b \in E : RecordStep[<<a, b>>] = Recorded(a, b)
  BY DEF RecordStep
<1>4. s \in Seq(E)
  <2>1. Len(trades) \in Nat /\ E = 1..Len(trades)
    OBVIOUS
  <2>2. s \in [1..Len(trades) -> E]
    BY <2>1 DEF Upto
  <2> QED
    BY <2>1, <2>2, TupleIsSeq
<1> HIDE DEF D, E, s
<1>5. PICK f : Iterates(f, RecordStep, <<>>, s)
  BY <1>2, <1>4, IterateExists
<1>6. \A t \in SUBSET DOMAIN s : t # {} => f[t \ {Max(t)}] \in D /\ s[Max(t)] \in E
  <2>1. Within(f, RecordStep, <<>>, s, D, E)
    BY <1>5 DEF Iterates, Within
  <2> QED
    BY <1>2, <1>4, <2>1, FoldedStays
<1>7. Loops(f)
  <2>1. f = [t \in SUBSET DOMAIN s |->
               IF t = {} THEN <<>> ELSE RecordStep[<<f[t \ {Max(t)}], s[Max(t)]>>]]
    BY <1>5 DEF Iterates
  <2>2. \A t \in SUBSET DOMAIN s :
          (IF t = {} THEN <<>> ELSE RecordStep[<<f[t \ {Max(t)}], s[Max(t)]>>])
            = (IF t = {} THEN <<>> ELSE Recorded(f[t \ {Max(t)}], s[Max(t)]))
    BY <1>3, <1>6
  <2> QED
    BY <2>1, <2>2
<1>8. Loops(G)
  BY <1>7
<1> HIDE DEF G
<1>9. Within(G, RecordStep, <<>>, s, D, E)
  BY <1>3, <1>8 DEF Within
<1> HIDE DEF Loops
<1>10. EndsAt(G, s, Folded(RecordStep, <<>>, s), D)
  BY <1>2, <1>4, <1>9, FoldedStays
<1> QED
  BY <1>1, <1>10 DEF EndsAt, s, D

\* Once every order is resolved the records are the rows.
LEMMA RecordsAreRows ==
    ASSUME trades \in Seq(TradeRows), \A i \in DOMAIN trades : trades[i].status # "submitted"
    PROVE  Executed = AsTrades(trades)
<1> DEFINE N == Len(trades)
           All == AsTrades(trades)
           Claim == {n \in Nat : n <= N => Folded(RecordStep, <<>>, Upto(n)) = [i \in 1..n |-> All[i]]}
<1>1. N \in Nat /\ DOMAIN trades = 1..N
  OBVIOUS
<1>2. \A i \in 1..N : /\ All[i] = [id |-> i, side |-> trades[i].side, quantity |-> trades[i].quantity]
                      /\ All[i] \in Trades
                      /\ trades[i].status = "filled"
  BY <1>1, RowOf DEF AsTrades
<1>3. All = [i \in 1..N |-> All[i]]
  BY <1>1 DEF AsTrades
<1> HIDE DEF N, All
<1>4. 0 \in Claim
  <2>1. Upto(0) = <<>> /\ [i \in 1..0 |-> All[i]] = <<>>
    BY DEF Upto
  <2>2. Folded(RecordStep, <<>>, <<>>) = <<>>
    <3>1. <<>> \in Seq(Nat) /\ 0 \in Nat
      BY EmptySeq
    <3> QED
      BY <3>1, FoldedUnfolds
  <2> QED
    BY <2>1, <2>2
<1>5. ASSUME NEW n \in Nat, n \in Claim PROVE n + 1 \in Claim
  <2> SUFFICES ASSUME n + 1 <= N
               PROVE  Folded(RecordStep, <<>>, Upto(n + 1)) = [i \in 1..(n + 1) |-> All[i]]
    OBVIOUS
  <2> DEFINE old == [i \in 1..n |-> All[i]]
             all == [i \in 1..(n + 1) |-> All[i]]
  <2>1. n <= N /\ n + 1 \in 1..N /\ \A i \in 1..(n + 1) : i \in 1..N
    BY <1>1
  <2>2. Folded(RecordStep, <<>>, Upto(n)) = old
    BY <1>5, <2>1
  <2>3. Upto(n) \in Seq(Nat) /\ Len(Upto(n)) = n
    <3>1. Upto(n) \in [1..n -> Nat]
      BY DEF Upto
    <3> QED
      BY <3>1, TupleIsSeq
  <2>4. Upto(n + 1) = Append(Upto(n), n + 1)
    <3>1. Upto(n + 1) \in Seq(Nat) /\ Len(Upto(n + 1)) = n + 1
      <4>1. Upto(n + 1) \in [1..(n + 1) -> Nat] /\ n + 1 \in Nat
        BY DEF Upto
      <4> QED
        BY <4>1, TupleIsSeq
    <3>2. /\ Append(Upto(n), n + 1) \in Seq(Nat) /\ Len(Append(Upto(n), n + 1)) = n + 1
          /\ \A i \in 1..n : Append(Upto(n), n + 1)[i] = Upto(n)[i]
          /\ Append(Upto(n), n + 1)[n + 1] = n + 1
      BY <2>3, AppendProperties
    <3>3. \A i \in 1..(n + 1) : Upto(n + 1)[i] = i
      BY DEF Upto
    <3>4. \A i \in 1..n : Upto(n)[i] = i
      BY DEF Upto
    <3>5. \A i \in 1..(n + 1) : i \in 1..n \/ i = n + 1
      OBVIOUS
    <3>6. \A i \in 1..(n + 1) : Upto(n + 1)[i] = Append(Upto(n), n + 1)[i]
      BY <3>2, <3>3, <3>4, <3>5
    <3> QED
      BY <3>1, <3>2, <3>6, SeqEqual
  <2>5. Folded(RecordStep, <<>>, Upto(n + 1)) = RecordStep[<<old, n + 1>>]
    <3>1. n + 1 \in Nat
      OBVIOUS
    <3>2. Folded(RecordStep, <<>>, Append(Upto(n), n + 1))
            = RecordStep[<<Folded(RecordStep, <<>>, Upto(n)), n + 1>>]
      BY <2>3, <3>1, FoldedUnfolds
    <3> QED
      BY <2>2, <2>4, <3>2
  <2>6. old \in Seq(Trades) /\ Len(old) = n
    <3>0. \A i \in 1..n : i \in 1..N
      BY <2>1
    <3>1. \A i \in 1..n : All[i] \in Trades
      BY <1>2, <3>0
    <3>2. old \in [1..n -> Trades]
      BY <3>1
    <3> HIDE DEF old
    <3> QED
      BY <3>2, TupleIsSeq
  <2>7. RecordStep[<<old, n + 1>>] = Append(old, All[n + 1])
    <3>1. n + 1 \in DOMAIN trades
      BY <1>1, <2>1
    <3>2. RecordStep[<<old, n + 1>>] = Recorded(old, n + 1)
      BY <2>6, <3>1 DEF RecordStep
    <3> HIDE DEF old
    <3>3. Recorded(old, n + 1) = Append(old, [id |-> n + 1, side |-> trades[n + 1].side,
                                              quantity |-> trades[n + 1].quantity])
      BY <1>2, <2>1 DEF Recorded
    <3> QED
      BY <1>2, <2>1, <3>2, <3>3
  <2>8. Append(old, All[n + 1]) = all
    <3>1. All[n + 1] \in Trades
      BY <1>2, <2>1
    <3>2. all \in Seq(Trades) /\ Len(all) = n + 1 /\ \A i \in 1..(n + 1) : all[i] = All[i]
      <4>0. \A i \in 1..(n + 1) : All[i] \in Trades
        BY <1>2, <2>1
      <4>1. all \in [1..(n + 1) -> Trades] /\ n + 1 \in Nat
        BY <4>0
      <4>2. \A i \in 1..(n + 1) : all[i] = All[i]
        OBVIOUS
      <4> HIDE DEF all
      <4> QED
        BY <4>1, <4>2, TupleIsSeq
    <3>3. \A i \in 1..n : old[i] = All[i]
      OBVIOUS
    <3> HIDE DEF old, all
    <3>4. /\ Append(old, All[n + 1]) \in Seq(Trades) /\ Len(Append(old, All[n + 1])) = n + 1
          /\ \A i \in 1..n : Append(old, All[n + 1])[i] = old[i]
          /\ Append(old, All[n + 1])[n + 1] = All[n + 1]
      BY <2>6, <3>1, AppendProperties
    <3>5. \A i \in 1..(n + 1) : i \in 1..n \/ i = n + 1
      OBVIOUS
    <3>6. \A i \in 1..(n + 1) : Append(old, All[n + 1])[i] = all[i]
      BY <3>2, <3>3, <3>4, <3>5
    <3> QED
      BY <3>2, <3>4, <3>6, SeqEqual
  <2> QED
    BY <2>5, <2>7, <2>8
<1> HIDE DEF Claim
<1>6. N \in Claim
  BY <1>1, <1>4, <1>5, PrefixInduction
<1>7. Folded(RecordStep, <<>>, Upto(N)) = All
  BY <1>1, <1>3, <1>6 DEF Claim
<1> QED
  BY <1>7, RecordsFold DEF N, All

-----------------------------------------------------------------------------
(* The account covers what is sold *)

\* The lot steps of the buys that are answered and have not executed
Steps(i, q) == {i} \X (1..q)
Outstanding(rows) == UNION {Steps(i, rows[i].quantity) :
    i \in {j \in DOMAIN rows : rows[j].side = "buy" /\ rows[j].status = "submitted"}}

\* What the account holds, and what is still to come, is what is open: no row
\* sold what none had bought.
Covered(rows, held) ==
    /\ Units(AsTrades(rows)).unmatched = 0
    /\ IsFiniteSet(Outstanding(rows))
    /\ held + Cardinality(Outstanding(rows)) = Len(Units(AsTrades(rows)).queue)

LEMMA StepsCounted ==
    ASSUME NEW i, NEW q \in Nat
    PROVE  IsFiniteSet(Steps(i, q)) /\ Cardinality(Steps(i, q)) = q
<1>1. IsFiniteSet({i}) /\ Cardinality({i}) = 1
  BY FS_Singleton
<1>2. IsFiniteSet(1..q) /\ Cardinality(1..q) = q
  <2>1. IsFiniteSet(1..q) /\ Cardinality(1..q) = IF 1 > q THEN 0 ELSE q - 1 + 1
    BY FS_Interval
  <2> QED
    BY <2>1
<1>3. IsFiniteSet({i} \X (1..q)) /\ Cardinality({i} \X (1..q)) = Cardinality({i}) * Cardinality(1..q)
  BY <1>1, <1>2, FS_Product
<1>4. 1 * q = q
  OBVIOUS
<1> QED
  BY <1>1, <1>2, <1>3, <1>4 DEF Steps

\* The steps of one buy more, or of one less
LEMMA StepsAdded ==
    ASSUME NEW S, NEW i, NEW q \in Nat, IsFiniteSet(S), S \cap Steps(i, q) = {}
    PROVE  /\ IsFiniteSet(S \cup Steps(i, q))
           /\ Cardinality(S \cup Steps(i, q)) = Cardinality(S) + q
           /\ Cardinality(S) \in Nat
<1>1. Cardinality(S) \in Nat
  BY FS_CardinalityType
<1>2. IsFiniteSet(Steps(i, q)) /\ Cardinality(Steps(i, q)) = q
  BY StepsCounted
<1>3. Cardinality(S \cap Steps(i, q)) = 0
  BY FS_EmptySet
<1>4. /\ IsFiniteSet(S \cup Steps(i, q))
      /\ Cardinality(S \cup Steps(i, q)) = Cardinality(S) + Cardinality(Steps(i, q))
                                            - Cardinality(S \cap Steps(i, q))
  BY <1>2, FS_Union
<1> QED
  BY <1>1, <1>2, <1>3, <1>4

LEMMA OneRowMore ==
    ASSUME NEW rows \in Seq(TradeRows), NEW row \in TradeRows
    PROVE  LET n == Len(rows) + 1
               trade == [id |-> n, side |-> row.side, quantity |-> row.quantity]
           IN  /\ Append(rows, row) \in Seq(TradeRows)
               /\ AsTrades(rows) \in Seq(Trades)
               /\ trade \in Trades
               /\ AsTrades(Append(rows, row)) = Append(AsTrades(rows), trade)
               /\ Outstanding(rows) \cap Steps(n, row.quantity) = {}
               /\ Outstanding(Append(rows, row)) =
                    IF row.side = "buy" /\ row.status = "submitted"
                    THEN Outstanding(rows) \cup Steps(n, row.quantity) ELSE Outstanding(rows)
<1> DEFINE N == Len(rows)
           n == N + 1
           more == Append(rows, row)
           trade == [id |-> n, side |-> row.side, quantity |-> row.quantity]
<1>1. /\ N \in Nat /\ n \in Nat /\ DOMAIN rows = 1..N
      /\ more \in Seq(TradeRows) /\ DOMAIN more = 1..n
      /\ \A i \in 1..N : more[i] = rows[i]
      /\ more[n] = row
  BY AppendProperties, LenProperties
<1>2. n \notin 1..N /\ n \in 1..n /\ \A i \in 1..n : i \in 1..N \/ i = n
  BY <1>1
<1>3. \A i \in 1..N : i \in 1..n
  BY <1>1
<1>4. trade \in Trades
  BY <1>1 DEF TradeRows, Trades
<1>5. AsTrades(rows) \in Seq(Trades) /\ Len(AsTrades(rows)) = N
  <2>1. \A i \in 1..N : AsTrades(rows)[i] \in Trades
    BY <1>1, RowOf DEF AsTrades
  <2>2. AsTrades(rows) = [i \in 1..N |-> AsTrades(rows)[i]]
    BY <1>1 DEF AsTrades
  <2>3. AsTrades(rows) \in [1..N -> Trades]
    BY <2>1, <2>2
  <2> QED
    BY <1>1, <2>3, TupleIsSeq
<1> HIDE DEF N, more
<1>6. AsTrades(more) = Append(AsTrades(rows), trade)
  <2>1. \A i \in 1..N : AsTrades(more)[i] = AsTrades(rows)[i]
    BY <1>1, <1>3 DEF AsTrades
  <2>2. AsTrades(more)[n] = trade
    BY <1>1, <1>2 DEF AsTrades
  <2> HIDE DEF n, trade
  <2>3. AsTrades(more) = [i \in 1..n |-> AsTrades(more)[i]]
    BY <1>1 DEF AsTrades
  <2>4. \A i \in 1..N : AsTrades(rows)[i] \in Trades
    BY <1>5, ElementOfSeq
  <2>5. \A i \in 1..n : AsTrades(more)[i] \in Trades
    BY <1>2, <1>4, <2>1, <2>2, <2>4
  <2>6. AsTrades(more) \in [1..n -> Trades]
    BY <2>3, <2>5
  <2>7. AsTrades(more) \in Seq(Trades) /\ Len(AsTrades(more)) = n
    BY <1>1, <2>6, TupleIsSeq
  <2>8. /\ Append(AsTrades(rows), trade) \in Seq(Trades)
        /\ Len(Append(AsTrades(rows), trade)) = n
        /\ \A i \in 1..N : Append(AsTrades(rows), trade)[i] = AsTrades(rows)[i]
        /\ Append(AsTrades(rows), trade)[n] = trade
    BY <1>4, <1>5, AppendProperties DEF n
  <2>9. \A i \in 1..n : AsTrades(more)[i] = Append(AsTrades(rows), trade)[i]
    BY <1>2, <2>1, <2>2, <2>8
  <2> QED
    BY <2>7, <2>8, <2>9, SeqEqual
<1>7. Outstanding(rows) \cap Steps(n, row.quantity) = {}
  BY <1>1, <1>2 DEF Outstanding, Steps
<1> HIDE DEF n
<1>8. Outstanding(more) = IF row.side = "buy" /\ row.status = "submitted"
                          THEN Outstanding(rows) \cup Steps(n, row.quantity) ELSE Outstanding(rows)
  <2> DEFINE Open(r) == {j \in DOMAIN r : r[j].side = "buy" /\ r[j].status = "submitted"}
  <2>1. Open(more) = IF row.side = "buy" /\ row.status = "submitted"
                     THEN Open(rows) \cup {n} ELSE Open(rows)
    BY <1>1, <1>2, <1>3
  <2>2. \A i \in Open(rows) : more[i] = rows[i]
    BY <1>1
  <2>3. \A r : Outstanding(r) = UNION {Steps(i, r[i].quantity) : i \in Open(r)}
    BY DEF Outstanding
  <2> HIDE DEF Open
  <2>4. \A i \in Open(rows) : Steps(i, more[i].quantity) = Steps(i, rows[i].quantity)
    BY <2>2
  <2>5. Steps(n, more[n].quantity) = Steps(n, row.quantity)
    BY <1>1
  <2>6. CASE row.side = "buy" /\ row.status = "submitted"
    <3>1. Outstanding(more) = UNION {Steps(i, more[i].quantity) : i \in Open(rows) \cup {n}}
      BY <2>1, <2>3, <2>6
    <3>2. Outstanding(rows) = UNION {Steps(i, rows[i].quantity) : i \in Open(rows)}
      BY <2>3
    <3> QED
      BY <2>4, <2>5, <2>6, <3>1, <3>2
  <2>7. CASE ~(row.side = "buy" /\ row.status = "submitted")
    <3>1. Outstanding(more) = UNION {Steps(i, more[i].quantity) : i \in Open(rows)}
      BY <2>1, <2>3, <2>7
    <3>2. Outstanding(rows) = UNION {Steps(i, rows[i].quantity) : i \in Open(rows)}
      BY <2>3
    <3> QED
      BY <2>4, <2>7, <3>1, <3>2
  <2> QED
    BY <2>6, <2>7
<1> QED
  BY <1>1, <1>4, <1>5, <1>6, <1>7, <1>8 DEF more, n, N

LEMMA CoveredAtFirst == Covered(<<>>, 0)
<1>1. AsTrades(<<>>) = <<>> /\ Outstanding(<<>>) = {}
  BY DEF AsTrades, Outstanding
<1>2. [id |-> 0, side |-> "buy", quantity |-> 1] \in Trades /\ <<>> \in Seq(Trades)
  BY EmptySeq DEF Trades
<1>3. Units(<<>>) = UnitQueue
  BY <1>2, UnfoldTrades
<1>4. UnitQueue.unmatched = 0 /\ UnitQueue.queue = <<>> /\ Len(<<>>) = 0
  BY EmptySeq DEF UnitQueue
<1>5. IsFiniteSet({}) /\ Cardinality({}) = 0 /\ 0 + 0 = 0
  BY FS_EmptySet
<1> QED
  BY <1>1, <1>3, <1>4, <1>5, Zenon DEF Covered

LEMMA CoveredByBuy ==
    ASSUME NEW rows \in Seq(TradeRows), NEW row \in TradeRows, NEW held \in Nat,
           Covered(rows, held), row.side = "buy"
    PROVE  Covered(Append(rows, row), IF row.status = "filled" THEN held + row.quantity ELSE held)
<1> DEFINE n == Len(rows) + 1
           q == row.quantity
           trade == [id |-> n, side |-> row.side, quantity |-> q]
           units == Units(AsTrades(rows))
           after == Units(AsTrades(Append(rows, row)))
           S == Outstanding(rows)
<1>1. /\ AsTrades(rows) \in Seq(Trades) /\ trade \in Trades
      /\ AsTrades(Append(rows, row)) = Append(AsTrades(rows), trade)
      /\ S \cap Steps(n, q) = {}
      /\ Outstanding(Append(rows, row)) =
           IF row.side = "buy" /\ row.status = "submitted" THEN S \cup Steps(n, q) ELSE S
  BY OneRowMore
<1>2. q \in Nat /\ (row.status = "filled" \/ row.status = "submitted")
  BY DEF TradeRows
<1>3. trade.side = "buy" /\ trade.quantity = q /\ trade.id = n
  OBVIOUS
<1> HIDE DEF trade, n
<1>4. units \in UnitStates /\ after = UnitStep(units, trade)
  BY <1>1, UnfoldTrades
<1>5. /\ units.unmatched = 0 /\ IsFiniteSet(S) /\ held + Cardinality(S) = Len(units.queue)
  BY DEF Covered
<1> HIDE DEF units, after, q, S
<1>6. after.queue = units.queue \o Copies(trade.id, q) /\ after.unmatched = 0
  BY <1>1, <1>3, <1>4, <1>5, BuyQueues
<1>7. Len(after.queue) = Len(units.queue) + q
  <2>1. units.queue \in Seq(Nat)
    BY <1>4 DEF UnitStates
  <2>2. trade.id \in Nat
    BY <1>1 DEF Trades
  <2>3. Copies(trade.id, q) \in Seq(Nat) /\ Len(Copies(trade.id, q)) = q
    BY <1>2, <2>2, CopiesTyped
  <2> HIDE DEF Covered
  <2>4. Len(units.queue \o Copies(trade.id, q)) = Len(units.queue) + Len(Copies(trade.id, q))
    BY <2>1, <2>3, ConcatProperties
  <2> QED
    BY <1>6, <2>3, <2>4
<1>8. Cardinality(S) \in Nat
  BY <1>5, FS_CardinalityType
<1>9. CASE row.status = "filled"
  <2>1. Outstanding(Append(rows, row)) = S
    BY <1>1, <1>9
  <2>2. (held + q) + Cardinality(S) = Len(after.queue)
    BY <1>2, <1>5, <1>7, <1>8
  <2> QED
    BY <1>5, <1>6, <1>9, <2>1, <2>2 DEF Covered, after, q
<1>10. CASE row.status = "submitted"
  <2>1. Outstanding(Append(rows, row)) = S \cup Steps(n, q)
    BY <1>1, <1>10
  <2>2. IsFiniteSet(S \cup Steps(n, q)) /\ Cardinality(S \cup Steps(n, q)) = Cardinality(S) + q
    BY <1>1, <1>2, <1>5, StepsAdded
  <2>3. held + Cardinality(S \cup Steps(n, q)) = Len(after.queue)
    BY <1>2, <1>5, <1>7, <1>8, <2>2
  <2> QED
    BY <1>6, <1>10, <2>1, <2>2, <2>3 DEF Covered, after
<1> QED
  BY <1>2, <1>9, <1>10

LEMMA CoveredBySell ==
    ASSUME NEW rows \in Seq(TradeRows), NEW row \in TradeRows, NEW held \in Nat,
           Covered(rows, held), row.side = "sell", row.quantity <= held
    PROVE  Covered(Append(rows, row), held - row.quantity)
<1> DEFINE n == Len(rows) + 1
           q == row.quantity
           trade == [id |-> n, side |-> row.side, quantity |-> q]
           units == Units(AsTrades(rows))
           after == Units(AsTrades(Append(rows, row)))
           S == Outstanding(rows)
<1>1. /\ AsTrades(rows) \in Seq(Trades) /\ trade \in Trades
      /\ AsTrades(Append(rows, row)) = Append(AsTrades(rows), trade)
      /\ Outstanding(Append(rows, row)) = S
  BY OneRowMore
<1>2. q \in Nat /\ q <= held
  BY DEF TradeRows
<1>3. trade.side # "buy" /\ trade.quantity = q
  OBVIOUS
<1> HIDE DEF trade, n
<1>4. units \in UnitStates /\ after = UnitStep(units, trade)
  BY <1>1, UnfoldTrades
<1>5. /\ units.unmatched = 0 /\ IsFiniteSet(S) /\ held + Cardinality(S) = Len(units.queue)
  BY DEF Covered
<1> HIDE DEF units, after, q, S
<1>6. Cardinality(S) \in Nat
  BY <1>5, FS_CardinalityType
<1>7. Got(units.queue, q) = q /\ q <= Len(units.queue) /\ Len(units.queue) \in Nat
  BY <1>2, <1>5, <1>6 DEF Got
<1>8. after.queue = SubSeq(units.queue, q + 1, Len(units.queue)) /\ after.unmatched = 0
  <2>1. /\ after.queue = SubSeq(units.queue, q + 1, Len(units.queue))
        /\ after.unmatched = units.unmatched + (q - q)
    BY <1>1, <1>3, <1>4, <1>7, SellDequeues
  <2> QED
    BY <1>2, <1>5, <2>1
<1>9. Len(after.queue) = Len(units.queue) - q
  <2> DEFINE a == q + 1
             b == Len(units.queue)
  <2>1. \A i \in a..b : units.queue[i] \in Nat
    <3>1. units.queue \in Seq(Nat)
      BY <1>4 DEF UnitStates
    <3>2. \A i \in a..b : i \in 1..b
      BY <1>2, <1>7
    <3> QED
      BY <3>1, <3>2, ElementOfSeq
  <2>2. a \in Int /\ b \in Int
    BY <1>2, <1>7
  <2>3. after.queue = SubSeq(units.queue, a, b)
    BY <1>8
  <2> HIDE DEF a, b
  <2>4. Len(SubSeq(units.queue, a, b)) = IF a <= b THEN b - a + 1 ELSE 0
    BY <2>1, <2>2, SubSeqProperties
  <2> QED
    BY <1>2, <1>7, <2>3, <2>4 DEF a, b
<1>10. (held - q) + Cardinality(S) = Len(after.queue)
  BY <1>2, <1>5, <1>6, <1>9
<1> QED
  BY <1>1, <1>5, <1>8, <1>10 DEF Covered, after, q

LEMMA CoveredByResolved ==
    ASSUME NEW rows \in Seq(TradeRows), NEW i \in DOMAIN rows, NEW held \in Nat,
           Covered(rows, held), rows[i].status = "submitted"
    PROVE  LET more == [rows EXCEPT ![i].status = "filled"]
           IN  /\ more \in Seq(TradeRows)
               /\ Covered(more, IF rows[i].side = "buy" THEN held + rows[i].quantity ELSE held)
<1> DEFINE more == [rows EXCEPT ![i].status = "filled"]
           row == [rows[i] EXCEPT !.status = "filled"]
           q == rows[i].quantity
           S == Outstanding(more)
<1>1. /\ rows[i] \in TradeRows /\ q \in Nat /\ DOMAIN rows = 1..Len(rows)
  <2>1. rows[i] \in TradeRows /\ rows[i].quantity \in Nat \ {0}
    BY RowOf
  <2>2. DOMAIN rows = 1..Len(rows)
    OBVIOUS
  <2> QED
    BY <2>1, <2>2
<1>2. row \in TradeRows /\ row.side = rows[i].side /\ row.quantity = q /\ row.status = "filled"
  BY <1>1 DEF TradeRows
<1>3. /\ more \in Seq(TradeRows) /\ DOMAIN more = DOMAIN rows
      /\ more[i] = row /\ \A j \in DOMAIN rows \ {i} : more[j] = rows[j]
  <2>1. more = [rows EXCEPT ![i] = row]
    OBVIOUS
  <2> HIDE DEF row, more
  <2> QED
    BY <1>1, <1>2, <2>1, ExceptSeq
<1> HIDE DEF more, row
<1>4. AsTrades(more) = AsTrades(rows)
  <2>1. \A j \in DOMAIN rows : more[j].side = rows[j].side /\ more[j].quantity = rows[j].quantity
    BY <1>2, <1>3
  <2> QED
    BY <1>3, <2>1 DEF AsTrades
<1> DEFINE Open(r) == {j \in DOMAIN r : r[j].side = "buy" /\ r[j].status = "submitted"}
<1>5. \A r : Outstanding(r) = UNION {Steps(j, r[j].quantity) : j \in Open(r)}
  BY DEF Outstanding
<1>6. Open(rows) = IF rows[i].side = "buy" THEN Open(more) \cup {i} ELSE Open(more)
  BY <1>2, <1>3
<1>7. i \notin Open(more) /\ \A j \in Open(more) : more[j].quantity = rows[j].quantity
  BY <1>2, <1>3
<1> HIDE DEF Open
<1>8. /\ S \cap Steps(i, q) = {}
      /\ Outstanding(rows) = IF rows[i].side = "buy" THEN S \cup Steps(i, q) ELSE S
  <2>1. S \cap Steps(i, q) = {}
    BY <1>5, <1>7 DEF Steps
  <2>2. \A j \in Open(more) : Steps(j, more[j].quantity) = Steps(j, rows[j].quantity)
    BY <1>7
  <2>3. Outstanding(rows) = IF rows[i].side = "buy" THEN S \cup Steps(i, q) ELSE S
    BY <1>5, <1>6, <2>2
  <2> QED
    BY <2>1, <2>3
<1>9. /\ Units(AsTrades(rows)).unmatched = 0 /\ IsFiniteSet(Outstanding(rows))
      /\ held + Cardinality(Outstanding(rows)) = Len(Units(AsTrades(rows)).queue)
  BY DEF Covered
<1> HIDE DEF S, q
<1>10. IsFiniteSet(S)
  <2>1. S \in SUBSET Outstanding(rows)
    BY <1>8
  <2> QED
    BY <1>9, <2>1, FS_Subset
<1>11. CASE rows[i].side = "buy"
  <2>1. Cardinality(Outstanding(rows)) = Cardinality(S) + q /\ Cardinality(S) \in Nat
    BY <1>1, <1>8, <1>10, <1>11, StepsAdded
  <2>2. (held + q) + Cardinality(S) = Len(Units(AsTrades(rows)).queue)
    BY <1>1, <1>9, <2>1
  <2> QED
    BY <1>3, <1>4, <1>9, <1>10, <1>11, <2>2 DEF Covered, S, q, more
<1>12. CASE rows[i].side # "buy"
  BY <1>3, <1>4, <1>8, <1>9, <1>12 DEF Covered, S, more
<1> QED
  BY <1>11, <1>12

-----------------------------------------------------------------------------
(* The invariant *)

PositionsTyped ==
    /\ trades \in Seq(TradeRows)
    /\ holding \in Nat
    /\ pass \in Seq(Lots)
    /\ sale \in Nat

PositionInv ==
    /\ PositionsTyped
    /\ Foreign = 0 => Covered(trades, holding)

LEMMA OpenLotsTyped ==
    ASSUME trades \in Seq(TradeRows)
    PROVE  Records \in Seq(Trades) /\ Positions.lots \in Seq(Lots)
<1>1. Records \in Seq(Trades)
  BY RecordsFold DEF Records
<1>2. MatchFifo(Records) \in Matches
  BY <1>1, MatchesFold
<1> QED
  BY <1>1, <1>2 DEF Positions, Matches

LEMMA RowTyped ==
    ASSUME NEW side \in {"buy", "sell"}, NEW q \in Nat \ {0}, NEW status \in Statuses, NEW of \in Nat
    PROVE  [side |-> side, quantity |-> q, status |-> status, of |-> of] \in TradeRows
<1>1. status \in {"filled", "submitted"}
  BY DEF Statuses
<1> QED
  BY <1>1 DEF TradeRows

\* A sell that fails changes nothing, and one that does not is covered.
LEMMA SellsKeep ==
    ASSUME PositionInv, NEW q \in Nat \ {0}, NEW of \in Nat, Sells(q, of)
    PROVE  /\ trades' \in Seq(TradeRows) /\ holding' \in Nat
           /\ Foreign = 0 => Covered(trades', holding')
<1>1. trades \in Seq(TradeRows) /\ holding \in Nat /\ (Foreign = 0 => Covered(trades, holding))
  BY DEF PositionInv, PositionsTyped
<1>2. CASE holding < q /\ UNCHANGED <<trades, holding>>
  BY <1>1, <1>2
<1>3. CASE holding >= q /\ holding' = holding - q /\ \E status \in Statuses : Row("sell", q, status, of)
  <2>1. PICK status \in Statuses : Row("sell", q, status, of)
    BY <1>3
  <2> DEFINE row == [side |-> "sell", quantity |-> q, status |-> status, of |-> of]
  <2>2. row \in TradeRows /\ row.side = "sell" /\ row.quantity = q
    BY RowTyped
  <2>3. trades' = Append(trades, row)
    BY <2>1 DEF Row
  <2> HIDE DEF row
  <2>4. trades' \in Seq(TradeRows)
    BY <1>1, <2>2, <2>3, AppendProperties
  <2>5. holding' \in Nat
    BY <1>1, <1>3
  <2>6. Covered(trades, holding) => Covered(Append(trades, row), holding - row.quantity)
    <3>1. row.quantity <= holding
      BY <1>1, <1>3, <2>2
    <3> QED
      BY <1>1, <2>2, <3>1, CoveredBySell
  <2> QED
    BY <1>1, <1>3, <2>2, <2>3, <2>4, <2>5, <2>6
<1> QED
  BY <1>2, <1>3 DEF Sells

LEMMA EnterKeeps ==
    ASSUME PositionInv, NEW q \in 1..MaxQty, Enter(q)
    PROVE  PositionInv'
<1>1. /\ trades \in Seq(TradeRows) /\ holding \in Nat /\ pass \in Seq(Lots) /\ sale \in Nat
      /\ (Foreign = 0 => Covered(trades, holding))
  BY DEF PositionInv, PositionsTyped
<1>2. q \in Nat \ {0}
  BY ExitAssumption
<1>3. PICK status \in Statuses :
        /\ Row("buy", q, status, 0)
        /\ holding' = IF status = "filled" THEN holding + q ELSE holding
  BY DEF Enter
<1> DEFINE row == [side |-> "buy", quantity |-> q, status |-> status, of |-> 0]
<1>4. row \in TradeRows /\ row.side = "buy" /\ row.quantity = q /\ row.status = status
  BY <1>2, RowTyped
<1>5. trades' = Append(trades, row)
  BY <1>3 DEF Row
<1> HIDE DEF row
<1>6. trades' \in Seq(TradeRows)
  BY <1>1, <1>4, <1>5, AppendProperties
<1>7. holding' \in Nat
  BY <1>1, <1>2, <1>3
<1>8. Covered(trades, holding)
        => Covered(Append(trades, row), IF row.status = "filled" THEN holding + row.quantity ELSE holding)
  BY <1>1, <1>4, CoveredByBuy
<1>9. Foreign = 0 => Covered(trades', holding')
  BY <1>1, <1>3, <1>4, <1>5, <1>8
<1>10. pass' = pass /\ sale' = sale
  BY DEF Enter
<1> QED
  BY <1>1, <1>6, <1>7, <1>9, <1>10 DEF PositionInv, PositionsTyped

LEMMA ExitKeeps ==
    ASSUME PositionInv, NEW touched \in SUBSET {"stop", "target"}, ExitNextLot(touched)
    PROVE  PositionInv'
<1>1. /\ trades \in Seq(TradeRows) /\ holding \in Nat /\ pass \in Seq(Lots) /\ sale \in Nat
      /\ (Foreign = 0 => Covered(trades, holding))
  BY DEF PositionInv, PositionsTyped
<1>2. pass # <<>> /\ pass' = Tail(pass) /\ sale' = sale
  BY DEF ExitNextLot
<1>3. Head(pass) \in Lots /\ pass' \in Seq(Lots)
  BY <1>1, <1>2, HeadTailProperties
<1>4. Head(pass).id \in Nat /\ Head(pass).remaining \in Nat \ {0}
  BY <1>3 DEF Lots
<1>5. Sells(Head(pass).remaining, Head(pass).id) \/ UNCHANGED <<trades, holding>>
  BY DEF ExitNextLot
<1>6. trades' \in Seq(TradeRows) /\ holding' \in Nat /\ (Foreign = 0 => Covered(trades', holding'))
  <2>1. CASE Sells(Head(pass).remaining, Head(pass).id)
    BY <1>4, <2>1, SellsKeep
  <2>2. CASE UNCHANGED <<trades, holding>>
    BY <1>1, <2>2
  <2> QED
    BY <1>5, <2>1, <2>2
<1> QED
  BY <1>1, <1>2, <1>3, <1>6 DEF PositionInv, PositionsTyped

LEMMA ResolvedRows ==
    ASSUME NEW rows \in Seq(TradeRows), NEW i \in DOMAIN rows
    PROVE  [rows EXCEPT ![i].status = "filled"] \in Seq(TradeRows)
<1> DEFINE row == [rows[i] EXCEPT !.status = "filled"]
<1>1. rows[i] \in TradeRows
  BY RowOf
<1>2. row \in TradeRows
  BY <1>1 DEF TradeRows
<1>3. [rows EXCEPT ![i].status = "filled"] = [rows EXCEPT ![i] = row]
  OBVIOUS
<1> HIDE DEF row
<1> QED
  BY <1>2, <1>3, ExceptSeq

LEMMA ResolvedKeeps ==
    ASSUME PositionInv, NEW i \in 1..MaxTrades, Resolved(i)
    PROVE  PositionInv'
<1>1. /\ trades \in Seq(TradeRows) /\ holding \in Nat /\ pass \in Seq(Lots) /\ sale \in Nat
      /\ (Foreign = 0 => Covered(trades, holding))
  BY DEF PositionInv, PositionsTyped
<1>2. /\ i \in DOMAIN trades /\ trades[i].status = "submitted"
      /\ trades' = [trades EXCEPT ![i].status = "filled"]
      /\ holding' = IF trades[i].side = "buy" THEN holding + trades[i].quantity ELSE holding
      /\ pass' = pass /\ sale' = sale
  BY DEF Resolved
<1>3. holding' \in Nat
  <2>1. trades[i].quantity \in Nat \ {0}
    BY <1>1, <1>2, RowOf
  <2> QED
    BY <1>1, <1>2, <2>1
<1>4. trades' \in Seq(TradeRows)
  BY <1>1, <1>2, ResolvedRows
<1>5. Foreign = 0 => Covered(trades', holding')
  BY <1>1, <1>2, CoveredByResolved
<1> QED
  BY <1>1, <1>2, <1>3, <1>4, <1>5 DEF PositionInv, PositionsTyped

LEMMA PositionStep ==
    ASSUME PositionInv, [Next]_vars
    PROVE  PositionInv'
<1>1. /\ trades \in Seq(TradeRows) /\ holding \in Nat /\ pass \in Seq(Lots) /\ sale \in Nat
      /\ (Foreign = 0 => Covered(trades, holding))
  BY DEF PositionInv, PositionsTyped
<1>2. ASSUME NEW q \in 1..MaxQty, Enter(q) PROVE PositionInv'
  BY <1>2, EnterKeeps
<1>3. CASE BeginExits
  <2>1. pass' \in Seq(Lots)
    BY <1>1, <1>3, OpenLotsTyped DEF BeginExits
  <2> QED
    BY <1>1, <1>3, <2>1 DEF BeginExits, PositionInv, PositionsTyped
<1>4. ASSUME NEW touched \in SUBSET {"stop", "target"}, ExitNextLot(touched) PROVE PositionInv'
  BY <1>4, ExitKeeps
<1>5. CASE ExitRejected
  <2>1. pass' \in Seq(Lots)
    BY <1>1, <1>5, HeadTailProperties DEF ExitRejected
  <2> QED
    BY <1>1, <1>5, <2>1 DEF ExitRejected, PositionInv, PositionsTyped
<1>6. CASE LiquidationReads
  BY <1>1, <1>6 DEF LiquidationReads, PositionInv, PositionsTyped
<1>7. CASE LiquidationSells
  <2>1. sale \in Nat \ {0} /\ Sells(sale, 0) /\ sale' = 0 /\ pass' = pass
    BY <1>1, <1>7 DEF LiquidationSells
  <2>2. trades' \in Seq(TradeRows) /\ holding' \in Nat /\ (Foreign = 0 => Covered(trades', holding'))
    BY <2>1, SellsKeep
  <2> QED
    BY <1>1, <2>1, <2>2 DEF PositionInv, PositionsTyped
<1>8. ASSUME NEW i \in 1..MaxTrades, Resolved(i) PROVE PositionInv'
  BY <1>8, ResolvedKeeps
<1>9. ASSUME NEW i \in 1..MaxTrades, Elapses(i) PROVE PositionInv'
  BY <1>1, <1>9 DEF Elapses, PositionInv, PositionsTyped
<1>10. CASE SignalChanges
  BY <1>1, <1>10 DEF SignalChanges, PositionInv, PositionsTyped
<1>11. CASE UNCHANGED vars
  BY <1>1, <1>11 DEF vars, PositionInv, PositionsTyped
<1> QED
  BY <1>2, <1>3, <1>4, <1>5, <1>6, <1>7, <1>8, <1>9, <1>10, <1>11 DEF Next, Exits

\* No order is for nothing, no holding is negative, and while the account holds
\* nothing but what the rows bought, what it holds and what is still to come is
\* what the rows leave open.
THEOREM HoldingsCoverRows == Spec => []PositionInv
<1>1. Init => PositionInv
  <2> SUFFICES ASSUME Init PROVE PositionInv
    OBVIOUS
  <2>1. trades = <<>> /\ holding = Foreign /\ pass = <<>> /\ sale = 0
    BY DEF Init
  <2>2. holding \in Nat
    BY <2>1, ExitAssumption
  <2>3. <<>> \in Seq(TradeRows) /\ <<>> \in Seq(Lots)
    BY EmptySeq
  <2> QED
    BY <2>1, <2>2, <2>3, CoveredAtFirst DEF PositionInv, PositionsTyped
<1>2. PositionInv /\ [Next]_vars => PositionInv'
  BY PositionStep
<1> QED
  BY <1>1, <1>2, PTL DEF Spec

\* Whatever rows exits, liquidations and late answers leave behind, and however
\* many, match_fifo pairs the executed ones lot step by lot step as a first-in
\* first-out queue does.
THEOREM MatchingAlwaysFifo == Spec => []MatchingIsFifo
<1>1. PositionInv => MatchingIsFifo
  BY OpenLotsTyped, FifoForEveryHistory DEF PositionInv, PositionsTyped, MatchingIsFifo
<1> QED
  BY <1>1, HoldingsCoverRows, PTL

\* An account that starts without a holding of its own never sells what no row
\* bought: once every order is resolved, each sell has its lots.
THEOREM SellsHaveTheirLots == ASSUME Foreign = 0 PROVE Spec => []NothingUnmatched
<1>1. PositionInv => NothingUnmatched
  <2> SUFFICES ASSUME PositionInv, \A i \in DOMAIN trades : trades[i].status # "submitted"
               PROVE  Positions.unmatched = 0
    BY DEF NothingUnmatched
  <2>1. trades \in Seq(TradeRows) /\ Covered(trades, holding)
    BY DEF PositionInv, PositionsTyped
  <2>2. Records = AsTrades(trades) /\ Records \in Seq(Trades)
    BY <2>1, RecordsAreRows, OpenLotsTyped DEF Records
  <2>3. Positions.unmatched = Units(Records).unmatched
    BY <2>2, FifoForEveryHistory DEF AgreesWithQueue, Positions
  <2>4. Units(AsTrades(trades)).unmatched = 0
    BY <2>1 DEF Covered
  <2> QED
    BY <2>2, <2>3, <2>4
<1> QED
  BY <1>1, HoldingsCoverRows, PTL
=============================================================================
