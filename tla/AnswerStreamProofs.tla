------------------------- MODULE AnswerStreamProofs -------------------------
(***************************************************************************)
(* Proofs about a question on its way from the searches to the reply:      *)
(* SearchFailureIsPartial, ContextIsSound, VerdictFollowsEvidence and      *)
(* StreamedAnswerIsWhole, for every collection, ranking, setting, answer   *)
(* and reply, and AblationIsComparable, for every dataset.                 *)
(*                                                                         *)
(* The operators come first.  Each list that a loop builds is Filtered,    *)
(* whose function over 0..Len(list) is named by Filters; what a loop       *)
(* promises is then shown up to every index (UpTo).  Sorting, fusion and   *)
(* compression rest on it, and so do the sums of the ablation.             *)
(*                                                                         *)
(* The invariants are Shape (types, and the lines that were read), Fusion  *)
(* (what was found is what is held until it is fused), Evidence (the texts *)
(* of the prompt, and the verdict over them), Whole (the client was given  *)
(* the pieces of the lines that were read) and SearchedOnce (one search of *)
(* each kind returns no chunk twice).  StepIs says once what a step may    *)
(* change and which step it is.                                            *)
(***************************************************************************)
EXTENDS AnswerStream, Evaluation, FiniteSetTheorems, SequenceTheorems, WellFoundedInduction, TLAPS

\* A function over the first numbers is a list.
LEMMA FunctionsAreLists == ASSUME NEW S, NEW n \in Nat PROVE \A g \in [1..n -> S] : g \in Seq(S)
OBVIOUS

\* A set of numbers has a least one.
LEMMA LeastNumber ==
    ASSUME NEW T \in SUBSET Nat, T # {}
    PROVE  \E x \in T : \A y \in T : x <= y
<1>1. IsWellFoundedOn(OpToRel(<, Nat), Nat)
    BY NatLessThanWellFounded
<1> DEFINE R == OpToRel(<, Nat)
<1>2. \A x, y \in Nat : y < x => <<y, x>> \in R
    BY DEF OpToRel
<1>3. IsWellFoundedOn(R, Nat)
    BY <1>1
<1> HIDE DEF R
<1>4. PICK x \in T : \A y \in T : ~(<<y, x>> \in R)
    BY <1>3, WFMin
<1>5. x \in Nat /\ \A y \in T : y \in Nat
    OBVIOUS
<1>6. \A y \in T : ~(y < x)
    BY <1>2, <1>4, <1>5, Zenon
<1> QED
    BY <1>5, <1>6

\* Induction up to a bound, over a set of numbers.
LEMMA UpTo ==
    ASSUME NEW N \in Nat, NEW G, 0 \in G, \A n \in 1..N : n - 1 \in G => n \in G
    PROVE  0..N \subseteq G
<1> DEFINE Others == (0..N) \ G
<1> SUFFICES ASSUME Others # {} PROVE FALSE
    OBVIOUS
<1>1. PICK x \in Others : \A y \in Others : x <= y
    <2>1. Others \in SUBSET Nat
        OBVIOUS
    <2> QED
        BY <2>1, LeastNumber
<1>2. x \in 1..N /\ x - 1 \notin Others /\ x - 1 \in 0..N
    BY <1>1
<1> QED
    BY <1>2

Begins(f, X, b, n, g) ==
    /\ f \in [0..n -> X] /\ f[0] = b
    /\ \A m \in 1..n : f[m] = g[m][f[m - 1]]

\* A function is defined by its value at 0 and a step.
LEMMA Recursion ==
    ASSUME NEW X, NEW b \in X, NEW N \in Nat, NEW g \in [1..N -> [X -> X]]
    PROVE  \E f : Begins(f, X, b, N, g)
<1> DEFINE G == {n \in 0..N : \E f : Begins(f, X, b, n, g)}
<1>1. 0 \in G
    <2>1. Begins([n \in 0..0 |-> b], X, b, 0, g)
        BY DEF Begins
    <2> QED
        BY <2>1
<1>2. ASSUME NEW n \in 1..N, n - 1 \in G
      PROVE  n \in G
    <2>1. PICK f : Begins(f, X, b, n - 1, g)
        BY <1>2
    <2> DEFINE h == [m \in 0..n |-> IF m = n THEN g[n][f[n - 1]] ELSE f[m]]
    <2>2. f \in [0..(n - 1) -> X] /\ f[n - 1] \in X
        BY <2>1 DEF Begins
    <2>3. g[n][f[n - 1]] \in X
        BY <2>2
    <2>4. h \in [0..n -> X]
        BY <2>2, <2>3
    <2>5. h[0] = b
        BY <2>1 DEF Begins
    <2>6. \A m \in 1..n : h[m] = g[m][h[m - 1]]
        <3> SUFFICES ASSUME NEW m \in 1..n PROVE h[m] = g[m][h[m - 1]]
            OBVIOUS
        <3>1. CASE m = n
            BY <3>1
        <3>2. CASE m # n
            BY <3>2, <2>1 DEF Begins
        <3> QED
            BY <3>1, <3>2
    <2>7. Begins(h, X, b, n, g)
        BY <2>4, <2>5, <2>6 DEF Begins
    <2> HIDE DEF h
    <2> QED
        BY <2>7
<1> HIDE DEF G
<1>3. \A n \in 1..N : n - 1 \in G => n \in G
    BY <1>2
<1>4. \A n \in 0..N : n \in G
    BY <1>1, <1>3, UpTo, Zenon
<1>5. N \in G
    BY <1>4
<1> QED
    BY <1>5 DEF G

\* h[n] is what a filter keeps of the first n elements.
Filters(h, S, list, fits) ==
    /\ h \in [0..Len(list) -> Seq(S)] /\ h[0] = <<>>
    /\ \A n \in 1..Len(list) : h[n] = IF fits[n][h[n - 1]] THEN Append(h[n - 1], list[n]) ELSE h[n - 1]

\* For every list and test there is the function of a filter.
LEMMA FilterExists ==
    ASSUME NEW S, NEW list \in Seq(S), NEW fits \in [1..Len(list) -> [Seq(S) -> BOOLEAN]]
    PROVE  \E h : Filters(h, S, list, fits)
<1> DEFINE N == Len(list)
           X == Seq(S)
           g == [n \in 1..N |-> [kept \in X |-> IF fits[n][kept] THEN Append(kept, list[n]) ELSE kept]]
<1>1. N \in Nat /\ <<>> \in X
    OBVIOUS
<1>2. \A n \in 1..N : \A kept \in X : Append(kept, list[n]) \in X
    OBVIOUS
<1>3. g \in [1..N -> [X -> X]]
    <2> HIDE DEF X, N
    <2> QED
        BY <1>2
<1>4. PICK h \in [0..N -> X] : h[0] = <<>> /\ \A n \in 1..N : h[n] = g[n][h[n - 1]]
    <2> HIDE DEF N, X, g
    <2>1. \E h : Begins(h, X, <<>>, N, g)
        BY <1>1, <1>3, Recursion
    <2> QED
        BY <2>1 DEF Begins
<1>5. \A n \in 1..N : h[n - 1] \in X
    <2> HIDE DEF X, N
    <2> QED
        BY <1>1, <1>4
<1>6. \A n \in 1..N : \A kept \in X : g[n][kept] = IF fits[n][kept] THEN Append(kept, list[n]) ELSE kept
    <2> HIDE DEF X, N
    <2> QED
        OBVIOUS
<1>7. \A n \in 1..N : h[n] = IF fits[n][h[n - 1]] THEN Append(h[n - 1], list[n]) ELSE h[n - 1]
    <2> HIDE DEF X, N, g
    <2> QED
        BY SMTT(60), <1>4, <1>5, <1>6
<1> QED
    BY <1>4, <1>7 DEF Filters

\* A function with the value and the step of a filter is one.
LEMMA FilterIs ==
    ASSUME NEW S, NEW list \in Seq(S), NEW fits, NEW f,
           f = [n \in 0..Len(list) |-> f[n]], f[0] = <<>>,
           \A n \in 1..Len(list) : f[n - 1] \in Seq(S) =>
               f[n] = IF fits[n][f[n - 1]] THEN Append(f[n - 1], list[n]) ELSE f[n - 1]
    PROVE  Filters(f, S, list, fits)
<1> DEFINE N == Len(list)
           X == Seq(S)
           G == {n \in 0..N : f[n] \in X}
<1>1. N \in Nat /\ \A n \in 1..N : \A kept \in X : Append(kept, list[n]) \in X
    OBVIOUS
<1>2. 0 \in G
    OBVIOUS
<1>3. \A n \in 1..N : n - 1 \in G => n \in G
    <2>1. ASSUME NEW n \in 1..N, f[n - 1] \in X PROVE f[n] \in X
        <3>1. Append(f[n - 1], list[n]) \in X
            BY <1>1, <2>1
        <3> QED
            BY <2>1, <3>1
    <2>2. \A n \in 1..N : n \in 0..N
        BY <1>1
    <2> HIDE DEF N, X
    <2> QED
        BY <2>1, <2>2, Zenon
<1>4. 0..N \subseteq G
    <2> HIDE DEF G, N
    <2> QED
        BY <1>1, <1>2, <1>3, UpTo, Zenon
<1>5. \A n \in 0..N : f[n] \in X
    BY <1>4
<1>6. \A n \in 1..N : f[n - 1] \in X
    <2> HIDE DEF X, N
    <2> QED
        BY <1>1, <1>5
<1> QED
    BY <1>5, <1>6 DEF Filters

\* What was kept stays.
LEMMA FilterKeeps ==
    ASSUME NEW S, NEW list \in Seq(S), NEW fits, NEW h, Filters(h, S, list, fits)
    PROVE  \A n \in 0..Len(list) : \A m \in 0..n :
               Len(h[m]) <= Len(h[n]) /\ \A k \in 1..Len(h[m]) : h[n][k] = h[m][k]
<1> DEFINE N == Len(list)
           Stays(m, n) == Len(h[m]) <= Len(h[n]) /\ \A k \in 1..Len(h[m]) : h[n][k] = h[m][k]
           G == {n \in 0..N : \A m \in 0..n : Stays(m, n)}
<1>1. N \in Nat /\ \A n \in 1..N : list[n] \in S
    OBVIOUS
<1>2. \A n \in 0..N : h[n] \in Seq(S)
    BY DEF Filters
<1>3. \A n \in 0..N : Len(h[n]) \in Nat
    BY <1>2
<1>4. 0 \in G
    BY <1>3
<1>5. ASSUME NEW n \in 1..N, n - 1 \in G PROVE n \in G
    <2>1. n - 1 \in 0..N /\ n \in 0..N
        BY <1>1
    <2>2. h[n] = Append(h[n - 1], list[n]) \/ h[n] = h[n - 1]
        BY DEF Filters
    <2>3. h[n - 1] \in Seq(S) /\ list[n] \in S
        BY <2>1, <1>1, <1>2
    <2>4. Stays(n - 1, n)
        BY <2>2, <2>3
    <2>5. \A m \in 0..(n - 1) : Stays(m, n)
        <3> SUFFICES ASSUME NEW m \in 0..(n - 1) PROVE Stays(m, n)
            OBVIOUS
        <3>1. Stays(m, n - 1)
            BY <1>5
        <3>2. Len(h[m]) \in Nat /\ Len(h[n - 1]) \in Nat /\ Len(h[n]) \in Nat
            BY <1>3, <2>1
        <3> QED
            BY <2>4, <3>1, <3>2
    <2>6. Stays(n, n)
        BY <1>3, <2>1
    <2>7. \A m \in 0..n : Stays(m, n)
        <3> HIDE DEF Stays
        <3> QED
            BY <2>5, <2>6
    <2> QED
        BY <2>1, <2>7
<1>6. \A n \in 1..N : n - 1 \in G => n \in G
    BY <1>5
<1>7. 0..N \subseteq G
    <2> HIDE DEF G, N
    <2> QED
        BY <1>1, <1>4, <1>6, UpTo, Zenon
<1> QED
    BY <1>7

\* What is kept of the first n comes in their order.
InOrder(h, list, n) ==
    \E e \in [1..Len(h[n]) -> 1..n] :
       /\ \A k \in 1..Len(h[n]) : h[n][k] = list[e[k]]
       /\ \A i, j \in 1..Len(h[n]) : i < j => e[i] < e[j]

\* What is kept stands in the order of the list.
LEMMA FilterOrder ==
    ASSUME NEW S, NEW list \in Seq(S), NEW fits, NEW h, Filters(h, S, list, fits)
    PROVE  \A n \in 0..Len(list) : InOrder(h, list, n)
<1> DEFINE N == Len(list)
           Places(e, n) == /\ e \in [1..Len(h[n]) -> 1..n]
                           /\ \A k \in 1..Len(h[n]) : h[n][k] = list[e[k]]
                           /\ \A i, j \in 1..Len(h[n]) : i < j => e[i] < e[j]
           G == {n \in 0..N : \E e : Places(e, n)}
<1>1. N \in Nat /\ \A n \in 1..N : list[n] \in S
    OBVIOUS
<1>2. \A n \in 0..N : h[n] \in Seq(S)
    BY DEF Filters
<1>3. 0 \in G
    <2>1. h[0] = <<>> /\ Len(h[0]) = 0
        BY DEF Filters
    <2>2. Places([k \in 1..0 |-> 0], 0)
        BY <2>1
    <2> HIDE DEF Places
    <2> QED
        BY <2>2, <1>1
<1>4. ASSUME NEW n \in 1..N, n - 1 \in G PROVE n \in G
    <2>1. n - 1 \in 0..N /\ n \in 0..N /\ n \in Nat
        BY <1>1
    <2>2. PICK e : Places(e, n - 1)
        BY <1>4
    <2>3. h[n - 1] \in Seq(S) /\ list[n] \in S
        BY <2>1, <1>1, <1>2
    <2> DEFINE L == Len(h[n - 1])
               d == [k \in 1..(L + 1) |-> IF k = L + 1 THEN n ELSE e[k]]
    <2>4. L \in Nat
        BY <2>3
    <2>5. CASE h[n] = Append(h[n - 1], list[n])
        <3>1. Len(h[n]) = L + 1 /\ h[n][L + 1] = list[n] /\ \A k \in 1..L : h[n][k] = h[n - 1][k]
            BY <2>3, <2>5
        <3>2. \A k \in 1..L : e[k] \in 1..(n - 1) /\ h[n - 1][k] = list[e[k]]
            BY <2>2
        <3>3. \A i, j \in 1..L : i < j => e[i] < e[j]
            BY <2>2
        <3> HIDE DEF L
        <3>4. d \in [1..(L + 1) -> 1..n]
            BY <2>1, <2>4, <3>2
        <3>5. \A k \in 1..(L + 1) : h[n][k] = list[d[k]]
            BY <2>4, <3>1, <3>2
        <3>6. \A i, j \in 1..(L + 1) : i < j => d[i] < d[j]
            BY <2>1, <2>4, <3>2, <3>3
        <3> HIDE DEF d
        <3>7. Places(d, n)
            BY <3>1, <3>4, <3>5, <3>6
        <3> HIDE DEF Places
        <3> QED
            BY <2>1, <3>7
    <2>6. CASE h[n] = h[n - 1]
        <3>1. Places(e, n)
            BY <2>1, <2>2, <2>4, <2>6
        <3> HIDE DEF Places
        <3> QED
            BY <2>1, <3>1
    <2> QED
        BY <2>5, <2>6 DEF Filters
<1>5. \A n \in 1..N : n - 1 \in G => n \in G
    BY <1>4
<1>6. 0..N \subseteq G
    <2> HIDE DEF G, N
    <2> QED
        BY <1>1, <1>3, <1>5, UpTo, Zenon
<1> QED
    BY <1>6 DEF InOrder

(* The filters of the model. *)

NewTo(S, list) == [n \in 1..Len(list) |-> [kept \in Seq(S) |-> ~Contains(kept, list[n])]]
NewVariant(S, list, query, enough) ==
    [n \in 1..Len(list) |-> [kept \in Seq(S) |->
        Len(kept) < enough /\ list[n] # query /\ list[n] # <<>> /\ ~Contains(kept, list[n])]]
OutOf(S, list, M) == [n \in 1..Len(list) |-> [kept \in Seq(S) |-> list[n] \notin M]]
APiece(S, list) == OutOf(S, list, Marks)
Scored(S, list) == [n \in 1..Len(list) |-> [kept \in Seq(S) |-> score[list[n]] >= MinScore]]
Fitting(S, list) ==
    [n \in 1..Len(list) |-> [kept \in Seq(S) |->
        (kept = <<>> \/ Len(kept) < FinalTop) /\ ~Repeated(kept, list[n])]]

\* Each list the code filters, with its test: Distinct,
LEMMA DistinctFilters ==
    ASSUME NEW S, NEW list \in Seq(S)
    PROVE  \E f : /\ Filters(f, S, list, NewTo(S, list))
                  /\ Distinct(list) = f[Len(list)]
<1> DEFINE N == Len(list)
           X == Seq(S)
           Step(kept, n) == IF ~Contains(kept, list[n]) THEN Append(kept, list[n]) ELSE kept
           fits == NewTo(S, list)
           Is(f) == f = [n \in 0..N |-> IF n = 0 THEN <<>> ELSE Step(f[n - 1], n)]
           f == CHOOSE f : Is(f)
<1>1. N \in Nat /\ fits \in [1..N -> [X -> BOOLEAN]]
    BY DEF NewTo, Contains, Repeated
<1>2. \A n \in 1..N : \A kept \in X :
          Step(kept, n) = IF fits[n][kept] THEN Append(kept, list[n]) ELSE kept
    <2>1. \A n \in 1..N : \A kept \in X : fits[n][kept] = (~Contains(kept, list[n]))
        BY DEF NewTo
    <2> HIDE DEF X, N, fits
    <2> QED
        BY <2>1
<1>3. \E h : Is(h)
    <2>1. PICK h : Filters(h, S, list, fits)
        <3> HIDE DEF fits
        <3> QED
            BY <1>1, FilterExists
    <2> DEFINE e == [n \in 0..N |-> IF n = 0 THEN <<>> ELSE Step(h[n - 1], n)]
    <2>2. /\ h \in [0..N -> X] /\ h[0] = <<>>
          /\ \A n \in 1..N : h[n] = IF fits[n][h[n - 1]] THEN Append(h[n - 1], list[n]) ELSE h[n - 1]
        <3> HIDE DEF fits
        <3> QED
            BY <2>1 DEF Filters
    <2> HIDE DEF X, N, Step, fits
    <2>3. \A n \in 1..N : h[n - 1] \in X
        BY <1>1, <2>2
    <2>4. \A n \in 0..N : e[n] = h[n]
        <3>1. \A n \in 1..N : h[n] = Step(h[n - 1], n)
            BY <1>2, <2>2, <2>3
        <3>2. \A n \in 1..N : e[n] = Step(h[n - 1], n)
            BY <1>1
        <3>3. e[0] = <<>>
            BY <1>1
        <3>4. \A n \in 0..N : n = 0 \/ n \in 1..N
            BY <1>1
        <3> HIDE DEF e
        <3> QED
            BY <2>2, <3>1, <3>2, <3>3, <3>4
    <2>5. e = [n \in 0..N |-> e[n]] /\ h = [n \in 0..N |-> h[n]]
        BY <2>2
    <2> QED
        BY <2>4, <2>5, Zenon
<1>4. Is(f)
    <2> HIDE DEF Is
    <2> QED
        BY <1>3
<1>5. f = [n \in 0..N |-> f[n]] /\ f[0] = <<>> /\ \A n \in 1..N : f[n] = Step(f[n - 1], n)
    <2> DEFINE e == [n \in 0..N |-> IF n = 0 THEN <<>> ELSE Step(f[n - 1], n)]
    <2>1. f = e
        BY <1>4, Zenon
    <2>2. e = [n \in 0..N |-> e[n]]
        OBVIOUS
    <2>3. e[0] = <<>>
        BY <1>1
    <2>4. \A n \in 1..N : e[n] = Step(f[n - 1], n)
        <3> HIDE DEF N, Step, f
        <3> QED
            BY <1>1
    <2> HIDE DEF e, f, Step
    <2> QED
        BY <2>1, <2>2, <2>3, <2>4
<1>6. Filters(f, S, list, fits)
    <2>1. \A n \in 1..N : f[n - 1] \in X => f[n] = IF fits[n][f[n - 1]] THEN Append(f[n - 1], list[n]) ELSE f[n - 1]
        <3> HIDE DEF N, X, Step, f, fits
        <3> QED
            BY ZenonT(60), <1>2, <1>5
    <2> HIDE DEF f, fits, Step
    <2> QED
        BY <1>5, <2>1, FilterIs
<1>7. Distinct(list) = f[N]
    BY DEF Distinct, Filtered
<1> HIDE DEF f
<1> QED
    BY <1>6, <1>7

\* the variants of a query,
LEMMA VariantsFilter ==
    ASSUME NEW S, NEW list \in Seq(S), NEW query, NEW enough
    PROVE  \E f : /\ Filters(f, S, list, NewVariant(S, list, query, enough))
                  /\ NewVariants(query, list, enough) = f[Len(list)]
<1> DEFINE N == Len(list)
           X == Seq(S)
           Step(kept, n) == IF Len(kept) < enough /\ list[n] # query /\ list[n] # <<>> /\ ~Contains(kept, list[n]) THEN Append(kept, list[n]) ELSE kept
           fits == NewVariant(S, list, query, enough)
           Is(f) == f = [n \in 0..N |-> IF n = 0 THEN <<>> ELSE Step(f[n - 1], n)]
           f == CHOOSE f : Is(f)
<1>1. N \in Nat /\ fits \in [1..N -> [X -> BOOLEAN]]
    BY DEF NewVariant, Contains, Repeated
<1>2. \A n \in 1..N : \A kept \in X :
          Step(kept, n) = IF fits[n][kept] THEN Append(kept, list[n]) ELSE kept
    <2>1. \A n \in 1..N : \A kept \in X : fits[n][kept] = (Len(kept) < enough /\ list[n] # query /\ list[n] # <<>> /\ ~Contains(kept, list[n]))
        BY DEF NewVariant
    <2> HIDE DEF X, N, fits
    <2> QED
        BY <2>1
<1>3. \E h : Is(h)
    <2>1. PICK h : Filters(h, S, list, fits)
        <3> HIDE DEF fits
        <3> QED
            BY <1>1, FilterExists
    <2> DEFINE e == [n \in 0..N |-> IF n = 0 THEN <<>> ELSE Step(h[n - 1], n)]
    <2>2. /\ h \in [0..N -> X] /\ h[0] = <<>>
          /\ \A n \in 1..N : h[n] = IF fits[n][h[n - 1]] THEN Append(h[n - 1], list[n]) ELSE h[n - 1]
        <3> HIDE DEF fits
        <3> QED
            BY <2>1 DEF Filters
    <2> HIDE DEF X, N, Step, fits
    <2>3. \A n \in 1..N : h[n - 1] \in X
        BY <1>1, <2>2
    <2>4. \A n \in 0..N : e[n] = h[n]
        <3>1. \A n \in 1..N : h[n] = Step(h[n - 1], n)
            BY <1>2, <2>2, <2>3
        <3>2. \A n \in 1..N : e[n] = Step(h[n - 1], n)
            BY <1>1
        <3>3. e[0] = <<>>
            BY <1>1
        <3>4. \A n \in 0..N : n = 0 \/ n \in 1..N
            BY <1>1
        <3> HIDE DEF e
        <3> QED
            BY <2>2, <3>1, <3>2, <3>3, <3>4
    <2>5. e = [n \in 0..N |-> e[n]] /\ h = [n \in 0..N |-> h[n]]
        BY <2>2
    <2> QED
        BY <2>4, <2>5, Zenon
<1>4. Is(f)
    <2> HIDE DEF Is
    <2> QED
        BY <1>3
<1>5. f = [n \in 0..N |-> f[n]] /\ f[0] = <<>> /\ \A n \in 1..N : f[n] = Step(f[n - 1], n)
    <2> DEFINE e == [n \in 0..N |-> IF n = 0 THEN <<>> ELSE Step(f[n - 1], n)]
    <2>1. f = e
        BY <1>4, Zenon
    <2>2. e = [n \in 0..N |-> e[n]]
        OBVIOUS
    <2>3. e[0] = <<>>
        BY <1>1
    <2>4. \A n \in 1..N : e[n] = Step(f[n - 1], n)
        <3> HIDE DEF N, Step, f
        <3> QED
            BY <1>1
    <2> HIDE DEF e, f, Step
    <2> QED
        BY <2>1, <2>2, <2>3, <2>4
<1>6. Filters(f, S, list, fits)
    <2>1. \A n \in 1..N : f[n - 1] \in X => f[n] = IF fits[n][f[n - 1]] THEN Append(f[n - 1], list[n]) ELSE f[n - 1]
        <3> HIDE DEF N, X, Step, f, fits
        <3> QED
            BY <1>2, <1>5
    <2> HIDE DEF f, fits, Step
    <2> QED
        BY <1>5, <2>1, FilterIs
<1>7. NewVariants(query, list, enough) = f[N]
    BY DEF NewVariants, Filtered
<1> HIDE DEF f
<1> QED
    BY <1>6, <1>7

\* the lines of a reply without some marks,
LEMMA WithoutFilter ==
    ASSUME NEW S, NEW list \in Seq(S), NEW M
    PROVE  \E f : /\ Filters(f, S, list, OutOf(S, list, M))
                  /\ Without(list, M) = f[Len(list)]
<1> DEFINE N == Len(list)
           X == Seq(S)
           Step(kept, n) == IF list[n] \notin M THEN Append(kept, list[n]) ELSE kept
           fits == OutOf(S, list, M)
           Is(f) == f = [n \in 0..N |-> IF n = 0 THEN <<>> ELSE Step(f[n - 1], n)]
           f == CHOOSE f : Is(f)
<1>1. N \in Nat /\ fits \in [1..N -> [X -> BOOLEAN]]
    BY DEF OutOf, Contains, Repeated
<1>2. \A n \in 1..N : \A kept \in X :
          Step(kept, n) = IF fits[n][kept] THEN Append(kept, list[n]) ELSE kept
    <2>1. \A n \in 1..N : \A kept \in X : fits[n][kept] = (list[n] \notin M)
        BY DEF OutOf
    <2> HIDE DEF X, N, fits
    <2> QED
        BY <2>1
<1>3. \E h : Is(h)
    <2>1. PICK h : Filters(h, S, list, fits)
        <3> HIDE DEF fits
        <3> QED
            BY <1>1, FilterExists
    <2> DEFINE e == [n \in 0..N |-> IF n = 0 THEN <<>> ELSE Step(h[n - 1], n)]
    <2>2. /\ h \in [0..N -> X] /\ h[0] = <<>>
          /\ \A n \in 1..N : h[n] = IF fits[n][h[n - 1]] THEN Append(h[n - 1], list[n]) ELSE h[n - 1]
        <3> HIDE DEF fits
        <3> QED
            BY <2>1 DEF Filters
    <2> HIDE DEF X, N, Step, fits
    <2>3. \A n \in 1..N : h[n - 1] \in X
        BY <1>1, <2>2
    <2>4. \A n \in 0..N : e[n] = h[n]
        <3>1. \A n \in 1..N : h[n] = Step(h[n - 1], n)
            BY <1>2, <2>2, <2>3
        <3>2. \A n \in 1..N : e[n] = Step(h[n - 1], n)
            BY <1>1
        <3>3. e[0] = <<>>
            BY <1>1
        <3>4. \A n \in 0..N : n = 0 \/ n \in 1..N
            BY <1>1
        <3> HIDE DEF e
        <3> QED
            BY <2>2, <3>1, <3>2, <3>3, <3>4
    <2>5. e = [n \in 0..N |-> e[n]] /\ h = [n \in 0..N |-> h[n]]
        BY <2>2
    <2> QED
        BY <2>4, <2>5, Zenon
<1>4. Is(f)
    <2> HIDE DEF Is
    <2> QED
        BY <1>3
<1>5. f = [n \in 0..N |-> f[n]] /\ f[0] = <<>> /\ \A n \in 1..N : f[n] = Step(f[n - 1], n)
    <2> DEFINE e == [n \in 0..N |-> IF n = 0 THEN <<>> ELSE Step(f[n - 1], n)]
    <2>1. f = e
        BY <1>4, Zenon
    <2>2. e = [n \in 0..N |-> e[n]]
        OBVIOUS
    <2>3. e[0] = <<>>
        BY <1>1
    <2>4. \A n \in 1..N : e[n] = Step(f[n - 1], n)
        <3> HIDE DEF N, Step, f
        <3> QED
            BY <1>1
    <2> HIDE DEF e, f, Step
    <2> QED
        BY <2>1, <2>2, <2>3, <2>4
<1>6. Filters(f, S, list, fits)
    <2>1. \A n \in 1..N : f[n - 1] \in X => f[n] = IF fits[n][f[n - 1]] THEN Append(f[n - 1], list[n]) ELSE f[n - 1]
        <3> HIDE DEF N, X, Step, f, fits
        <3> QED
            BY <1>2, <1>5
    <2> HIDE DEF f, fits, Step
    <2> QED
        BY <1>5, <2>1, FilterIs
<1>7. Without(list, M) = f[N]
    BY DEF Without, Filtered
<1> HIDE DEF f
<1> QED
    BY <1>6, <1>7

\* the candidates with a sufficient score,
LEMMA ScoreFilters ==
    ASSUME NEW S, NEW list \in Seq(S)
    PROVE  \E f : /\ Filters(f, S, list, Scored(S, list))
                  /\ Filtered(list, LAMBDA kept, c : score[c] >= MinScore) = f[Len(list)]
<1> DEFINE N == Len(list)
           X == Seq(S)
           Step(kept, n) == IF score[list[n]] >= MinScore THEN Append(kept, list[n]) ELSE kept
           fits == Scored(S, list)
           Is(f) == f = [n \in 0..N |-> IF n = 0 THEN <<>> ELSE Step(f[n - 1], n)]
           f == CHOOSE f : Is(f)
<1>1. N \in Nat /\ fits \in [1..N -> [X -> BOOLEAN]]
    BY DEF Scored, Contains, Repeated
<1>2. \A n \in 1..N : \A kept \in X :
          Step(kept, n) = IF fits[n][kept] THEN Append(kept, list[n]) ELSE kept
    <2>1. \A n \in 1..N : \A kept \in X : fits[n][kept] = (score[list[n]] >= MinScore)
        BY DEF Scored
    <2> HIDE DEF X, N, fits
    <2> QED
        BY <2>1
<1>3. \E h : Is(h)
    <2>1. PICK h : Filters(h, S, list, fits)
        <3> HIDE DEF fits
        <3> QED
            BY <1>1, FilterExists
    <2> DEFINE e == [n \in 0..N |-> IF n = 0 THEN <<>> ELSE Step(h[n - 1], n)]
    <2>2. /\ h \in [0..N -> X] /\ h[0] = <<>>
          /\ \A n \in 1..N : h[n] = IF fits[n][h[n - 1]] THEN Append(h[n - 1], list[n]) ELSE h[n - 1]
        <3> HIDE DEF fits
        <3> QED
            BY <2>1 DEF Filters
    <2> HIDE DEF X, N, Step, fits
    <2>3. \A n \in 1..N : h[n - 1] \in X
        BY <1>1, <2>2
    <2>4. \A n \in 0..N : e[n] = h[n]
        <3>1. \A n \in 1..N : h[n] = Step(h[n - 1], n)
            BY <1>2, <2>2, <2>3
        <3>2. \A n \in 1..N : e[n] = Step(h[n - 1], n)
            BY <1>1
        <3>3. e[0] = <<>>
            BY <1>1
        <3>4. \A n \in 0..N : n = 0 \/ n \in 1..N
            BY <1>1
        <3> HIDE DEF e
        <3> QED
            BY <2>2, <3>1, <3>2, <3>3, <3>4
    <2>5. e = [n \in 0..N |-> e[n]] /\ h = [n \in 0..N |-> h[n]]
        BY <2>2
    <2> QED
        BY <2>4, <2>5, Zenon
<1>4. Is(f)
    <2> HIDE DEF Is
    <2> QED
        BY <1>3
<1>5. f = [n \in 0..N |-> f[n]] /\ f[0] = <<>> /\ \A n \in 1..N : f[n] = Step(f[n - 1], n)
    <2> DEFINE e == [n \in 0..N |-> IF n = 0 THEN <<>> ELSE Step(f[n - 1], n)]
    <2>1. f = e
        BY <1>4, Zenon
    <2>2. e = [n \in 0..N |-> e[n]]
        OBVIOUS
    <2>3. e[0] = <<>>
        BY <1>1
    <2>4. \A n \in 1..N : e[n] = Step(f[n - 1], n)
        <3> HIDE DEF N, Step, f
        <3> QED
            BY <1>1
    <2> HIDE DEF e, f, Step
    <2> QED
        BY <2>1, <2>2, <2>3, <2>4
<1>6. Filters(f, S, list, fits)
    <2>1. \A n \in 1..N : f[n - 1] \in X => f[n] = IF fits[n][f[n - 1]] THEN Append(f[n - 1], list[n]) ELSE f[n - 1]
        <3> HIDE DEF N, X, Step, f, fits
        <3> QED
            BY ZenonT(60), <1>2, <1>5
    <2> HIDE DEF f, fits, Step
    <2> QED
        BY <1>5, <2>1, FilterIs
<1>7. Filtered(list, LAMBDA kept, c : score[c] >= MinScore) = f[N]
    BY DEF Filtered
<1> HIDE DEF f
<1> QED
    BY <1>6, <1>7

\* and those that are kept as context.
LEMMA CompressFilters ==
    ASSUME NEW S, NEW list \in Seq(S)
    PROVE  \E f : /\ Filters(f, S, list, Fitting(S, list))
                  /\ Filtered(list, LAMBDA kept, c : (kept = <<>> \/ Len(kept) < FinalTop) /\ ~Repeated(kept, c)) = f[Len(list)]
<1> DEFINE N == Len(list)
           X == Seq(S)
           Step(kept, n) == IF (kept = <<>> \/ Len(kept) < FinalTop) /\ ~Repeated(kept, list[n]) THEN Append(kept, list[n]) ELSE kept
           fits == Fitting(S, list)
           Is(f) == f = [n \in 0..N |-> IF n = 0 THEN <<>> ELSE Step(f[n - 1], n)]
           f == CHOOSE f : Is(f)
<1>1. N \in Nat /\ fits \in [1..N -> [X -> BOOLEAN]]
    BY DEF Fitting, Contains, Repeated
<1>2. \A n \in 1..N : \A kept \in X :
          Step(kept, n) = IF fits[n][kept] THEN Append(kept, list[n]) ELSE kept
    <2>1. \A n \in 1..N : \A kept \in X : fits[n][kept] = ((kept = <<>> \/ Len(kept) < FinalTop) /\ ~Repeated(kept, list[n]))
        BY DEF Fitting
    <2> HIDE DEF X, N, fits
    <2> QED
        BY <2>1
<1>3. \E h : Is(h)
    <2>1. PICK h : Filters(h, S, list, fits)
        <3> HIDE DEF fits
        <3> QED
            BY <1>1, FilterExists
    <2> DEFINE e == [n \in 0..N |-> IF n = 0 THEN <<>> ELSE Step(h[n - 1], n)]
    <2>2. /\ h \in [0..N -> X] /\ h[0] = <<>>
          /\ \A n \in 1..N : h[n] = IF fits[n][h[n - 1]] THEN Append(h[n - 1], list[n]) ELSE h[n - 1]
        <3> HIDE DEF fits
        <3> QED
            BY <2>1 DEF Filters
    <2> HIDE DEF X, N, Step, fits
    <2>3. \A n \in 1..N : h[n - 1] \in X
        BY <1>1, <2>2
    <2>4. \A n \in 0..N : e[n] = h[n]
        <3>1. \A n \in 1..N : h[n] = Step(h[n - 1], n)
            BY <1>2, <2>2, <2>3
        <3>2. \A n \in 1..N : e[n] = Step(h[n - 1], n)
            BY <1>1
        <3>3. e[0] = <<>>
            BY <1>1
        <3>4. \A n \in 0..N : n = 0 \/ n \in 1..N
            BY <1>1
        <3> HIDE DEF e
        <3> QED
            BY <2>2, <3>1, <3>2, <3>3, <3>4
    <2>5. e = [n \in 0..N |-> e[n]] /\ h = [n \in 0..N |-> h[n]]
        BY <2>2
    <2> QED
        BY <2>4, <2>5, Zenon
<1>4. Is(f)
    <2> HIDE DEF Is
    <2> QED
        BY <1>3
<1>5. f = [n \in 0..N |-> f[n]] /\ f[0] = <<>> /\ \A n \in 1..N : f[n] = Step(f[n - 1], n)
    <2> DEFINE e == [n \in 0..N |-> IF n = 0 THEN <<>> ELSE Step(f[n - 1], n)]
    <2>1. f = e
        BY <1>4, Zenon
    <2>2. e = [n \in 0..N |-> e[n]]
        OBVIOUS
    <2>3. e[0] = <<>>
        BY <1>1
    <2>4. \A n \in 1..N : e[n] = Step(f[n - 1], n)
        <3> HIDE DEF N, Step, f
        <3> QED
            BY <1>1
    <2> HIDE DEF e, f, Step
    <2> QED
        BY <2>1, <2>2, <2>3, <2>4
<1>6. Filters(f, S, list, fits)
    <2>1. \A n \in 1..N : f[n - 1] \in X => f[n] = IF fits[n][f[n - 1]] THEN Append(f[n - 1], list[n]) ELSE f[n - 1]
        <3> HIDE DEF N, X, Step, f, fits
        <3> QED
            BY <1>2, <1>5
    <2> HIDE DEF f, fits, Step
    <2> QED
        BY <1>5, <2>1, FilterIs
<1>7. Filtered(list, LAMBDA kept, c : (kept = <<>> \/ Len(kept) < FinalTop) /\ ~Repeated(kept, c)) = f[N]
    BY DEF Filtered
<1> HIDE DEF f
<1> QED
    BY <1>6, <1>7

-----------------------------------------------------------------------------
(* What filters and sorting do to a list of ids. *)

\* A filter drops elements and adds none.
LEMMA FilterDrops ==
    ASSUME NEW S, NEW list \in Seq(S), NEW fits, NEW h, Filters(h, S, list, fits)
    PROVE  /\ h[Len(list)] \in Seq(S) /\ Len(h[Len(list)]) \in Nat /\ Len(list) \in Nat
           /\ \A n \in 0..Len(list) : \A k \in 1..Len(h[n]) : \E i \in 1..n : h[n][k] = list[i]
           /\ Ids(h[Len(list)]) \subseteq Ids(list)
           /\ IsInjective(list) => IsInjective(h[Len(list)])
<1> DEFINE N == Len(list)
           kept == h[N]
<1>1. N \in Nat /\ N \in 0..N /\ DOMAIN list = 1..N
    OBVIOUS
<1>2. kept \in Seq(S)
    BY <1>1 DEF Filters
<1>3. DOMAIN kept = 1..Len(kept) /\ Len(kept) \in Nat
    BY <1>2
<1>4. \A n \in 0..N : \A k \in 1..Len(h[n]) : \E i \in 1..n : h[n][k] = list[i]
    BY SMTT(60), FilterOrder DEF InOrder
<1>5. PICK e \in [1..Len(kept) -> 1..N] :
           /\ \A k \in 1..Len(kept) : kept[k] = list[e[k]]
           /\ \A i, j \in 1..Len(kept) : i < j => e[i] < e[j]
    BY <1>1, FilterOrder DEF InOrder
<1> HIDE DEF N, kept
<1>6. Ids(kept) \subseteq Ids(list)
    BY <1>1, <1>3, <1>5 DEF Ids
<1>7. ASSUME IsInjective(list), NEW a \in DOMAIN kept, NEW b \in DOMAIN kept, kept[a] = kept[b]
      PROVE  a = b
    <2>1. a \in 1..Len(kept) /\ b \in 1..Len(kept) /\ a \in Nat /\ b \in Nat
        BY <1>3, <1>7
    <2>2. e[a] \in DOMAIN list /\ e[b] \in DOMAIN list /\ e[a] \in Nat /\ e[b] \in Nat
        BY <1>1, <1>5, <2>1
    <2>3. e[a] = e[b]
        BY <1>5, <1>7, <2>1, <2>2 DEF IsInjective
    <2>4. (a < b => e[a] < e[b]) /\ (b < a => e[b] < e[a])
        BY <1>5, <2>1
    <2> QED
        BY <2>1, <2>2, <2>3, <2>4
<1>8. IsInjective(list) => IsInjective(kept)
    BY <1>7 DEF IsInjective
<1> QED
    BY <1>1, <1>2, <1>3, <1>4, <1>6, <1>8 DEF N, kept

\* Every id once.
LEMMA DistinctIds ==
    ASSUME NEW S, NEW list \in Seq(S)
    PROVE  /\ Distinct(list) \in Seq(S)
           /\ IsInjective(Distinct(list))
           /\ Ids(Distinct(list)) = Ids(list)
<1>0. PICK h : Filters(h, S, list, NewTo(S, list)) /\ Distinct(list) = h[Len(list)]
    BY DistinctFilters
<1> DEFINE N == Len(list)
           kept == h[N]
           G == {n \in 0..N : \A i, j \in 1..Len(h[n]) : i < j => h[n][i] # h[n][j]}
<1>1. N \in Nat /\ kept \in Seq(S) /\ DOMAIN list = 1..N /\ (\A n \in 1..N : list[n] \in S)
    BY <1>0, FilterDrops
<1>2. \A n \in 0..N : h[n] \in Seq(S)
    BY <1>0 DEF Filters
<1>3. \A n \in 1..N : h[n] = IF ~Contains(h[n - 1], list[n]) THEN Append(h[n - 1], list[n]) ELSE h[n - 1]
    <2>1. \A n \in 1..N : h[n - 1] \in Seq(S)
        BY <1>1, <1>2
    <2>2. \A n \in 1..N : NewTo(S, list)[n][h[n - 1]] = ~Contains(h[n - 1], list[n])
        BY <2>1 DEF NewTo
    <2> QED
        BY <1>0, <2>2 DEF Filters
<1>4. 0 \in G
    <2>1. h[0] = <<>> /\ Len(h[0]) = 0
        BY <1>0 DEF Filters
    <2> QED
        BY <1>1, <2>1
<1>5. \A n \in 1..N : n - 1 \in G => n \in G
    <2> SUFFICES ASSUME NEW n \in 1..N, n - 1 \in G PROVE n \in G
        OBVIOUS
    <2>1. h[n - 1] \in Seq(S) /\ list[n] \in S /\ n \in 0..N /\ n - 1 \in 0..N
        BY <1>1, <1>2
    <2>2. \A i, j \in 1..Len(h[n - 1]) : i < j => h[n - 1][i] # h[n - 1][j]
        OBVIOUS
    <2>3. CASE Contains(h[n - 1], list[n])
        BY <1>3, <2>1, <2>2, <2>3
    <2>4. CASE ~Contains(h[n - 1], list[n])
        <3>1. h[n] = Append(h[n - 1], list[n])
            BY <1>3, <2>4
        <3>2. \A i \in 1..Len(h[n - 1]) : h[n - 1][i] # list[n]
            BY <2>4 DEF Contains
        <3>3. \A i, j \in 1..Len(h[n]) : i < j => h[n][i] # h[n][j]
            BY <2>1, <2>2, <3>1, <3>2
        <3> QED
            BY <2>1, <3>3
    <2> QED
        BY <2>3, <2>4
<1>6. \A n \in 0..N : n \in G
    <2> HIDE DEF G, N
    <2>1. 0..N \subseteq G
        BY <1>1, <1>4, <1>5, UpTo, Zenon
    <2> QED
        BY <2>1
<1>7. IsInjective(kept)
    <2>1. N \in G
        <3> HIDE DEF G
        <3> QED
            BY <1>1, <1>6
    <2>2. \A i, j \in 1..Len(kept) : i < j => kept[i] # kept[j]
        BY <2>1
    <2>3. DOMAIN kept = 1..Len(kept) /\ Len(kept) \in Nat
        BY <1>1
    <2> HIDE DEF kept
    <2> QED
        BY <2>2, <2>3 DEF IsInjective
<1>8. Ids(kept) \subseteq Ids(list)
    BY <1>0, FilterDrops
<1>9. \A n \in 1..N : list[n] \in Ids(kept)
    <2> SUFFICES ASSUME NEW n \in 1..N PROVE list[n] \in Ids(kept)
        OBVIOUS
    <2>1. n \in 0..N /\ n - 1 \in 0..N /\ N \in 0..N /\ n \in 0..N
        BY <1>1
    <2>2. h[n - 1] \in Seq(S) /\ list[n] \in S
        BY <1>1, <1>2, <2>1
    <2>3. \E k \in 1..Len(h[n]) : h[n][k] = list[n]
        <3>1. CASE Contains(h[n - 1], list[n])
            BY <1>3, <3>1 DEF Contains
        <3>2. CASE ~Contains(h[n - 1], list[n])
            <4>1. h[n] = Append(h[n - 1], list[n])
                BY <1>3, <3>2
            <4>2. Len(h[n - 1]) \in Nat /\ Len(h[n]) = Len(h[n - 1]) + 1 /\ h[n][Len(h[n - 1]) + 1] = list[n]
                BY <2>2, <4>1
            <4> QED
                BY <4>2
        <3> QED
            BY <3>1, <3>2
    <2>4. Len(h[n]) <= Len(kept) /\ \A k \in 1..Len(h[n]) : kept[k] = h[n][k]
        BY <1>0, <2>1, FilterKeeps
    <2>5. Len(h[n]) \in Nat /\ Len(kept) \in Nat /\ DOMAIN kept = 1..Len(kept)
        BY <1>1, <1>2, <2>1
    <2> HIDE DEF kept, N
    <2> QED
        BY <2>3, <2>4, <2>5 DEF Ids
<1>10. Ids(list) \subseteq Ids(kept)
    BY <1>1, <1>9 DEF Ids
<1> QED
    BY <1>0, <1>1, <1>7, <1>8, <1>10

\* A list without repetitions is its own list of distinct ids.
LEMMA DistinctSame ==
    ASSUME NEW S, NEW list \in Seq(S), IsInjective(list)
    PROVE  Distinct(list) = list
<1>0. PICK h : Filters(h, S, list, NewTo(S, list)) /\ Distinct(list) = h[Len(list)]
    BY DistinctFilters
<1> DEFINE N == Len(list)
           G == {n \in 0..N : Len(h[n]) = n /\ \A k \in 1..n : h[n][k] = list[k]}
<1>1. N \in Nat /\ DOMAIN list = 1..N /\ (\A n \in 1..N : list[n] \in S)
    OBVIOUS
<1>2. \A n \in 0..N : h[n] \in Seq(S)
    BY <1>0 DEF Filters
<1>3. 0 \in G
    <2>1. h[0] = <<>> /\ Len(h[0]) = 0
        BY <1>0 DEF Filters
    <2> QED
        BY <1>1, <2>1
<1>4. \A n \in 1..N : n - 1 \in G => n \in G
    <2> SUFFICES ASSUME NEW n \in 1..N, n - 1 \in G PROVE n \in G
        OBVIOUS
    <2>1. h[n - 1] \in Seq(S) /\ list[n] \in S /\ n \in 0..N /\ n - 1 \in 0..N
        BY <1>1, <1>2
    <2>2. Len(h[n - 1]) = n - 1 /\ \A k \in 1..(n - 1) : h[n - 1][k] = list[k]
        OBVIOUS
    <2>3. \A k \in 1..(n - 1) : list[k] # list[n]
        BY <1>1 DEF IsInjective
    <2>4. ~Contains(h[n - 1], list[n])
        BY <2>2, <2>3 DEF Contains
    <2>5. NewTo(S, list)[n][h[n - 1]]
        BY <2>1, <2>4 DEF NewTo
    <2>6. h[n] = Append(h[n - 1], list[n])
        BY <1>0, <2>5 DEF Filters
    <2>7. Len(h[n]) = n /\ \A k \in 1..n : h[n][k] = list[k]
        BY <2>1, <2>2, <2>6
    <2> QED
        BY <2>1, <2>7
<1>5. 0..N \subseteq G
    <2> HIDE DEF G, N
    <2> QED
        BY <1>1, <1>3, <1>4, UpTo, Zenon
<1>6. N \in 0..N /\ h[N] \in Seq(S)
    BY <1>1, <1>2
<1>7. Len(h[N]) = N /\ \A k \in 1..N : h[N][k] = list[k]
    BY <1>5, <1>6
<1> QED
    BY <1>0, <1>6, <1>7

\* Sets that grow along their elements rank these.
LEMMA Ranks ==
    ASSUME NEW S, IsFiniteSet(S), NEW W \in [S -> SUBSET S],
           \A i \in S : i \in W[i],
           \A i, k \in S : W[i] \subseteq W[k] \/ W[k] \subseteq W[i],
           \A i, k \in S : W[i] = W[k] => i = k
    PROVE  /\ Cardinality(S) \in Nat
           /\ \A i \in S : Cardinality(W[i]) \in 1..Cardinality(S)
           /\ \A n \in 1..Cardinality(S) : \E i \in S : Cardinality(W[i]) = n
           /\ \A i, k \in S : Cardinality(W[i]) = Cardinality(W[k]) => i = k
           /\ \A i, k \in S : Cardinality(W[i]) < Cardinality(W[k]) => W[i] \subseteq W[k]
<1> DEFINE C == Cardinality(S)
           rank == [i \in S |-> Cardinality(W[i])]
<1>1. C \in Nat
    BY FS_CardinalityType
<1>2. \A i \in S : IsFiniteSet(W[i]) /\ Cardinality(W[i]) \in Nat /\ Cardinality(W[i]) <= C
    BY FS_Subset, FS_CardinalityType
<1>3. \A i \in S : Cardinality(W[i]) # 0
    BY <1>2, FS_EmptySet
<1>4. \A i \in S : Cardinality(W[i]) \in 1..C
    BY <1>1, <1>2, <1>3
<1>5. \A i, k \in S : W[i] \subseteq W[k] => Cardinality(W[i]) <= Cardinality(W[k])
    BY <1>2, FS_Subset
<1>6. \A i, k \in S : Cardinality(W[i]) = Cardinality(W[k]) => i = k
    <2> SUFFICES ASSUME NEW i \in S, NEW k \in S, Cardinality(W[i]) = Cardinality(W[k]),
                        W[i] \subseteq W[k]
                 PROVE  W[i] = W[k]
        OBVIOUS
    <2> QED
        BY <1>2, FS_Subset
<1>7. ASSUME NEW i \in S, NEW k \in S, Cardinality(W[i]) < Cardinality(W[k])
      PROVE  W[i] \subseteq W[k]
    <2>1. ~(Cardinality(W[k]) <= Cardinality(W[i]))
        BY <1>2, <1>7
    <2>2. ~(W[k] \subseteq W[i])
        BY <1>5, <2>1, Zenon
    <2> QED
        BY <2>2
<1>8. rank \in Injection(S, 1..C)
    BY <1>4, <1>6 DEF Injection, IsInjective
<1>9. IsFiniteSet(1..C) /\ Cardinality(1..C) = C
    BY <1>1, FS_Interval
<1>10. rank \in Surjection(S, 1..C)
    <2> HIDE DEF rank
    <2> QED
        BY <1>8, <1>9, FS_Injection
<1>11. \A n \in 1..C : \E i \in S : Cardinality(W[i]) = n
    BY <1>10 DEF Surjection
<1> QED
    BY <1>1, <1>4, <1>6, <1>7, <1>11

\* Sorting by keys permutes a list, the highest keys first.
LEMMA Sorting ==
    ASSUME NEW S, NEW list \in Seq(S), NEW key \in [1..Len(list) -> Int]
    PROVE  \E p \in [1..Len(list) -> 1..Len(list)] :
              /\ SortedBy(list, key) = [n \in 1..Len(list) |-> list[p[n]]]
              /\ \A i \in 1..Len(list) : \E n \in 1..Len(list) : p[n] = i
              /\ \A n, m \in 1..Len(list) : n < m => p[n] # p[m] /\ key[p[n]] >= key[p[m]]
<1> DEFINE D == DOMAIN list
           N == Len(list)
           W == [i \in D |-> {j \in D : key[j] > key[i] \/ (key[j] = key[i] /\ j <= i)}]
           Above(i) == {j \in D : key[j] > key[i] \/ (key[j] = key[i] /\ j <= i)}
           p == [n \in D |-> CHOOSE i \in D : Cardinality(Above(i)) = n]
<1>1. N \in Nat /\ D = 1..N /\ IsFiniteSet(D) /\ Cardinality(D) = N /\ D \subseteq Nat
    <2>1. N \in Nat /\ D = 1..N
        OBVIOUS
    <2> HIDE DEF D, N
    <2>2. 1 \in Int /\ N \in Int /\ (IF 1 > N THEN 0 ELSE N - 1 + 1) = N
        BY <2>1
    <2>3. IsFiniteSet(1..N) /\ Cardinality(1..N) = N
        BY <2>2, FS_Interval, Zenon
    <2> QED
        BY <2>1, <2>3
<1>2. \A i \in D : key[i] \in Int /\ i \in Int
    BY <1>1
<1>3. W \in [D -> SUBSET D] /\ \A i \in D : i \in W[i]
    <2> HIDE DEF D
    <2> QED
        BY <1>2
<1>4. \A i, k \in D : (k \in W[i] => W[k] \subseteq W[i]) /\ (k \in W[i] \/ i \in W[k])
    <2> HIDE DEF D
    <2> QED
        BY <1>2
<1>5. \A i, k \in D : k \in W[i] /\ i \in W[k] => i = k
    <2> HIDE DEF D
    <2> QED
        BY <1>2
<1>6. /\ \A n \in 1..N : \E i \in D : Cardinality(W[i]) = n
      /\ \A i \in D : Cardinality(W[i]) \in 1..N
      /\ \A i, k \in D : Cardinality(W[i]) = Cardinality(W[k]) => i = k
      /\ \A i, k \in D : Cardinality(W[i]) < Cardinality(W[k]) => W[i] \subseteq W[k]
    <2> HIDE DEF D, W, N
    <2>1. \A i, k \in D : W[i] \subseteq W[k] \/ W[k] \subseteq W[i]
        BY <1>4
    <2>2. \A i, k \in D : W[i] = W[k] => i = k
        BY <1>3, <1>5
    <2>3. /\ \A n \in 1..Cardinality(D) : \E i \in D : Cardinality(W[i]) = n
          /\ \A i \in D : Cardinality(W[i]) \in 1..Cardinality(D)
          /\ \A i, k \in D : Cardinality(W[i]) = Cardinality(W[k]) => i = k
          /\ \A i, k \in D : Cardinality(W[i]) < Cardinality(W[k]) => W[i] \subseteq W[k]
        <3>1. IsFiniteSet(D) /\ W \in [D -> SUBSET D] /\ \A i \in D : i \in W[i]
            BY <1>1, <1>3
        <3> QED
            BY <3>1, <2>1, <2>2, Ranks, Zenon
    <2> QED
        BY <1>1, <2>3, Zenon
<1>7. \A n \in D : p[n] \in D /\ Cardinality(W[p[n]]) = n
    <2>1. \A i \in D : Above(i) = W[i]
        OBVIOUS
    <2> HIDE DEF D, W, N, Above
    <2>2. \A n \in D : \E i \in D : Cardinality(Above(i)) = n
        <3>1. \A n \in D : \E i \in D : Cardinality(W[i]) = n
            BY <1>1, <1>6, Zenon
        <3> QED
            BY <2>1, <3>1, Zenon
    <2>3. \A n \in D : p[n] \in D /\ Cardinality(Above(p[n])) = n
        BY <2>2, Zenon
    <2> HIDE DEF p
    <2> QED
        BY <2>1, <2>3
<1>8. \A i \in D : \E n \in D : p[n] = i
    <2> SUFFICES ASSUME NEW i \in D PROVE \E n \in D : p[n] = i
        OBVIOUS
    <2> DEFINE n == Cardinality(W[i])
    <2>1. n \in D
        BY <1>1, <1>6, Zenon
    <2>2. p[n] \in D /\ Cardinality(W[p[n]]) = Cardinality(W[i])
        BY <1>7, <2>1, Zenon
    <2>3. p[n] = i
        BY <1>6, <2>2, Zenon
    <2> QED
        BY <2>1, <2>3
<1>9. \A n, m \in D : n < m => p[n] # p[m] /\ p[n] \in W[p[m]]
    <2> SUFFICES ASSUME NEW n \in D, NEW m \in D, n < m PROVE p[n] # p[m] /\ p[n] \in W[p[m]]
        OBVIOUS
    <2> HIDE DEF D, W, N, p
    <2>1. /\ p[n] \in D /\ p[m] \in D
          /\ Cardinality(W[p[n]]) = n /\ Cardinality(W[p[m]]) = m /\ n # m
        BY <1>1, <1>7
    <2>2. W[p[n]] \subseteq W[p[m]]
        BY <1>6, <2>1
    <2> QED
        BY <1>3, <2>1, <2>2
<1>10. \A i, k \in D : i \in W[k] => key[i] >= key[k]
    <2> HIDE DEF D
    <2> QED
        BY <1>2
<1>11. \A n, m \in D : n < m => key[p[n]] >= key[p[m]]
    <2> HIDE DEF D, W, p
    <2> QED
        BY <1>7, <1>9, <1>10
<1>12. SortedBy(list, key) = [n \in D |-> list[p[n]]]
    BY DEF SortedBy
<1>13. p \in [D -> D]
    <2> HIDE DEF D, W
    <2> QED
        BY <1>7
<1> HIDE DEF p
<1> QED
    <2>1. D = 1..Len(list)
        OBVIOUS
    <2> HIDE DEF D, W, Above
    <2>2. p \in [1..Len(list) -> 1..Len(list)]
        BY <1>13, <2>1
    <2>3. SortedBy(list, key) = [n \in 1..Len(list) |-> list[p[n]]]
        BY <1>12, <2>1
    <2>4. \A i \in 1..Len(list) : \E n \in 1..Len(list) : p[n] = i
        BY <1>8, <2>1
    <2>5. \A n, m \in 1..Len(list) : n < m => p[n] # p[m] /\ key[p[n]] >= key[p[m]]
        BY <1>9, <1>11, <2>1
    <2> QED
        BY <2>2, <2>3, <2>4, <2>5, Zenon

\* A sorted list holds the same ids as often.
LEMMA SortingKeeps ==
    ASSUME NEW S, NEW list \in Seq(S), NEW key \in [1..Len(list) -> Int]
    PROVE  /\ SortedBy(list, key) \in Seq(S)
           /\ Len(SortedBy(list, key)) = Len(list)
           /\ Ids(SortedBy(list, key)) = Ids(list)
           /\ IsInjective(list) => IsInjective(SortedBy(list, key))
           /\ \A v : (\A i \in 1..Len(list) : key[i] = v[list[i]]) =>
                 \A n, m \in 1..Len(list) :
                     n < m => v[SortedBy(list, key)[n]] >= v[SortedBy(list, key)[m]]
<1> DEFINE N == Len(list)
           sorted == SortedBy(list, key)
<1>1. PICK p \in [1..N -> 1..N] :
              /\ sorted = [n \in 1..N |-> list[p[n]]]
              /\ \A i \in 1..N : \E n \in 1..N : p[n] = i
              /\ \A n, m \in 1..N : n < m => p[n] # p[m] /\ key[p[n]] >= key[p[m]]
    BY Sorting
<1>2. N \in Nat /\ DOMAIN list = 1..N /\ \A i \in 1..N : list[i] \in S
    OBVIOUS
<1> HIDE DEF N, sorted
<1>3. \A n \in 1..N : p[n] \in 1..N /\ sorted[n] = list[p[n]] /\ sorted[n] \in S
    BY <1>1, <1>2
<1>4. sorted \in Seq(S) /\ Len(sorted) = N /\ DOMAIN sorted = 1..N
    <2>1. sorted \in [1..N -> S]
        BY <1>1, <1>2
    <2> QED
        BY <1>2, <2>1
<1>5. Ids(sorted) = Ids(list)
    BY <1>1, <1>2, <1>3, <1>4 DEF Ids
<1>6. IsInjective(list) => IsInjective(sorted)
    <2> SUFFICES ASSUME IsInjective(list), NEW n \in 1..N, NEW m \in 1..N, sorted[n] = sorted[m]
                 PROVE  n = m
        BY <1>4 DEF IsInjective
    <2>1. p[n] = p[m]
        BY <1>2, <1>3 DEF IsInjective
    <2>2. ~(n < m) /\ ~(m < n)
        BY <1>1, <2>1
    <2> QED
        BY <1>2, <2>2
<1>7. ASSUME NEW v, \A i \in 1..N : key[i] = v[list[i]], NEW n \in 1..N, NEW m \in 1..N, n < m
      PROVE  v[sorted[n]] >= v[sorted[m]]
    <2>1. key[p[n]] >= key[p[m]]
        BY <1>1, <1>7
    <2>2. key[p[n]] = v[sorted[n]]
        BY <1>3, <1>7, Zenon
    <2>3. key[p[m]] = v[sorted[m]]
        BY <1>3, <1>7, Zenon
    <2> QED
        BY <2>1, <2>2, <2>3
<1>8. \A v : (\A i \in 1..N : key[i] = v[list[i]]) =>
                 \A n, m \in 1..N : n < m => v[sorted[n]] >= v[sorted[m]]
    BY <1>7, Zenon
<1> QED
    BY <1>4, <1>5, <1>6, <1>8 DEF N, sorted

\* The first elements of a list.
LEMMA FirstOf ==
    ASSUME NEW S, NEW list \in Seq(S), NEW n \in Nat
    PROVE  /\ First(list, n) \in Seq(S)
           /\ Len(First(list, n)) <= n /\ Len(First(list, n)) <= Len(list)
           /\ Ids(First(list, n)) \subseteq Ids(list)
           /\ IsInjective(list) => IsInjective(First(list, n))
           /\ First(list, n) = list \/ Len(First(list, n)) = n
<1> DEFINE m == IF Len(list) < n THEN Len(list) ELSE n
           first == First(list, n)
<1>1. Len(list) \in Nat /\ m \in Nat /\ m <= Len(list) /\ m <= n /\ DOMAIN list = 1..Len(list)
    OBVIOUS
<1>2. first = SubSeq(list, 1, m)
    BY DEF First
<1> HIDE DEF m, first
<1>3. first \in Seq(S) /\ Len(first) = m /\ DOMAIN first = 1..m /\ \A i \in 1..m : first[i] = list[i]
    BY <1>1, <1>2
<1>4. Ids(first) \subseteq Ids(list) /\ (IsInjective(list) => IsInjective(first))
    BY <1>1, <1>3 DEF Ids, IsInjective
<1>5. m = Len(list) \/ m = n
    BY DEF m
<1>6. m = Len(list) => first = list
    BY <1>1, <1>3
<1> QED
    BY <1>1, <1>3, <1>4, <1>5, <1>6 DEF first

\* What two lists hold, one after the other.
LEMMA ConcatIds ==
    ASSUME NEW S, NEW first \in Seq(S), NEW second \in Seq(S)
    PROVE  Ids(first \o second) = Ids(first) \cup Ids(second)
<1> DEFINE both == first \o second
           F == Len(first)
           L == Len(second)
<1>1. /\ F \in Nat /\ L \in Nat
      /\ DOMAIN first = 1..F /\ DOMAIN second = 1..L /\ DOMAIN both = 1..(F + L)
    OBVIOUS
<1>2. /\ \A i \in 1..F : both[i] = first[i]
      /\ \A i \in 1..L : both[F + i] = second[i]
    OBVIOUS
<1> HIDE DEF both, F, L
<1>3. \A i \in 1..(F + L) : i \in 1..F \/ (i - F \in 1..L /\ F + (i - F) = i)
    BY <1>1
<1>4. (\A i \in 1..F : i \in 1..(F + L)) /\ \A i \in 1..L : F + i \in 1..(F + L)
    BY <1>1
<1>5. Ids(both) \subseteq Ids(first) \cup Ids(second)
    <2> SUFFICES ASSUME NEW i \in 1..(F + L) PROVE both[i] \in Ids(first) \cup Ids(second)
        BY <1>1 DEF Ids
    <2>1. CASE i \in 1..F
        BY <1>1, <1>2, <2>1 DEF Ids
    <2>2. CASE i - F \in 1..L /\ F + (i - F) = i
        <3>1. both[i] = second[i - F]
            BY <1>2, <2>2
        <3> QED
            BY <1>1, <2>2, <3>1 DEF Ids
    <2> QED
        BY <1>3, <2>1, <2>2
<1>6. Ids(first) \subseteq Ids(both) /\ Ids(second) \subseteq Ids(both)
    BY <1>1, <1>2, <1>4 DEF Ids
<1> QED
    BY <1>5, <1>6 DEF both

\* One list after the other holds what each of them holds.
LEMMA Flattened ==
    ASSUME NEW S, NEW seqs \in Seq(Seq(S))
    PROVE  /\ FlattenSeq(seqs) \in Seq(S)
           /\ Ids(FlattenSeq(seqs)) = UNION {Ids(seqs[i]) : i \in 1..Len(seqs)}
<1> DEFINE N == Len(seqs)
           X == Seq(S)
           g == [n \in 1..N |-> [list \in X |-> list \o seqs[n]]]
           Is(f) == f = [i \in 1..N |-> IF i = 1 THEN seqs[i] ELSE f[i - 1] \o seqs[i]]
           f == CHOOSE f : Is(f)
<1>1. N \in Nat /\ \A n \in 1..N : seqs[n] \in X
    OBVIOUS
<1>2. CASE N = 0
    <2>1. seqs = <<>> /\ FlattenSeq(seqs) = seqs /\ 1..Len(seqs) = {}
        BY <1>2 DEF FlattenSeq
    <2>2. FlattenSeq(seqs) = <<>> /\ <<>> \in Seq(S) /\ Ids(<<>>) = {}
        BY <2>1 DEF Ids
    <2>3. UNION {Ids(seqs[i]) : i \in 1..Len(seqs)} = {}
        BY <2>1
    <2> QED
        BY <2>2, <2>3
<1>3. CASE N # 0
    <2>1. FlattenSeq(seqs) = f[N]
        BY <1>3 DEF FlattenSeq
    <2>2. \E h : Is(h)
        <3>1. g \in [1..N -> [X -> X]]
            <4>1. \A n \in 1..N : \A list \in X : list \o seqs[n] \in X
                BY <1>1
            <4> HIDE DEF X, N
            <4> QED
                BY <4>1
        <3>2. <<>> \in X
            OBVIOUS
        <3>3. PICK h : Begins(h, X, <<>>, N, g)
            <4> HIDE DEF g, X, N
            <4> QED
                BY <1>1, <3>1, <3>2, Recursion
        <3>4. /\ h \in [0..N -> X] /\ h[0] = <<>>
              /\ \A n \in 1..N : h[n] = h[n - 1] \o seqs[n] /\ h[n - 1] \in X
            <4>1. h \in [0..N -> X] /\ h[0] = <<>> /\ \A n \in 1..N : h[n] = g[n][h[n - 1]]
                <5> HIDE DEF g, X, N
                <5> QED
                    BY <3>3 DEF Begins
            <4>2. \A n \in 1..N : \A list \in X : g[n][list] = list \o seqs[n]
                <5> HIDE DEF X, N
                <5> QED
                    OBVIOUS
            <4>3. \A n \in 1..N : n - 1 \in 0..N
                BY <1>1
            <4>4. \A n \in 1..N : h[n - 1] \in X
                <5> HIDE DEF X, N, g
                <5> QED
                    BY <4>1, <4>3
            <4> HIDE DEF X, N, g
            <4> QED
                BY <4>1, <4>2, <4>4
        <3> DEFINE d == [i \in 1..N |-> h[i]]
                   e == [i \in 1..N |-> IF i = 1 THEN seqs[i] ELSE d[i - 1] \o seqs[i]]
        <3>5. \A i \in 1..N : i # 1 => i - 1 \in 1..N
            BY <1>1
        <3>6. \A i \in 1..N : i # 1 => e[i] = d[i]
            <4> HIDE DEF X, N
            <4> QED
                BY <3>4, <3>5
        <3>7. 1 \in 1..N /\ e[1] = seqs[1]
            BY <1>1, <1>3
        <3>8. d[1] = seqs[1]
            <4>1. <<>> \o seqs[1] = seqs[1]
                BY <1>1, <3>7
            <4>2. h[1] = h[0] \o seqs[1]
                <5>1. 1 - 1 = 0
                    OBVIOUS
                <5> HIDE DEF X, N
                <5> QED
                    BY <3>4, <3>7, <5>1
            <4> QED
                BY <4>1, <4>2, <3>4, <3>7
        <3>9. \A i \in 1..N : e[i] = d[i]
            <4> HIDE DEF d, e, N
            <4> QED
                BY <3>6, <3>7, <3>8
        <3>10. d = [i \in 1..N |-> d[i]] /\ e = [i \in 1..N |-> e[i]]
            <4> HIDE DEF N
            <4> QED
                OBVIOUS
        <3>11. e = d
            <4> HIDE DEF d, e, N
            <4> QED
                BY <3>9, <3>10
        <3>12. Is(d)
            <4> HIDE DEF d
            <4> QED
                BY <3>11
        <3> QED
            BY <3>12
    <2>3. Is(f)
        <3> HIDE DEF Is
        <3> QED
            BY <2>2
    <2>4. f[1] = seqs[1] /\ \A i \in 2..N : f[i] = f[i - 1] \o seqs[i]
        <3> DEFINE e == [i \in 1..N |-> IF i = 1 THEN seqs[i] ELSE f[i - 1] \o seqs[i]]
        <3>1. f = e
            BY <2>3
        <3>2. 1 \in 1..N /\ \A i \in 2..N : i \in 1..N /\ i # 1
            BY <1>1, <1>3
        <3>3. e[1] = seqs[1] /\ \A i \in 2..N : e[i] = f[i - 1] \o seqs[i]
            <4> HIDE DEF f, N
            <4> QED
                BY <3>2
        <3> HIDE DEF e, f
        <3> QED
            BY <3>1, <3>3
    <2> HIDE DEF f
    <2> DEFINE Holds(n) == f[n] \in Seq(S) /\ Ids(f[n]) = UNION {Ids(seqs[i]) : i \in 1..n}
               G == {n \in 0..N : n = 0 \/ Holds(n)}
    <2>5. 0 \in G
        BY <1>1
    <2>6. ASSUME NEW n \in 1..N, n - 1 \in G PROVE n \in G
        <3>1. n \in 0..N /\ n \in Nat
            BY <1>1
        <3>2. CASE n = 1
            <4>1. f[1] \in Seq(S)
                BY <1>1, <2>4, <3>2
            <4>2. {Ids(seqs[i]) : i \in 1..1} = {Ids(seqs[1])}
                OBVIOUS
            <4>3. Holds(1)
                BY <2>4, <4>1, <4>2
            <4> HIDE DEF Holds
            <4> QED
                BY <3>1, <3>2, <4>3
        <3>3. CASE n # 1
            <4>1. n - 1 # 0 /\ n \in 2..N
                BY <3>3
            <4>2. Holds(n - 1)
                BY <2>6, <4>1
            <4>3. f[n] = f[n - 1] \o seqs[n] /\ seqs[n] \in Seq(S) /\ f[n - 1] \in Seq(S)
                BY <1>1, <2>4, <4>1, <4>2
            <4>4. Ids(f[n]) = Ids(f[n - 1]) \cup Ids(seqs[n])
                BY <4>3, ConcatIds
            <4>5. 1..n = (1..(n - 1)) \cup {n}
                BY <3>1
            <4>6. UNION {Ids(seqs[i]) : i \in 1..n} = (UNION {Ids(seqs[i]) : i \in 1..(n - 1)}) \cup Ids(seqs[n])
                BY <4>5
            <4>7. f[n] \in Seq(S)
                BY <4>3
            <4>8. Holds(n)
                BY <4>2, <4>4, <4>6, <4>7
            <4> HIDE DEF Holds
            <4> QED
                BY <3>1, <4>8
        <3> QED
            BY <3>2, <3>3
    <2>7. \A n \in 1..N : n - 1 \in G => n \in G
        BY <2>6
    <2>8. 0..N \subseteq G
        <3> HIDE DEF G, N
        <3> QED
            BY <1>1, <2>5, <2>7, UpTo, Zenon
    <2>9. Holds(N)
        <3>1. N \in 0..N
            BY <1>1
        <3> HIDE DEF Holds
        <3> QED
            BY <1>3, <2>8, <3>1
    <2> QED
        BY <2>1, <2>9
<1> QED
    BY <1>2, <1>3

-----------------------------------------------------------------------------
(* Candidates. *)

Candidate(tags) == [id : Chunks, by : tags]
Held(list) == Ids(IdsOf(list))

\* The chunks of a list of candidates.
LEMMA HeldIs ==
    ASSUME NEW tags, NEW list \in Seq(Candidate(tags))
    PROVE  /\ IdsOf(list) \in Seq(Chunks)
           /\ Held(list) = {c.id : c \in Ids(list)}
           /\ Held(list) \subseteq Chunks
<1>1. Len(list) \in Nat /\ DOMAIN list = 1..Len(list) /\ \A i \in 1..Len(list) : list[i] \in Candidate(tags)
    OBVIOUS
<1>2. \A i \in 1..Len(list) : list[i].id \in Chunks
    BY <1>1 DEF Candidate
<1>3. IdsOf(list) = [i \in 1..Len(list) |-> list[i].id]
    BY <1>1 DEF IdsOf
<1>4. IdsOf(list) \in Seq(Chunks) /\ DOMAIN IdsOf(list) = 1..Len(list)
    BY <1>1, <1>2, <1>3
<1>5. Held(list) = {c.id : c \in Ids(list)}
    BY <1>1, <1>3, <1>4 DEF Held, Ids
<1>6. Held(list) \subseteq Chunks
    BY <1>1, <1>2, <1>5 DEF Ids
<1> QED
    BY <1>4, <1>5, <1>6

\* Those of two lists, one after the other.
LEMMA HeldConcat ==
    ASSUME NEW tags, NEW first \in Seq(Candidate(tags)), NEW second \in Seq(Candidate(tags))
    PROVE  /\ first \o second \in Seq(Candidate(tags))
           /\ Held(first \o second) = Held(first) \cup Held(second)
<1>1. first \o second \in Seq(Candidate(tags))
    OBVIOUS
<1>2. Ids(first \o second) = Ids(first) \cup Ids(second)
    BY ConcatIds
<1>3. /\ Held(first) = {c.id : c \in Ids(first)} /\ Held(second) = {c.id : c \in Ids(second)}
      /\ Held(first \o second) = {c.id : c \in Ids(first \o second)}
    BY <1>1, HeldIs
<1> QED
    BY <1>1, <1>2, <1>3

\* A search fails or returns candidates of its own kind.
LEMMA OutcomeIs ==
    ASSUME NEW by, NEW limit \in Nat, NEW o \in Outcomes(by, limit)
    PROVE  o = Failed \/ o \in Seq(Candidate({by}))
<1> SUFFICES ASSUME NEW h \in Hits, o = Tagged(First(h, limit), by)
             PROVE  o \in Seq(Candidate({by}))
    BY DEF Outcomes
<1>1. First(h, limit) \in Seq(Chunks)
    BY RetrievalAssumption, FirstOf
<1> DEFINE list == First(h, limit)
<1> HIDE DEF list
<1>2. list \in Seq(Chunks)
    BY <1>1 DEF list
<1>3. Len(list) \in Nat /\ DOMAIN list = 1..Len(list) /\ \A i \in 1..Len(list) : list[i] \in Chunks
    BY <1>2
<1>4. Tagged(list, by) = [i \in 1..Len(list) |-> [id |-> list[i], by |-> by]]
    BY <1>3 DEF Tagged
<1>5. Tagged(list, by) \in Seq(Candidate({by}))
    <2>1. \A i \in 1..Len(list) : [id |-> list[i], by |-> by] \in Candidate({by})
        BY <1>3 DEF Candidate
    <2>2. Tagged(list, by) \in [1..Len(list) -> Candidate({by})]
        BY <1>4, <2>1
    <2> DEFINE C == Candidate({by})
               t == Tagged(list, by)
    <2>3. t \in [1..Len(list) -> C] /\ Len(list) \in Nat
        BY <1>3, <2>2
    <2> HIDE DEF C, t
    <2>4. t \in Seq(C)
        BY <2>3
    <2> QED
        BY <2>4 DEF C, t
<1> QED
    BY <1>5 DEF list

\* Gathered searches leave what those that did not fail returned.
LEMMA GatheredIs ==
    ASSUME NEW tags, NEW n \in Nat, NEW r \in [1..n -> Seq(Candidate(tags)) \cup {Failed}]
    PROVE  /\ Gathered(r) \in Seq(Candidate(tags))
           /\ Held(Gathered(r)) = Returned(Range(r))
<1> DEFINE S == Candidate(tags)
           lists == [i \in 1..n |-> Kept(r[i])]
<1>1. Gathered(r) = FlattenSeq(lists)
    BY DEF Gathered
<1>2. \A i \in 1..n : Kept(r[i]) \in Seq(S)
    <2> HIDE DEF S
    <2> SUFFICES ASSUME NEW i \in 1..n PROVE Kept(r[i]) \in Seq(S)
        OBVIOUS
    <2>1. <<>> \in Seq(S) /\ (r[i] = Failed \/ r[i] \in Seq(S))
        BY DEF S
    <2> QED
        BY <2>1 DEF Kept
<1>3. lists \in Seq(Seq(S)) /\ Len(lists) = n /\ \A i \in 1..n : lists[i] = Kept(r[i])
    <2> HIDE DEF S
    <2>1. lists \in [1..n -> Seq(S)]
        BY <1>2
    <2>2. \A i \in 1..n : lists[i] = Kept(r[i])
        OBVIOUS
    <2> HIDE DEF lists
    <2> QED
        BY <2>1, <2>2
<1> HIDE DEF lists
<1>4. FlattenSeq(lists) \in Seq(S) /\ Ids(FlattenSeq(lists)) = UNION {Ids(lists[i]) : i \in 1..n}
    <2> HIDE DEF S
    <2> QED
        BY <1>3, Flattened
<1>5. \A i \in 1..n : {c.id : c \in Ids(lists[i])} = IF r[i] = Failed THEN {} ELSE Held(r[i])
    <2> SUFFICES ASSUME NEW i \in 1..n
                 PROVE  {c.id : c \in Ids(lists[i])} = IF r[i] = Failed THEN {} ELSE Held(r[i])
        OBVIOUS
    <2>1. CASE r[i] = Failed
        <3>1. lists[i] = <<>> /\ Ids(<<>>) = {}
            BY <1>3, <2>1 DEF Kept, Ids
        <3> QED
            BY <2>1, <3>1
    <2>2. CASE r[i] # Failed
        <3>1. lists[i] = r[i] /\ r[i] \in Seq(S)
            BY <1>3, <2>2 DEF Kept
        <3> QED
            BY <2>2, <3>1, HeldIs
    <2> QED
        BY <2>1, <2>2
<1>6. Held(FlattenSeq(lists)) = {c.id : c \in Ids(FlattenSeq(lists))}
    BY <1>4, HeldIs
<1>7. {c.id : c \in Ids(FlattenSeq(lists))} = UNION {{c.id : c \in Ids(lists[i])} : i \in 1..n}
    BY <1>4
<1>8. Returned(Range(r)) = UNION {Held(o) : o \in Range(r) \ {Failed}}
    BY DEF Returned, Held
<1>9. Range(r) = {r[i] : i \in 1..n}
    BY DEF Range
<1>10. UNION {{c.id : c \in Ids(lists[i])} : i \in 1..n} = UNION {Held(o) : o \in Range(r) \ {Failed}}
    <2> DEFINE Some(i) == {c.id : c \in Ids(lists[i])}
    <2>1. \A i \in 1..n : Some(i) = IF r[i] = Failed THEN {} ELSE Held(r[i])
        BY <1>5
    <2> HIDE DEF Some
    <2>2. \A i \in 1..n : \A x \in Some(i) : r[i] \in Range(r) \ {Failed} /\ x \in Held(r[i])
        BY <1>9, <2>1
    <2>3. \A o \in Range(r) \ {Failed} : \E i \in 1..n : o = r[i] /\ Held(o) = Some(i)
        BY <1>9, <2>1
    <2>4. UNION {Some(i) : i \in 1..n} = UNION {Held(o) : o \in Range(r) \ {Failed}}
        BY <2>2, <2>3
    <2> QED
        BY <2>4 DEF Some
<1> QED
    BY <1>1, <1>4, <1>6, <1>7, <1>8, <1>10

Portion(c, list, weight, n) == IF list[n].id = c THEN (weight * Scale) \div (RrfK + n) ELSE 0

Adds(f, c, list, weight) ==
    /\ \A n \in 0..Len(list) : f[n] \in Nat
    /\ f[0] = 0 /\ \A n \in 1..Len(list) : f[n] = f[n - 1] + Portion(c, list, weight, n)
    /\ Reciprocal(c, list, weight) = f[Len(list)]

\* Reciprocal ranks add up, place by place.
LEMMA ReciprocalIs ==
    ASSUME NEW c, NEW list, Len(list) \in Nat, NEW weight \in Nat
    PROVE  \E f : Adds(f, c, list, weight)
<1> DEFINE N == Len(list)
           share(n) == Portion(c, list, weight, n)
           g == [n \in 1..N |-> [x \in Nat |-> x + share(n)]]
           Is(f) == f = [n \in 0..N |-> IF n = 0 THEN 0 ELSE f[n - 1] + share(n)]
           f == CHOOSE f : Is(f)
<1>1. \A n \in 1..N : share(n) \in Nat
    <2> SUFFICES ASSUME NEW n \in 1..N PROVE (weight * Scale) \div (RrfK + n) \in Nat
        BY DEF Portion
    <2>1. Scale \in Nat /\ RrfK \in Nat
        BY RetrievalAssumption
    <2>2. weight * Scale \in Nat /\ RrfK + n \in Nat \ {0}
        BY <2>1
    <2>3. \A a \in Nat : \A b \in Nat \ {0} : a \div b \in Nat
        OBVIOUS
    <2> QED
        BY <2>2, <2>3
<1> HIDE DEF share
<1>2. g \in [1..N -> [Nat -> Nat]]
    BY <1>1
<1>3. PICK h : Begins(h, Nat, 0, N, g)
    <2> HIDE DEF g, N
    <2> QED
        BY <1>2, Recursion DEF N
<1>4. /\ h \in [0..N -> Nat] /\ h[0] = 0
      /\ \A n \in 1..N : h[n] = g[n][h[n - 1]]
    <2> HIDE DEF g
    <2> QED
        BY <1>3 DEF Begins
<1>5. \A n \in 1..N : h[n] = h[n - 1] + share(n)
    <2>1. \A n \in 1..N : h[n - 1] \in Nat
        BY <1>4
    <2> QED
        BY <1>4, <2>1
<1>6. Is(h)
    <2> DEFINE e == [n \in 0..N |-> IF n = 0 THEN 0 ELSE h[n - 1] + share(n)]
    <2>1. \A n \in 0..N : e[n] = h[n]
        BY <1>4, <1>5
    <2>2. e = [n \in 0..N |-> e[n]] /\ h = [n \in 0..N |-> h[n]]
        BY <1>4
    <2> HIDE DEF e
    <2>3. e = h
        BY <2>1, <2>2
    <2> QED
        BY <2>3 DEF e
<1>7. Is(f)
    <2> HIDE DEF Is
    <2> QED
        BY <1>6
<1>8. f[0] = 0 /\ \A n \in 1..N : f[n] = f[n - 1] + share(n)
    <2> DEFINE e == [n \in 0..N |-> IF n = 0 THEN 0 ELSE f[n - 1] + share(n)]
    <2>1. f = e
        BY <1>7
    <2>2. e[0] = 0 /\ \A n \in 1..N : e[n] = f[n - 1] + share(n)
        <3> HIDE DEF f
        <3> QED
            OBVIOUS
    <2> HIDE DEF e, f
    <2> QED
        BY <2>1, <2>2
<1>9. Reciprocal(c, list, weight) = f[N]
    BY DEF Reciprocal, share, Portion
<1> HIDE DEF f
<1> DEFINE G == {n \in 0..N : f[n] \in Nat}
<1>10. 0 \in G
    BY <1>8
<1>11. \A n \in 1..N : n - 1 \in G => n \in G
    BY <1>1, <1>8
<1>12. 0..N \subseteq G
    <2> HIDE DEF G
    <2> QED
        BY <1>10, <1>11, UpTo, Zenon
<1> QED
    BY <1>8, <1>9, <1>12 DEF share, Adds

\* So they are a number.
LEMMA ReciprocalIsNat ==
    ASSUME NEW c, NEW list, Len(list) \in Nat, NEW weight \in Nat
    PROVE  Reciprocal(c, list, weight) \in Nat
<1>1. PICK f : Adds(f, c, list, weight)
    BY ReciprocalIs
<1> QED
    BY <1>1 DEF Adds

\* Fusion: every candidate once, unless there are too many.
LEMMA FuseIs ==
    ASSUME NEW tags, dense \in Seq(Candidate(tags)), lexical \in Seq(Candidate(tags)), NEW topK \in Nat
    PROVE  /\ Fuse(topK) \in Seq(Chunks)
           /\ IsInjective(Fuse(topK))
           /\ Ids(Fuse(topK)) \subseteq Held(dense) \cup Held(lexical)
           /\ \/ Ids(Fuse(topK)) = Held(dense) \cup Held(lexical)
              \/ Len(Fuse(topK)) = topK
<1> DEFINE all == IdsOf(dense \o lexical)
           seen == Distinct(all)
           key == [i \in DOMAIN seen |-> RrfScore(seen[i])]
<1>1. all \in Seq(Chunks) /\ Ids(all) = Held(dense) \cup Held(lexical)
    <2> DEFINE both == dense \o lexical
    <2>1. both \in Seq(Candidate(tags)) /\ Held(both) = Held(dense) \cup Held(lexical)
        BY HeldConcat
    <2> HIDE DEF both
    <2>2. IdsOf(both) \in Seq(Chunks)
        BY <2>1, HeldIs
    <2> QED
        BY <2>1, <2>2 DEF Held, both
<1> HIDE DEF all
<1>2. seen \in Seq(Chunks) /\ IsInjective(seen) /\ Ids(seen) = Ids(all)
    BY <1>1, DistinctIds
<1> HIDE DEF seen
<1>3. \A c : RrfScore(c) \in Int
    <2>1. Len(dense) \in Nat /\ Len(lexical) \in Nat /\ DenseWeight \in Nat /\ LexicalWeight \in Nat
        BY RetrievalAssumption
    <2>2. \A c : Reciprocal(c, dense, DenseWeight) \in Nat /\ Reciprocal(c, lexical, LexicalWeight) \in Nat
        BY <2>1, ReciprocalIsNat
    <2> QED
        BY <2>2 DEF RrfScore
<1>4. key \in [1..Len(seen) -> Int]
    <2>1. DOMAIN seen = 1..Len(seen)
        BY <1>2
    <2> QED
        BY <1>3, <2>1
<1> DEFINE sorted == SortedBy(seen, key)
<1> HIDE DEF key
<1>5. sorted \in Seq(Chunks) /\ Ids(sorted) = Ids(seen) /\ IsInjective(sorted)
    BY <1>2, <1>4, SortingKeeps
<1>6. Fuse(topK) = First(sorted, topK)
    BY DEF Fuse, key, seen, all
<1> HIDE DEF sorted
<1>7. /\ First(sorted, topK) \in Seq(Chunks) /\ IsInjective(First(sorted, topK))
      /\ Ids(First(sorted, topK)) \subseteq Ids(sorted)
      /\ First(sorted, topK) = sorted \/ Len(First(sorted, topK)) = topK
    BY <1>5, FirstOf
<1> QED
    BY <1>1, <1>2, <1>5, <1>6, <1>7

\* The n-th number of a set.
Nth(S, n) == CHOOSE i \in S : Cardinality({j \in S : j <= i}) = n

\* Nth enumerates a finite set of positions.
LEMMA Enumerated ==
    ASSUME NEW T \in Nat, NEW S \in SUBSET (1..T)
    PROVE  /\ Cardinality(S) \in Nat
           /\ \A n \in 1..Cardinality(S) : Nth(S, n) \in S
           /\ \A i \in S : \E n \in 1..Cardinality(S) : Nth(S, n) = i
<1> DEFINE Below(i) == {j \in S : j <= i}
           W == [i \in S |-> Below(i)]
<1>1. IsFiniteSet(S)
    <2>1. IsFiniteSet(1..T)
        BY FS_Interval
    <2> QED
        BY <2>1, FS_Subset
<1>2. \A i \in S : i \in Int
    OBVIOUS
<1>3. /\ W \in [S -> SUBSET S]
      /\ \A i \in S : i \in W[i] /\ W[i] = Below(i)
      /\ \A i, k \in S : W[i] \subseteq W[k] \/ W[k] \subseteq W[i]
      /\ \A i, k \in S : W[i] = W[k] => i = k
    <2>1. W \in [S -> SUBSET S] /\ \A i \in S : i \in W[i] /\ W[i] = Below(i)
        BY <1>2
    <2>2. \A i, k \in S : k \in W[i] <=> k <= i
        OBVIOUS
    <2>3. \A i, k, j \in S : /\ i <= k \/ k <= i
                             /\ i <= k /\ k <= i => i = k
                             /\ j <= i /\ i <= k => j <= k
        BY <1>2
    <2>4. \A i \in S : W[i] \subseteq S
        BY <2>1
    <2> HIDE DEF W
    <2>5. ASSUME NEW i \in S, NEW k \in S, i <= k PROVE W[i] \subseteq W[k]
        <3> SUFFICES ASSUME NEW j \in W[i] PROVE j \in W[k]
            OBVIOUS
        <3>1. j \in S /\ j <= i
            BY <2>2, <2>4
        <3>2. j <= k
            BY <2>3, <2>5, <3>1
        <3> QED
            BY <2>2, <3>1, <3>2
    <2>6. \A i, k \in S : W[i] \subseteq W[k] \/ W[k] \subseteq W[i]
        <3> SUFFICES ASSUME NEW i \in S, NEW k \in S
                     PROVE  W[i] \subseteq W[k] \/ W[k] \subseteq W[i]
            OBVIOUS
        <3>1. i <= k \/ k <= i
            BY <1>2
        <3>2. CASE i <= k
            BY <2>5, <3>2, Zenon
        <3>3. CASE k <= i
            BY <2>5, <3>3, Zenon
        <3> QED
            BY <3>1, <3>2, <3>3
    <2>7. \A i, k \in S : W[i] = W[k] => i = k
        <3> SUFFICES ASSUME NEW i \in S, NEW k \in S, W[i] = W[k] PROVE i = k
            OBVIOUS
        <3>1. i \in W[k] /\ k \in W[i]
            BY <2>1
        <3>2. i <= k /\ k <= i
            BY <2>2, <3>1
        <3> QED
            BY <2>3, <3>2
    <2> HIDE DEF Below
    <2> QED
        BY <2>1, <2>6, <2>7
<1> HIDE DEF W
<1>4. /\ Cardinality(S) \in Nat
      /\ \A i \in S : Cardinality(W[i]) \in 1..Cardinality(S)
      /\ \A n \in 1..Cardinality(S) : \E i \in S : Cardinality(W[i]) = n
      /\ \A i, k \in S : Cardinality(W[i]) = Cardinality(W[k]) => i = k
    BY <1>1, <1>3, Ranks, Zenon
<1> HIDE DEF Below
<1>5. \A n \in 1..Cardinality(S) : \E i \in S : Cardinality(Below(i)) = n
    BY <1>3, <1>4, Zenon
<1>6. \A n : Nth(S, n) = CHOOSE i \in S : Cardinality(Below(i)) = n
    BY DEF Nth, Below
<1>7. \A n \in 1..Cardinality(S) : Nth(S, n) \in S /\ Cardinality(Below(Nth(S, n))) = n
    BY <1>5, <1>6, Zenon
<1>8. ASSUME NEW i \in S PROVE \E n \in 1..Cardinality(S) : Nth(S, n) = i
    <2> DEFINE n == Cardinality(W[i])
    <2>1. n \in 1..Cardinality(S)
        BY <1>4, Zenon
    <2>2. Nth(S, n) \in S /\ Cardinality(Below(Nth(S, n))) = Cardinality(W[i])
        BY <1>7, <2>1, Zenon
    <2>3. Nth(S, n) = i
        BY <1>3, <1>4, <2>2, Zenon
    <2> QED
        BY <2>1, <2>3
<1> QED
    BY <1>4, <1>7, <1>8

\* The searches at some of the positions, gathered.
Part(r, S) == Gathered([n \in 1..Cardinality(S) |-> r[Nth(S, n)]])
Results(r, S) == {r[i] : i \in S}
Ran(r, S, tags) == \A i \in S : r[i] = Failed \/ r[i] \in Seq(Candidate(tags))

\* What some of the searches returned is held, under their tags.
LEMMA PartIs ==
    ASSUME NEW tags, NEW T \in Nat, NEW r, NEW S \in SUBSET (1..T), Ran(r, S, tags)
    PROVE  /\ Part(r, S) \in Seq(Candidate(tags))
           /\ Held(Part(r, S)) = Returned(Results(r, S))
<1> DEFINE q == [n \in 1..Cardinality(S) |-> r[Nth(S, n)]]
<1>1. /\ Cardinality(S) \in Nat
      /\ \A n \in 1..Cardinality(S) : Nth(S, n) \in S
      /\ \A i \in S : \E n \in 1..Cardinality(S) : Nth(S, n) = i
    BY Enumerated
<1>2. q \in [1..Cardinality(S) -> Seq(Candidate(tags)) \cup {Failed}]
    BY <1>1 DEF Ran
<1>3. Range(q) = {r[i] : i \in S}
    BY <1>1 DEF Range
<1> HIDE DEF q
<1>4. Gathered(q) \in Seq(Candidate(tags)) /\ Held(Gathered(q)) = Returned(Range(q))
    BY <1>1, <1>2, GatheredIs
<1> QED
    BY <1>3, <1>4 DEF Part, Results, q

-----------------------------------------------------------------------------
(* Compression. *)

\* What is kept did fit, and what did fit is kept.
LEMMA FilterFits ==
    ASSUME NEW S, NEW list \in Seq(S), NEW fits, NEW h, Filters(h, S, list, fits)
    PROVE  /\ \A k \in 1..Len(h[Len(list)]) : \E m \in 1..Len(list) :
                 h[Len(list)][k] = list[m] /\ fits[m][h[m - 1]]
           /\ \A m \in 1..Len(list) : fits[m][h[m - 1]] => list[m] \in Ids(h[Len(list)])
<1> DEFINE N == Len(list)
           Fit(n) == \A k \in 1..Len(h[n]) : \E m \in 1..n : h[n][k] = list[m] /\ fits[m][h[m - 1]]
           G == {n \in 0..N : Fit(n)}
<1>1. N \in Nat /\ \A n \in 1..N : list[n] \in S
    OBVIOUS
<1>2. \A n \in 0..N : h[n] \in Seq(S) /\ Len(h[n]) \in Nat /\ DOMAIN h[n] = 1..Len(h[n])
    <2>1. \A n \in 0..N : h[n] \in Seq(S)
        BY DEF Filters
    <2> QED
        BY <2>1
<1>3. 0 \in G
    <2>1. Len(h[0]) = 0
        BY DEF Filters
    <2> QED
        BY <1>1, <2>1
<1>4. ASSUME NEW n \in 1..N, n - 1 \in G PROVE n \in G
    <2>1. n \in 0..N /\ n - 1 \in 0..N /\ n \in Nat
        BY <1>1
    <2>2. Fit(n - 1)
        BY <1>4
    <2>3. CASE fits[n][h[n - 1]]
        <3>1. h[n] = Append(h[n - 1], list[n])
            BY <2>3 DEF Filters
        <3>2. h[n - 1] \in Seq(S) /\ list[n] \in S
            BY <1>1, <1>2, <2>1
        <3>3. /\ Len(h[n]) = Len(h[n - 1]) + 1 /\ h[n][Len(h[n])] = list[n]
              /\ \A k \in 1..Len(h[n - 1]) : h[n][k] = h[n - 1][k]
            BY <3>1, <3>2
        <3>4. \A k \in 1..Len(h[n]) : k = Len(h[n]) \/ k \in 1..Len(h[n - 1])
            BY <1>2, <2>1, <3>3
        <3>5. \A m \in 1..(n - 1) : m \in 1..n
            BY <2>1
        <3>6. Fit(n)
            <4> SUFFICES ASSUME NEW k \in 1..Len(h[n])
                         PROVE  \E m \in 1..n : h[n][k] = list[m] /\ fits[m][h[m - 1]]
                OBVIOUS
            <4>1. CASE k = Len(h[n])
                BY <2>1, <2>3, <3>3, <4>1
            <4>2. CASE k \in 1..Len(h[n - 1])
                <5>1. PICK m \in 1..(n - 1) : h[n - 1][k] = list[m] /\ fits[m][h[m - 1]]
                    BY <2>2, <4>2
                <5> QED
                    BY <3>3, <3>5, <4>2, <5>1
            <4> QED
                BY <3>4, <4>1, <4>2
        <3> QED
            BY <2>1, <3>6
    <2>4. CASE ~fits[n][h[n - 1]]
        <3>1. h[n] = h[n - 1]
            BY <2>4 DEF Filters
        <3>2. \A m \in 1..(n - 1) : m \in 1..n
            BY <2>1
        <3>3. Fit(n)
            <4> SUFFICES ASSUME NEW k \in 1..Len(h[n])
                         PROVE  \E m \in 1..n : h[n][k] = list[m] /\ fits[m][h[m - 1]]
                OBVIOUS
            <4>1. PICK m \in 1..(n - 1) : h[n - 1][k] = list[m] /\ fits[m][h[m - 1]]
                BY <2>2, <3>1
            <4> QED
                BY <3>1, <3>2, <4>1
        <3> QED
            BY <2>1, <3>3
    <2> QED
        BY <2>3, <2>4
<1>5. \A n \in 1..N : n - 1 \in G => n \in G
    BY <1>4
<1>6. 0..N \subseteq G
    <2> HIDE DEF G, N
    <2> QED
        BY <1>1, <1>3, <1>5, UpTo, Zenon
<1>7. Fit(N)
    <2>1. N \in 0..N
        BY <1>1
    <2>2. \A n \in G : Fit(n)
        BY Zenon
    <2> HIDE DEF G, Fit, N
    <2> QED
        BY <1>6, <2>1, <2>2, Zenon
<1>8. ASSUME NEW m \in 1..N, fits[m][h[m - 1]] PROVE list[m] \in Ids(h[N])
    <2>1. m \in 0..N /\ m - 1 \in 0..N /\ N \in 0..N /\ m \in 0..N
        BY <1>1
    <2>2. h[m] = Append(h[m - 1], list[m])
        BY <1>8 DEF Filters
    <2>3. h[m - 1] \in Seq(S) /\ list[m] \in S
        BY <1>1, <1>2, <2>1
    <2>4. Len(h[m]) \in 1..Len(h[m]) /\ h[m][Len(h[m])] = list[m]
        BY <2>2, <2>3
    <2>5. Len(h[m]) <= Len(h[N]) /\ \A k \in 1..Len(h[m]) : h[N][k] = h[m][k]
        BY <2>1, FilterKeeps
    <2>6. Len(h[m]) \in DOMAIN h[N] /\ h[N][Len(h[m])] = list[m]
        <3> HIDE DEF N
        <3> QED
            BY SMTT(60), <1>2, <2>1, <2>4, <2>5
    <2> QED
        BY <2>6 DEF Ids
<1> QED
    BY <1>7, <1>8

\* The best first, none below the least score.
LEMMA ByScoreIs ==
    ASSUME NEW list \in Seq(Chunks), score \in [Chunks -> Int], IsInjective(list)
    PROVE  /\ ByScore(list) \in Seq(Chunks) /\ IsInjective(ByScore(list))
           /\ Ids(ByScore(list)) = {c \in Ids(list) : score[c] >= MinScore}
           /\ \A n, m \in 1..Len(ByScore(list)) :
                 n < m => score[ByScore(list)[n]] >= score[ByScore(list)[m]]
<1> DEFINE fit == Filtered(list, LAMBDA kept, c : score[c] >= MinScore)
           key == [i \in DOMAIN fit |-> score[fit[i]]]
<1>1. ByScore(list) = SortedBy(fit, key)
    BY DEF ByScore
<1>2. PICK h : Filters(h, Chunks, list, Scored(Chunks, list)) /\ fit = h[Len(list)]
    BY ScoreFilters
<1> HIDE DEF fit
<1>3. fit \in Seq(Chunks) /\ Len(list) \in Nat /\ IsInjective(fit) /\ Ids(fit) \subseteq Ids(list)
    BY <1>2, FilterDrops
<1>4. \A m \in 1..Len(list) : Scored(Chunks, list)[m][h[m - 1]] <=> score[list[m]] >= MinScore
    <2>1. \A m \in 1..Len(list) : m - 1 \in 0..Len(list)
        BY <1>3
    <2>2. \A m \in 1..Len(list) : h[m - 1] \in Seq(Chunks)
        BY <1>2, <2>1 DEF Filters
    <2> QED
        BY <2>2 DEF Scored
<1>5. \A k \in 1..Len(fit) : score[fit[k]] >= MinScore
    <2>1. \A k \in 1..Len(fit) : \E m \in 1..Len(list) :
              fit[k] = list[m] /\ Scored(Chunks, list)[m][h[m - 1]]
        <3>1. \A k \in 1..Len(h[Len(list)]) : \E m \in 1..Len(list) :
                  h[Len(list)][k] = list[m] /\ Scored(Chunks, list)[m][h[m - 1]]
            BY <1>2, FilterFits
        <3> QED
            BY <1>2, <3>1, Zenon
    <2> QED
        BY <1>4, <2>1
<1>6. \A m \in 1..Len(list) : score[list[m]] >= MinScore => list[m] \in Ids(fit)
    <2>1. \A m \in 1..Len(list) : Scored(Chunks, list)[m][h[m - 1]] => list[m] \in Ids(fit)
        BY <1>2, FilterFits
    <2> QED
        BY <1>4, <2>1
<1>7. DOMAIN fit = 1..Len(fit) /\ DOMAIN list = 1..Len(list) /\ \A k \in 1..Len(fit) : fit[k] \in Chunks
    BY <1>3
<1>8. Ids(fit) = {c \in Ids(list) : score[c] >= MinScore}
    BY <1>3, <1>5, <1>6, <1>7 DEF Ids
<1>9. key \in [1..Len(fit) -> Int] /\ \A i \in 1..Len(fit) : key[i] = score[fit[i]]
    BY <1>7
<1> HIDE DEF key
<1>10. /\ SortedBy(fit, key) \in Seq(Chunks)
       /\ Len(SortedBy(fit, key)) = Len(fit)
       /\ Ids(SortedBy(fit, key)) = Ids(fit)
       /\ IsInjective(SortedBy(fit, key))
       /\ \A n, m \in 1..Len(fit) : n < m => score[SortedBy(fit, key)[n]] >= score[SortedBy(fit, key)[m]]
    BY <1>3, <1>9, SortingKeeps
<1> QED
    BY <1>1, <1>8, <1>10

\* What compress keeps, and why it leaves the rest out.
LEMMA CompressIs ==
    ASSUME NEW list \in Seq(Chunks), score \in [Chunks -> Int], IsInjective(list), FinalTop # 0
    PROVE  LET kept == Compress(list)
           IN  /\ kept \in Seq(Chunks) /\ IsInjective(kept)
               /\ Ids(kept) \subseteq Ids(list)
               /\ Len(kept) <= FinalTop
               /\ \A i, j \in DOMAIN kept :
                     i < j => /\ score[kept[i]] >= score[kept[j]]
                              /\ ~Alike(kept[i], kept[j])
               /\ \A c \in Ids(list) \ Ids(kept) :
                     \/ score[c] < MinScore
                     \/ Len(kept) = FinalTop
                     \/ \E i \in DOMAIN kept : Alike(kept[i], c) /\ score[kept[i]] >= score[c]
<1> DEFINE L == ByScore(list)
           N == Len(L)
<1>1. /\ L \in Seq(Chunks) /\ IsInjective(L)
      /\ Ids(L) = {c \in Ids(list) : score[c] >= MinScore}
      /\ \A n, m \in 1..N : n < m => score[L[n]] >= score[L[m]]
    BY ByScoreIs
<1>2. Compress(list) = Filtered(L, LAMBDA kept, c : (kept = <<>> \/ Len(kept) < FinalTop) /\ ~Repeated(kept, c))
    BY DEF Compress
<1> HIDE DEF L
<1>3. PICK h : Filters(h, Chunks, L, Fitting(Chunks, L)) /\ Compress(list) = h[N]
    BY <1>1, <1>2, CompressFilters
<1> DEFINE kept == h[N]
<1>4. /\ kept \in Seq(Chunks) /\ N \in Nat /\ Len(kept) \in Nat /\ IsInjective(kept) /\ Ids(kept) \subseteq Ids(L)
      /\ \A n \in 0..N : \A k \in 1..Len(h[n]) : \E i \in 1..n : h[n][k] = L[i]
    BY <1>1, <1>3, FilterDrops
<1>5. /\ DOMAIN L = 1..N /\ DOMAIN kept = 1..Len(kept)
      /\ \A n \in 1..N : L[n] \in Chunks /\ score[L[n]] \in Int
    BY <1>1, <1>4
<1>6. \A n \in 0..N : h[n] \in Seq(Chunks) /\ Len(h[n]) \in Nat /\ DOMAIN h[n] = 1..Len(h[n])
    <2>1. \A n \in 0..N : h[n] \in Seq(Chunks)
        BY <1>3 DEF Filters
    <2> QED
        BY <2>1
<1>7. \A n \in 1..N : /\ n - 1 \in 0..N /\ n \in 0..N
                      /\ Fitting(Chunks, L)[n][h[n - 1]] <=>
                            (h[n - 1] = <<>> \/ Len(h[n - 1]) < FinalTop) /\ ~Repeated(h[n - 1], L[n])
    <2>1. \A n \in 1..N : n - 1 \in 0..N /\ n \in 0..N
        BY <1>4
    <2>2. \A n \in 1..N : h[n - 1] \in Seq(Chunks)
        BY <1>6, <2>1
    <2> QED
        BY <2>1, <2>2 DEF Fitting
<1> DEFINE Short(n) == Len(h[n]) <= FinalTop
           Alone(n) == \A i, j \in 1..Len(h[n]) : i < j => ~Alike(h[n][i], h[n][j])
           G == {n \in 0..N : Short(n) /\ Alone(n)}
<1>8. FinalTop \in Nat /\ FinalTop >= 1 /\ MinScore \in Int
    BY RetrievalAssumption
<1>9. 0 \in G
    <2>1. h[0] = <<>> /\ Len(h[0]) = 0
        BY <1>3 DEF Filters
    <2> QED
        BY <1>4, <1>8, <2>1
<1>10. ASSUME NEW n \in 1..N, n - 1 \in G PROVE n \in G
    <2> DEFINE old == h[n - 1]
    <2>1. n \in 0..N /\ old \in Seq(Chunks) /\ L[n] \in Chunks /\ Len(old) \in Nat
        BY <1>5, <1>6, <1>7
    <2>2. Short(n - 1) /\ Alone(n - 1)
        BY <1>10
    <2>3. CASE Fitting(Chunks, L)[n][old]
        <3>1. h[n] = Append(old, L[n])
            BY <1>3, <2>3 DEF Filters
        <3>2. (old = <<>> \/ Len(old) < FinalTop) /\ ~Repeated(old, L[n])
            BY <1>7, <2>3
        <3>3. /\ Len(h[n]) = Len(old) + 1 /\ h[n][Len(old) + 1] = L[n]
              /\ \A k \in 1..Len(old) : h[n][k] = old[k]
            BY <2>1, <3>1
        <3>4. Short(n)
            BY <1>8, <2>1, <3>2, <3>3
        <3>5. \A i \in 1..Len(old) : ~Alike(old[i], L[n])
            BY <2>1, <3>2 DEF Repeated
        <3>6. Alone(n)
            <4> SUFFICES ASSUME NEW i \in 1..Len(h[n]), NEW j \in 1..Len(h[n]), i < j
                         PROVE  ~Alike(h[n][i], h[n][j])
                OBVIOUS
            <4> HIDE DEF old
            <4>1. i \in 1..Len(old) /\ (j \in 1..Len(old) \/ j = Len(old) + 1)
                BY <2>1, <3>3
            <4>2. CASE j \in 1..Len(old)
                BY <2>2, <3>3, <4>1, <4>2 DEF old
            <4>3. CASE j = Len(old) + 1
                BY <3>3, <3>5, <4>1, <4>3
            <4> QED
                BY <4>1, <4>2, <4>3
        <3> QED
            BY <2>1, <3>4, <3>6
    <2>4. CASE ~Fitting(Chunks, L)[n][old]
        <3>1. h[n] = old
            BY <1>3, <2>4 DEF Filters
        <3> QED
            BY <2>1, <2>2, <3>1
    <2> QED
        BY <2>3, <2>4
<1>11. \A n \in 1..N : n - 1 \in G => n \in G
    BY <1>10
<1>12. 0..N \subseteq G
    <2> HIDE DEF G, N
    <2> QED
        BY <1>4, <1>9, <1>11, UpTo, Zenon
<1>13. Short(N) /\ Alone(N)
    <2>1. N \in 0..N
        BY <1>4
    <2> HIDE DEF Short, Alone
    <2> QED
        BY <1>12, <2>1
<1>14. \A i, j \in 1..Len(kept) : i < j => score[kept[i]] >= score[kept[j]]
    <2>1. N \in 0..N
        BY <1>4
    <2>2. PICK e \in [1..Len(kept) -> 1..N] :
              /\ \A k \in 1..Len(kept) : kept[k] = L[e[k]]
              /\ \A i, j \in 1..Len(kept) : i < j => e[i] < e[j]
        <3>1. InOrder(h, L, N)
            BY <1>1, <1>3, <2>1, FilterOrder
        <3> QED
            BY <3>1 DEF InOrder
    <2> HIDE DEF kept, N
    <2> QED
        BY <1>1, <2>2
<1>15. ASSUME NEW m \in 1..N, L[m] \notin Ids(kept)
       PROVE  \/ Len(kept) = FinalTop
              \/ \E i \in 1..Len(kept) : Alike(kept[i], L[m]) /\ score[kept[i]] >= score[L[m]]
    <2> DEFINE old == h[m - 1]
    <2>1. ~Fitting(Chunks, L)[m][old]
        BY <1>1, <1>3, <1>15, FilterFits
    <2>2. m - 1 \in 0..N /\ N \in 0..N /\ m - 1 \in 0..N
        BY <1>4, <1>7
    <2>3. Len(old) <= Len(kept) /\ \A k \in 1..Len(old) : kept[k] = old[k]
        <3>1. m - 1 \in 0..N /\ N \in 0..Len(L)
            BY <2>2
        <3> QED
            BY SMTT(60), <1>1, <1>3, <3>1, FilterKeeps
    <2>4. Len(old) \in Nat /\ DOMAIN old = 1..Len(old)
        BY <1>6, <2>2
    <2>5. (old # <<>> /\ ~(Len(old) < FinalTop)) \/ Repeated(old, L[m])
        BY <1>7, <2>1
    <2>6. CASE ~(Len(old) < FinalTop)
        BY <1>4, <1>8, <1>13, <2>3, <2>4, <2>6
    <2>7. CASE Repeated(old, L[m])
        <3>1. PICK k \in 1..Len(old) : Alike(old[k], L[m])
            BY <2>4, <2>7 DEF Repeated
        <3>2. k \in 1..Len(kept) /\ kept[k] = old[k]
            BY <1>4, <2>3, <2>4
        <3>3. PICK i \in 1..(m - 1) : old[k] = L[i]
            BY <1>4, <2>2
        <3>4. i \in 1..N /\ i < m
            BY <1>4
        <3>5. score[L[i]] >= score[L[m]]
            BY <1>1, <3>4
        <3> HIDE DEF kept, old
        <3> QED
            BY <3>1, <3>2, <3>3, <3>5
    <2> QED
        BY <2>5, <2>6, <2>7
<1>16. \A c \in Ids(list) \ Ids(kept) :
           \/ score[c] < MinScore
           \/ Len(kept) = FinalTop
           \/ \E i \in DOMAIN kept : Alike(kept[i], c) /\ score[kept[i]] >= score[c]
    <2> SUFFICES ASSUME NEW c \in Ids(list) \ Ids(kept), ~(score[c] < MinScore)
                 PROVE  \/ Len(kept) = FinalTop
                        \/ \E i \in DOMAIN kept : Alike(kept[i], c) /\ score[kept[i]] >= score[c]
        OBVIOUS
    <2>1. c \in Chunks /\ score[c] \in Int
        BY DEF Ids
    <2>2. c \in Ids(L)
        BY <1>1, <1>8, <2>1
    <2>3. PICK m \in 1..N : c = L[m]
        BY <1>5, <2>2 DEF Ids
    <2> HIDE DEF kept
    <2> QED
        BY <1>5, <1>15, <2>3
<1>17. Ids(kept) \subseteq Ids(list)
    BY <1>1, <1>4
<1> HIDE DEF kept
<1>18. /\ \A i, j \in DOMAIN kept :
              i < j => /\ score[kept[i]] >= score[kept[j]]
                       /\ ~Alike(kept[i], kept[j])
       /\ Len(kept) <= FinalTop
    BY <1>5, <1>13, <1>14 DEF kept
<1>19. Compress(list) = kept
    BY <1>3 DEF kept
<1> QED
    BY <1>4, <1>16, <1>17, <1>18, <1>19

-----------------------------------------------------------------------------
(* The guard. *)

LoadedTexts == Range(TextOf) \cup {NoText}

\* Finitely many numbers have a greatest one.
LEMMA MaxIs ==
    ASSUME NEW N \in Nat, NEW e \in [1..N -> Int], NEW z \in Int,
           NEW all, all = {z} \cup {e[i] : i \in 1..N}
    PROVE  Max(all) \in all /\ \A y \in all : Max(all) >= y
<1> DEFINE T(n) == {z} \cup {e[i] : i \in 1..n}
           G == {n \in 0..N : \E x \in T(n) : \A y \in T(n) : x >= y}
<1>1. 0 \in G
    <2>1. T(0) = {z}
        OBVIOUS
    <2>2. \E x \in T(0) : \A y \in T(0) : x >= y
        BY <2>1
    <2> HIDE DEF T
    <2> QED
        BY <2>2
<1>2. ASSUME NEW n \in 1..N, n - 1 \in G PROVE n \in G
    <2>1. PICK x \in T(n - 1) : \A y \in T(n - 1) : x >= y
        BY <1>2
    <2>2. T(n) = T(n - 1) \cup {e[n]}
        <3>1. 1..n = (1..(n - 1)) \cup {n}
            OBVIOUS
        <3> QED
            BY <3>1
    <2>3. \A y \in T(n) : y \in Int
        OBVIOUS
    <2>4. x \in T(n) /\ e[n] \in T(n) /\ n \in 0..N
        BY <2>2
    <2> HIDE DEF T
    <2>5. CASE x >= e[n]
        <3>1. \A y \in T(n) : x >= y
            BY <2>1, <2>2, <2>5
        <3> QED
            BY <2>4, <3>1
    <2>6. CASE ~(x >= e[n])
        <3>1. \A y \in T(n) : e[n] >= y
            <4> SUFFICES ASSUME NEW y \in T(n) PROVE e[n] >= y
                OBVIOUS
            <4>1. x \in Int /\ y \in Int /\ e[n] \in Int /\ (y = e[n] \/ x >= y)
                BY <2>1, <2>2, <2>3, <2>4
            <4> QED
                BY <2>6, <4>1
        <3> QED
            BY <2>4, <3>1
    <2> QED
        BY <2>5, <2>6
<1>3. \A n \in 1..N : n - 1 \in G => n \in G
    BY <1>2
<1>4. 0..N \subseteq G
    <2> HIDE DEF G
    <2> QED
        BY <1>1, <1>3, UpTo, Zenon
<1>5. \E x \in T(N) : \A y \in T(N) : x >= y
    <2> HIDE DEF T
    <2> QED
        BY <1>4
<1> QED
    BY <1>5 DEF Max

\* A judgement is two numbers; without a model an empty text entails nothing.
LEMMA JudgedIs ==
    ASSUME NEW claim \in DOMAIN Overlap, NEW t \in LoadedTexts, NEW nli \in BOOLEAN
    PROVE  /\ Entailment(claim, t, nli) \in Int /\ Contradiction(claim, t, nli) \in Int
           /\ ~nli /\ t = NoText => Entailment(claim, t, nli) = 0
<1>1. /\ t \in DOMAIN Overlap[claim] /\ Overlap[claim][NoText] = 0
    BY AnswersAssumption DEF LoadedTexts
<1>2. /\ Overlap[claim][t] \in 0..100
      /\ Predicted[claim][t] = NoPrediction \/ Predicted[claim][t] \in Seq(Int)
    BY <1>1, GuardAssumption
<1>3. /\ ByOverlap(Overlap[claim][t]).entailment \in Int /\ ByOverlap(Overlap[claim][t]).contradiction \in Int
      /\ Overlap[claim][t] = 0 => ByOverlap(Overlap[claim][t]).entailment = 0
    <2> DEFINE s == Overlap[claim][t]
    <2>1. s \in Int
        <3>1. s \in 0..100
            BY <1>2
        <3> HIDE DEF s
        <3> QED
            BY <3>1
    <2> HIDE DEF s
    <2>2. /\ ByOverlap(s).entailment = IF s >= 30 THEN s ELSE 0
          /\ ByOverlap(s).contradiction = IF s < 10 THEN 100 - s ELSE 0
        BY DEF ByOverlap
    <2>3. /\ ByOverlap(s).entailment \in Int /\ ByOverlap(s).contradiction \in Int
          /\ s = 0 => ByOverlap(s).entailment = 0
        BY <2>1, <2>2
    <2> QED
        BY <2>3 DEF s
<1>4. ASSUME NEW scores \in Seq(Int)
      PROVE  ByModel(scores).entailment \in Int /\ ByModel(scores).contradiction \in Int
    <2>1. Len(scores) \in Nat /\ \A i \in 1..Len(scores) : scores[i] \in Int
        OBVIOUS
    <2>2. scores # <<>> => Len(scores) # 0
        OBVIOUS
    <2> DEFINE single == IF scores = <<>> THEN 0 ELSE scores[1]
    <2>3. single \in Int
        BY <2>1, <2>2
    <2>4. Len(scores) = 3 => scores[1] \in Int /\ scores[2] \in Int
        BY <2>1
    <2> HIDE DEF single
    <2>5. ByModel(scores) = IF Len(scores) = 3 THEN [entailment |-> scores[2], contradiction |-> scores[1]]
                            ELSE IF single > 0 THEN [entailment |-> single, contradiction |-> 0]
                            ELSE [entailment |-> 0, contradiction |-> -single]
        BY DEF ByModel, single
    <2> QED
        BY <2>3, <2>4, <2>5
<1>5. /\ Judged(claim, t, nli).entailment \in Int /\ Judged(claim, t, nli).contradiction \in Int
    BY <1>2, <1>3, <1>4 DEF Judged
<1>6. ~nli /\ t = NoText => Judged(claim, t, nli).entailment = 0
    BY <1>1, <1>3 DEF Judged
<1> QED
    BY <1>5, <1>6 DEF Entailment, Contradiction

\* The best entailment is that of a text, if it is positive.
LEMMA BestIs ==
    ASSUME NEW claim \in DOMAIN Overlap, NEW texts \in Seq(LoadedTexts), NEW nli \in BOOLEAN
    PROVE  /\ Best(claim, texts, nli) \in Int /\ Best(claim, texts, nli) >= 0
           /\ \A i \in DOMAIN texts : Entailment(claim, texts[i], nli) <= Best(claim, texts, nli)
           /\ Best(claim, texts, nli) > 0 =>
                 \E i \in DOMAIN texts : Entailment(claim, texts[i], nli) = Best(claim, texts, nli)
<1> DEFINE N == Len(texts)
           e == [i \in 1..N |-> Entailment(claim, texts[i], nli)]
<1>1. N \in Nat /\ DOMAIN texts = 1..N /\ \A i \in 1..N : texts[i] \in LoadedTexts
    OBVIOUS
<1>2. e \in [1..N -> Int]
    BY <1>1, JudgedIs
<1>3. \A i \in 1..N : e[i] = Entailment(claim, texts[i], nli)
    OBVIOUS
<1>4. Best(claim, texts, nli) = Max({0} \cup {e[i] : i \in 1..N})
    BY <1>1 DEF Best
<1> HIDE DEF e, N
<1> DEFINE T == {0} \cup {e[i] : i \in 1..N}
<1>5. Max(T) \in T /\ \A y \in T : Max(T) >= y
    <2>1. N \in Nat /\ 0 \in Int
        BY <1>1
    <2> QED
        BY <1>2, <2>1, MaxIs
<1>6. \A y \in T : y \in Int
    BY <1>2
<1> DEFINE best == Best(claim, texts, nli)
<1>7. best = Max(T)
    BY <1>4
<1> HIDE DEF best
<1>8. best \in Int /\ best \in T /\ best >= 0 /\ \A i \in 1..N : e[i] <= best /\ e[i] \in Int
    <2>1. 0 \in T /\ \A i \in 1..N : e[i] \in T
        OBVIOUS
    <2> HIDE DEF T
    <2> QED
        BY <1>5, <1>6, <1>7, <2>1
<1>9. best > 0 => \E i \in 1..N : e[i] = best
    BY <1>8
<1> QED
    BY <1>1, <1>3, <1>8, <1>9 DEF best

Rests(v, said, texts, scores, nli) ==
    /\ v.supported \cap v.contradicted = {}
    /\ \A k \in DOMAIN said :
          /\ IF k \in v.supported
             THEN \/ Cardinality(v.supporting[k]) = 1
                  \/ /\ Threshold <= 0 /\ v.supporting[k] = {}
                     /\ \A j \in DOMAIN texts : Entailment(said[k], texts[j], nli) <= 0
             ELSE v.supporting[k] = {}
          /\ \A i \in v.supporting[k] :
                /\ i \in DOMAIN texts
                /\ nli \/ texts[i] # NoText
                /\ Entailment(said[k], texts[i], nli) >= Threshold
                /\ \A j \in DOMAIN texts :
                      Entailment(said[k], texts[j], nli) <= Entailment(said[k], texts[i], nli)
    /\ v.verified /\ v.supported = {} => \E i \in DOMAIN scores : scores[i] >= 7499

\* The best score is one of the scores.
LEMMA BestScoreIs ==
    ASSUME NEW scores \in Seq(Int), scores # <<>>
    PROVE  \E i \in DOMAIN scores : BestScore(scores) = scores[i] /\ scores[i] \in Int
<1> DEFINE N == Len(scores)
           T == {scores[i] : i \in 1..N}
<1>1. N \in Nat /\ N >= 1 /\ DOMAIN scores = 1..N /\ scores \in [1..N -> Int]
    OBVIOUS
<1>2. T = {scores[1]} \cup {scores[i] : i \in 1..N}
    BY <1>1
<1>3. scores[1] \in Int
    BY <1>1
<1>4. Max(T) \in T
    BY <1>1, <1>2, <1>3, MaxIs
<1>5. BestScore(scores) = Max(T)
    BY <1>1 DEF BestScore
<1> QED
    BY <1>1, <1>4, <1>5

\* A rounded quotient of 3000 or more is one of 2999.5 or more.
LEMMA RoundedIs ==
    ASSUME NEW num \in Int, NEW den \in Nat, den > 0, Rounded(num, den) >= 3000
    PROVE  2 * num >= 5999 * den
<1> DEFINE low == num \div den
           rest == num % den
<1>1. low \in Int /\ rest \in 0..(den - 1) /\ num = den * low + rest
    OBVIOUS
<1>2. \/ low >= 3000
      \/ low >= 2999 /\ (2 * rest > den \/ 2 * rest = den)
    <2>1. Rounded(num, den) \in {low, low + 1}
        BY DEF Rounded
    <2>2. Rounded(num, den) = low + 1 => 2 * rest > den \/ 2 * rest = den
        BY <1>1 DEF Rounded
    <2> HIDE DEF low, rest
    <2> QED
        BY <1>1, <2>1, <2>2
<1> HIDE DEF low, rest
<1>3. CASE low >= 3000
    <2>1. den * (low - 3000) >= 0
        BY <1>1, <1>3
    <2>2. den * (low - 3000) = den * low - 3000 * den /\ den * low \in Int
        BY <1>1
    <2> QED
        BY <1>1, <2>1, <2>2
<1>4. CASE low >= 2999 /\ (2 * rest > den \/ 2 * rest = den)
    <2>1. den * (low - 2999) >= 0
        BY <1>1, <1>4
    <2>2. den * (low - 2999) = den * low - 2999 * den /\ den * low \in Int
        BY <1>1
    <2> QED
        BY <1>1, <1>4, <2>1, <2>2
<1> QED
    BY <1>2, <1>3, <1>4

\* The verdict over any claims, texts and scores rests on the texts.
LEMMA VerdictIs ==
    ASSUME NEW said \in Seq(DOMAIN Overlap), NEW texts \in Seq(LoadedTexts), NEW scores \in Seq(Int),
           NEW nli \in BOOLEAN
    PROVE  Rests(Verdict(said, texts, scores, nli), said, texts, scores, nli)
<1> DEFINE v == Verdict(said, texts, scores, nli)
           enough == Confidence(said, texts, scores, nli) >= 3000
<1>1. /\ v.supported = {k \in DOMAIN said : Supported(said[k], texts, nli)}
      /\ v.contradicted = {k \in DOMAIN said : Contradicted(said[k], texts, nli)}
      /\ v.supporting = [k \in DOMAIN said |-> SupportingChunks(said[k], texts, nli)]
      /\ v.verified = enough
    BY DEF Verdict
<1> HIDE DEF v, enough
<1>2. v.supported \cap v.contradicted = {}
    BY <1>1 DEF Contradicted
<1>3. Threshold \in Int
    BY GuardAssumption
<1>4. ASSUME NEW k \in DOMAIN said
      PROVE  /\ IF k \in v.supported
                THEN \/ Cardinality(v.supporting[k]) = 1
                     \/ /\ Threshold <= 0 /\ v.supporting[k] = {}
                        /\ \A j \in DOMAIN texts : Entailment(said[k], texts[j], nli) <= 0
                ELSE v.supporting[k] = {}
             /\ \A i \in v.supporting[k] :
                   /\ i \in DOMAIN texts
                   /\ nli \/ texts[i] # NoText
                   /\ Entailment(said[k], texts[i], nli) >= Threshold
                   /\ \A j \in DOMAIN texts :
                         Entailment(said[k], texts[j], nli) <= Entailment(said[k], texts[i], nli)
    <2> DEFINE claim == said[k]
               best == Best(claim, texts, nli)
               Ent(i) == Entailment(claim, texts[i], nli)
    <2>1. claim \in DOMAIN Overlap
        OBVIOUS
    <2> HIDE DEF claim
    <2>2. /\ best \in Int /\ best >= 0 /\ (\A i \in DOMAIN texts : Ent(i) <= best)
          /\ best > 0 => \E i \in DOMAIN texts : Ent(i) = best
        BY <2>1, BestIs
    <2>3. \A i \in DOMAIN texts : Ent(i) \in Int /\ (~nli /\ texts[i] = NoText => Ent(i) = 0)
        BY <2>1, JudgedIs
    <2>4. k \in v.supported <=> best >= Threshold
        BY <1>1 DEF Supported, claim
    <2>5. v.supporting[k] = {i \in DOMAIN texts : /\ best >= Threshold /\ best > 0
                                                  /\ Ent(i) = best
                                                  /\ \A j \in 1..(i - 1) : Ent(j) < best}
        BY <1>1 DEF SupportingChunks, Supported, claim
    <2>6. DOMAIN texts = 1..Len(texts) /\ Len(texts) \in Nat
        OBVIOUS
    <2> HIDE DEF best, Ent
    <2>7. best >= Threshold /\ best > 0 => Cardinality(v.supporting[k]) = 1
        <3> SUFFICES ASSUME best >= Threshold, best > 0 PROVE Cardinality(v.supporting[k]) = 1
            OBVIOUS
        <3>1. best > 0
            OBVIOUS
        <3> DEFINE H == {i \in DOMAIN texts : Ent(i) = best}
        <3>2. H # {} /\ H \in SUBSET Nat
            BY <2>2, <2>6, <3>1
        <3> HIDE DEF H
        <3>3. PICK i \in H : \A y \in H : i <= y
            BY <3>2, LeastNumber
        <3>4. i \in DOMAIN texts /\ Ent(i) = best /\ i \in Nat
            BY <2>6, <3>3 DEF H
        <3>5. \A j \in 1..(i - 1) : j \in DOMAIN texts /\ ~(i <= j)
            BY <2>6, <3>4
        <3>6. \A j \in 1..(i - 1) : Ent(j) # best
            BY <3>3, <3>5 DEF H
        <3>7. \A j \in 1..(i - 1) : Ent(j) < best
            BY <2>2, <2>3, <3>5, <3>6
        <3>8. i \in v.supporting[k]
            BY <2>5, <3>1, <3>4, <3>7
        <3>9. ASSUME NEW j \in v.supporting[k] PROVE j = i
            <4>1. j \in 1..Len(texts) /\ Ent(j) = best /\ \A m \in 1..(j - 1) : Ent(m) < best
                BY <2>5, <2>6, <3>9
            <4>2. i <= j
                BY <2>6, <3>3, <4>1 DEF H
            <4>3. i \in 1..(j - 1) => Ent(i) < best
                BY <4>1
            <4> QED
                BY <2>2, <2>6, <3>4, <4>1, <4>2, <4>3
        <3>10. v.supporting[k] = {i}
            BY <3>8, <3>9
        <3> QED
            BY <3>10, FS_Singleton
    <2>8. /\ ~(best >= Threshold /\ best > 0) => v.supporting[k] = {}
          /\ best >= Threshold /\ ~(best > 0) =>
                /\ Threshold <= 0 /\ v.supporting[k] = {}
                /\ \A j \in DOMAIN texts : Ent(j) <= 0
        BY <1>3, <2>2, <2>3, <2>5
    <2>9. ASSUME NEW i \in v.supporting[k]
          PROVE  /\ i \in DOMAIN texts /\ (nli \/ texts[i] # NoText)
                 /\ Ent(i) >= Threshold /\ \A j \in DOMAIN texts : Ent(j) <= Ent(i)
        <3>1. i \in DOMAIN texts /\ Ent(i) = best /\ best >= Threshold /\ best > 0
            BY <2>5, <2>9
        <3>2. nli \/ texts[i] # NoText
            BY <2>3, <3>1
        <3> QED
            BY <2>2, <3>1, <3>2
    <2> QED
        BY <2>4, <2>7, <2>8, <2>9 DEF Ent, claim
<1>5. ASSUME v.verified, v.supported = {} PROVE \E i \in DOMAIN scores : scores[i] >= 7499
    <2>1. {k \in DOMAIN said : Supported(said[k], texts, nli)} = {}
        BY <1>1, <1>5
    <2>2. SupportedCount(said, texts, nli) = 0
        BY <2>1, FS_EmptySet DEF SupportedCount
    <2>3. Parts(said) \in Nat /\ Parts(said) >= 1
        <3>1. Len(said) \in Nat /\ (said # <<>> => Len(said) # 0)
            OBVIOUS
        <3> QED
            BY <3>1 DEF Parts
    <2> DEFINE p == Parts(said)
               b == BestScore(scores)
    <2>4. b \in Int => 8 * (b * p) >= 59990 * p
        <3> SUFFICES ASSUME b \in Int PROVE 8 * (b * p) >= 59990 * p
            OBVIOUS
        <3> DEFINE count == SupportedCount(said, texts, nli)
                   total == Confidence(said, texts, scores, nli)
        <3>0. total >= 3000
            <4>1. enough
                BY <1>1, <1>5, Zenon
            <4> QED
                BY <4>1 DEF enough
        <3>1. total = Rounded(60000 * count + 4 * b * p, 10 * p)
            BY DEF Confidence
        <3> HIDE DEF total
        <3>2. count = 0
            BY <2>2 DEF count
        <3> HIDE DEF count, p, b
        <3>3. p \in Nat /\ p >= 1
            BY <2>3 DEF p
        <3>4. 60000 * count + 4 * b * p = 4 * (b * p) /\ b * p \in Int
            BY <3>2, <3>3
        <3>5. 10 * p \in Nat /\ 10 * p > 0 /\ 4 * (b * p) \in Int
            BY <3>3, <3>4
        <3>6. Rounded(4 * (b * p), 10 * p) >= 3000
            BY <3>0, <3>1, <3>4
        <3>7. 2 * (4 * (b * p)) >= 5999 * (10 * p)
            BY <3>5, <3>6, RoundedIs
        <3> QED
            BY <3>3, <3>4, <3>7
    <2>5. scores # <<>>
        <3> SUFFICES ASSUME scores = <<>> PROVE FALSE
            OBVIOUS
        <3>1. b = 0
            BY DEF BestScore
        <3> HIDE DEF b, p
        <3>2. p \in Nat /\ p >= 1
            BY <2>3 DEF p
        <3>3. b * p = 0
            BY <3>1, <3>2
        <3> QED
            BY <2>4, <3>1, <3>2, <3>3
    <2>10. PICK i \in DOMAIN scores : b = scores[i] /\ scores[i] \in Int
        BY <2>5, BestScoreIs
    <2> HIDE DEF b, p
    <2>11. b \in Int
        BY <2>10
    <2>12. b >= 7499
        <3> SUFFICES ASSUME b <= 7498 PROVE FALSE
            BY <2>11
        <3>1. p \in Nat /\ p >= 1
            BY <2>3 DEF p
        <3>2. 7498 - b \in Nat
            BY <2>11
        <3>3. (7498 - b) * p >= 0
            BY <3>1, <3>2
        <3>4. (7498 - b) * p = 7498 * p - b * p /\ b * p \in Int
            BY <2>11, <3>1
        <3>5. PICK x \in Int : x = b * p
            BY <3>4
        <3>6. 7498 * p - x >= 0 /\ 8 * x >= 59990 * p
            BY <2>4, <2>11, <3>3, <3>4, <3>5
        <3> QED
            BY <3>1, <3>6
    <2>13. scores[i] >= 7499
        BY <2>10, <2>12
    <2> QED
        BY <2>13
<1> QED
    BY <1>2, <1>4, <1>5 DEF v, Rests

-----------------------------------------------------------------------------
(* The queries of a request. *)

IsList(list) == Len(list) \in Nat /\ DOMAIN list = 1..Len(list)

\* The variants of a query are a list.
LEMMA VariantsAre ==
    ASSUME NEW S, NEW list \in Seq(S), NEW query, NEW enough
    PROVE  IsList(NewVariants(query, list, enough))
<1>1. PICK h : /\ Filters(h, S, list, NewVariant(S, list, query, enough))
               /\ NewVariants(query, list, enough) = h[Len(list)]
    BY VariantsFilter
<1>2. h[Len(list)] \in Seq(S)
    <2> DEFINE fits == NewVariant(S, list, query, enough)
    <2>1. Filters(h, S, list, fits)
        BY <1>1
    <2> HIDE DEF fits
    <2> QED
        BY <2>1, FilterDrops
<1> HIDE DEF IsList
<1>3. \A s \in Seq(S) : IsList(s)
    BY DEF IsList
<1> QED
    BY <1>1, <1>2, <1>3

\* The substitutes of a query, and whatever else may be among its variants.
LEMMA SubstitutesAre ==
    ASSUME NEW query \in Seq(STRING), NEW synonyms, NEW atMost \in Nat,
           \A w \in DOMAIN synonyms : synonyms[w] \in Seq(STRING),
           NEW S, \A i, j \in Nat : Replaced(query, query[i], synonyms[query[i]][j]) \in S
    PROVE  Substitutes(query, synonyms, atMost) \in Seq(S)
<1> DEFINE Count(all) == IF Len(all) < atMost THEN Len(all) ELSE atMost
           Some(i) == [j \in 1..Count(synonyms[query[i]]) |->
                          Replaced(query, query[i], synonyms[query[i]][j])]
           part == [i \in DOMAIN query |-> IF query[i] \in DOMAIN synonyms THEN Some(i) ELSE <<>>]
<1>1. Substitutes(query, synonyms, atMost) = FlattenSeq(part)
    BY Zenon DEF Substitutes
<1>2. Len(query) \in Nat /\ DOMAIN query = 1..Len(query)
    OBVIOUS
<1>3. ASSUME NEW i \in 1..Len(query), query[i] \in DOMAIN synonyms
      PROVE  Some(i) \in Seq(S)
    <2>1. synonyms[query[i]] \in Seq(STRING)
        BY <1>3
    <2>2. Count(synonyms[query[i]]) \in Nat
        BY <2>1
    <2> DEFINE n == Count(synonyms[query[i]])
    <2>5. n \in Nat
        BY <2>2
    <2> HIDE DEF n
    <2>3. [j \in 1..n |-> Replaced(query, query[i], synonyms[query[i]][j])] \in [1..n -> S]
        OBVIOUS
    <2>4. \A g \in [1..n -> S] : g \in Seq(S)
        BY <2>5, FunctionsAreLists, Zenon
    <2> QED
        BY <2>3, <2>4 DEF n
<1>4. part \in Seq(Seq(S))
    <2> HIDE DEF Some
    <2>1. part \in [1..Len(query) -> Seq(S)]
        BY <1>2, <1>3
    <2> HIDE DEF part
    <2> QED
        BY <1>2, <2>1
<1> HIDE DEF part
<1> QED
    BY <1>1, <1>4, Flattened

\* The variants and the paraphrases of every query are lists.
LEMMA TransformIs ==
    ASSUME NEW query \in Queries, NEW flags \in SettingsRange
    PROVE  IsList(Transform(query, flags).expanded) /\ IsList(Transform(query, flags).multi)
<1> DEFINE rewritten == IF flags.rewrite THEN Rewrite(query) ELSE query
<1>1. /\ Transform(query, flags).expanded = IF flags.expansion THEN Expand(rewritten) ELSE <<>>
      /\ Transform(query, flags).multi = IF flags.multi THEN MultiExpand(rewritten) ELSE <<>>
    BY DEF Transform
<1>2. query \in Seq(STRING)
    BY RetrievalAssumption
<1>3. rewritten \in Seq(STRING)
    <2>1. query # <<>> => Tail(query) \in Seq(STRING)
        BY <1>2
    <2> QED
        BY <1>2, <2>1 DEF Rewrite
<1> HIDE DEF rewritten
<1>4. MaxVariants \in Nat
    BY TransformAssumption
<1>5. IsList(Expand(rewritten))
    <2> DEFINE S == {Replaced(rewritten, rewritten[i], Synonyms[rewritten[i]][j]) : i, j \in Nat}
    <2>1. Substitutes(rewritten, Synonyms, MaxVariants) \in Seq(S)
        <3>1. \A i, j \in Nat : Replaced(rewritten, rewritten[i], Synonyms[rewritten[i]][j]) \in S
            OBVIOUS
        <3>2. \A w \in DOMAIN Synonyms : Synonyms[w] \in Seq(STRING)
            BY TransformAssumption
        <3> HIDE DEF S
        <3> QED
            BY <1>3, <1>4, <3>1, <3>2, SubstitutesAre
    <2> HIDE DEF S
    <2> QED
        BY <2>1, VariantsAre DEF Expand
<1>6. IsList(MultiExpand(rewritten))
    <2> DEFINE S == {Replaced(rewritten, rewritten[i], MultiSynonyms[rewritten[i]][j]) : i, j \in Nat}
                        \cup Seq(STRING)
    <2>1. Substitutes(rewritten, MultiSynonyms, 100) \in Seq(S)
        <3>1. \A i, j \in Nat : Replaced(rewritten, rewritten[i], MultiSynonyms[rewritten[i]][j]) \in S
            OBVIOUS
        <3>2. \A w \in DOMAIN MultiSynonyms : MultiSynonyms[w] \in Seq(STRING)
            BY TransformAssumption
        <3>3. 100 \in Nat
            OBVIOUS
        <3> HIDE DEF S
        <3> QED
            BY <1>3, <3>1, <3>2, <3>3, SubstitutesAre
    <2>2. Paraphrases(rewritten) \in Seq(S)
        <3> DEFINE n == Len(Templates)
        <3>1. n \in Nat /\ DOMAIN Templates = 1..n /\ \A i \in 1..n : Templates[i] \in Seq(STRING)
            BY TransformAssumption
        <3>2. \A i \in 1..n : Templates[i] \o rewritten \in Seq(STRING)
            BY <1>3, <3>1
        <3>3. Seq(STRING) \subseteq S
            OBVIOUS
        <3> HIDE DEF S, n
        <3>4. Paraphrases(rewritten) \in [1..n -> S]
            BY <3>1, <3>2, <3>3 DEF Paraphrases
        <3>5. \A g \in [1..n -> S] : g \in Seq(S)
            BY <3>1
        <3> QED
            BY <3>4, <3>5
    <2> HIDE DEF S
    <2>3. Paraphrases(rewritten) \o Substitutes(rewritten, MultiSynonyms, 100) \in Seq(S)
        BY <2>1, <2>2
    <2> QED
        BY ZenonT(60), <2>3, VariantsAre DEF MultiExpand
<1>7. IsList(<<>>)
    BY DEF IsList
<1> QED
    BY <1>1, <1>5, <1>6, <1>7

-----------------------------------------------------------------------------
(* The searches of a request. *)

\* Without lexical retrieval both lists hold what searches by vectors returned.
LexicalTags == IF settings.lexical THEN {"bm25"} ELSE {"dense", "bm25"}

Pool == found = Held(dense) \cup Held(lexical)

\* Candidates with few tags are candidates with more.
LEMMA MoreTags ==
    ASSUME NEW few, NEW many, few \subseteq many
    PROVE  Seq(Candidate(few)) \subseteq Seq(Candidate(many))
<1> DEFINE A == Candidate(few)
           B == Candidate(many)
<1>1. A \subseteq B
    BY DEF Candidate
<1> HIDE DEF A, B
<1>2. \A s \in Seq(A) : s \in Seq(B)
    <2> SUFFICES ASSUME NEW s \in Seq(A) PROVE s \in Seq(B)
        OBVIOUS
    <2>1. Len(s) \in Nat /\ s \in [1..Len(s) -> A]
        OBVIOUS
    <2>2. s \in [1..Len(s) -> B]
        BY <1>1, <2>1
    <2> DEFINE n == Len(s)
    <2>3. n \in Nat /\ s \in [1..n -> B]
        BY <2>1, <2>2
    <2> HIDE DEF n
    <2> QED
        BY <2>3
<1> QED
    BY <1>2 DEF A, B

\* The empty list of candidates.
LEMMA NoneHeld ==
    /\ Held(<<>>) = {}
    /\ \A tags : <<>> \in Seq(Candidate(tags))
<1>1. Held(<<>>) = {}
    BY DEF Held, Ids, IdsOf
<1>2. ASSUME NEW tags PROVE <<>> \in Seq(Candidate(tags))
    <2> DEFINE S == Candidate(tags)
    <2> HIDE DEF S
    <2>1. <<>> \in Seq(S)
        OBVIOUS
    <2> QED
        BY <2>1 DEF S
<1> QED
    BY <1>1, <1>2

\* What a search leaves is what it returned.
LEMMA KeptIs ==
    ASSUME NEW tags, NEW o, o = Failed \/ o \in Seq(Candidate(tags))
    PROVE  /\ Kept(o) \in Seq(Candidate(tags))
           /\ Returned({o}) = Held(Kept(o))
<1>1. CASE o = Failed
    <2>1. Kept(o) = <<>>
        BY <1>1 DEF Kept
    <2>2. Returned({o}) = {}
        BY <1>1 DEF Returned
    <2> QED
        BY <2>1, <2>2, NoneHeld
<1>2. CASE o # Failed
    <2>1. Kept(o) = o
        BY <1>2 DEF Kept
    <2>2. Returned({o}) = Held(o)
        BY <1>2 DEF Returned, Held
    <2> QED
        BY <1>2, <2>1, <2>2
<1> QED
    BY <1>1, <1>2

\* Outcomes of two sets of searches.
LEMMA ReturnedUnion ==
    \A A, B : Returned(A \cup B) = Returned(A) \cup Returned(B)
BY DEF Returned

\* A step that adds candidates to both lists, and says so.
LEMMA GatherIs ==
    ASSUME dense \in Seq(Candidate({"dense"})), lexical \in Seq(Candidate(LexicalTags)),
           NEW d \in Seq(Candidate({"dense"})), NEW b \in Seq(Candidate(LexicalTags)),
           Gather(d, b), found' = found \cup Held(d) \cup Held(b)
    PROVE  /\ dense' \in Seq(Candidate({"dense"})) /\ lexical' \in Seq(Candidate(LexicalTags))'
           /\ Pool => Pool'
<1>1. /\ dense' = dense \o d /\ lexical' = lexical \o b /\ settings' = settings
    BY DEF Gather
<1>2. LexicalTags' = LexicalTags
    BY <1>1 DEF LexicalTags
<1>3. dense' \in Seq(Candidate({"dense"})) /\ Held(dense') = Held(dense) \cup Held(d)
    BY <1>1, HeldConcat
<1>4. lexical' \in Seq(Candidate(LexicalTags)) /\ Held(lexical') = Held(lexical) \cup Held(b)
    <2> DEFINE tags == LexicalTags
    <2>1. lexical \in Seq(Candidate(tags)) /\ b \in Seq(Candidate(tags))
        OBVIOUS
    <2> HIDE DEF tags
    <2>2. lexical \o b \in Seq(Candidate(tags)) /\ Held(lexical \o b) = Held(lexical) \cup Held(b)
        BY <2>1, HeldConcat
    <2> QED
        BY <1>1, <2>2 DEF tags
<1>5. Pool => Pool'
    <2>1. /\ Pool <=> found = Held(dense) \cup Held(lexical)
          /\ Pool' <=> found' = Held(dense') \cup Held(lexical')
        BY DEF Pool, Held, Ids, IdsOf
    <2>2. /\ found' = found \cup Held(d) \cup Held(b)
          /\ Held(dense') = Held(dense) \cup Held(d) /\ Held(lexical') = Held(lexical) \cup Held(b)
        BY <1>3, <1>4
    <2> DEFINE heldDense == Held(dense)
               heldLexical == Held(lexical)
               heldDense1 == Held(dense')
               heldLexical1 == Held(lexical')
               hd == Held(d)
               hb == Held(b)
    <2>3. /\ Pool <=> found = heldDense \cup heldLexical
          /\ Pool' <=> found' = heldDense1 \cup heldLexical1
          /\ found' = found \cup hd \cup hb
          /\ heldDense1 = heldDense \cup hd /\ heldLexical1 = heldLexical \cup hb
        BY <2>1, <2>2
    <2> HIDE DEF heldDense, heldLexical, heldDense1, heldLexical1, hd, hb
    <2> SUFFICES ASSUME Pool PROVE Pool'
        OBVIOUS
    <2>4. found = heldDense \cup heldLexical
        BY <2>3
    <2>5. found' = heldDense1 \cup heldLexical1
        BY <2>3, <2>4
    <2> QED
        BY <2>3, <2>5
<1>6. Seq(Candidate(LexicalTags))' = Seq(Candidate(LexicalTags))
    BY <1>2 DEF Candidate
<1> QED
    BY <1>3, <1>4, <1>5, <1>6

\* Every search adds what it returned to the list of its retriever.
LEMMA SearchesAre ==
    ASSUME settings \in SettingsRange, \E q \in Queries : tq = Transform(q, settings),
           dense \in Seq(Candidate({"dense"})), lexical \in Seq(Candidate(LexicalTags)),
           stage' # "failed",
           SearchBoth \/ SearchOne \/ SearchExpanded \/ SearchMulti
    PROVE  /\ dense' \in Seq(Candidate({"dense"})) /\ lexical' \in Seq(Candidate(LexicalTags))'
           /\ Pool => Pool'
<1> DEFINE D == Seq(Candidate({"dense"}))
           B == Seq(Candidate(LexicalTags))
           Goal == /\ dense' \in D /\ lexical' \in Seq(Candidate(LexicalTags))'
                   /\ Pool => Pool'
<1> SUFFICES Goal
    OBVIOUS
<1>1. TopOfDense \in Nat /\ TopOfLexical \in Nat
    BY RetrievalAssumption DEF TopOfDense, TopOfLexical
<1>2. \A o \in Outcomes("dense", TopOfDense) : o = Failed \/ o \in D
    BY <1>1, OutcomeIs
<1>3. settings.lexical => \A o \in Outcomes("bm25", TopOfLexical) : o = Failed \/ o \in B
    BY <1>1, OutcomeIs DEF LexicalTags
<1>4. ASSUME NEW d, NEW b, d = Failed \/ d \in D, b = Failed \/ b \in B,
             Gather(Kept(d), Kept(b)), found' = found \cup Returned({d, b})
      PROVE  Goal
    <2>1. Kept(d) \in D /\ Returned({d}) = Held(Kept(d))
        BY <1>4, KeptIs
    <2>2. Kept(b) \in B /\ Returned({b}) = Held(Kept(b))
        <3> DEFINE tags == LexicalTags
        <3>1. b = Failed \/ b \in Seq(Candidate(tags))
            BY <1>4
        <3> HIDE DEF tags
        <3>2. Kept(b) \in Seq(Candidate(tags)) /\ Returned({b}) = Held(Kept(b))
            BY <3>1, KeptIs
        <3> QED
            BY <3>2 DEF tags
    <2>3. Returned({d, b}) = Returned({d}) \cup Returned({b})
        <3>1. {d, b} = {d} \cup {b}
            OBVIOUS
        <3> QED
            BY <3>1, ReturnedUnion, Zenon
    <2>4. found' = found \cup Held(Kept(d)) \cup Held(Kept(b))
        BY <1>4, <2>1, <2>2, <2>3
    <2> QED
        BY <1>4, <2>1, <2>2, <2>4, GatherIs
<1>5. <<>> \in D /\ <<>> \in B /\ Held(<<>>) = {}
    BY NoneHeld
<1>6. CASE SearchBoth
    <2>1. PICK d \in Outcomes("dense", TopOfDense), b \in Outcomes("bm25", TopOfLexical) :
              Gather(Kept(d), Kept(b)) /\ found' = found \cup Returned({d, b})
        BY <1>6 DEF SearchBoth
    <2>2. settings.lexical
        BY <1>6 DEF SearchBoth
    <2>3. (d = Failed \/ d \in D) /\ (b = Failed \/ b \in B)
        BY <1>2, <1>3, <2>2
    <2> HIDE DEF Goal, D, B
    <2> QED
        BY <1>4, <2>1, <2>3
<1>7. CASE SearchOne
    <2>1. PICK d \in IF settings.dense THEN Outcomes("dense", TopOfDense) ELSE {<<>>},
               b \in IF settings.lexical THEN Outcomes("bm25", TopOfLexical) ELSE {<<>>} :
              /\ Failed \notin {d, b}
              /\ Gather(d, b) /\ found' = found \cup Returned({d, b})
        BY <1>7 DEF SearchOne, Fail
    <2>2. (d = Failed \/ d \in D) /\ (b = Failed \/ b \in B)
        BY <1>2, <1>3, <1>5
    <2>3. Kept(d) = d /\ Kept(b) = b
        BY <2>1 DEF Kept
    <2> HIDE DEF Goal, D, B
    <2> QED
        BY <1>4, <2>1, <2>2, <2>3
<1>8. \E q \in Queries : tq = Transform(q, settings)
    OBVIOUS
<1>9. IsList(tq.expanded) /\ IsList(tq.multi)
    BY <1>8, TransformIs
<1>10. CASE SearchExpanded
    <2> DEFINE limit == IF TopOfDense \div 2 > 1 THEN TopOfDense \div 2 ELSE 1
               n == Len(tq.expanded)
    <2>1. limit \in Nat /\ n \in Nat /\ DOMAIN tq.expanded = 1..n
        BY <1>1, <1>9 DEF IsList
    <2> HIDE DEF limit, n
    <2>2. PICK r \in [1..n -> Outcomes("dense", limit)] :
              Gather(Gathered(r), <<>>) /\ found' = found \cup Returned(Range(r))
        BY <1>10, <2>1 DEF SearchExpanded, limit
    <2>3. \A o \in Outcomes("dense", limit) : o = Failed \/ o \in D
        BY <2>1, OutcomeIs
    <2>4. r \in [1..n -> D \cup {Failed}]
        BY <2>2, <2>3
    <2>5. Gathered(r) \in D /\ Held(Gathered(r)) = Returned(Range(r))
        BY <2>1, <2>4, GatheredIs
    <2>6. found' = found \cup Held(Gathered(r)) \cup Held(<<>>)
        BY <1>5, <2>2, <2>5
    <2> QED
        BY <1>5, <2>2, <2>5, <2>6, GatherIs
<1>11. CASE SearchMulti
    <2> DEFINE perQuery == IF settings.lexical THEN 2 ELSE 1
               T == perQuery * Len(tq.multi)
               IsDense(i) == perQuery = 1 \/ i % 2 = 1
               even == {i \in 1..T : i % 2 = 1}
               r0 == [1..T -> Outcomes("dense", TopOfDense) \cup Outcomes("bm25", TopOfLexical)]
    <2>1. T \in Nat
        <3>1. perQuery \in Nat /\ Len(tq.multi) \in Nat
            BY SMTT(60), <1>9 DEF IsList
        <3> HIDE DEF perQuery
        <3> QED
            BY <3>1
    <2>2. PICK r \in r0 :
              /\ \A i \in 1..T : r[i] \in IF IsDense(i) THEN Outcomes("dense", TopOfDense)
                                                        ELSE Outcomes("bm25", TopOfLexical)
              /\ found' = found \cup Returned(Range(r))
              /\ Gather(Part(r, even), Part(r, (1..T) \ even))
        BY <1>11 DEF SearchMulti, Part, Nth
    <2>3. perQuery = 1 <=> ~settings.lexical
        OBVIOUS
    <2>4. D \subseteq Seq(Candidate({"dense", "bm25"}))
        BY MoreTags
    <2>5. \A i \in even : r[i] = Failed \/ r[i] \in D
        BY <1>2, <2>2
    <2>6. \A i \in (1..T) \ even : r[i] = Failed \/ r[i] \in B
        <3> SUFFICES ASSUME NEW i \in (1..T) \ even PROVE r[i] = Failed \/ r[i] \in B
            OBVIOUS
        <3>1. CASE settings.lexical
            <4>1. ~IsDense(i)
                BY <2>3, <3>1
            <4> QED
                BY <1>3, <2>2, <3>1, <4>1
        <3>2. CASE ~settings.lexical
            <4>1. IsDense(i)
                BY <2>3, <3>2
            <4>2. r[i] = Failed \/ r[i] \in D
                BY <1>2, <2>2, <4>1
            <4>3. B = Seq(Candidate({"dense", "bm25"}))
                BY <3>2 DEF LexicalTags
            <4> HIDE DEF D, B
            <4> QED
                BY <2>4, <4>2, <4>3
        <3> QED
            BY <3>1, <3>2
    <2> HIDE DEF T
    <2>7. even \in SUBSET (1..T) /\ ((1..T) \ even) \in SUBSET (1..T)
        OBVIOUS
    <2> HIDE DEF even
    <2>8. Part(r, even) \in D /\ Held(Part(r, even)) = Returned(Results(r, even))
        <3> DEFINE tags == {"dense"}
        <3>1. Ran(r, even, tags)
            BY <2>5 DEF Ran
        <3> HIDE DEF tags
        <3>2. Part(r, even) \in Seq(Candidate(tags)) /\ Held(Part(r, even)) = Returned(Results(r, even))
            BY <2>1, <2>7, <3>1, PartIs
        <3> QED
            BY <3>2 DEF tags
    <2>9. /\ Part(r, (1..T) \ even) \in B
          /\ Held(Part(r, (1..T) \ even)) = Returned(Results(r, (1..T) \ even))
        <3> DEFINE tags == LexicalTags
                   odd == (1..T) \ even
        <3>1. Ran(r, odd, tags)
            BY <2>6 DEF Ran
        <3>2. odd \in SUBSET (1..T)
            BY <2>7
        <3> HIDE DEF tags, odd
        <3>3. Part(r, odd) \in Seq(Candidate(tags)) /\ Held(Part(r, odd)) = Returned(Results(r, odd))
            BY <2>1, <3>1, <3>2, PartIs
        <3> QED
            BY <3>3 DEF tags, odd
    <2>10. Range(r) = Results(r, even) \cup Results(r, (1..T) \ even)
        <3>1. DOMAIN r = 1..T
            BY <2>2
        <3> QED
            BY <2>7, <3>1 DEF Range, Results
    <2>11. Returned(Range(r)) = Held(Part(r, even)) \cup Held(Part(r, (1..T) \ even))
        <3> DEFINE R1 == Results(r, even)
                   R2 == Results(r, (1..T) \ even)
        <3>1. Returned(R1 \cup R2) = Returned(R1) \cup Returned(R2)
            BY ReturnedUnion
        <3> QED
            BY <2>8, <2>9, <2>10, <3>1
    <2> DEFINE d == Part(r, even)
               b == Part(r, (1..T) \ even)
    <2>12. d \in D /\ b \in B /\ Gather(d, b) /\ found' = found \cup Held(d) \cup Held(b)
        <3>1. found' = found \cup (Held(d) \cup Held(b))
            BY <2>2, <2>11
        <3>2. d \in D /\ b \in B /\ Gather(d, b)
            BY <2>2, <2>8, <2>9
        <3> DEFINE hd == Held(d)
                   hb == Held(b)
        <3>3. found' = found \cup (hd \cup hb)
            BY <3>1
        <3> HIDE DEF hd, hb, d, b
        <3>4. found' = found \cup hd \cup hb
            BY <3>3
        <3> QED
            BY <3>2, <3>4 DEF hd, hb
    <2> HIDE DEF d, b
    <2> QED
        BY <2>12, GatherIs
<1> HIDE DEF Goal
<1> QED
    BY <1>6, <1>7, <1>10, <1>11

-----------------------------------------------------------------------------
(* What a step changes, and which step it is. *)

Search == stage' # "failed" /\ (SearchBoth \/ SearchOne \/ SearchExpanded \/ SearchMulti)

Frame ==
    /\ settings' = settings /\ tq' = tq
    /\ (dense' = dense /\ lexical' = lexical /\ found' = found) \/ Search
    /\ fused' = fused \/ FuseCandidates \/ Rerank
    /\ text' = text \/ Hydrate \/ Reload
    /\ score' = score \/ Rerank
    /\ context' = context \/ CompressContext
    /\ rows' = rows \/ (rows' \subseteq rows /\ stage' = stage)
    /\ claims' = claims \/ Generate \/ Piece
    /\ verdict' = verdict \/ Verify \/ VerifyStream
    /\ lines' = lines \/ BeginStream
    /\ (at' = at /\ sent' = sent) \/ Piece \/ Skip \/ LastLine
    /\ done' = done \/ Done
    /\ llm' = llm /\ named' = named

Moves ==
    \/ stage' = stage /\ error' = error
    \/ stage' = "failed" /\ error' \notin {"none", "search"} /\ stage \notin {"streamed", "verified", "failed"}
    \/ stage' = "failed" /\ error' = "search" /\ ~(settings.dense /\ settings.lexical) /\ stage = "transformed"
    \/ /\ error' = error
       /\ \/ /\ Search /\ stage \in {"transformed", "searched", "expanded"}
             /\ stage' \in {"searched", "expanded", "gathered"}
          \/ FuseCandidates /\ stage = "gathered" /\ stage' = "fused"
          \/ Hydrate /\ stage = "fused" /\ stage' = "hydrated"
          \/ Rerank /\ stage = "hydrated" /\ stage' = "reranked"
          \/ CompressContext /\ stage = "reranked" /\ stage' = "retrieved"
          \/ Reload /\ stage = "retrieved" /\ stage' = "prompted"
          \/ Generate /\ stage = "prompted" /\ stage' = "answered"
          \/ Verify /\ stage = "answered" /\ stage' = "verified"
          \/ stage = "answered" /\ stage' = "unverified"
          \/ BeginStream /\ stage = "prompted" /\ stage' = "streaming"
          \/ Done /\ stage = "streaming" /\ stage' = "streamed"
          \/ VerifyStream /\ stage = "streamed" /\ stage' = "verified"

\* Every step is one of Moves and changes no more than Frame allows.
LEMMA StepIs ==
    ASSUME [StreamNext]_<<vars, streamVars>>
    PROVE  Frame /\ Moves
<1> USE DEF vars, retrievalVars, streamVars
<1>1. CASE EmbedFails /\ UNCHANGED <<claims, verdict>> /\ UNCHANGED streamVars
    <2>1. Frame
        BY <1>1 DEF Frame, Search, EmbedFails, Fail
    <2>2. Moves
        BY <1>1 DEF Moves, Search, EmbedFails, Fail
    <2> QED
        BY <2>1, <2>2
<1>2. CASE SearchBoth /\ UNCHANGED <<claims, verdict>> /\ UNCHANGED streamVars
    <2>1. /\ stage = "transformed" /\ stage' = "searched" /\ error' = error
          /\ settings' = settings /\ tq' = tq /\ fused' = fused /\ text' = text
          /\ score' = score /\ context' = context /\ rows' = rows
        BY <1>2 DEF SearchBoth, Gather, Go
    <2>2. Search
        BY <1>2, <2>1 DEF Search
    <2>3. Frame
        BY <1>2, <2>1, <2>2 DEF Frame
    <2>4. Moves
        BY <2>1, <2>2 DEF Moves
    <2> QED
        BY <2>3, <2>4
<1>3. CASE SearchOne /\ UNCHANGED <<claims, verdict>> /\ UNCHANGED streamVars
    <2>1. Frame
        BY <1>3 DEF Frame, Search, SearchOne, Gather, Go, Fail
    <2>2. Moves
        BY <1>3 DEF Moves, Search, SearchOne, Gather, Go, Fail
    <2> QED
        BY <2>1, <2>2
<1>4. CASE SearchExpanded /\ UNCHANGED <<claims, verdict>> /\ UNCHANGED streamVars
    <2>1. /\ stage = "searched" /\ stage' = "expanded" /\ error' = error
          /\ settings' = settings /\ tq' = tq /\ fused' = fused /\ text' = text
          /\ score' = score /\ context' = context /\ rows' = rows
        BY <1>4 DEF SearchExpanded, Gather, Go
    <2>2. Search
        BY <1>4, <2>1 DEF Search
    <2>3. Frame
        BY <1>4, <2>1, <2>2 DEF Frame
    <2>4. Moves
        BY <2>1, <2>2 DEF Moves
    <2> QED
        BY <2>3, <2>4
<1>5. CASE SearchMulti /\ UNCHANGED <<claims, verdict>> /\ UNCHANGED streamVars
    <2>1. /\ stage = "expanded" /\ stage' = "gathered" /\ error' = error
          /\ settings' = settings /\ tq' = tq /\ fused' = fused /\ text' = text
          /\ score' = score /\ context' = context /\ rows' = rows
        <3>1. \E d, b : Gather(d, b)
            BY <1>5, Zenon DEF SearchMulti
        <3>2. stage = "expanded" /\ stage' = "gathered"
            BY <1>5, Zenon DEF SearchMulti, Go
        <3> QED
            BY <3>1, <3>2 DEF Gather
    <2>2. Search
        BY <1>5, <2>1 DEF Search
    <2>3. Frame
        BY <1>5, <2>1, <2>2 DEF Frame
    <2>4. Moves
        BY <2>1, <2>2 DEF Moves
    <2> QED
        BY <2>3, <2>4
<1>6. CASE FuseCandidates /\ UNCHANGED <<claims, verdict>> /\ UNCHANGED streamVars
    <2>1. Frame
        BY <1>6 DEF Frame, Search, FuseCandidates, Go
    <2>2. Moves
        BY <1>6 DEF Moves, Search, FuseCandidates, Go
    <2> QED
        BY <2>1, <2>2
<1>7. CASE Hydrate /\ UNCHANGED <<claims, verdict>> /\ UNCHANGED streamVars
    <2>1. Frame
        BY <1>7 DEF Frame, Search, Hydrate, Go
    <2>2. Moves
        BY <1>7 DEF Moves, Search, Hydrate, Go
    <2> QED
        BY <2>1, <2>2
<1>8. CASE Rerank /\ UNCHANGED <<claims, verdict>> /\ UNCHANGED streamVars
    <2>1. Frame
        BY <1>8 DEF Frame, Search, Rerank, Go
    <2>2. Moves
        BY <1>8 DEF Moves, Search, Rerank, Go
    <2> QED
        BY <2>1, <2>2
<1>9. CASE CompressContext /\ UNCHANGED <<claims, verdict>> /\ UNCHANGED streamVars
    <2>1. Frame
        BY <1>9 DEF Frame, Search, CompressContext, Go
    <2>2. Moves
        BY <1>9 DEF Moves, Search, CompressContext, Go
    <2> QED
        BY <2>1, <2>2
<1>10. CASE StepFails /\ UNCHANGED <<claims, verdict>> /\ UNCHANGED streamVars
    <2>1. Frame
        BY <1>10 DEF Frame, Search, StepFails, Fail
    <2>2. Moves
        BY <1>10 DEF Moves, Search, StepFails, Fail
    <2> QED
        BY <2>1, <2>2
<1>11. CASE RowDeleted /\ UNCHANGED <<claims, verdict>> /\ UNCHANGED streamVars
    <2>1. Frame
        BY <1>11 DEF Frame, Search, RowDeleted
    <2>2. Moves
        BY <1>11 DEF Moves, Search, RowDeleted
    <2> QED
        BY <2>1, <2>2
<1>12. CASE Reload /\ UNCHANGED streamVars
    <2>1. Frame
        BY <1>12 DEF Frame, Search, Reload, Go
    <2>2. Moves
        BY <1>12 DEF Moves, Search, Reload, Go
    <2> QED
        BY <2>1, <2>2
<1>13. CASE Generate /\ UNCHANGED streamVars
    <2>1. Frame
        BY <1>13 DEF Frame, Search, Generate, Go
    <2>2. Moves
        BY <1>13 DEF Moves, Search, Generate, Go
    <2> QED
        BY <2>1, <2>2
<1>14. CASE GenerateFails /\ UNCHANGED streamVars
    <2>1. Frame
        BY <1>14 DEF Frame, Search, GenerateFails, Fail
    <2>2. Moves
        BY <1>14 DEF Moves, Search, GenerateFails, Fail
    <2> QED
        BY <2>1, <2>2
<1>15. CASE Verify /\ UNCHANGED streamVars
    <2>1. Frame
        BY <1>15 DEF Frame, Search, Verify, Go
    <2>2. Moves
        BY <1>15 DEF Moves, Search, Verify, Go
    <2> QED
        BY <2>1, <2>2
<1>16. CASE SkipVerification /\ UNCHANGED streamVars
    <2>1. Frame
        BY <1>16 DEF Frame, Search, SkipVerification, Go
    <2>2. Moves
        BY <1>16 DEF Moves, Search, SkipVerification, Go
    <2> QED
        BY <2>1, <2>2
<1>17. CASE BeginStream
    <2>1. Frame
        BY <1>17 DEF Frame, Search, BeginStream, Go
    <2>2. Moves
        BY <1>17 DEF Moves, Search, BeginStream, Go
    <2> QED
        BY <2>1, <2>2
<1>18. CASE Piece
    <2>1. Frame
        BY <1>18 DEF Frame, Search, Piece, Stay
    <2>2. Moves
        BY <1>18 DEF Moves, Search, Piece, Stay
    <2> QED
        BY <2>1, <2>2
<1>19. CASE Skip
    <2>1. Frame
        BY <1>19 DEF Frame, Search, Skip, Stay
    <2>2. Moves
        BY <1>19 DEF Moves, Search, Skip, Stay
    <2> QED
        BY <2>1, <2>2
<1>20. CASE LastLine
    <2>1. Frame
        BY <1>20 DEF Frame, Search, LastLine, Stay
    <2>2. Moves
        BY <1>20 DEF Moves, Search, LastLine, Stay
    <2> QED
        BY <2>1, <2>2
<1>21. CASE StreamFails
    <2>1. Frame
        BY <1>21 DEF Frame, Search, StreamFails, Streaming, Fail
    <2>2. Moves
        BY <1>21 DEF Moves, Search, StreamFails, Streaming, Fail
    <2> QED
        BY <2>1, <2>2
<1>22. CASE Done
    <2>1. Frame
        BY <1>22 DEF Frame, Search, Done, Go
    <2>2. Moves
        BY <1>22 DEF Moves, Search, Done, Go
    <2> QED
        BY <2>1, <2>2
<1>23. CASE VerifyStream
    <2>1. Frame
        BY <1>23 DEF Frame, Search, VerifyStream, Go
    <2>2. Moves
        BY <1>23 DEF Moves, Search, VerifyStream, Go
    <2> QED
        BY <2>1, <2>2
<1>24. CASE UNCHANGED <<vars, streamVars>>
    BY <1>24 DEF Frame, Moves
<1>25. CASE ProviderFails
    <2>1. Frame
        BY <1>25 DEF Frame, Search, ProviderFails, Fail
    <2>2. Moves
        BY <1>25 DEF Moves, Search, ProviderFails, Fail
    <2> QED
        BY <2>1, <2>2
<1> QED
    BY <1>1, <1>2, <1>3, <1>4, <1>5, <1>6, <1>7, <1>8, <1>9, <1>10, <1>11, <1>12, <1>13, <1>14, <1>15, <1>16, <1>17, <1>18, <1>19, <1>20, <1>21, <1>22, <1>23, <1>24, <1>25
       DEF StreamNext, Next, RetrievalNext

-----------------------------------------------------------------------------
(* The shape of a request. *)

Lines == DOMAIN Overlap \cup Marks

\* The lines of the model, and how far they were read.
Reading ==
    /\ lines \in Seq(Lines)
    /\ \A i \in 1..Len(lines) : lines[i] = End => i = Len(lines)
    /\ at \in 0..Len(lines)
    /\ stage \notin {"streaming", "streamed", "verified", "failed"} => lines = <<>> /\ at = 0 /\ sent = <<>>

Shape ==
    /\ settings \in SettingsRange
    /\ \E q \in Queries : tq = Transform(q, settings)
    /\ dense \in Seq(Candidate({"dense"}))
    /\ lexical \in Seq(Candidate(LexicalTags))
    /\ fused \in Seq(Chunks)
    /\ stage \in {"fused", "hydrated", "reranked"} => IsInjective(fused)
    /\ context \in Seq(Chunks)
    /\ text \in [Chunks -> LoadedTexts]
    /\ \A c \in Chunks : text[c] \in {TextOf[c], NoText}
    /\ score \in [Chunks -> Int]
    /\ claims \in Seq(DOMAIN Overlap)
    /\ Reading

\* Shape is inductive.
LEMMA ShapeInit == StreamInit => Shape
<1> SUFFICES ASSUME StreamInit PROVE Shape
    OBVIOUS
<1> USE DEF StreamInit, AnswerInit, Init
<1>1. dense = <<>> /\ lexical = <<>> /\ fused = <<>> /\ context = <<>> /\ claims = <<>>
    OBVIOUS
<1>2. dense \in Seq(Candidate({"dense"})) /\ lexical \in Seq(Candidate(LexicalTags))
    <2> DEFINE tags == LexicalTags
    <2> HIDE DEF tags
    <2>1. <<>> \in Seq(Candidate({"dense"})) /\ <<>> \in Seq(Candidate(tags))
        BY NoneHeld
    <2> QED
        BY <1>1, <2>1 DEF tags
<1>3. fused \in Seq(Chunks) /\ context \in Seq(Chunks) /\ claims \in Seq(DOMAIN Overlap)
    BY <1>1
<1>4. text \in [Chunks -> LoadedTexts] /\ (\A c \in Chunks : text[c] \in {TextOf[c], NoText})
    BY DEF LoadedTexts
<1>5. score \in [Chunks -> Int]
    OBVIOUS
<1>6. settings \in SettingsRange /\ stage = "transformed"
    OBVIOUS
<1>7. \E q \in Queries : tq = Transform(q, settings)
    OBVIOUS
<1>8. Reading
    <2>1. lines = <<>> /\ at = 0 /\ sent = <<>>
        OBVIOUS
    <2>2. lines \in Seq(Lines) /\ Len(lines) = 0
        BY <2>1
    <2> QED
        BY <2>1, <2>2 DEF Reading
<1> QED
    BY <1>2, <1>3, <1>4, <1>5, <1>6, <1>7, <1>8 DEF Shape

\* The context is a list of chunks, whatever its length may be.
LEMMA CompressKeeps ==
    ASSUME NEW list \in Seq(Chunks), score \in [Chunks -> Int], IsInjective(list)
    PROVE  Compress(list) \in Seq(Chunks)
<1> DEFINE L == ByScore(list)
<1>1. L \in Seq(Chunks)
    BY ByScoreIs
<1>0. Compress(list) = Filtered(L, LAMBDA kept, c : (kept = <<>> \/ Len(kept) < FinalTop) /\ ~Repeated(kept, c))
    BY DEF Compress
<1> HIDE DEF L
<1>2. PICK h : Filters(h, Chunks, L, Fitting(Chunks, L)) /\ Compress(list) = h[Len(L)]
    BY <1>0, <1>1, CompressFilters
<1> DEFINE fits == Fitting(Chunks, L)
<1>3. Filters(h, Chunks, L, fits)
    BY <1>2
<1> HIDE DEF fits, L
<1>4. h[Len(L)] \in Seq(Chunks)
    BY <1>1, <1>3, FilterDrops
<1> QED
    BY <1>2, <1>4 DEF L

\* Reranking keeps each candidate once.
LEMMA RankIs ==
    ASSUME Shape, Rerank
    PROVE  /\ score' \in [Chunks -> Int]
           /\ fused' \in Seq(Chunks) /\ IsInjective(fused')
<1>1. PICK s \in [Ids(fused) -> Scores] :
          /\ score' = [c \in Chunks |-> IF c \in Ids(fused) THEN s[c] ELSE score[c]]
          /\ fused' = First(SortedBy(fused, [i \in DOMAIN fused |-> s[fused[i]]]), settings.rerankTop)
    BY DEF Rerank
<1>2. /\ fused \in Seq(Chunks) /\ IsInjective(fused) /\ score \in [Chunks -> Int]
      /\ settings.rerankTop \in Nat
    BY RetrievalAssumption DEF Shape, Rerank, Go
<1>3. \A c \in Ids(fused) : s[c] \in Int
    BY RetrievalAssumption
<1>4. score' \in [Chunks -> Int]
    BY <1>1, <1>2, <1>3
<1> DEFINE n == Len(fused)
           key == [i \in DOMAIN fused |-> s[fused[i]]]
           ranked == SortedBy(fused, key)
<1>5. n \in Nat /\ DOMAIN fused = 1..n /\ \A i \in 1..n : fused[i] \in Ids(fused)
    BY <1>2 DEF Ids
<1>6. key \in [1..n -> Int]
    BY <1>3, <1>5
<1> HIDE DEF key
<1>7. ranked \in Seq(Chunks) /\ IsInjective(ranked)
    BY <1>2, <1>6, SortingKeeps
<1> HIDE DEF ranked
<1>8. First(ranked, settings.rerankTop) \in Seq(Chunks) /\ IsInjective(First(ranked, settings.rerankTop))
    BY <1>2, <1>7, FirstOf
<1> QED
    BY <1>1, <1>4, <1>8 DEF ranked, key

\* Only a chunk's own text is ever loaded for it.
LEMMA LoadedIs ==
    ASSUME Shape, NEW ids
    PROVE  /\ Loaded(ids) \in [Chunks -> LoadedTexts]
           /\ \A c \in Chunks : Loaded(ids)[c] \in {TextOf[c], NoText}
<1>1. \A c \in Chunks : TextOf[c] \in LoadedTexts /\ text[c] \in {TextOf[c], NoText}
    BY RetrievalAssumption DEF LoadedTexts, Range, Shape
<1>2. NoText \in LoadedTexts
    BY DEF LoadedTexts
<1>3. \A c \in Chunks : Loaded(ids)[c] = IF c \in ids \cap rows THEN TextOf[c] ELSE text[c]
    BY DEF Loaded
<1>4. \A c \in Chunks : Loaded(ids)[c] \in {TextOf[c], NoText}
    BY <1>1, <1>3
<1>5. Loaded(ids) = [c \in Chunks |-> Loaded(ids)[c]]
    BY DEF Loaded
<1> QED
    BY <1>1, <1>2, <1>4, <1>5

\* Fusion keeps every chunk that is held, unless the list is full.
LEMMA FusedIs ==
    ASSUME Shape, FuseCandidates
    PROVE  /\ fused' \in Seq(Chunks) /\ IsInjective(fused')
           /\ Ids(fused') \subseteq Held(dense) \cup Held(lexical)
           /\ Ids(fused') = Held(dense) \cup Held(lexical) \/ Len(fused') = 2 * settings.rerankTop
<1> DEFINE topK == 2 * settings.rerankTop
           all == {"dense", "bm25"}
           list == Fuse(topK)
           held == Held(dense) \cup Held(lexical)
<1>1. topK \in Nat
    BY SMTT(60), RetrievalAssumption DEF Shape
<1>2. dense \in Seq(Candidate(all)) /\ lexical \in Seq(Candidate(all))
    <2>1. {"dense"} \subseteq all /\ LexicalTags \subseteq all
        BY DEF LexicalTags
    <2>2. dense \in Seq(Candidate({"dense"})) /\ lexical \in Seq(Candidate(LexicalTags))
        BY DEF Shape
    <2> DEFINE tags == LexicalTags
               one == {"dense"}
    <2>3. one \subseteq all /\ tags \subseteq all /\ dense \in Seq(Candidate(one)) /\ lexical \in Seq(Candidate(tags))
        BY <2>1, <2>2
    <2> HIDE DEF tags, all, one
    <2> QED
        BY <2>3, MoreTags
<1> HIDE DEF topK, all
<1>3. /\ list \in Seq(Chunks) /\ IsInjective(list)
      /\ Ids(list) \subseteq held
      /\ Ids(list) = held \/ Len(list) = topK
    BY <1>1, <1>2, FuseIs
<1>4. fused' = Distinct(list)
    BY DEF FuseCandidates, topK
<1> HIDE DEF list, held
<1>5. Distinct(list) = list
    BY <1>3, DistinctSame
<1> QED
    BY <1>3, <1>4, <1>5 DEF held, topK

\* The pieces of a reply have no marks.
LEMMA PiecesAre ==
    ASSUME NEW reply \in Seq(Lines)
    PROVE  Pieces(reply) \in Seq(Lines) /\ \A i \in 1..Len(Pieces(reply)) : Pieces(reply)[i] \notin Marks
<1> DEFINE S == Lines
           fits == APiece(S, reply)
<1>1. PICK h : Filters(h, S, reply, fits) /\ Pieces(reply) = h[Len(reply)]
    BY WithoutFilter DEF Pieces, APiece
<1>2. \A m \in 1..Len(reply) : h[m - 1] \in Seq(S) /\ (fits[m][h[m - 1]] <=> reply[m] \notin Marks)
    <2> SUFFICES ASSUME NEW m \in 1..Len(reply)
                 PROVE  h[m - 1] \in Seq(S) /\ (fits[m][h[m - 1]] <=> reply[m] \notin Marks)
        OBVIOUS
    <2>1. m - 1 \in 0..Len(reply)
        OBVIOUS
    <2>2. h \in [0..Len(reply) -> Seq(S)]
        BY <1>1 DEF Filters
    <2> HIDE DEF S
    <2> QED
        BY <2>1, <2>2 DEF APiece, OutOf
<1> HIDE DEF S, fits
<1>3. /\ reply \in Seq(S)
      /\ \A k \in 1..Len(h[Len(reply)]) : \E m \in 1..Len(reply) :
             h[Len(reply)][k] = reply[m] /\ fits[m][h[m - 1]]
    <2>1. reply \in Seq(S)
        BY DEF S
    <2> QED
        BY <1>1, <2>1, FilterFits
<1>4. h[Len(reply)] \in Seq(S)
    BY <1>1, <1>3, FilterDrops
<1> QED
    BY <1>1, <1>2, <1>3, <1>4 DEF S

\* Lines are read up to their end.
LEMMA ReadingNext ==
    ASSUME Reading, Frame, Moves
    PROVE  Reading'
<1>1. Len(lines) \in Nat /\ at \in Nat /\ at <= Len(lines)
    BY DEF Reading
<1>2. CASE BeginStream
    <2>1. stage' = "streaming" /\ at' = 0
        BY <1>2 DEF BeginStream, Go, Reading
    <2>2. lines' \in Seq(Lines) /\ \A i \in 1..Len(lines') : lines'[i] = End => i = Len(lines')
        <3>1. PICK r \in Replies : lines' = r \/ lines' = Pieces(r)
            BY <1>2 DEF BeginStream
        <3>2. r \in Seq(Lines) /\ \A i \in 1..Len(r) : r[i] = End => i = Len(r)
            BY RepliesAssumption DEF Lines, Marks
        <3>3. Pieces(r) \in Seq(Lines) /\ \A i \in 1..Len(Pieces(r)) : Pieces(r)[i] # End
            BY <3>2, PiecesAre DEF Marks
        <3> QED
            BY <3>1, <3>2, <3>3
    <2>3. Len(lines') \in Nat
        BY <2>2
    <2> QED
        BY <2>1, <2>2, <2>3 DEF Reading, Lines, Marks
<1>3. CASE ~BeginStream
    <2>1. lines' = lines
        BY <1>3 DEF Frame
    <2>2. CASE Piece \/ Skip \/ LastLine
        <3>1. at' \in 0..Len(lines) /\ stage' = stage /\ stage = "streaming"
            BY <1>1, <2>2 DEF Piece, Skip, LastLine, Streaming, Stay
        <3> QED
            BY <2>1, <3>1 DEF Reading, Lines, Marks
    <2>3. CASE ~(Piece \/ Skip \/ LastLine)
        <3>1. at' = at /\ sent' = sent
            BY <2>3 DEF Frame
        <3>2. stage' \notin {"streaming", "streamed", "verified", "failed"} =>
                  stage \notin {"streaming", "streamed", "verified", "failed"}
            BY <1>3 DEF Moves, Search, SearchBoth, SearchOne, SearchExpanded, SearchMulti
        <3> QED
            BY <2>1, <3>1, <3>2 DEF Reading, Lines, Marks
    <2> QED
        BY <2>2, <2>3
<1> QED
    BY <1>2, <1>3

\* Every step keeps the shape.
LEMMA ShapeNext ==
    ASSUME Shape, [StreamNext]_<<vars, streamVars>>
    PROVE  Shape'
<1>0. Frame /\ Moves
    BY StepIs
<1>1. settings' \in SettingsRange /\ (\E q \in Queries : tq' = Transform(q, settings'))
    BY <1>0 DEF Frame, Shape
<1>2. dense' \in Seq(Candidate({"dense"})) /\ lexical' \in Seq(Candidate(LexicalTags))'
    <2>1. CASE Search
        BY <2>1, SearchesAre DEF Shape, Search
    <2>2. CASE ~Search
        <3>1. dense' = dense /\ lexical' = lexical /\ settings' = settings
            BY <1>0, <2>2 DEF Frame
        <3>2. Seq(Candidate(LexicalTags))' = Seq(Candidate(LexicalTags))
            BY <3>1 DEF Candidate, LexicalTags
        <3>3. dense \in Seq(Candidate({"dense"})) /\ lexical \in Seq(Candidate(LexicalTags))
            BY DEF Shape
        <3> QED
            BY <3>1, <3>2, <3>3
    <2> QED
        BY <2>1, <2>2
<1>3. /\ fused' \in Seq(Chunks)
      /\ stage' \in {"fused", "hydrated", "reranked"} => IsInjective(fused)'
    <2>1. CASE FuseCandidates
        BY <2>1, FusedIs DEF IsInjective
    <2>2. CASE Rerank
        BY <2>2, RankIs DEF IsInjective
    <2>3. CASE ~FuseCandidates /\ ~Rerank
        <3>1. fused' = fused
            BY <1>0, <2>3 DEF Frame
        <3>2. stage' \in {"fused", "hydrated", "reranked"} => stage \in {"fused", "hydrated", "reranked"}
            BY <1>0, <2>3 DEF Moves
        <3> QED
            BY <3>1, <3>2 DEF Shape, IsInjective
    <2> QED
        BY <2>1, <2>2, <2>3
<1>4. context' \in Seq(Chunks)
    <2>1. CASE CompressContext
        <3>1. stage = "reranked" /\ context' = Compress(fused)
            BY <2>1 DEF CompressContext, Go
        <3>2. fused \in Seq(Chunks) /\ IsInjective(fused) /\ score \in [Chunks -> Int]
            BY <3>1 DEF Shape
        <3> QED
            BY <3>1, <3>2, CompressKeeps
    <2>2. CASE ~CompressContext
        BY <1>0, <2>2 DEF Frame, Shape
    <2> QED
        BY <2>1, <2>2
<1>5. text' \in [Chunks -> LoadedTexts] /\ (\A c \in Chunks : text'[c] \in {TextOf[c], NoText})
    <2>1. CASE Hydrate
        <3>1. text' = Loaded(Ids(fused))
            BY <2>1 DEF Hydrate
        <3> QED
            BY <3>1, LoadedIs
    <2>2. CASE Reload
        <3>1. text' = Loaded(Ids(context))
            BY <2>2 DEF Reload
        <3> QED
            BY <3>1, LoadedIs
    <2>3. CASE ~Hydrate /\ ~Reload
        BY <1>0, <2>3 DEF Frame, Shape
    <2> QED
        BY <2>1, <2>2, <2>3
<1>6. score' \in [Chunks -> Int]
    <2>1. CASE Rerank
        BY <2>1, RankIs
    <2>2. CASE ~Rerank
        BY <1>0, <2>2 DEF Frame, Shape
    <2> QED
        BY <2>1, <2>2
<1>7. claims' \in Seq(DOMAIN Overlap)
    <2>1. CASE Generate
        BY <2>1, AnswersAssumption DEF Generate
    <2>2. CASE Piece
        <3>1. Line \in DOMAIN Overlap
            <4>1. lines \in Seq(Lines) /\ at + 1 \in 1..Len(lines) /\ Line \notin Marks
                BY <2>2 DEF Piece, Streaming, Shape, Reading, Marks
            <4>2. lines[at + 1] \in Lines
                BY <4>1
            <4> QED
                BY <4>1, <4>2 DEF Lines, Line
        <3> QED
            BY <2>2, <3>1 DEF Piece, Shape
    <2>3. CASE ~Generate /\ ~Piece
        BY <1>0, <2>3 DEF Frame, Shape
    <2> QED
        BY <2>1, <2>2, <2>3
<1>8. Reading'
    BY <1>0, ReadingNext DEF Shape
<1> QED
    BY <1>1, <1>2, <1>3, <1>4, <1>5, <1>6, <1>7, <1>8 DEF Shape, LoadedTexts

\* Shape holds in every state.
LEMMA ShapeAlways == StreamSpec => []Shape
<1>1. Shape /\ [StreamNext]_<<vars, streamVars>> => Shape'
    BY ShapeNext
<1> QED
    BY ShapeInit, <1>1, PTL DEF StreamSpec

-----------------------------------------------------------------------------
(* From the searches to the fused list. *)

\* Until it is fused, what was found is what is held.
Fusion ==
    /\ stage \in {"transformed", "searched", "expanded", "gathered"} => Pool
    /\ Fusing => \/ Ids(fused) = found
                 \/ Ids(fused) \subseteq found /\ Len(fused) = 2 * settings.rerankTop
    /\ error = "search" => ~(settings.dense /\ settings.lexical)

\* Fusion is inductive relative to Shape.
LEMMA FusionInit == StreamInit => Fusion
<1> SUFFICES ASSUME StreamInit PROVE Fusion
    OBVIOUS
<1> USE DEF StreamInit, AnswerInit, Init
<1>1. dense = <<>> /\ lexical = <<>> /\ found = {} /\ error = "none" /\ stage = "transformed"
    OBVIOUS
<1>2. Pool
    BY <1>1, NoneHeld DEF Pool
<1> QED
    BY <1>1, <1>2 DEF Fusion, Fusing

\* Every step keeps what was found among the candidates.
LEMMA FusionNext ==
    ASSUME Shape, Fusion, [StreamNext]_<<vars, streamVars>>
    PROVE  Fusion'
<1>0. Frame /\ Moves
    BY StepIs
<1>1. settings' = settings
    BY <1>0 DEF Frame
<1>2. error' = "search" => ~(settings'.dense /\ settings'.lexical)
    BY <1>0, <1>1 DEF Moves, Fusion
<1>3. CASE Search
    <2>1. stage \in {"transformed", "searched", "expanded"}
        BY <1>3 DEF Search, SearchBoth, SearchOne, SearchExpanded, SearchMulti, Go
    <2>2. stage' \in {"searched", "expanded", "gathered"}
        BY <1>3 DEF Search, SearchBoth, SearchOne, SearchExpanded, SearchMulti, Go, Fail
    <2>3. Pool => Pool'
        BY <1>3, SearchesAre DEF Shape, Search
    <2> QED
        BY <1>2, <2>1, <2>2, <2>3 DEF Fusion, Fusing
<1>4. CASE FuseCandidates
    <2>1. stage = "gathered" /\ stage' = "fused" /\ found' = found
        BY <1>4 DEF FuseCandidates, Go
    <2>2. found = Held(dense) \cup Held(lexical)
        BY <2>1 DEF Fusion, Pool
    <2>3. /\ Ids(fused') \subseteq found'
          /\ Ids(fused') = found' \/ Len(fused') = 2 * settings'.rerankTop
        BY <1>1, <1>4, <2>1, <2>2, FusedIs
    <2> QED
        BY <1>2, <2>1, <2>3 DEF Fusion, Fusing, Ids
<1>5. CASE ~Search /\ ~FuseCandidates
    <2>1. dense' = dense /\ lexical' = lexical /\ found' = found
        BY <1>0, <1>5 DEF Frame
    <2>2. Pool => Pool'
        BY <2>1 DEF Pool, Held, Ids, IdsOf
    <2>3. stage' \in {"transformed", "searched", "expanded", "gathered"} =>
              stage \in {"transformed", "searched", "expanded", "gathered"}
        BY <1>0, <1>5 DEF Moves
    <2>4. Fusing' => Fusing /\ fused' = fused
        <3> SUFFICES ASSUME Fusing' PROVE Fusing /\ fused' = fused
            OBVIOUS
        <3>1. stage' \in {"fused", "hydrated"}
            BY DEF Fusing
        <3>2. stage \in {"fused", "hydrated"}
            BY <1>0, <1>5, <3>1 DEF Moves
        <3>3. ~Rerank
            BY <3>1 DEF Rerank, Go
        <3> QED
            BY <1>0, <1>5, <3>2, <3>3 DEF Frame, Fusing
    <2>5. Ids(fused)' = Ids(fused') /\ (fused' = fused => Ids(fused') = Ids(fused))
        BY DEF Ids
    <2> QED
        BY <1>1, <1>2, <2>1, <2>2, <2>3, <2>4, <2>5 DEF Fusion
<1> QED
    BY <1>3, <1>4, <1>5

\* A search that fails among others costs its own hits and nothing else:
\* RetrievalPipeline._search_candidates and _rank_fusion.
THEOREM PartialFailures == StreamSpec => []SearchFailureIsPartial
<1>1. Shape /\ Fusion /\ [StreamNext]_<<vars, streamVars>> => Fusion'
    BY FusionNext
<1>2. Shape /\ Fusion => SearchFailureIsPartial
    <2> SUFFICES ASSUME Shape, Fusion PROVE SearchFailureIsPartial
        OBVIOUS
    <2>1. Fusing => IsInjective(fused)
        BY DEF Shape, Fusing
    <2>2. \A i \in DOMAIN dense : dense[i].by = "dense"
        <3>1. dense \in Seq(Candidate({"dense"}))
            BY DEF Shape
        <3>2. \A i \in DOMAIN dense : dense[i] \in Candidate({"dense"})
            BY <3>1
        <3> QED
            BY <3>2 DEF Candidate
    <2>3. settings.lexical => \A i \in DOMAIN lexical : lexical[i].by = "bm25"
        <3> SUFFICES ASSUME settings.lexical PROVE \A i \in DOMAIN lexical : lexical[i].by = "bm25"
            OBVIOUS
        <3>1. lexical \in Seq(Candidate({"bm25"}))
            BY DEF Shape, LexicalTags
        <3>2. \A i \in DOMAIN lexical : lexical[i] \in Candidate({"bm25"})
            BY <3>1
        <3> QED
            BY <3>2 DEF Candidate
    <2> QED
        BY <2>1, <2>2, <2>3 DEF SearchFailureIsPartial, Fusion
<1> QED
    BY ShapeAlways, FusionInit, <1>1, <1>2, PTL DEF StreamSpec

-----------------------------------------------------------------------------
(* The context. *)

\* ContextIsSound is inductive relative to Shape.
LEMMA ContextNext ==
    ASSUME FinalTop # 0, Shape, ContextIsSound, [StreamNext]_<<vars, streamVars>>
    PROVE  ContextIsSound'
<1>0. Frame /\ Moves
    BY StepIs
<1>1. CASE CompressContext
    <2>1. /\ stage = "reranked" /\ context' = Compress(fused)
          /\ fused' = fused /\ score' = score /\ text' = text
        BY <1>1 DEF CompressContext, Go
    <2>2. fused \in Seq(Chunks) /\ IsInjective(fused) /\ score \in [Chunks -> Int]
        BY <2>1 DEF Shape
    <2> DEFINE kept == Compress(fused)
    <2>3. /\ IsInjective(kept) /\ Ids(kept) \subseteq Ids(fused) /\ Len(kept) <= FinalTop
          /\ \A i, j \in DOMAIN kept :
                i < j => /\ score[kept[i]] >= score[kept[j]]
                         /\ ~Alike(kept[i], kept[j])
          /\ \A c \in Ids(fused) \ Ids(kept) :
                \/ score[c] < MinScore
                \/ Len(kept) = FinalTop
                \/ \E i \in DOMAIN kept : Alike(kept[i], c) /\ score[kept[i]] >= score[c]
        BY <2>2, CompressIs
    <2>4. context' = kept
        BY <2>1
    <2> HIDE DEF kept
    <2> QED
        BY <2>1, <2>3, <2>4 DEF ContextIsSound, Alike, Ids, IsInjective
<1>2. CASE ~CompressContext
    <2> SUFFICES ASSUME stage' = "retrieved" PROVE ContextIsSound'
        BY DEF ContextIsSound
    <2>1. stage = "retrieved"
        BY <1>0, <1>2 DEF Moves
    <2>2. context' = context /\ fused' = fused /\ score' = score /\ text' = text
        BY <1>0, <1>2, <2>1 DEF Frame, FuseCandidates, Rerank, Hydrate, Reload, Go
    <2> QED
        BY <2>1, <2>2 DEF ContextIsSound, Alike, Ids, IsInjective
<1> QED
    BY <1>1, <1>2

\* What goes to the model and is cited, for every list of candidates and every
\* scoring: ContextCompressor.compress.  With final_top_k = 0 the code keeps
\* one chunk, because it tests the length after it has kept one.
THEOREM SoundContexts == ASSUME FinalTop # 0 PROVE StreamSpec => []ContextIsSound
<1>1. StreamInit => ContextIsSound
    BY DEF StreamInit, AnswerInit, Init, ContextIsSound
<1>2. Shape /\ ContextIsSound /\ [StreamNext]_<<vars, streamVars>> => ContextIsSound'
    BY ContextNext
<1> QED
    BY ShapeAlways, <1>1, <1>2, PTL DEF StreamSpec

-----------------------------------------------------------------------------
(* The verdict. *)

\* A text that was loaded is there until the reply, and the verdict is the one
\* over the texts of the context.
Evidence ==
    /\ stage \in {"prompted", "answered", "verified", "streaming", "streamed"} =>
         \A c \in Ids(context) : text[c] = TextOf[c] \/ (text[c] = NoText /\ c \notin rows)
    /\ stage = "verified" => \/ verdict = Verdict(claims, Texts, Ranked, UsesModel(settings))
                             \/ verdict = Verdict(claims, Texts, <<>>, UsesModel(settings))

\* Every step keeps the evidence of a verdict.
LEMMA EvidenceNext ==
    ASSUME Shape, Evidence, [StreamNext]_<<vars, streamVars>>
    PROVE  Evidence'
<1>0. Frame /\ Moves
    BY StepIs
<1> DEFINE Told == {"prompted", "answered", "verified", "streaming", "streamed"}
<1>1. ASSUME stage' \in Told
      PROVE  \A c \in Ids(context') : text'[c] = TextOf[c] \/ (text'[c] = NoText /\ c \notin rows')
    <2>1. CASE Reload
        <3>1. text' = Loaded(Ids(context)) /\ context' = context /\ rows' = rows
            BY <2>1 DEF Reload
        <3>2. \A c \in Ids(context) : c \in Chunks
            BY DEF Shape, Ids
        <3>3. \A c \in Ids(context) : text'[c] = IF c \in rows THEN TextOf[c] ELSE text[c]
            BY <3>1, <3>2 DEF Loaded
        <3>4. \A c \in Ids(context) : text[c] \in {TextOf[c], NoText}
            BY <3>2 DEF Shape
        <3> QED
            BY <3>1, <3>3, <3>4
    <2>2. CASE ~Reload
        <3>1. stage \in Told
            BY <1>0, <1>1, <2>2 DEF Moves, BeginStream, Go
        <3>2. context' = context
            BY <1>0, <3>1 DEF Frame, CompressContext, Go
        <3>3. text' = text
            BY <1>0, <2>2, <3>1 DEF Frame, Hydrate, Go
        <3>4. rows' \subseteq rows
            BY <1>0 DEF Frame
        <3>5. \A c \in Ids(context) : text[c] = TextOf[c] \/ (text[c] = NoText /\ c \notin rows)
            BY <3>1 DEF Evidence
        <3> QED
            BY <3>2, <3>3, <3>4, <3>5
    <2> QED
        BY <2>1, <2>2
<1>2. ASSUME stage' = "verified"
      PROVE  (\/ verdict = Verdict(claims, Texts, Ranked, UsesModel(settings))
              \/ verdict = Verdict(claims, Texts, <<>>, UsesModel(settings)))'
    <2>1. /\ Texts' = Texts /\ Ranked' = Ranked /\ claims' = claims /\ settings' = settings
          /\ \/ verdict' = Verdict(claims, Texts, Ranked, UsesModel(settings))
             \/ verdict' = Verdict(claims, Texts, <<>>, UsesModel(settings))
        <3>1. stage \in {"answered", "streamed", "verified"}
            BY <1>0, <1>2 DEF Moves, Search
        <3>2. context' = context /\ score' = score /\ text' = text /\ settings' = settings
            BY <1>0, <3>1 DEF Frame, CompressContext, Rerank, Hydrate, Reload, Go
        <3>3. claims' = claims
            BY <1>0, <3>1 DEF Frame, Generate, Piece, Streaming, Go
        <3>4. Texts' = Texts /\ Ranked' = Ranked
            BY <3>2 DEF Texts, Ranked
        <3>5. CASE Verify
            BY <3>2, <3>3, <3>4, <3>5 DEF Verify
        <3>6. CASE VerifyStream
            BY <3>2, <3>3, <3>4, <3>6 DEF VerifyStream
        <3>7. CASE ~Verify /\ ~VerifyStream
            <4>1. stage = "verified" /\ verdict' = verdict
                BY <1>0, <1>2, <3>7 DEF Moves, Frame, Search
            <4> QED
                BY <3>2, <3>3, <3>4, <4>1 DEF Evidence
        <3> QED
            BY <3>5, <3>6, <3>7
    <2> QED
        BY <2>1
<1>3. Ids(context)' = Ids(context')
    BY DEF Ids
<1> QED
    BY <1>1, <1>2, <1>3 DEF Evidence

\* The verdict rests on the texts of the prompt: VerificationGuard.verify and
\* EvidenceChecker.check over what build_answer has loaded.
THEOREM VerdictsRestOnEvidence == StreamSpec => []VerdictFollowsEvidence
<1>1. StreamInit => Evidence
    BY DEF StreamInit, AnswerInit, Init, Evidence
<1>2. Shape /\ Evidence /\ [StreamNext]_<<vars, streamVars>> => Evidence'
    BY EvidenceNext
<1>3. Shape /\ Evidence => VerdictFollowsEvidence
    <2> SUFFICES ASSUME Shape, Evidence PROVE VerdictFollowsEvidence
        OBVIOUS
    <2>1. stage \in {"prompted", "answered", "verified"} =>
              \A c \in Ids(context) : text[c] = TextOf[c] \/ (text[c] = NoText /\ c \notin rows)
        BY DEF Evidence
    <2> DEFINE nli == UsesModel(settings)
    <2>2. ASSUME stage = "verified"
          PROVE  /\ verdict.supported \cap verdict.contradicted = {}
                 /\ \A k \in DOMAIN claims :
                       /\ IF k \in verdict.supported
                          THEN \/ Cardinality(verdict.supporting[k]) = 1
                               \/ /\ Threshold <= 0 /\ verdict.supporting[k] = {}
                                  /\ \A j \in DOMAIN Texts : Entailment(claims[k], Texts[j], nli) <= 0
                          ELSE verdict.supporting[k] = {}
                       /\ \A i \in verdict.supporting[k] :
                             /\ nli \/ Texts[i] # NoText
                             /\ Entailment(claims[k], Texts[i], nli) >= Threshold
                             /\ \A j \in DOMAIN Texts :
                                   Entailment(claims[k], Texts[j], nli) <= Entailment(claims[k], Texts[i], nli)
                 /\ verdict.verified /\ verdict.supported = {} => \E i \in DOMAIN Ranked : Ranked[i] >= 7499
        <3>1. PICK scores \in {Ranked, <<>>} : verdict = Verdict(claims, Texts, scores, nli)
            BY <2>2 DEF Evidence
        <3> DEFINE n == Len(context)
        <3>2. n \in Nat /\ DOMAIN context = 1..n /\ \A i \in 1..n : context[i] \in Chunks
            BY DEF Shape
        <3>3. Texts \in Seq(LoadedTexts) /\ Ranked \in Seq(Int)
            <4> HIDE DEF n
            <4>1. Texts \in [1..n -> LoadedTexts] /\ Ranked \in [1..n -> Int]
                BY <3>2 DEF Texts, Ranked, Shape
            <4>2. \A f \in [1..n -> LoadedTexts] : f \in Seq(LoadedTexts)
                BY <3>2
            <4>3. \A f \in [1..n -> Int] : f \in Seq(Int)
                BY <3>2
            <4> QED
                BY <4>1, <4>2, <4>3
        <3>4. /\ scores \in Seq(Int)
              /\ (\E i \in DOMAIN scores : scores[i] >= 7499) => \E i \in DOMAIN Ranked : Ranked[i] >= 7499
            <4>1. CASE scores = Ranked
                BY <3>3, <4>1
            <4>2. CASE scores = <<>>
                BY <4>2
            <4> QED
                BY <3>1, <4>1, <4>2
        <3>5. claims \in Seq(DOMAIN Overlap) /\ nli \in BOOLEAN
            BY DEF Shape, UsesModel
        <3> HIDE DEF nli
        <3>6. Rests(verdict, claims, Texts, scores, nli)
            BY <3>1, <3>3, <3>4, <3>5, VerdictIs
        <3> QED
            BY <3>4, <3>6 DEF Rests
    <2> QED
        BY <2>1, <2>2 DEF VerdictFollowsEvidence
<1> QED
    BY ShapeAlways, <1>1, <1>2, <1>3, PTL DEF StreamSpec

-----------------------------------------------------------------------------
(* The stream. *)

\* What the client was given are the pieces of the lines that were read.
Told == \A h : Filters(h, Lines, lines, APiece(Lines, lines)) => sent = h[at]

\* A provider that was built, and no line read that it fails on.  "stub" and
\* "hf" send nothing but pieces.
Built == stage \notin {"transformed", "failed"} => (UsesHttpx => named)

Readable ==
    /\ \A i \in 1..at : /\ llm = "ollama" => lines[i] # Garbled
                        /\ llm = "openai" => lines[i] # NoChoice
    /\ llm \notin {"ollama", "openai"} => \A i \in 1..Len(lines) : lines[i] \notin Marks

Whole ==
    /\ Told
    /\ Built /\ Readable
    /\ settings.stream => claims = sent
    /\ error # "none" => stage = "failed"
    /\ done # NotDone => stage \in {"streamed", "verified"} /\ at = Len(lines) /\ done.citations = context

\* Whole is inductive relative to Shape.
LEMMA WholeInit == StreamInit => Whole
<1> SUFFICES ASSUME StreamInit PROVE Whole
    OBVIOUS
<1>1. /\ stage = "transformed" /\ error = "none" /\ lines = <<>> /\ at = 0 /\ sent = <<>>
      /\ done = NotDone /\ claims = <<>>
    BY DEF StreamInit, AnswerInit, Init
<1>2. Told
    BY <1>1 DEF Told, Filters
<1>3. Built /\ Readable
    <2>1. 1..at = {} /\ 1..Len(lines) = {}
        BY <1>1
    <2> QED
        BY <1>1, <2>1 DEF Built, Readable
<1> QED
    BY <1>1, <1>2, <1>3 DEF Whole

\* Every line that is read adds its piece, or none.
LEMMA ToldNext ==
    ASSUME Reading, Reading', Told, Frame
    PROVE  Told'
<1> SUFFICES ASSUME NEW h, Filters(h, Lines, lines', APiece(Lines, lines'))
             PROVE  sent' = h[at']
    BY DEF Told, Filters, APiece, OutOf, Lines, Marks
<1> DEFINE fits == APiece(Lines, lines)
<1>1. lines \in Seq(Lines) /\ Len(lines) \in Nat /\ at \in Nat /\ at <= Len(lines)
    BY DEF Reading
<1>2. CASE BeginStream
    <2>1. at' = 0 /\ sent' = <<>>
        BY <1>2 DEF BeginStream, Go, Reading
    <2> QED
        BY <2>1 DEF Filters
<1>3. CASE ~BeginStream
    <2>1. lines' = lines
        BY <1>3 DEF Frame
    <2>2. Filters(h, Lines, lines, fits)
        BY <2>1
    <2>3. sent = h[at]
        BY <2>2 DEF Told
    <2>4. CASE Piece \/ Skip \/ LastLine
        <3>1. at + 1 \in 1..Len(lines) /\ at' = at + 1
            <4>1. at < Len(lines)
                BY <2>4 DEF Piece, Skip, LastLine, Streaming
            <4>2. at + 1 \in 1..Len(lines)
                BY <1>1, <4>1
            <4>3. LastLine => at + 1 = Len(lines)
                BY <4>2 DEF LastLine, Line, Reading
            <4> QED
                BY <2>4, <4>2, <4>3 DEF Piece, Skip, LastLine
        <3>2. h[at + 1] = IF fits[at + 1][h[at]] THEN Append(h[at], lines[at + 1]) ELSE h[at]
            <4>1. (at + 1) - 1 = at
                BY <1>1
            <4> HIDE DEF fits
            <4> QED
                BY <2>2, <3>1, <4>1 DEF Filters
        <3>3. fits[at + 1][h[at]] <=> Line \notin Marks
            <4>1. h[at] \in Seq(Lines)
                <5>1. h \in [0..Len(lines) -> Seq(Lines)] /\ at \in 0..Len(lines)
                    BY <1>1, <2>2 DEF Filters
                <5> QED
                    BY <5>1
            <4> DEFINE X == Seq(Lines)
            <4>2. fits = [n \in 1..Len(lines) |-> [kept \in X |-> lines[n] \notin Marks]]
                BY DEF APiece, OutOf
            <4>3. h[at] \in X
                BY <4>1
            <4> HIDE DEF X, fits
            <4> QED
                BY <3>1, <4>2, <4>3 DEF Line
        <3>4. CASE Piece
            BY <2>3, <3>1, <3>2, <3>3, <3>4 DEF Piece, Line, Marks
        <3>5. CASE ~Piece
            <4>1. Line \in Marks /\ sent' = sent
                BY <2>4, <3>5 DEF Skip, LastLine, Marks
            <4> QED
                BY <2>3, <3>1, <3>2, <3>3, <4>1
        <3> QED
            BY <3>4, <3>5
    <2>5. CASE ~(Piece \/ Skip \/ LastLine)
        BY <2>3, <2>5 DEF Frame
    <2> QED
        BY <2>4, <2>5
<1> QED
    BY <1>2, <1>3

\* Nothing is done with a provider that cannot be built.
LEMMA BuiltNext ==
    ASSUME Built, Frame, Moves, [StreamNext]_<<vars, streamVars>>
    PROVE  Built'
<1>1. llm' = llm /\ named' = named
    BY DEF Frame
<1>2. CASE UsesHttpx => named
    BY <1>1, <1>2 DEF Built, UsesHttpx
<1>3. CASE ~(UsesHttpx => named)
    <2>1. stage \in {"transformed", "failed"}
        BY <1>3 DEF Built
    <2>2. ~(BeginStream \/ Piece \/ Skip \/ LastLine \/ StreamFails \/ Done \/ VerifyStream)
        BY <2>1 DEF BeginStream, Piece, Skip, LastLine, StreamFails, Done, VerifyStream, Streaming, Go
    <2>3. ProviderFails \/ UNCHANGED <<vars, streamVars>>
        BY <1>3, <2>2 DEF StreamNext
    <2>4. stage' \in {"transformed", "failed"}
        BY <2>1, <2>3 DEF ProviderFails, Fail, vars, retrievalVars
    <2> QED
        BY <2>4 DEF Built
<1> QED
    BY <1>2, <1>3

\* A line that a provider fails on is never read over.
LEMMA ReadableNext ==
    ASSUME Reading, Reading', Readable, Frame
    PROVE  Readable'
<1>1. llm' = llm
    BY DEF Frame
<1>2. lines \in Seq(Lines) /\ Len(lines) \in Nat /\ at \in Nat /\ at <= Len(lines)
    BY DEF Reading
<1>3. CASE BeginStream
    <2>1. at' = 0
        BY <1>3 DEF BeginStream, Go, Reading
    <2>2. ASSUME llm \notin {"ollama", "openai"} PROVE \A i \in 1..Len(lines') : lines'[i] \notin Marks
        <3>1. PICK r \in Replies : lines' = Pieces(r)
            BY <1>3, <2>2 DEF BeginStream, UsesHttpx
        <3>2. r \in Seq(Lines)
            BY RepliesAssumption DEF Lines
        <3> QED
            BY <3>1, <3>2, PiecesAre
    <2>3. 1..at' = {}
        BY <2>1
    <2> QED
        BY <1>1, <2>2, <2>3 DEF Readable
<1>4. CASE ~BeginStream
    <2>1. lines' = lines
        BY <1>4 DEF Frame
    <2>2. CASE Piece \/ Skip \/ LastLine
        <3>1. at + 1 \in 1..Len(lines) /\ at' = at + 1
            <4>1. at < Len(lines)
                BY <2>2 DEF Piece, Skip, LastLine, Streaming
            <4>2. at + 1 \in 1..Len(lines)
                BY <1>2, <4>1
            <4>3. LastLine => at + 1 = Len(lines)
                BY <4>2 DEF LastLine, Line, Reading
            <4> QED
                BY <2>2, <4>2, <4>3 DEF Piece, Skip, LastLine
        <3>2. Garbled # Blank /\ Garbled # Failure /\ Garbled # End /\ NoChoice # Blank /\ NoChoice # Failure
              /\ NoChoice # Garbled /\ NoChoice # End
            <4> DEFINE m == <<Blank, Garbled, Failure, NoChoice, End>>
            <4>1. \A i, j \in 1..5 : i # j => m[i] # m[j]
                <5>1. DOMAIN m = 1..5
                    OBVIOUS
                <5> HIDE DEF m
                <5>2. IsInjective(m)
                    BY RepliesAssumption DEF m
                <5> QED
                    BY <5>1, <5>2 DEF IsInjective
            <4>2. m[1] = Blank /\ m[2] = Garbled /\ m[3] = Failure /\ m[4] = NoChoice /\ m[5] = End
                OBVIOUS
            <4> HIDE DEF m
            <4>3. m[2] # m[1] /\ m[2] # m[3] /\ m[2] # m[5] /\ m[4] # m[1] /\ m[4] # m[3] /\ m[4] # m[2] /\ m[4] # m[5]
                BY <4>1
            <4> QED
                BY <4>2, <4>3
        <3>3. (llm = "ollama" => Line # Garbled) /\ (llm = "openai" => Line # NoChoice)
            BY <2>2, <3>2 DEF Piece, Skip, LastLine, Marks
        <3>4. \A i \in 1..(at + 1) : i \in 1..at \/ i = at + 1
            BY <1>2
        <3>5. Line = lines[at + 1]
            BY DEF Line
        <3> QED
            BY <1>1, <2>1, <3>1, <3>3, <3>4, <3>5 DEF Readable
    <2>3. CASE ~(Piece \/ Skip \/ LastLine)
        BY <1>1, <2>1, <2>3 DEF Frame, Readable
    <2> QED
        BY <2>2, <2>3
<1> QED
    BY <1>3, <1>4

\* Every step keeps the stream whole.
LEMMA WholeNext ==
    ASSUME Shape, Shape', Whole, [StreamNext]_<<vars, streamVars>>
    PROVE  Whole'
<1>0. Frame /\ Moves
    BY StepIs
<1>1. Told'
    BY <1>0, ToldNext DEF Shape, Whole
<1>5. Built' /\ Readable'
    BY <1>0, BuiltNext, ReadableNext DEF Shape, Whole
<1>2. settings'.stream => claims' = sent'
    <2>1. settings' = settings
        BY <1>0 DEF Frame
    <2>2. CASE Generate
        BY <2>1, <2>2 DEF Generate
    <2>3. CASE Piece
        BY <2>1, <2>3 DEF Piece, Whole
    <2>4. CASE Skip \/ LastLine
        BY <2>1, <2>4 DEF Skip, LastLine, Whole
    <2>5. CASE ~(Generate \/ Piece \/ Skip \/ LastLine)
        BY <1>0, <2>1, <2>5 DEF Frame, Whole
    <2> QED
        BY <2>2, <2>3, <2>4, <2>5
<1>3. error' # "none" => stage' = "failed"
    BY <1>0 DEF Moves, Whole
<1>4. done' # NotDone => stage' \in {"streamed", "verified"} /\ at' = Len(lines') /\ done'.citations = context'
    <2>1. CASE Done
        <3>1. /\ stage' = "streamed" /\ at' = at /\ lines' = lines /\ context' = context
              /\ at = Len(lines) /\ done' = [citations |-> context, confidence |-> BestScore(Ranked)]
            BY <2>1 DEF Done, Go
        <3> QED
            BY <3>1
    <2>2. CASE ~Done
        <3> SUFFICES ASSUME done' # NotDone
                     PROVE  stage' \in {"streamed", "verified"} /\ at' = Len(lines') /\ done'.citations = context'
            OBVIOUS
        <3>1. done' = done
            BY <1>0, <2>2 DEF Frame
        <3>2. stage \in {"streamed", "verified"} /\ at = Len(lines) /\ done.citations = context
            BY <3>1 DEF Whole
        <3>3. stage' \in {"streamed", "verified"}
            BY <1>0, <2>2, <3>2 DEF Moves
        <3>4. at' = at /\ lines' = lines /\ context' = context
            BY <1>0, <3>2 DEF Frame, Piece, Skip, LastLine, Streaming, BeginStream, CompressContext, Go
        <3> QED
            BY <3>1, <3>2, <3>3, <3>4
    <2> QED
        BY <2>1, <2>2
<1> QED
    BY <1>1, <1>2, <1>3, <1>4, <1>5 DEF Whole, NotDone

\* An answer that is declared done is all that the model has said, but for the
\* garbled pieces that openai drops and the failures that both providers read
\* over; nothing else makes a part look like a whole: the generator of
\* /chat/stream and the stream methods of the providers.
THEOREM StreamsAreWhole == StreamSpec => []StreamedAnswerIsWhole
<1>1. Shape /\ Shape' /\ Whole /\ [StreamNext]_<<vars, streamVars>> => Whole'
    BY WholeNext
<1>2. Shape /\ Whole => StreamedAnswerIsWhole
    <2> SUFFICES ASSUME Shape, Whole PROVE StreamedAnswerIsWhole
        OBVIOUS
    <2> DEFINE fits == APiece(Lines, lines)
               N == Len(lines)
    <2>1. lines \in Seq(Lines) /\ N \in Nat /\ at \in 0..N
        BY DEF Shape, Reading
    <2>2. PICK h : Filters(h, Lines, lines, fits) /\ Pieces(lines) = h[N]
        BY <2>1, WithoutFilter DEF Pieces, APiece
    <2>3. sent = h[at]
        BY <2>2 DEF Whole, Told
    <2> HIDE DEF fits
    <2>4. Len(h[at]) <= Len(h[N]) /\ \A k \in 1..Len(h[at]) : h[N][k] = h[at][k]
        <3>1. \A n \in 0..N : \A m \in 0..n :
                  Len(h[m]) <= Len(h[n]) /\ \A k \in 1..Len(h[m]) : h[n][k] = h[m][k]
            BY <2>1, <2>2, FilterKeeps
        <3>2. N \in 0..N /\ at \in 0..N
            BY <2>1
        <3> QED
            BY <3>1, <3>2
    <2>5. h[at] \in Seq(Lines) /\ h[N] \in Seq(Lines)
        <3>1. h \in [0..N -> Seq(Lines)] /\ at \in 0..N /\ N \in 0..N
            BY <2>1, <2>2 DEF Filters
        <3> QED
            BY <3>1
    <2>6. IsPrefix(sent, Pieces(lines))
        <3> DEFINE s == h[at]
                   t == h[N]
        <3>1. s \in Seq(Lines) /\ t \in Seq(Lines) /\ Len(s) <= Len(t) /\ \A k \in 1..Len(s) : t[k] = s[k]
            BY <2>4, <2>5
        <3> HIDE DEF s, t
        <3>2. IsPrefix(s, t)
            BY <3>1 DEF IsPrefix
        <3> QED
            BY <2>2, <2>3, <3>2 DEF s, t
    <2>7. ASSUME done # NotDone
          PROVE  /\ \/ sent = Said(lines)
                    \/ /\ sent = Pieces(lines)
                       /\ \E i \in DOMAIN lines : lines[i] = Failure \/ (lines[i] = Garbled /\ llm = "openai")
                 /\ llm = "ollama" => Garbled \notin Range(lines)
                 /\ llm = "openai" => NoChoice \notin Range(lines)
                 /\ error = "none" /\ (UsesHttpx => named)
                 /\ done.citations = context
                 /\ \A i \in DOMAIN Texts : Texts[i] \in {TextOf[context[i]], NoText}
        <3>1. stage \in {"streamed", "verified"} /\ at = N /\ done.citations = context
            BY <2>7 DEF Whole
        <3>2. error = "none" /\ (UsesHttpx => named)
            BY <3>1 DEF Whole, Built
        <3>3. \A i \in DOMAIN Texts : Texts[i] \in {TextOf[context[i]], NoText}
            <4>1. \A i \in DOMAIN context : context[i] \in Chunks
                BY DEF Shape
            <4> QED
                BY <4>1 DEF Texts, Shape
        <3>4. DOMAIN lines = 1..N
            BY <2>1
        <3>5. /\ llm = "ollama" => \A i \in DOMAIN lines : lines[i] # Garbled
              /\ llm = "openai" => \A i \in DOMAIN lines : lines[i] # NoChoice
              /\ llm \notin {"ollama", "openai"} => \A i \in DOMAIN lines : lines[i] \notin Marks
            BY <3>1, <3>4 DEF Whole, Readable
        <3>6. sent = Pieces(lines)
            BY <2>2, <2>3, <3>1
        <3>7. ASSUME ~\E i \in DOMAIN lines : lines[i] = Failure \/ (lines[i] = Garbled /\ llm = "openai")
              PROVE  sent = Said(lines)
            <4> DEFINE quiet == {Blank, NoChoice, End}
            <4>1. \A i \in 1..N : lines[i] \notin Marks <=> lines[i] \notin quiet
                BY <3>4, <3>5, <3>7 DEF Marks
            <4>2. PICK g : Filters(g, Lines, lines, OutOf(Lines, lines, quiet)) /\ Said(lines) = g[N]
                BY <2>1, WithoutFilter DEF Said
            <4>3. OutOf(Lines, lines, quiet) = OutOf(Lines, lines, Marks)
                <5> HIDE DEF quiet
                <5> QED
                    BY <4>1 DEF OutOf
            <4>4. sent = g[at]
                BY <4>2, <4>3 DEF Whole, Told, APiece
            <4> QED
                BY <3>1, <4>2, <4>4
        <3>8. /\ llm = "ollama" => Garbled \notin Range(lines)
              /\ llm = "openai" => NoChoice \notin Range(lines)
            BY <3>5 DEF Range
        <3> QED
            BY <3>1, <3>2, <3>3, <3>6, <3>7, <3>8
    <2> QED
        BY <2>6, <2>7 DEF StreamedAnswerIsWhole, Whole
<1> QED
    BY ShapeAlways, WholeInit, <1>1, <1>2, PTL DEF StreamSpec

-----------------------------------------------------------------------------
(* The ablation. *)

Added(ranks, n) == IF n \in ranks THEN Discount[n] ELSE 0

\* s[n] is what the ranks up to n add up to.
Sums(s, ranks) ==
    /\ s \in [0..Len(Discount) -> Nat] /\ s[0] = 0
    /\ \A n \in 1..Len(Discount) : s[n] = s[n - 1] + Added(ranks, n)

\* A gain is the last of the sums that the loop makes.
LEMMA GainIs ==
    ASSUME NEW ranks
    PROVE  \E s : Sums(s, ranks) /\ Gain(ranks) = s[Len(Discount)]
<1> DEFINE N == Len(Discount)
           g == [n \in 1..N |-> [x \in Nat |-> x + Added(ranks, n)]]
           Is(s) == s = [n \in 0..N |-> IF n = 0 THEN 0 ELSE s[n - 1] + Added(ranks, n)]
           sum == CHOOSE s : Is(s)
<1>1. N \in Nat /\ \A n \in 1..N : Added(ranks, n) \in Nat
    BY EvaluationAssumption DEF Added
<1>2. g \in [1..N -> [Nat -> Nat]]
    BY <1>1
<1>3. PICK h : Begins(h, Nat, 0, N, g)
    <2> HIDE DEF g, N
    <2> QED
        BY <1>1, <1>2, Recursion
<1>4. /\ h \in [0..N -> Nat] /\ h[0] = 0
      /\ \A n \in 1..N : h[n] = g[n][h[n - 1]]
    <2> HIDE DEF g
    <2> QED
        BY <1>3 DEF Begins
<1> HIDE DEF N
<1>5. \A n \in 1..N : h[n] = h[n - 1] + Added(ranks, n)
    <2>1. \A n \in 1..N : h[n - 1] \in Nat
        BY <1>1, <1>4
    <2> QED
        BY <1>4, <2>1
<1>6. Is(h)
    <2> DEFINE e == [n \in 0..N |-> IF n = 0 THEN 0 ELSE h[n - 1] + Added(ranks, n)]
    <2>1. \A n \in 0..N : e[n] = h[n]
        BY <1>1, <1>4, <1>5
    <2>2. e = [n \in 0..N |-> e[n]] /\ h = [n \in 0..N |-> h[n]]
        BY <1>4
    <2> HIDE DEF e
    <2>3. e = h
        BY <2>1, <2>2
    <2> QED
        BY <2>3 DEF e
<1>7. Is(sum)
    <2> HIDE DEF Is
    <2> QED
        BY <1>6
<1>8. DOMAIN sum = 0..N /\ sum = [n \in 0..N |-> sum[n]]
    <2> DEFINE e == [n \in 0..N |-> IF n = 0 THEN 0 ELSE sum[n - 1] + Added(ranks, n)]
    <2>1. sum = e
        BY <1>7
    <2>2. DOMAIN e = 0..N /\ e = [n \in 0..N |-> e[n]]
        OBVIOUS
    <2> HIDE DEF e, sum
    <2> QED
        BY <2>1, <2>2
<1>9. sum[0] = 0 /\ \A n \in 1..N : sum[n] = sum[n - 1] + Added(ranks, n)
    <2> DEFINE e == [n \in 0..N |-> IF n = 0 THEN 0 ELSE sum[n - 1] + Added(ranks, n)]
    <2>1. sum = e
        BY <1>7
    <2>2. e[0] = 0 /\ \A n \in 1..N : e[n] = sum[n - 1] + Added(ranks, n)
        <3> HIDE DEF sum
        <3> QED
            BY <1>1
    <2> HIDE DEF e, sum
    <2> QED
        BY <2>1, <2>2
<1>10. Gain(ranks) = sum[N]
    BY DEF Gain, Added, N
<1> HIDE DEF sum
<1> DEFINE G == {n \in 0..N : sum[n] \in Nat}
<1>11. 0 \in G
    BY <1>1, <1>9
<1>12. \A n \in 1..N : n - 1 \in G => n \in G
    BY <1>1, <1>9
<1>13. 0..N \subseteq G
    <2> HIDE DEF G
    <2> QED
        BY <1>1, <1>11, <1>12, UpTo, Zenon
<1>14. sum \in [0..N -> Nat]
    BY <1>8, <1>13
<1> QED
    BY <1>9, <1>10, <1>14 DEF Sums, N

\* Sums never fall, and rise at every rank.
LEMMA SumsRise ==
    ASSUME NEW ranks, NEW s, Sums(s, ranks)
    PROVE  \A i, n \in 0..Len(Discount) : i <= n =>
              /\ s[i] <= s[n]
              /\ (\E r \in ranks : i < r /\ r <= n /\ r \in Nat) => s[i] < s[n]
<1> DEFINE N == Len(Discount)
<1>1. N \in Nat /\ \A n \in 1..N : Added(ranks, n) \in Nat /\ (n \in ranks => Added(ranks, n) > 0)
    BY EvaluationAssumption DEF Added
<1>2. /\ \A n \in 0..N : s[n] \in Nat
      /\ \A n \in 1..N : s[n] = s[n - 1] + Added(ranks, n)
    BY DEF Sums
<1> HIDE DEF N
<1> SUFFICES ASSUME NEW i \in 0..N
             PROVE  \A n \in 0..N : i <= n =>
                       /\ s[i] <= s[n]
                       /\ (\E r \in ranks : i < r /\ r <= n /\ r \in Nat) => s[i] < s[n]
    BY DEF N
<1> DEFINE Rises(n) == i <= n =>
                          /\ s[i] <= s[n]
                          /\ \A r \in Nat : r \in ranks /\ i < r /\ r <= n => s[i] < s[n]
           G == {n \in 0..N : Rises(n)}
<1>3. 0 \in G
    BY <1>1, <1>2
<1>4. \A n \in 1..N : n - 1 \in G => n \in G
    <2> SUFFICES ASSUME NEW n \in 1..N, n - 1 \in G, i <= n PROVE Rises(n)
        BY <1>1
    <2>1. CASE i = n
        BY <1>2, <2>1
    <2>2. CASE i # n
        <3>1. i <= n - 1 /\ n \in 0..N /\ n - 1 \in 0..N
            BY <1>1, <2>2
        <3>2. /\ s[i] \in Nat /\ s[n - 1] \in Nat /\ s[n] \in Nat
              /\ s[n] = s[n - 1] + Added(ranks, n)
              /\ Added(ranks, n) \in Nat /\ (n \in ranks => Added(ranks, n) > 0)
            BY <1>1, <1>2, <3>1
        <3>3. s[i] <= s[n - 1] /\ \A r \in Nat : r \in ranks /\ i < r /\ r <= n - 1 => s[i] < s[n - 1]
            BY <3>1
        <3>4. s[i] <= s[n]
            BY <3>2, <3>3
        <3>5. ASSUME NEW r \in Nat, r \in ranks, i < r, r <= n PROVE s[i] < s[n]
            <4>1. CASE r = n
                BY <3>2, <3>3, <3>5, <4>1
            <4>2. CASE r # n
                <5>1. r <= n - 1
                    BY <3>5, <4>2
                <5> QED
                    BY <3>2, <3>3, <3>5, <5>1
            <4> QED
                BY <4>1, <4>2
        <3> QED
            BY <3>4, <3>5
    <2> QED
        BY <2>1, <2>2
<1>5. 0..N \subseteq G
    <2> HIDE DEF G
    <2> QED
        BY <1>1, <1>3, <1>4, UpTo, Zenon
<1>6. \A n \in 0..N : Rises(n)
    BY <1>5
<1> QED
    BY <1>6

\* No ranks add up to more than the first ones, and only these to as much.
LEMMA BestGain ==
    ASSUME NEW R \in SUBSET (1..Len(Discount)), NEW m \in 0..Len(Discount),
           IsFiniteSet(R), Cardinality(R) <= m
    PROVE  /\ Gain(R) \in Nat /\ Gain(1..m) \in Nat
           /\ m # 0 => Gain(1..m) > 0
           /\ Gain(R) <= Gain(1..m)
           /\ Gain(R) = Gain(1..m) => 1..m \subseteq R
<1> DEFINE N == Len(Discount)
           c == [n \in 0..N |-> Cardinality(R \cap (1..n))]
<1>1. /\ N \in Nat
      /\ \A n \in 1..N : Discount[n] \in Nat
      /\ \A n, k \in 1..N : k < n => Discount[k] > Discount[n]
    BY EvaluationAssumption
<1>2. PICK s : Sums(s, R) /\ Gain(R) = s[N]
    BY GainIs
<1>3. PICK t : Sums(t, 1..m) /\ Gain(1..m) = t[N]
    BY GainIs
<1>4. /\ s[0] = 0 /\ \A n \in 0..N : s[n] \in Nat
      /\ \A n \in 1..N : s[n] = s[n - 1] + Added(R, n)
    BY <1>2 DEF Sums
<1>5. /\ t[0] = 0 /\ \A n \in 0..N : t[n] \in Nat
      /\ \A n \in 1..N : t[n] = t[n - 1] + Added(1..m, n)
    BY <1>3 DEF Sums
<1>6. \A i \in 0..N : t[i] <= t[N] /\ (i < m => t[i] < t[N])
    <2> SUFFICES ASSUME NEW i \in 0..N PROVE t[i] <= t[N] /\ (i < m => t[i] < t[N])
        OBVIOUS
    <2>1. N \in 0..N /\ i <= N /\ m \in Nat /\ m <= N
        BY <1>1
    <2>2. i < m => m \in 1..m
        BY <2>1
    <2> QED
        BY <1>3, <2>1, <2>2, SumsRise
<1>7. \A n \in 0..N : /\ IsFiniteSet(R \cap (1..n)) /\ Cardinality(R \cap (1..n)) \in Nat
                       /\ Cardinality(R \cap (1..n)) <= n /\ Cardinality(R \cap (1..n)) <= m
    <2> SUFFICES ASSUME NEW n \in 0..N
                 PROVE  /\ IsFiniteSet(R \cap (1..n)) /\ Cardinality(R \cap (1..n)) \in Nat
                        /\ Cardinality(R \cap (1..n)) <= n /\ Cardinality(R \cap (1..n)) <= m
        OBVIOUS
    <2>1. IsFiniteSet(1..n) /\ Cardinality(1..n) = n
        BY <1>1, FS_Interval
    <2>2. IsFiniteSet(R \cap (1..n)) /\ Cardinality(R \cap (1..n)) <= n
        BY <2>1, FS_Subset
    <2>3. Cardinality(R \cap (1..n)) <= Cardinality(R)
        BY FS_Subset
    <2>4. Cardinality(R \cap (1..n)) \in Nat /\ Cardinality(R) \in Nat
        BY <2>2, FS_CardinalityType
    <2> QED
        BY <2>2, <2>3, <2>4
<1>8. c[0] = 0 /\ \A n \in 1..N : c[n] = c[n - 1] + (IF n \in R THEN 1 ELSE 0)
    <2>1. c[0] = 0
        BY <1>1, <1>7, FS_EmptySet
    <2>2. ASSUME NEW n \in 1..N PROVE c[n] = c[n - 1] + (IF n \in R THEN 1 ELSE 0)
        <3> DEFINE before == R \cap (1..(n - 1))
        <3>1. n \in 0..N /\ n - 1 \in 0..N
            BY <1>1
        <3>2. c[n] = Cardinality(R \cap (1..n)) /\ c[n - 1] = Cardinality(before)
            BY <3>1
        <3>3. IsFiniteSet(before) /\ Cardinality(before) \in Nat /\ n \notin before
            <4>1. n \notin 1..(n - 1)
                BY <3>1
            <4> QED
                BY <1>7, <3>1, <4>1
        <3> HIDE DEF c
        <3>4. CASE n \in R
            <4>1. R \cap (1..n) = before \cup {n}
                BY <1>1, <3>4
            <4>2. Cardinality(before \cup {n}) = Cardinality(before) + 1
                BY <3>3, FS_AddElement
            <4> QED
                BY <3>2, <3>3, <3>4, <4>1, <4>2
        <3>5. CASE n \notin R
            <4>1. R \cap (1..n) = before
                BY <1>1, <3>5
            <4>2. c[n] = c[n - 1] /\ c[n - 1] \in Nat
                BY <3>2, <3>3, <4>1, Zenon
            <4> HIDE DEF before
            <4> QED
                BY <3>5, <4>2
        <3> QED
            BY <3>4, <3>5
    <2> QED
        BY <2>1, <2>2
<1>9. \A n \in 0..N : c[n] \in 0..N /\ c[n] <= n /\ c[n] <= m
    BY <1>1, <1>7
<1> HIDE DEF c
<1> DEFINE Below(n) == s[n] <= t[c[n]] /\ (s[n] = t[c[n]] => 1..c[n] \subseteq R)
           G == {n \in 0..N : Below(n)}
<1>10. 0 \in G
    BY <1>1, <1>4, <1>5, <1>8
<1>11. \A n \in 1..N : n - 1 \in G => n \in G
    <2> SUFFICES ASSUME NEW n \in 1..N, n - 1 \in G PROVE Below(n)
        BY <1>1
    <2>1. n \in 0..N /\ n - 1 \in 0..N /\ n \in Nat
        BY <1>1
    <2>2. Below(n - 1)
        BY <2>1
    <2>3. CASE n \notin R
        <3>1. s[n] = s[n - 1] /\ c[n] = c[n - 1]
            BY <1>4, <1>8, <1>9, <2>1, <2>3 DEF Added
        <3> QED
            BY <2>2, <3>1
    <2>4. CASE n \in R
        <3> DEFINE k == c[n]
        <3>1. k \in 1..N /\ k <= n /\ k <= m /\ c[n - 1] = k - 1
            BY <1>8, <1>9, <2>1, <2>4
        <3> HIDE DEF k
        <3>2. s[n] = s[n - 1] + Discount[n] /\ t[k] = t[k - 1] + Discount[k]
            BY <1>4, <1>5, <2>4, <3>1 DEF Added
        <3>3. /\ s[n - 1] \in Nat /\ t[k - 1] \in Nat /\ Discount[n] \in Nat /\ Discount[k] \in Nat
              /\ Discount[n] <= Discount[k] /\ (k # n => Discount[n] < Discount[k])
            <4>1. k - 1 \in 0..N
                BY <1>1, <3>1
            <4>2. s[n - 1] \in Nat /\ t[k - 1] \in Nat /\ Discount[n] \in Nat /\ Discount[k] \in Nat
                BY <1>1, <1>4, <1>5, <2>1, <3>1, <4>1
            <4>3. k # n => Discount[n] < Discount[k]
                BY <1>1, <2>1, <3>1
            <4> QED
                BY <4>2, <4>3
        <3>4. s[n - 1] <= t[k - 1] /\ (s[n - 1] = t[k - 1] => 1..(k - 1) \subseteq R)
            BY <2>2, <3>1
        <3>5. s[n] <= t[k]
            BY <3>2, <3>3, <3>4
        <3>6. s[n] = t[k] => s[n - 1] = t[k - 1] /\ k = n
            BY <3>2, <3>3, <3>4
        <3>7. s[n] = t[k] => 1..k \subseteq R
            BY <2>4, <3>1, <3>4, <3>6
        <3> QED
            BY <3>5, <3>7 DEF k
    <2> QED
        BY <2>3, <2>4
<1>12. 0..N \subseteq G
    <2> HIDE DEF G, N
    <2> QED
        BY <1>1, <1>10, <1>11, UpTo, Zenon
<1>13. Below(N) /\ N \in 0..N
    BY <1>1, <1>12
<1>14. s[N] \in Nat /\ t[N] \in Nat /\ t[c[N]] \in Nat /\ c[N] \in Nat /\ c[N] <= m /\ m \in Nat
    BY <1>4, <1>5, <1>9, <1>13
<1>15. t[c[N]] <= t[N] /\ (c[N] < m => t[c[N]] < t[N])
    BY <1>6, <1>9, <1>13
<1>16. m # 0 => t[N] > 0
    BY <1>1, <1>5, <1>6, <1>14
<1>17. s[N] <= t[N]
    BY <1>13, <1>14, <1>15
<1>18. s[N] = t[N] => c[N] = m /\ s[N] = t[c[N]]
    BY <1>13, <1>14, <1>15
<1>19. s[N] = t[N] => 1..m \subseteq R
    BY <1>13, <1>18
<1> QED
    BY <1>2, <1>3, <1>14, <1>16, <1>17, <1>19

\* Products grow with their factors.
LEMMA Products == \A c, m, n \in Nat : m <= n => c * m <= c * n
<1> SUFFICES ASSUME NEW c \in Nat, NEW m \in Nat, NEW n \in Nat, m <= n PROVE c * m <= c * n
    OBVIOUS
<1>1. PICK d \in Nat : n = m + d
    <2>1. n - m \in Nat /\ n = m + (n - m)
        OBVIOUS
    <2> QED
        BY <2>1
<1>2. c * (m + d) = c * m + c * d /\ c * m \in Nat /\ c * d \in Nat
    OBVIOUS
<1> DEFINE cm == c * m
           cd == c * d
           cn == c * n
<1>3. cn = cm + cd /\ cm \in Nat /\ cd \in Nat
    BY <1>1, <1>2
<1> HIDE DEF cm, cd, cn
<1>4. cm <= cn
    BY <1>3
<1> QED
    BY <1>4 DEF cm, cn

\* Shares of a whole are in order, and only the whole is all of it.
LEMMA Shares ==
    ASSUME NEW whole \in Nat \ {0}, NEW b \in Nat \ {0}, NEW x \in 0..b, NEW y \in 0..x
    PROVE  /\ (whole * x) \div b \in 0..whole
           /\ (whole * y) \div b <= (whole * x) \div b
           /\ (whole * x) \div b = whole => x = b
<1>1. \A c, m, n \in Nat : m <= n => c * m <= c * n
    BY Products
<1>2. \A n \in Nat : /\ n \div b \in Nat
                     /\ b * (n \div b) <= n /\ n < b * (n \div b + 1)
    OBVIOUS
<1> DEFINE q == (whole * x) \div b
           r == (whole * y) \div b
<1>3. whole * x \in Nat /\ whole * y \in Nat /\ whole * b \in Nat /\ b * whole = whole * b
    OBVIOUS
<1>4. whole * y <= whole * x /\ whole * x <= whole * b
    BY <1>1
<1>5. /\ q \in Nat /\ r \in Nat
      /\ b * q <= whole * x /\ whole * x < b * (q + 1)
      /\ b * r <= whole * y /\ whole * y < b * (r + 1)
    BY <1>2, <1>3
<1> HIDE DEF q, r
<1>6. \A m, n \in Nat : b * m \in Nat /\ (b * m < b * (n + 1) => m <= n)
    <2> SUFFICES ASSUME NEW m \in Nat, NEW n \in Nat, n + 1 <= m PROVE b * (n + 1) <= b * m
        OBVIOUS
    <2> QED
        BY <1>1
<1>7. r <= q
    <2>1. b * r < b * (q + 1)
        <3>1. b * r \in Nat /\ b * (q + 1) \in Nat
            BY <1>5, <1>6
        <3> QED
            BY <1>3, <1>4, <1>5, <3>1
    <2> QED
        BY <1>5, <1>6, <2>1
<1>8. q <= whole
    <2>1. b * q < b * (whole + 1)
        <3>1. b * q \in Nat /\ b * (whole + 1) = b * whole + b
            BY <1>5, <1>6
        <3> QED
            BY <1>3, <1>4, <1>5, <3>1
    <2> QED
        BY <1>5, <1>6, <2>1
<1>9. q = whole => x = b
    <2> SUFFICES ASSUME q = whole, x # b PROVE FALSE
        OBVIOUS
    <2>1. whole * b <= whole * x
        BY <1>3, <1>5
    <2>2. x + 1 <= b /\ x + 1 \in Nat
        OBVIOUS
    <2>3. whole * (x + 1) <= whole * b
        BY <1>1, <2>2
    <2>4. whole * (x + 1) = whole * x + whole
        OBVIOUS
    <2> QED
        BY <1>3, <2>1, <2>3, <2>4
<1> QED
    BY <1>5, <1>7, <1>8, <1>9 DEF q, r

\* The first elements of a list.
LEMMA FirstIs ==
    ASSUME NEW S, NEW list \in Seq(S), NEW n \in Nat
    PROVE  /\ First(list, n) \in Seq(S)
           /\ Len(First(list, n)) = Shorter(Len(list), n)
           /\ DOMAIN First(list, n) = 1..Shorter(Len(list), n)
           /\ \A i \in 1..Shorter(Len(list), n) : First(list, n)[i] = list[i]
           /\ Len(list) <= n => First(list, n) = list
<1> DEFINE m == Shorter(Len(list), n)
           first == First(list, n)
<1>1. Len(list) \in Nat /\ m \in Nat /\ m <= Len(list) /\ m <= n /\ DOMAIN list = 1..Len(list)
    BY DEF Shorter
<1>2. first = SubSeq(list, 1, m)
    BY DEF First, Shorter
<1>3. Len(list) <= n => m = Len(list)
    BY DEF Shorter
<1> HIDE DEF m, first
<1>4. first \in Seq(S) /\ Len(first) = m /\ DOMAIN first = 1..m /\ \A i \in 1..m : first[i] = list[i]
    BY <1>1, <1>2
<1>5. Len(list) <= n => first = list
    BY <1>1, <1>3, <1>4
<1> QED
    BY <1>4, <1>5 DEF m, first

\* A list has no more ids than places.
LEMMA IdsCounted ==
    ASSUME NEW S, NEW list \in Seq(S)
    PROVE  /\ IsFiniteSet(Ids(list))
           /\ Cardinality(Ids(list)) \in Nat
           /\ Cardinality(Ids(list)) <= Len(list)
<1>1. Len(list) \in Nat /\ DOMAIN list = 1..Len(list)
    OBVIOUS
<1>2. IsFiniteSet(1..Len(list)) /\ Cardinality(1..Len(list)) = Len(list)
    BY SMTT(60), <1>1, FS_Interval
<1>3. list \in Surjection(1..Len(list), Ids(list))
    <2>1. list \in [1..Len(list) -> Ids(list)]
        BY <1>1 DEF Ids
    <2>2. \A t \in Ids(list) : \E i \in 1..Len(list) : list[i] = t
        BY <1>1 DEF Ids
    <2> QED
        BY <2>1, <2>2 DEF Surjection
<1>4. IsFiniteSet(Ids(list)) /\ Cardinality(Ids(list)) <= Cardinality(1..Len(list))
    BY <1>2, <1>3, FS_Surjection
<1> QED
    BY <1>2, <1>4, FS_CardinalityType

\* The cut-offs are numbers, and one of them is the largest.
LEMMA CutOffs ==
    /\ Max(KValues) \in KValues
    /\ \A k \in KValues : k \in Nat \ {0} /\ k <= Max(KValues) /\ k <= Len(Discount)
<1> DEFINE N == Len(Discount)
           gaps == {N - k : k \in KValues}
<1>1. N \in Nat /\ KValues \subseteq 1..N /\ KValues # {}
    BY EvaluationAssumption
<1> HIDE DEF N
<1>2. gaps \in SUBSET Nat /\ gaps # {}
    <2>1. \A k \in KValues : N - k \in Nat
        <3> SUFFICES ASSUME NEW k \in KValues PROVE N - k \in Nat
            OBVIOUS
        <3>1. k \in 1..N
            BY <1>1
        <3> QED
            BY <1>1, <3>1
    <2> QED
        BY <1>1, <2>1
<1>3. PICK x \in gaps : \A y \in gaps : x <= y
    BY <1>2, LeastNumber
<1>4. PICK m \in KValues : x = N - m
    OBVIOUS
<1>5. \A k \in KValues : m >= k
    <2> SUFFICES ASSUME NEW k \in KValues PROVE m >= k
        OBVIOUS
    <2>1. N - m <= N - k
        BY <1>3, <1>4
    <2> QED
        BY <1>1, <2>1
<1>6. Max(KValues) \in KValues /\ \A k \in KValues : Max(KValues) >= k
    BY <1>5 DEF Max
<1> DEFINE M == Max(KValues)
<1>7. M \in KValues /\ \A k \in KValues : M >= k
    BY <1>6
<1> HIDE DEF M
<1>8. M \in KValues /\ \A k \in KValues : k \in Nat \ {0} /\ k <= M /\ k <= N
    BY <1>1, <1>7
<1> QED
    BY <1>8 DEF M, N

\* What was expected can be counted.
LEMMA ExpectedCounted ==
    ASSUME NEW expected \in SUBSET Chunks
    PROVE  /\ IsFiniteSet(expected) /\ Cardinality(expected) \in Nat
           /\ Cardinality(expected) = 0 <=> expected = {}
<1>1. IsFiniteSet(expected)
    BY EvaluationAssumption, FS_Subset
<1> QED
    BY <1>1, FS_CardinalityType, FS_EmptySet

\* Hits are among what was expected and among the first k, and more ranks have
\* no fewer of them.
LEMMA HitsAre ==
    ASSUME NEW ids \in Seq(Chunks), NEW expected \in SUBSET Chunks, NEW k \in Nat
    PROVE  /\ HitCount(ids, expected, k) \in Nat
           /\ HitCount(ids, expected, k) <= Cardinality(expected)
           /\ HitCount(ids, expected, k) <= Shorter(k, Len(ids))
           /\ \A others \in Seq(Chunks) : \A n \in Nat :
                 Ids(First(ids, k)) \subseteq Ids(First(others, n)) =>
                     HitCount(ids, expected, k) <= HitCount(others, expected, n)
<1> DEFINE first == First(ids, k)
           hits == Ids(first) \cap expected
<1>1. first \in Seq(Chunks) /\ Len(first) = Shorter(k, Len(ids))
    BY FirstIs DEF Shorter
<1>2. IsFiniteSet(expected) /\ Cardinality(expected) \in Nat
    BY ExpectedCounted
<1> HIDE DEF first
<1>3. IsFiniteSet(Ids(first)) /\ Cardinality(Ids(first)) \in Nat /\ Cardinality(Ids(first)) <= Len(first)
    BY <1>1, IdsCounted
<1>4. IsFiniteSet(hits) /\ Cardinality(hits) <= Cardinality(expected)
    BY <1>2, FS_Subset
<1>5. Cardinality(hits) <= Cardinality(Ids(first))
    BY <1>3, FS_Subset
<1>6. Cardinality(hits) \in Nat
    BY <1>4, FS_CardinalityType
<1>7. HitCount(ids, expected, k) = Cardinality(hits)
    BY DEF HitCount, first
<1>8. Cardinality(hits) <= Shorter(k, Len(ids))
    <2>1. Len(first) \in Nat
        BY <1>1
    <2> HIDE DEF hits
    <2> QED
        BY <1>1, <1>3, <1>5, <1>6, <2>1
<1>9. ASSUME NEW others \in Seq(Chunks), NEW n \in Nat, Ids(first) \subseteq Ids(First(others, n))
      PROVE  Cardinality(hits) <= HitCount(others, expected, n)
    <2> DEFINE more == Ids(First(others, n)) \cap expected
    <2>1. IsFiniteSet(more)
        BY <1>2, FS_Subset
    <2>2. hits \in SUBSET more
        BY <1>9
    <2>3. Cardinality(hits) <= Cardinality(more)
        BY <2>1, <2>2, FS_Subset
    <2> QED
        BY <2>3 DEF HitCount
<1> QED
    BY <1>4, <1>6, <1>7, <1>8, <1>9 DEF first

\* A list that finds no less recalls no less.
LEMMA RecallIs ==
    ASSUME NEW ids \in Seq(Chunks), NEW expected \in SUBSET Chunks, NEW k \in Nat
    PROVE  /\ RecallAtK(ids, expected, k) \in 0..Unit
           /\ \A others \in Seq(Chunks) : \A n \in Nat :
                 Ids(First(ids, k)) \subseteq Ids(First(others, n)) =>
                     RecallAtK(ids, expected, k) <= RecallAtK(others, expected, n)
<1> DEFINE b == Cardinality(expected)
<1>1. Unit \in Nat \ {0} /\ b \in Nat /\ (b = 0 <=> expected = {})
    BY EvaluationAssumption, ExpectedCounted
<1>2. CASE expected = {}
    BY <1>1, <1>2 DEF RecallAtK
<1>3. CASE expected # {}
    <2>1. b \in Nat \ {0}
        BY <1>1, <1>3
    <2>2. \A others \in Seq(Chunks) : \A n \in Nat :
              /\ HitCount(others, expected, n) \in 0..b
              /\ RecallAtK(others, expected, n) = (Unit * HitCount(others, expected, n)) \div b
        <3>1. \A others \in Seq(Chunks) : \A n \in Nat :
                  HitCount(others, expected, n) \in Nat /\ HitCount(others, expected, n) <= b
            BY HitsAre
        <3> HIDE DEF b
        <3>2. \A m \in Nat : m <= b => m \in 0..b
            BY <2>1
        <3>3. \A others \in Seq(Chunks) : \A n \in Nat : HitCount(others, expected, n) \in 0..b
            BY <3>1, <3>2, Zenon
        <3> QED
            BY <1>3, <3>3 DEF RecallAtK, b
    <2>3. RecallAtK(ids, expected, k) \in 0..Unit
        <3> DEFINE x == HitCount(ids, expected, k)
        <3>1. x \in 0..b /\ RecallAtK(ids, expected, k) = (Unit * x) \div b
            BY <2>2
        <3>2. 0 \in 0..x
            BY <2>1, <3>1
        <3> HIDE DEF x, b
        <3> QED
            BY <1>1, <2>1, <3>1, <3>2, Shares
    <2>4. ASSUME NEW others \in Seq(Chunks), NEW n \in Nat, Ids(First(ids, k)) \subseteq Ids(First(others, n))
          PROVE  RecallAtK(ids, expected, k) <= RecallAtK(others, expected, n)
        <3> DEFINE y == HitCount(ids, expected, k)
                   x == HitCount(others, expected, n)
        <3>1. /\ y \in 0..b /\ RecallAtK(ids, expected, k) = (Unit * y) \div b
              /\ x \in 0..b /\ RecallAtK(others, expected, n) = (Unit * x) \div b
            BY <2>2
        <3>2. y <= x
            BY <2>4, HitsAre
        <3>3. y \in 0..x
            BY <2>1, <3>1, <3>2
        <3> HIDE DEF x, y, b
        <3>4. (Unit * y) \div b <= (Unit * x) \div b
            BY <1>1, <2>1, <3>1, <3>3, Shares
        <3> QED
            BY <3>1, <3>4
    <2> QED
        BY <2>3, <2>4
<1> QED
    BY <1>2, <1>3

\* Of the first k no more are relevant than there are.
LEMMA PrecisionIs ==
    ASSUME NEW ids \in Seq(Chunks), NEW expected \in SUBSET Chunks, NEW k \in Nat
    PROVE  PrecisionAtK(ids, expected, k) \in 0..Unit
<1> DEFINE b == Shorter(k, Len(ids))
           x == HitCount(ids, expected, k)
<1>1. Unit \in Nat \ {0} /\ b \in Nat
    BY EvaluationAssumption DEF Shorter
<1>2. x \in Nat /\ x <= b
    BY HitsAre
<1>3. CASE First(ids, k) = <<>>
    BY <1>1, <1>3 DEF PrecisionAtK
<1>4. CASE First(ids, k) # <<>>
    <2>1. b # 0
        <3> SUFFICES ASSUME b = 0 PROVE FALSE
            OBVIOUS
        <3>1. First(ids, k) \in Seq(Chunks) /\ Len(First(ids, k)) = 0
            BY FirstIs DEF Shorter
        <3> QED
            BY <1>4, <3>1
    <2>2. PrecisionAtK(ids, expected, k) = (Unit * x) \div b
        BY <1>4 DEF PrecisionAtK
    <2>3. x \in 0..b /\ 0 \in 0..x /\ b \in Nat \ {0}
        <3> HIDE DEF b, x
        <3> QED
            BY <1>1, <1>2, <2>1
    <2> HIDE DEF b, x
    <2> QED
        BY <1>1, <2>2, <2>3, Shares
<1> QED
    BY <1>3, <1>4

\* The first relevant rank is 1 or later.
LEMMA RankReciprocal ==
    ASSUME NEW ids \in Seq(Chunks), NEW expected
    PROVE  MeanReciprocalRank(ids, expected) \in 0..Unit
<1> DEFINE ranks == RelevantRanks(ids, expected)
<1>1. Unit \in Nat \ {0} /\ ranks \in SUBSET (Nat \ {0})
    BY EvaluationAssumption DEF RelevantRanks
<1>2. CASE ranks = {}
    BY <1>1, <1>2 DEF MeanReciprocalRank
<1>3. CASE ranks # {}
    <2>1. \E x \in ranks : \A y \in ranks : x <= y
        <3> HIDE DEF ranks
        <3>1. ranks \in SUBSET Nat
            BY <1>1
        <3> QED
            BY <1>3, <3>1, LeastNumber
    <2> DEFINE m == Min(ranks)
    <2>2. m \in ranks
        BY <2>1 DEF Min
    <2>3. MeanReciprocalRank(ids, expected) = Unit \div m
        BY <1>3 DEF MeanReciprocalRank
    <2>4. m \in Nat \ {0}
        BY <1>1, <2>2
    <2> HIDE DEF m
    <2>5. \A n \in Nat \ {0} : Unit \div n \in 0..Unit
        BY <1>1
    <2> QED
        BY <2>3, <2>4, <2>5
<1> QED
    BY <1>2, <1>3

\* The gain of a list without repetitions is at most the ideal one, and this
\* only if it begins with what was expected.
LEMMA NdcgIs ==
    ASSUME NEW ids \in Seq(Chunks), IsInjective(ids), NEW expected \in SUBSET Chunks, NEW k \in KValues
    PROVE  /\ NdcgAtK(ids, expected, k) \in 0..Unit
           /\ NdcgAtK(ids, expected, k) = Unit =>
                 \A i \in 1..Shorter(k, Cardinality(expected)) : ids[i] \in expected
<1> DEFINE first == First(ids, k)
           n == Shorter(Len(ids), k)
           R == RelevantRanks(first, expected)
           m == Shorter(Cardinality(expected), k)
<1>1. Unit \in Nat \ {0} /\ k \in Nat /\ k <= Len(Discount) /\ Len(Discount) \in Nat
    BY EvaluationAssumption, CutOffs
<1>2. IsFiniteSet(expected) /\ Cardinality(expected) \in Nat
    BY ExpectedCounted
<1>3. n \in Nat /\ n <= k /\ n <= Len(ids) /\ Len(ids) \in Nat /\ DOMAIN ids = 1..Len(ids)
    BY <1>1 DEF Shorter
<1>4. /\ m \in Nat /\ m <= k /\ m = Shorter(k, Cardinality(expected))
      /\ Cardinality(expected) <= m \/ k <= m
    BY <1>1, <1>2 DEF Shorter
<1>5. DOMAIN first = 1..n /\ \A i \in 1..n : first[i] = ids[i]
    BY <1>1, FirstIs
<1>6. R = {i \in 1..n : ids[i] \in expected}
    BY <1>5 DEF RelevantRanks
<1> HIDE DEF n, m, first, R
<1>7. R \in SUBSET (1..k) /\ R \in SUBSET (1..Len(Discount)) /\ m \in 0..Len(Discount)
    BY <1>1, <1>3, <1>4, <1>6
<1>8. IsFiniteSet(R) /\ Cardinality(R) \in Nat /\ Cardinality(R) <= k
    <2>1. IsFiniteSet(1..k) /\ Cardinality(1..k) = k
        BY <1>1, FS_Interval
    <2>2. IsFiniteSet(R) /\ Cardinality(R) <= k
        BY <1>7, <2>1, FS_Subset
    <2> QED
        BY <2>2, FS_CardinalityType
<1>9. Cardinality(R) <= Cardinality(expected)
    <2> DEFINE f == [i \in R |-> ids[i]]
    <2>1. f \in [R -> expected]
        BY <1>6
    <2>2. \A i, j \in R : f[i] = f[j] => i = j
        BY <1>3, <1>6 DEF IsInjective
    <2>3. f \in Injection(R, expected)
        <3>1. IsInjective(f)
            BY <2>2 DEF IsInjective
        <3> HIDE DEF f
        <3> QED
            BY <2>1, <3>1 DEF Injection
    <2> QED
        BY <1>2, <2>3, FS_Injection
<1>10. Cardinality(R) <= m
    BY <1>1, <1>2, <1>4, <1>8, <1>9
<1> DEFINE x == Gain(R)
           b == Gain(1..m)
<1>11. /\ x \in Nat /\ b \in Nat /\ x <= b /\ (m # 0 => b > 0)
       /\ x = b => 1..m \subseteq R
    BY <1>7, <1>8, <1>10, BestGain
<1>12. NdcgAtK(ids, expected, k) = IF b = 0 THEN 0 ELSE (Unit * x) \div b
    BY DEF NdcgAtK, m, R, first
<1> HIDE DEF x, b
<1>13. CASE b = 0
    BY <1>1, <1>12, <1>13
<1>14. CASE b # 0
    <2>1. b \in Nat \ {0} /\ x \in 0..b /\ 0 \in 0..x
        BY <1>11, <1>14
    <2>2. (Unit * x) \div b \in 0..Unit /\ ((Unit * x) \div b = Unit => x = b)
        BY <1>1, <2>1, Shares
    <2>3. x = b => \A i \in 1..m : ids[i] \in expected
        BY <1>6, <1>11
    <2> QED
        BY <1>4, <1>12, <1>14, <2>2, <2>3
<1> QED
    BY <1>13, <1>14

\* What comes first without repetitions stays first.
LEMMA DistinctBegins ==
    ASSUME NEW S, NEW first \in Seq(S), NEW second \in Seq(S), IsInjective(first)
    PROVE  /\ Len(first) <= Len(Distinct(first \o second))
           /\ \A i \in 1..Len(first) : Distinct(first \o second)[i] = first[i]
<1> DEFINE list == first \o second
           F == Len(first)
           N == Len(list)
<1>1. /\ list \in Seq(S) /\ F \in Nat /\ N \in Nat /\ F <= N
      /\ DOMAIN first = 1..F /\ \A i \in 1..F : list[i] = first[i]
    OBVIOUS
<1> HIDE DEF list
<1>2. PICK h : Filters(h, S, list, NewTo(S, list)) /\ Distinct(list) = h[N]
    BY <1>1, DistinctFilters
<1> HIDE DEF F, N
<1> DEFINE Agrees(n) == Len(h[n]) = n /\ \A i \in 1..n : h[n][i] = first[i]
           G == {n \in 0..F : Agrees(n)}
<1>3. \A n \in 0..N : h[n] \in Seq(S)
    BY <1>2 DEF Filters, N
<1>4. 0 \in G
    <2>1. h[0] = <<>> /\ Len(h[0]) = 0
        BY <1>2 DEF Filters
    <2> QED
        BY <1>1, <2>1
<1>5. \A n \in 1..F : n - 1 \in G => n \in G
    <2> SUFFICES ASSUME NEW n \in 1..F, n - 1 \in G PROVE n \in G
        OBVIOUS
    <2>1. /\ n \in 0..F /\ n \in 1..N /\ n - 1 \in 0..N
          /\ h[n - 1] \in Seq(S) /\ list[n] = first[n]
        BY <1>1, <1>3
    <2>2. Len(h[n - 1]) = n - 1 /\ \A i \in 1..(n - 1) : h[n - 1][i] = first[i]
        <3>1. Agrees(n - 1)
            <4> HIDE DEF Agrees
            <4> QED
                OBVIOUS
        <3> HIDE DEF G
        <3> QED
            BY <3>1, Zenon
    <2>3. \A i \in 1..(n - 1) : first[i] # first[n]
        <3> HIDE DEF G
        <3>1. \A i \in 1..(n - 1) : i \in DOMAIN first /\ n \in DOMAIN first /\ i # n
            BY <1>1
        <3> QED
            BY <3>1 DEF IsInjective
    <2>4. ~Contains(h[n - 1], list[n])
        BY <2>1, <2>2, <2>3 DEF Contains
    <2>5. NewTo(S, list)[n][h[n - 1]]
        BY <2>1, <2>4 DEF NewTo, N
    <2>6. h[n] = Append(h[n - 1], list[n])
        BY <1>2, <2>1, <2>5 DEF Filters, N
    <2>7. list[n] \in S
        BY <1>1, <2>1 DEF N
    <2>8. Len(h[n]) = n /\ \A i \in 1..n : h[n][i] = first[i]
        BY <2>1, <2>2, <2>6, <2>7
    <2> QED
        BY <2>1, <2>8
<1>6. 0..F \subseteq G
    <2> HIDE DEF G
    <2> QED
        BY <1>1, <1>4, <1>5, UpTo, Zenon
<1>7. Len(h[F]) = F /\ \A i \in 1..F : h[F][i] = first[i]
    BY <1>1, <1>6
<1>8. Len(h[F]) <= Len(h[N]) /\ \A i \in 1..Len(h[F]) : h[N][i] = h[F][i]
    BY <1>1, <1>2, FilterKeeps DEF N
<1> QED
    BY <1>2, <1>7, <1>8 DEF F, list

\* What is in order stays as it is.
LEMMA SortedStays ==
    ASSUME NEW S, NEW list \in Seq(S), NEW key \in [1..Len(list) -> Int],
           \A i, j \in 1..Len(list) : i < j => key[i] >= key[j]
    PROVE  SortedBy(list, key) = list
<1> DEFINE N == Len(list)
           Place(i) == Cardinality({j \in DOMAIN list : key[j] > key[i] \/ (key[j] = key[i] /\ j <= i)})
<1>1. N \in Nat /\ DOMAIN list = 1..N
    OBVIOUS
<1>2. \A i \in 1..N : Place(i) = i
    <2> SUFFICES ASSUME NEW i \in 1..N PROVE Place(i) = i
        OBVIOUS
    <2> DEFINE before == {j \in 1..N : key[j] > key[i] \/ (key[j] = key[i] /\ j <= i)}
    <2>1. \A j \in 1..N : key[j] \in Int
        OBVIOUS
    <2>2. \A j \in 1..N : (key[j] > key[i] \/ (key[j] = key[i] /\ j <= i)) <=> j <= i
        <3> SUFFICES ASSUME NEW j \in 1..N
                     PROVE  (key[j] > key[i] \/ (key[j] = key[i] /\ j <= i)) <=> j <= i
            OBVIOUS
        <3>1. (i < j => key[i] >= key[j]) /\ (j < i => key[j] >= key[i])
            OBVIOUS
        <3> QED
            BY <1>1, <2>1, <3>1
    <2>3. before = 1..i
        BY <1>1, <2>2
    <2>4. Cardinality(1..i) = i
        BY <1>1, FS_Interval
    <2> QED
        BY <1>1, <2>3, <2>4
<1> HIDE DEF Place
<1>3. \A n \in 1..N : (CHOOSE i \in 1..N : Place(i) = n) = n
    BY <1>2
<1>4. SortedBy(list, key) = [n \in 1..N |-> list[CHOOSE i \in 1..N : Place(i) = n]]
    BY <1>1 DEF SortedBy, Place
<1>5. SortedBy(list, key) = [n \in 1..N |-> list[n]]
    BY <1>3, <1>4
<1> QED
    BY <1>1, <1>5

\* A later rank is worth no more.
LEMMA RanksFall ==
    ASSUME NEW x \in Nat, NEW a \in Nat \ {0}, NEW b \in Nat \ {0}, a <= b
    PROVE  x \div a \in Nat /\ x \div b \in Nat /\ x \div a >= x \div b
<1> DEFINE p == x \div a
           q == x \div b
<1>1. /\ p \in Nat /\ x < a * (p + 1)
      /\ q \in Nat /\ b * q <= x
    OBVIOUS
<1> HIDE DEF p, q
<1>2. q * a <= q * b /\ q * a = a * q /\ q * b = b * q /\ a * q \in Nat /\ b * q \in Nat /\ a * (p + 1) \in Nat
    BY <1>1, Products
<1>3. a * q < a * (p + 1)
    BY <1>1, <1>2
<1>4. p + 1 <= q => a * (p + 1) <= a * q
    BY <1>1, Products
<1>5. q <= p
    BY <1>1, <1>2, <1>3, <1>4
<1> QED
    BY <1>1, <1>5 DEF p, q

\* In a list without repetitions a chunk has the reciprocal rank of its place.
LEMMA ReciprocalOnce ==
    ASSUME NEW tags, NEW list \in Seq(Candidate(tags)), IsInjective(IdsOf(list)),
           NEW weight \in Nat, NEW i \in 1..Len(list)
    PROVE  Reciprocal(list[i].id, list, weight) = (weight * Scale) \div (RrfK + i)
<1> DEFINE N == Len(list)
           share == (weight * Scale) \div (RrfK + i)
           portion(n) == Portion(list[i].id, list, weight, n)
<1>1. N \in Nat /\ DOMAIN list = 1..N
    OBVIOUS
<1>2. \A n \in 1..N : portion(n) = IF n = i THEN share ELSE 0
    <2> SUFFICES ASSUME NEW n \in 1..N PROVE list[n].id = list[i].id <=> n = i
        BY DEF Portion
    <2>1. DOMAIN IdsOf(list) = 1..N /\ IdsOf(list)[n] = list[n].id /\ IdsOf(list)[i] = list[i].id
        BY <1>1 DEF IdsOf
    <2> QED
        BY <2>1 DEF IsInjective
<1>3. PICK f : Adds(f, list[i].id, list, weight)
    BY <1>1, ReciprocalIs
<1>4. share \in Nat
    <2>1. weight * Scale \in Nat /\ RrfK + i \in Nat \ {0}
        BY RetrievalAssumption
    <2>2. \A a \in Nat : \A b \in Nat \ {0} : a \div b \in Nat
        OBVIOUS
    <2> QED
        BY <2>1, <2>2
<1>5. /\ \A n \in 0..N : f[n] \in Nat
      /\ f[0] = 0 /\ \A n \in 1..N : f[n] = f[n - 1] + portion(n)
      /\ Reciprocal(list[i].id, list, weight) = f[N]
    BY <1>3 DEF Adds
<1> HIDE DEF share, portion, N
<1> DEFINE G == {n \in 0..N : f[n] = IF n < i THEN 0 ELSE share}
<1>6. 0 \in G
    BY <1>1, <1>5
<1>7. \A n \in 1..N : n - 1 \in G => n \in G
    BY <1>1, <1>2, <1>4, <1>5
<1>8. 0..N \subseteq G
    <2> HIDE DEF G
    <2> QED
        BY <1>1, <1>6, <1>7, UpTo, Zenon
<1>9. i \in 1..N
    BY DEF N
<1>10. f[N] = share
    BY <1>1, <1>8, <1>9
<1> QED
    BY <1>5, <1>10 DEF share

\* Over an empty index fusion is the search by vectors.
LEMMA FuseAlone ==
    ASSUME NEW tags, dense \in Seq(Candidate(tags)), IsInjective(IdsOf(dense)), lexical = <<>>, NEW k \in Nat
    PROVE  Fuse(k) = First(IdsOf(dense), k)
<1> DEFINE ids == IdsOf(dense)
           key == [i \in DOMAIN ids |-> RrfScore(ids[i])]
           x == DenseWeight * Scale
<1>1. dense \o lexical = dense
    OBVIOUS
<1>2. ids \in Seq(Chunks)
    BY HeldIs
<1>3. Len(dense) \in Nat /\ DOMAIN ids = 1..Len(dense) /\ Len(ids) = Len(dense)
      /\ \A i \in 1..Len(dense) : ids[i] = dense[i].id
    BY <1>2 DEF IdsOf
<1>4. Distinct(ids) = ids
    BY <1>2, DistinctSame
<1>5. x \in Nat /\ RrfK \in Nat /\ DenseWeight \in Nat /\ LexicalWeight \in Nat
    BY RetrievalAssumption
<1>6. \A n \in Nat \ {0} : x \div n \in Nat
    <2>1. \A a \in Nat : \A b \in Nat \ {0} : a \div b \in Nat
        OBVIOUS
    <2> QED
        BY <1>5, <2>1
<1> HIDE DEF ids
<1>7. \A i \in 1..Len(ids) : key[i] = x \div (RrfK + i)
    <2> SUFFICES ASSUME NEW i \in 1..Len(dense) PROVE RrfScore(ids[i]) = x \div (RrfK + i)
        BY <1>3
    <2>1. Reciprocal(ids[i], lexical, LexicalWeight) = 0
        <3>1. Len(lexical) = 0 /\ 0 \in Nat
            OBVIOUS
        <3>2. PICK f : Adds(f, ids[i], lexical, LexicalWeight)
            BY <1>5, <3>1, ReciprocalIs
        <3> QED
            BY <3>1, <3>2 DEF Adds
    <2>2. Reciprocal(ids[i], dense, DenseWeight) = x \div (RrfK + i)
        BY <1>3, <1>5, ReciprocalOnce DEF ids
    <2>3. x \div (RrfK + i) \in Nat
        <3> HIDE DEF x
        <3>1. RrfK + i \in Nat \ {0}
            BY <1>5
        <3> QED
            BY <1>6, <3>1
    <2> QED
        BY <2>1, <2>2, <2>3 DEF RrfScore
<1>8. key = [i \in 1..Len(ids) |-> key[i]]
    BY <1>3
<1> HIDE DEF key, x
<1>9. \A i, j \in 1..Len(ids) : i < j => key[i] \in Nat /\ key[j] \in Nat /\ key[i] >= key[j]
    <2> SUFFICES ASSUME NEW i \in 1..Len(ids), NEW j \in 1..Len(ids), i < j
                 PROVE  key[i] \in Nat /\ key[j] \in Nat /\ key[i] >= key[j]
        OBVIOUS
    <2>1. RrfK + i \in Nat \ {0} /\ RrfK + j \in Nat \ {0} /\ RrfK + i <= RrfK + j
        BY <1>3, <1>5
    <2> QED
        BY <1>5, <1>7, <2>1, RanksFall
<1>10. key \in [1..Len(ids) -> Int]
    <2>1. \A i \in 1..Len(ids) : key[i] \in Nat
        <3> SUFFICES ASSUME NEW i \in 1..Len(ids) PROVE x \div (RrfK + i) \in Nat
            BY <1>7
        <3>1. RrfK + i \in Nat \ {0}
            BY <1>3, <1>5
        <3> QED
            BY <1>6, <3>1
    <2> QED
        BY <1>8, <2>1
<1>11. SortedBy(ids, key) = ids
    BY <1>2, <1>9, <1>10, SortedStays
<1>12. Fuse(k) = First(SortedBy(ids, key), k)
    BY <1>1, <1>4 DEF Fuse, ids, key
<1> QED
    BY <1>11, <1>12 DEF ids

\* What a list begins with it finds, and no later.
LEMMA BeginningFound ==
    ASSUME NEW S, NEW short \in Seq(S), NEW long \in Seq(S), Len(short) <= Len(long),
           \A i \in 1..Len(short) : long[i] = short[i], NEW j \in Nat, NEW k \in Nat, j <= k
    PROVE  Ids(First(short, j)) \subseteq Ids(First(long, k))
<1>1. /\ DOMAIN First(short, j) = 1..Shorter(Len(short), j)
      /\ \A i \in 1..Shorter(Len(short), j) : First(short, j)[i] = short[i]
      /\ DOMAIN First(long, k) = 1..Shorter(Len(long), k)
      /\ \A i \in 1..Shorter(Len(long), k) : First(long, k)[i] = long[i]
    BY FirstIs
<1>2. Len(short) \in Nat /\ Len(long) \in Nat
    OBVIOUS
<1>3. \A i \in 1..Shorter(Len(short), j) : i \in 1..Len(short) /\ i \in 1..Shorter(Len(long), k)
    BY <1>2 DEF Shorter
<1>4. \A i \in 1..Shorter(Len(short), j) : First(short, j)[i] = First(long, k)[i]
    BY <1>1, <1>3
<1> QED
    BY <1>1, <1>3, <1>4 DEF Ids

\* Two searches of different kinds, before fusion.
Found == /\ dense \in Seq(Candidate({"dense"})) /\ lexical \in Seq(Candidate(LexicalTags))
         /\ IsInjective(IdsOf(dense)) /\ IsInjective(IdsOf(lexical))

\* Every strategy makes a list without repetitions.
LEMMA RetrievedIs ==
    ASSUME Found, NEW config \in Configs, NEW k \in Nat
    PROVE  Retrieved(config, k) \in Seq(Chunks) /\ IsInjective(Retrieved(config, k))
<1>1. IdsOf(dense) \in Seq(Chunks) /\ IsInjective(IdsOf(dense))
    BY HeldIs DEF Found
<1>2. IdsOf(lexical) \in Seq(Chunks) /\ IsInjective(IdsOf(lexical))
    BY HeldIs DEF Found
<1>3. CASE config = "dense_only"
    <2>1. Retrieved(config, k) = First(IdsOf(dense), k)
        BY <1>3 DEF Retrieved
    <2> QED
        BY <1>1, <2>1, FirstOf
<1>4. CASE config = "bm25_only"
    <2>1. Retrieved(config, k) = First(IdsOf(lexical), k)
        BY <1>4 DEF Retrieved
    <2> QED
        BY <1>2, <2>1, FirstOf
<1>5. CASE config = "dense+bm25_concat"
    <2> DEFINE both == First(IdsOf(dense), k) \o First(IdsOf(lexical), k)
    <2>1. Retrieved(config, k) = First(Distinct(both), k)
        BY <1>5 DEF Retrieved, Concat
    <2>2. both \in Seq(Chunks)
        <3>1. First(IdsOf(dense), k) \in Seq(Chunks) /\ First(IdsOf(lexical), k) \in Seq(Chunks)
            BY <1>1, <1>2, FirstOf
        <3> QED
            BY <3>1
    <2> HIDE DEF both
    <2>3. Distinct(both) \in Seq(Chunks) /\ IsInjective(Distinct(both))
        BY <2>2, DistinctIds
    <2> QED
        BY <2>1, <2>3, FirstOf
<1>6. CASE config = "dense+bm25+rrf"
    <2>1. Retrieved(config, k) = Fuse(k)
        BY <1>6 DEF Retrieved, Rrf
    <2> DEFINE tags == {"dense", "bm25"}
    <2>2. dense \in Seq(Candidate(tags)) /\ lexical \in Seq(Candidate(tags))
        <3>1. {"dense"} \subseteq tags /\ LexicalTags \subseteq tags
            BY DEF LexicalTags
        <3> HIDE DEF tags
        <3> QED
            BY <3>1, MoreTags DEF Found
    <2> HIDE DEF tags
    <2>3. Fuse(k) \in Seq(Chunks) /\ IsInjective(Fuse(k))
        BY <2>2, FuseIs
    <2> QED
        BY <2>1, <2>3
<1> QED
    BY <1>3, <1>4, <1>5, <1>6 DEF Configs

\* Concatenation begins with the search by vectors, and over an empty index
\* the lists with its results are the same.
LEMMA StrategiesAgree ==
    ASSUME Found, NEW k \in Nat
    PROVE  /\ Len(Retrieved("dense_only", k)) <= Len(Retrieved("dense+bm25_concat", k))
           /\ \A i \in 1..Len(Retrieved("dense_only", k)) :
                 Retrieved("dense+bm25_concat", k)[i] = Retrieved("dense_only", k)[i]
           /\ lexical = <<>> =>
                 /\ Retrieved("dense+bm25_concat", k) = Retrieved("dense_only", k)
                 /\ Retrieved("dense+bm25+rrf", k) = Retrieved("dense_only", k)
<1> DEFINE d == First(IdsOf(dense), k)
           b == First(IdsOf(lexical), k)
           all == Distinct(d \o b)
<1>1. /\ Retrieved("dense_only", k) = d /\ Retrieved("dense+bm25_concat", k) = First(all, k)
      /\ Retrieved("dense+bm25+rrf", k) = Fuse(k)
    BY DEF Retrieved, Concat, Rrf
<1>2. d \in Seq(Chunks) /\ IsInjective(d) /\ Len(d) <= k /\ b \in Seq(Chunks)
    <2>1. IdsOf(dense) \in Seq(Chunks) /\ IdsOf(lexical) \in Seq(Chunks)
        BY HeldIs DEF Found
    <2> QED
        BY <2>1, FirstOf DEF Found
<1>3. all \in Seq(Chunks)
    <2>1. d \o b \in Seq(Chunks)
        <3> HIDE DEF d, b
        <3> QED
            BY <1>2
    <2> QED
        BY <2>1, DistinctIds
<1>4. Len(d) <= Len(all) /\ \A i \in 1..Len(d) : all[i] = d[i]
    <2> HIDE DEF d, b
    <2> QED
        BY <1>2, DistinctBegins
<1> HIDE DEF all, d
<1>5. /\ Len(First(all, k)) = Shorter(Len(all), k)
      /\ \A i \in 1..Shorter(Len(all), k) : First(all, k)[i] = all[i]
    BY <1>3, FirstIs
<1>6. Len(d) \in Nat /\ Len(all) \in Nat
    BY <1>2, <1>3
<1>7. Len(d) <= Shorter(Len(all), k)
    BY <1>2, <1>4, <1>6 DEF Shorter
<1>8. Len(d) <= Len(First(all, k)) /\ \A i \in 1..Len(d) : First(all, k)[i] = d[i]
    <2>1. \A i \in 1..Len(d) : i \in 1..Shorter(Len(all), k)
        BY <1>6, <1>7 DEF Shorter
    <2> QED
        BY <1>4, <1>5, <1>7, <2>1
<1>9. ASSUME lexical = <<>> PROVE First(all, k) = d /\ Fuse(k) = d
    <2>1. Fuse(k) = d
        BY <1>9, FuseAlone DEF Found, d
    <2>2. b = <<>>
        <3>1. IdsOf(lexical) = <<>>
            BY <1>9 DEF IdsOf
        <3>2. <<>> \in Seq(Chunks) /\ Len(<<>>) = 0 /\ 0 <= k
            OBVIOUS
        <3> QED
            BY <3>1, <3>2, FirstIs
    <2>3. d \o b = d
        BY <1>2, <2>2
    <2>4. all = d
        BY <1>2, <2>3, DistinctSame DEF all
    <2>5. First(d, k) = d
        BY <1>2, FirstIs
    <2> QED
        BY <2>1, <2>4, <2>5
<1> QED
    BY <1>1, <1>8, <1>9

\* What a report says of one list.
Comparable(ids, expected) ==
    \A k \in KValues :
       /\ RecallAtK(ids, expected, k) \in 0..Unit /\ PrecisionAtK(ids, expected, k) \in 0..Unit
       /\ NdcgAtK(ids, expected, k) \in 0..Unit
       /\ \A j \in KValues : j <= k => RecallAtK(ids, expected, j) <= RecallAtK(ids, expected, k)
       /\ NdcgAtK(ids, expected, k) = Unit =>
             \A i \in 1..Shorter(k, Cardinality(expected)) : ids[i] \in expected

\* The metrics of a list without repetitions are shares, whatever was expected.
LEMMA ListIsComparable ==
    ASSUME NEW ids \in Seq(Chunks), IsInjective(ids), NEW expected \in SUBSET Chunks
    PROVE  Comparable(ids, expected)
<1> SUFFICES ASSUME NEW k \in KValues
             PROVE  /\ RecallAtK(ids, expected, k) \in 0..Unit /\ PrecisionAtK(ids, expected, k) \in 0..Unit
                    /\ \A j \in KValues : j <= k => RecallAtK(ids, expected, j) <= RecallAtK(ids, expected, k)
    BY NdcgIs DEF Comparable
<1>1. \A j \in KValues : j \in Nat
    BY CutOffs
<1>2. RecallAtK(ids, expected, k) \in 0..Unit /\ PrecisionAtK(ids, expected, k) \in 0..Unit
    BY <1>1, RecallIs, PrecisionIs
<1>3. ASSUME NEW j \in KValues, j <= k PROVE RecallAtK(ids, expected, j) <= RecallAtK(ids, expected, k)
    <2>1. j \in Nat /\ k \in Nat /\ Len(ids) <= Len(ids)
        BY <1>1
    <2>2. Ids(First(ids, j)) \subseteq Ids(First(ids, k))
        BY <1>3, <2>1, BeginningFound
    <2> QED
        BY <2>1, <2>2, RecallIs
<1> QED
    BY <1>2, <1>3

\* Before it is searched again, a request holds what one search of each kind
\* returned.
SearchedOnce ==
    /\ stage = "transformed" => dense = <<>> /\ lexical = <<>>
    /\ stage = "searched" => IsInjective(IdsOf(dense)) /\ IsInjective(IdsOf(lexical))

\* What one search leaves is a list without repetitions.
LEMMA KeptOnce ==
    ASSUME NEW by, NEW limit \in Nat, NEW o, o = <<>> \/ o \in Outcomes(by, limit)
    PROVE  <<>> \o Kept(o) = Kept(o) /\ IsInjective(IdsOf(Kept(o)))
<1>1. IsInjective(IdsOf(<<>>)) /\ <<>> \o <<>> = <<>>
    BY DEF IsInjective, IdsOf
<1>2. CASE Kept(o) = <<>>
    BY <1>1, <1>2
<1>3. CASE Kept(o) # <<>>
    <2>1. Kept(o) = o /\ o # <<>> /\ o # Failed
        BY <1>3 DEF Kept
    <2>2. PICK h \in Hits : o = Tagged(First(h, limit), by)
        BY <2>1 DEF Outcomes
    <2> DEFINE list == First(h, limit)
    <2>3. list \in Seq(Chunks) /\ IsInjective(list)
        BY RetrievalAssumption, EvaluationAssumption, FirstOf
    <2> HIDE DEF list
    <2>4. IdsOf(Tagged(list, by)) = [i \in DOMAIN list |-> list[i]]
        BY DEF IdsOf, Tagged
    <2>5. list = [i \in DOMAIN list |-> list[i]]
        BY <2>3
    <2>6. o \in Seq(Candidate({by}))
        BY <2>1, OutcomeIs
    <2>7. <<>> \o o = o
        <3> DEFINE C == Candidate({by})
        <3> HIDE DEF C
        <3>1. o \in Seq(C)
            BY <2>6 DEF C
        <3> QED
            BY <3>1
    <2> QED
        BY <2>1, <2>2, <2>3, <2>4, <2>5, <2>7 DEF list
<1> QED
    BY <1>2, <1>3

\* Of all searches only the first of each kind ends in this stage.
LEMMA SearchedOnceNext ==
    ASSUME SearchedOnce, [StreamNext]_<<vars, streamVars>>
    PROVE  SearchedOnce'
<1>1. Frame /\ Moves
    BY StepIs
<1>2. TopOfDense \in Nat /\ TopOfLexical \in Nat
    BY RetrievalAssumption DEF TopOfDense, TopOfLexical
<1>3. CASE Search /\ stage' = "searched"
    <2>1. SearchBoth \/ SearchOne
        BY <1>3 DEF Search, SearchExpanded, SearchMulti, Go
    <2>2. PICK d, b : /\ Gather(Kept(d), Kept(b)) /\ stage = "transformed"
                      /\ d = <<>> \/ d \in Outcomes("dense", TopOfDense)
                      /\ b = <<>> \/ b \in Outcomes("bm25", TopOfLexical)
        <3>1. CASE SearchBoth
            BY <3>1 DEF SearchBoth, Go
        <3>2. CASE SearchOne
            <4>1. PICK d \in IF settings.dense THEN Outcomes("dense", TopOfDense) ELSE {<<>>},
                       b \in IF settings.lexical THEN Outcomes("bm25", TopOfLexical) ELSE {<<>>} :
                           Failed \notin {d, b} /\ stage = "transformed" /\ Gather(d, b)
                BY <1>3, <3>2 DEF SearchOne, Go, Fail
            <4>2. Kept(d) = d /\ Kept(b) = b
                BY <4>1 DEF Kept
            <4> QED
                BY <4>1, <4>2
        <3> QED
            BY <2>1, <3>1, <3>2
    <2>3. dense = <<>> /\ lexical = <<>>
        BY <2>2 DEF SearchedOnce
    <2>4. dense' = Kept(d) /\ lexical' = Kept(b)
        <3>1. dense' = <<>> \o Kept(d) /\ lexical' = <<>> \o Kept(b)
            BY <2>2, <2>3 DEF Gather
        <3>2. <<>> \o Kept(d) = Kept(d) /\ <<>> \o Kept(b) = Kept(b)
            BY <1>2, <2>2, KeptOnce
        <3> QED
            BY <3>1, <3>2
    <2>5. IsInjective(IdsOf(Kept(d))) /\ IsInjective(IdsOf(Kept(b)))
        BY <1>2, <2>2, KeptOnce
    <2>6. IsInjective(IdsOf(dense')) /\ IsInjective(IdsOf(lexical'))
        BY <2>4, <2>5
    <2>7. IsInjective(IdsOf(dense))' /\ IsInjective(IdsOf(lexical))'
        BY <2>6 DEF IdsOf, IsInjective
    <2>8. stage' # "transformed"
        BY <1>3
    <2> QED
        BY <2>7, <2>8 DEF SearchedOnce
<1>4. CASE Search /\ stage' # "searched"
    <2>1. stage' # "transformed"
        <3>1. SearchBoth \/ SearchExpanded \/ SearchMulti => stage' \in {"searched", "expanded", "gathered"}
            BY Zenon DEF SearchBoth, SearchExpanded, SearchMulti, Go
        <3>2. SearchOne => stage' \in {"searched", "failed"}
            BY Zenon DEF SearchOne, Go, Fail
        <3> QED
            BY <1>4, <3>1, <3>2 DEF Search
    <2> QED
        BY <1>4, <2>1 DEF SearchedOnce
<1>5. CASE ~Search
    <2>1. dense' = dense /\ lexical' = lexical
        BY <1>1, <1>5 DEF Frame
    <2>2. stage' \in {"transformed", "searched"} => stage = stage'
        BY <1>1, <1>5 DEF Moves
    <2>3. IdsOf(dense)' = IdsOf(dense) /\ IdsOf(lexical)' = IdsOf(lexical)
        BY <2>1 DEF IdsOf
    <2> QED
        BY <2>1, <2>2, <2>3 DEF SearchedOnce, IsInjective
<1> QED
    BY <1>3, <1>4, <1>5

\* The report of a request that has searched once compares like with like.
LEMMA ReportIsComparable ==
    ASSUME Shape, SearchedOnce
    PROVE  AblationIsComparable
<1> SUFFICES ASSUME stage = "searched", NEW expected \in SUBSET Chunks
             PROVE  LET report == Report(expected)
                        Of(config) == report[config]
                    IN  /\ \A config \in Configs, k \in KValues :
                              /\ Of(config).recall[k] <= Unit /\ Of(config).precision[k] <= Unit
                              /\ Of(config).ndcg[k] <= Unit /\ Of(config).rr <= Unit
                              /\ \A j \in KValues : j <= k => Of(config).recall[j] <= Of(config).recall[k]
                              /\ Of(config).ndcg[k] = Unit =>
                                    \A i \in 1..Shorter(k, Cardinality(expected)) :
                                       Retrieved(config, Max(KValues))[i] \in expected
                              /\ Of("dense+bm25_concat").recall[k] >= Of("dense_only").recall[k]
                        /\ lexical = <<>> =>
                              /\ Of("dense+bm25_concat") = Of("dense_only")
                              /\ Of("dense+bm25+rrf") = Of("dense_only")
    BY DEF AblationIsComparable
<1> DEFINE K == Max(KValues)
           list(config) == Retrieved(config, K)
           result(config) == Report(expected)[config]
           cd == "dense+bm25_concat"
           do == "dense_only"
<1>1. Found
    BY DEF Found, Shape, SearchedOnce
<1>2. Unit \in Nat /\ K \in Nat /\ \A k \in KValues : k \in Nat /\ k <= K
    BY EvaluationAssumption, CutOffs
<1> HIDE DEF K
<1>3. \A config \in Configs : list(config) \in Seq(Chunks) /\ IsInjective(list(config))
    BY <1>1, <1>2, RetrievedIs
<1>4. \A config \in Configs : result(config) = Result(list(config), expected)
    BY DEF Report, K
<1> HIDE DEF list, result
<1>5. \A config \in Configs : \A k \in KValues :
          /\ result(config).recall[k] = RecallAtK(list(config), expected, k)
          /\ result(config).precision[k] = PrecisionAtK(list(config), expected, k)
          /\ result(config).ndcg[k] = NdcgAtK(list(config), expected, k)
          /\ result(config).rr = MeanReciprocalRank(list(config), expected)
    BY <1>4 DEF Result
<1>6. \A config \in Configs : Comparable(list(config), expected) /\ MeanReciprocalRank(list(config), expected) \in 0..Unit
    BY <1>3, ListIsComparable, RankReciprocal
<1>7. ASSUME NEW config \in Configs, NEW k \in KValues
      PROVE  /\ result(config).recall[k] <= Unit /\ result(config).precision[k] <= Unit
             /\ result(config).ndcg[k] <= Unit /\ result(config).rr <= Unit
             /\ \A j \in KValues : j <= k => result(config).recall[j] <= result(config).recall[k]
             /\ result(config).ndcg[k] = Unit =>
                   \A i \in 1..Shorter(k, Cardinality(expected)) : list(config)[i] \in expected
    <2>1. \A x \in 0..Unit : x <= Unit
        BY <1>2
    <2> QED
        BY <1>5, <1>6, <2>1, Zenon DEF Comparable
<1>8. cd \in Configs /\ do \in Configs /\ "dense+bm25+rrf" \in Configs
    BY DEF Configs
<1>9. ASSUME NEW k \in KValues PROVE result(cd).recall[k] >= result(do).recall[k]
    <2>1. Len(list(do)) <= Len(list(cd)) /\ \A i \in 1..Len(list(do)) : list(cd)[i] = list(do)[i]
        BY <1>1, <1>2, StrategiesAgree DEF list
    <2>2. k \in Nat /\ k <= k /\ list(do) \in Seq(Chunks) /\ list(cd) \in Seq(Chunks)
        BY <1>2, <1>3, <1>8
    <2>3. Ids(First(list(do), k)) \subseteq Ids(First(list(cd), k))
        BY <2>1, <2>2, BeginningFound
    <2>4. RecallAtK(list(do), expected, k) <= RecallAtK(list(cd), expected, k)
        BY <2>2, <2>3, RecallIs
    <2>5. RecallAtK(list(do), expected, k) \in 0..Unit /\ RecallAtK(list(cd), expected, k) \in 0..Unit
        BY <2>2, RecallIs
    <2> QED
        BY <1>2, <1>5, <1>8, <2>4, <2>5
<1>10. ASSUME lexical = <<>> PROVE result(cd) = result(do) /\ result("dense+bm25+rrf") = result(do)
    <2>1. list(cd) = list(do) /\ list("dense+bm25+rrf") = list(do)
        BY <1>1, <1>2, <1>10, StrategiesAgree DEF list
    <2> QED
        BY <1>4, <1>8, <2>1
<1> QED
    BY <1>7, <1>9, <1>10 DEF list, result, K

\* The ablation is a comparison, whatever the searches return and whatever was
\* expected: evaluate_dataset and run_ablation.
THEOREM AblationsAreComparable == StreamSpec => []AblationIsComparable
<1>1. StreamInit => SearchedOnce
    BY DEF StreamInit, AnswerInit, Init, SearchedOnce
<1>2. SearchedOnce /\ [StreamNext]_<<vars, streamVars>> => SearchedOnce'
    BY SearchedOnceNext
<1>3. Shape /\ SearchedOnce => AblationIsComparable
    BY ReportIsComparable
<1> QED
    BY ShapeAlways, <1>1, <1>2, <1>3, PTL DEF StreamSpec
=============================================================================
