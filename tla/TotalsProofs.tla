---------------------------- MODULE TotalsProofs ----------------------------
(***************************************************************************)
(* What the loops over the rows of a file rely on: the total of a table is *)
(* a natural number, an empty table totals 0, one more row adds its        *)
(* quantity, and a changed row adds the difference.  A total is the number *)
(* of units of all rows, so facts about finite sets replace an induction   *)
(* over the table.                                                         *)
(***************************************************************************)
EXTENDS Totals, Integers, FiniteSetTheorems, FunctionTheorems, TLAPS

\* The units of one row of n units are n in number.
LEMMA RowUnits ==
  ASSUME NEW x, NEW n \in Nat
  PROVE  /\ IsFiniteSet({x} \X (1 .. n))
         /\ Cardinality({x} \X (1 .. n)) = n
<1>1. IsFiniteSet({x}) /\ Cardinality({x}) = 1
  BY FS_Singleton
<1>2. IsFiniteSet(1 .. n) /\ Cardinality(1 .. n) = n
  BY FS_Interval
<1>3. /\ IsFiniteSet({x} \X (1 .. n))
      /\ Cardinality({x} \X (1 .. n)) = Cardinality({x}) * Cardinality(1 .. n)
  BY <1>1, <1>2, FS_Product
<1> QED
  BY <1>1, <1>2, <1>3

\* A finite table has finitely many units, so its total is a number.
LEMMA TotalType ==
  ASSUME NEW S, IsFiniteSet(S), NEW f \in [S -> Nat]
  PROVE  IsFiniteSet(Units(f)) /\ Total(f) \in Nat
<1> DEFINE Part(x) == {x} \X (1 .. f[x])
           Parts == {Part(x) : x \in S}
           g == [x \in S |-> Part(x)]
<1>1. g \in Surjection(S, Parts)
  BY DEF Surjection
<1>2. IsFiniteSet(Parts)
  <2> HIDE DEF g, Parts
  <2> QED
    BY <1>1, FS_Surjection
<1>3. \A p \in Parts : IsFiniteSet(p)
  <2>1. ASSUME NEW x \in S PROVE IsFiniteSet({x} \X (1 .. f[x]))
    BY RowUnits
  <2> QED
    BY <2>1
<1>4. IsFiniteSet(UNION Parts)
  <2> HIDE DEF Parts
  <2> QED
    BY <1>2, <1>3, FS_UNION
<1>5. Units(f) = UNION Parts
  BY DEF Units
<1> QED
  BY <1>4, <1>5, FS_CardinalityType DEF Total

\* A table without a unit, an empty one for instance, totals 0.
LEMMA TotalZero ==
  ASSUME NEW S, NEW f \in [S -> Nat], \A x \in S : f[x] = 0
  PROVE  Total(f) = 0
<1>1. Units(f) = {}
  BY DEF Units
<1> QED
  BY <1>1, FS_EmptySet DEF Total

\* Rows without a unit do not count.
LEMMA TotalRestrict ==
  ASSUME NEW S, NEW R, R \subseteq S, NEW f \in [S -> Nat], NEW g \in [R -> Nat],
         \A x \in R : f[x] = g[x], \A x \in S \ R : f[x] = 0
  PROVE  Total(f) = Total(g)
<1>1. ASSUME NEW u
      PROVE  (\E x \in S : u \in {x} \X (1 .. f[x])) <=> (\E x \in R : u \in {x} \X (1 .. g[x]))
  <2>1. ASSUME NEW x \in S, u \in {x} \X (1 .. f[x]) PROVE x \in R /\ u \in {x} \X (1 .. g[x])
    BY <2>1
  <2>2. ASSUME NEW x \in R, u \in {x} \X (1 .. g[x]) PROVE x \in S /\ u \in {x} \X (1 .. f[x])
    BY <2>2
  <2> QED
    BY <2>1, <2>2
<1>2. Units(f) = Units(g)
  <2>1. ASSUME NEW u PROVE u \in Units(f) <=> \E x \in S : u \in {x} \X (1 .. f[x])
    BY DEF Units
  <2>2. ASSUME NEW u PROVE u \in Units(g) <=> \E x \in R : u \in {x} \X (1 .. g[x])
    BY DEF Units
  <2>3. ASSUME NEW u PROVE u \in Units(f) <=> u \in Units(g)
    BY <1>1, <2>1, <2>2
  <2> QED
    BY <2>3
<1> QED
  BY <1>2 DEF Total

\* A table of one row totals the quantity of that row.
LEMMA TotalSingle ==
  ASSUME NEW x, NEW f \in [{x} -> Nat]
  PROVE  Total(f) = f[x]
<1>1. Units(f) = {x} \X (1 .. f[x])
  BY DEF Units
<1>2. f[x] \in Nat
  OBVIOUS
<1> QED
  BY <1>1, <1>2, RowUnits DEF Total

\* A table with one more row x totals what it did, plus the quantity of x.
LEMMA TotalInsert ==
  ASSUME NEW S, IsFiniteSet(S), NEW x, x \notin S,
         NEW f \in [S -> Nat], NEW g \in [S \cup {x} -> Nat],
         \A y \in S : g[y] = f[y]
  PROVE  Total(g) = Total(f) + g[x]
<1> DEFINE New == {x} \X (1 .. g[x])
<1>1. IsFiniteSet(Units(f)) /\ Total(f) \in Nat
  BY TotalType
<1>2. IsFiniteSet(New) /\ Cardinality(New) = g[x]
  BY RowUnits
<1>3. Units(g) = Units(f) \cup New
  <2>1. ASSUME NEW u PROVE u \in Units(g) <=> \E y \in S \cup {x} : u \in {y} \X (1 .. g[y])
    BY DEF Units
  <2>2. ASSUME NEW u PROVE u \in Units(f) <=> \E y \in S : u \in {y} \X (1 .. f[y])
    BY DEF Units
  <2>3. ASSUME NEW u PROVE u \in Units(g) <=> u \in Units(f) \cup New
    BY <2>1, <2>2
  <2> QED
    BY <2>3
<1>4. Units(f) \cap New = {}
  BY DEF Units
<1>5. Cardinality(Units(f) \cap New) = 0
  BY <1>4, FS_EmptySet
<1>6. Cardinality(Units(f) \cup New)
        = Cardinality(Units(f)) + Cardinality(New) - Cardinality(Units(f) \cap New)
  <2> HIDE DEF New
  <2> QED
    BY <1>1, <1>2, FS_Union
<1> QED
  BY <1>1, <1>2, <1>3, <1>5, <1>6 DEF Total

\* The same for a file of rows: appending a row adds its quantity.
LEMMA QtyInsert ==
  ASSUME NEW rows, IsFiniteSet(rows), \A a \in rows : a.qty \in Nat,
         NEW row, row \notin rows, row.qty \in Nat
  PROVE  Total(QtyOf(rows \cup {row})) = Total(QtyOf(rows)) + row.qty
<1> DEFINE f == QtyOf(rows)
           g == QtyOf(rows \cup {row})
<1>1. f \in [rows -> Nat] /\ g \in [rows \cup {row} -> Nat]
  BY DEF QtyOf
<1>2. (\A y \in rows : g[y] = f[y]) /\ g[row] = row.qty
  BY DEF QtyOf
<1>3. Total(g) = Total(f) + g[row]
  <2>1. IsFiniteSet(rows) /\ row \notin rows
    OBVIOUS
  <2> HIDE DEF f, g
  <2> QED
    BY ONLY <1>1, <1>2, <2>1, TotalInsert
<1> QED
  BY <1>2, <1>3

\* Changing one row changes the total by what that row gains.
LEMMA TotalUpdate ==
  ASSUME NEW S, IsFiniteSet(S), NEW x \in S,
         NEW f \in [S -> Nat], NEW g \in [S -> Nat],
         \A y \in S \ {x} : g[y] = f[y]
  PROVE  Total(g) = Total(f) - f[x] + g[x]
<1> DEFINE R == S \ {x}
           h == [y \in R |-> f[y]]
<1>1. IsFiniteSet(R) /\ x \notin R /\ S = R \cup {x}
  BY FS_RemoveElement
<1>2. h \in [R -> Nat] /\ (\A y \in R : f[y] = h[y]) /\ (\A y \in R : g[y] = h[y])
  OBVIOUS
<1>3. f \in [R \cup {x} -> Nat] /\ g \in [R \cup {x} -> Nat]
  BY <1>1
<1> HIDE DEF R, h
<1>4. Total(f) = Total(h) + f[x]
  BY ONLY <1>1, <1>2, <1>3, TotalInsert
<1>5. Total(g) = Total(h) + g[x]
  BY ONLY <1>1, <1>2, <1>3, TotalInsert
<1>6. Total(h) \in Nat /\ f[x] \in Nat /\ g[x] \in Nat
  BY <1>1, <1>2, TotalType
<1> QED
  BY <1>4, <1>5, <1>6

\* Two sets between which a function pairs the elements off are equally large.
LEMMA PairedOff ==
  ASSUME NEW S, IsFiniteSet(S), NEW T, NEW F \in [S -> T],
         \A u, v \in S : F[u] = F[v] => u = v,
         \A w \in T : \E u \in S : F[u] = w
  PROVE  IsFiniteSet(T) /\ Cardinality(T) = Cardinality(S)
<1>1. F \in Injection(S, T) /\ F \in Surjection(S, T)
  BY Fun_IsInj, Fun_IsSurj
<1> QED
  BY <1>1, FS_Surjection

\* Where two tables add up to a third row by row, so do their totals.
LEMMA TotalPlus ==
  ASSUME NEW S, IsFiniteSet(S), NEW f \in [S -> Nat], NEW g \in [S -> Nat],
         NEW h \in [S -> Nat], \A x \in S : h[x] = f[x] + g[x]
  PROVE  Total(h) = Total(f) + Total(g)
<1> DEFINE Above == Units(h) \ Units(f)
           F == [u \in Units(g) |-> <<u[1], f[u[1]] + u[2]>>]
<1>1. /\ IsFiniteSet(Units(h)) /\ Total(h) \in Nat
      /\ IsFiniteSet(Units(f)) /\ Total(f) \in Nat
      /\ IsFiniteSet(Units(g)) /\ Total(g) \in Nat
  BY TotalType
<1>2. ASSUME NEW u \in Units(g)
      PROVE  /\ u[1] \in S /\ u[2] \in 1 .. g[u[1]]
             /\ u = <<u[1], u[2]>>
             /\ <<u[1], f[u[1]] + u[2]>> \in Above
  <2>1. PICK x \in S : u \in {x} \X (1 .. g[x])
    BY DEF Units
  <2>2. u[1] = x /\ u[2] \in 1 .. g[x] /\ u = <<x, u[2]>>
    BY <2>1
  <2>3. f[x] + u[2] \in 1 .. h[x] /\ f[x] + u[2] \notin 1 .. f[x]
    <3>1. f[x] \in Nat /\ g[x] \in Nat /\ h[x] = f[x] + g[x]
      OBVIOUS
    <3> QED
      BY <2>2, <3>1
  <2>4. <<x, f[x] + u[2]>> \in Units(h)
    BY <2>3 DEF Units
  <2>5. <<x, f[x] + u[2]>> \notin Units(f)
    BY <2>3 DEF Units
  <2> QED
    BY <2>2, <2>4, <2>5
<1>3. F \in [Units(g) -> Above]
  <2> HIDE DEF Above
  <2> QED
    BY <1>2
<1>4. \A u, v \in Units(g) : F[u] = F[v] => u = v
  <2> SUFFICES ASSUME NEW u \in Units(g), NEW v \in Units(g), F[u] = F[v]
               PROVE  u = v
    OBVIOUS
  <2>1. u[1] = v[1] /\ f[u[1]] + u[2] = f[v[1]] + v[2]
    OBVIOUS
  <2>2. f[u[1]] \in Nat /\ u[2] \in Nat /\ v[2] \in Nat
    BY <1>2
  <2>3. f[u[1]] = f[v[1]]
    BY <2>1
  <2>4. \A a, c, d \in Nat : a + c = a + d => c = d
    OBVIOUS
  <2>5. u[2] = v[2]
    BY ONLY <2>1, <2>2, <2>3, <2>4
  <2> QED
    BY <1>2, <2>1, <2>5
<1>5. \A w \in Above : \E u \in Units(g) : F[u] = w
  <2> SUFFICES ASSUME NEW w \in Above PROVE \E u \in Units(g) : F[u] = w
    OBVIOUS
  <2>1. PICK x \in S : w \in {x} \X (1 .. h[x])
    BY DEF Units
  <2>2. w = <<x, w[2]>> /\ w[2] \in 1 .. h[x]
    BY <2>1
  <2>3. w \notin {x} \X (1 .. f[x])
    BY DEF Units
  <2>4. w[2] \notin 1 .. f[x]
    BY <2>2, <2>3
  <2>5. w[2] - f[x] \in 1 .. g[x] /\ f[x] + (w[2] - f[x]) = w[2]
    <3>1. f[x] \in Nat /\ g[x] \in Nat /\ h[x] = f[x] + g[x]
      OBVIOUS
    <3> QED
      BY <2>2, <2>4, <3>1
  <2>6. <<x, w[2] - f[x]>> \in Units(g)
    BY <2>5 DEF Units
  <2> QED
    BY <2>2, <2>5, <2>6
<1>6. Cardinality(Above) = Cardinality(Units(g))
  <2> HIDE DEF F, Above
  <2> QED
    BY <1>1, <1>3, <1>4, <1>5, PairedOff
<1>7. Cardinality(Above) = Total(h) - Cardinality(Units(h) \cap Units(f))
  BY <1>1, FS_Difference DEF Total
<1>8. Units(h) \cap Units(f) = Units(f)
  <2>1. ASSUME NEW x \in S, NEW u \in {x} \X (1 .. f[x])
        PROVE  u \in {x} \X (1 .. h[x])
    <3>1. f[x] \in Nat /\ g[x] \in Nat /\ h[x] = f[x] + g[x]
      OBVIOUS
    <3>2. 1 .. f[x] \subseteq 1 .. h[x]
      BY <3>1
    <3> QED
      BY <3>2
  <2> QED
    BY <2>1 DEF Units
<1>9. Cardinality(Above) = Total(h) - Total(f) /\ Cardinality(Above) = Total(g)
  BY <1>6, <1>7, <1>8 DEF Total
<1> QED
  BY ONLY <1>1, <1>9

\* Where two tables fit together into a third row by row, so do their totals.
LEMMA TotalFits ==
  ASSUME NEW S, IsFiniteSet(S), NEW f \in [S -> Nat], NEW g \in [S -> Nat],
         NEW h \in [S -> Nat], \A x \in S : f[x] + g[x] <= h[x]
  PROVE  Total(f) + Total(g) <= Total(h)
<1>1. PICK k : k = [x \in S |-> f[x] + g[x]]
  OBVIOUS
<1>2. PICK rest : rest = [x \in S |-> h[x] - (f[x] + g[x])]
  OBVIOUS
<1>3. /\ k \in [S -> Nat] /\ \A x \in S : k[x] = f[x] + g[x]
      /\ rest \in [S -> Nat] /\ \A x \in S : h[x] = k[x] + rest[x]
  <2>1. ASSUME NEW x \in S
        PROVE  /\ f[x] + g[x] \in Nat /\ h[x] - (f[x] + g[x]) \in Nat
               /\ h[x] = (f[x] + g[x]) + (h[x] - (f[x] + g[x]))
    <3>1. f[x] \in Nat /\ g[x] \in Nat /\ h[x] \in Nat /\ f[x] + g[x] <= h[x]
      OBVIOUS
    <3> QED
      BY ONLY <3>1
  <2> QED
    BY <1>1, <1>2, <2>1
<1>4. Total(k) = Total(f) + Total(g) /\ Total(h) = Total(k) + Total(rest)
  BY <1>3, TotalPlus
<1>5. Total(k) \in Nat /\ Total(rest) \in Nat
  BY <1>3, TotalType
<1> QED
  BY <1>4, <1>5

\* A table in two parts totals what the parts do together.
LEMMA TotalSplit ==
  ASSUME NEW S, IsFiniteSet(S), NEW R, R \subseteq S, NEW f \in [S -> Nat],
         NEW in \in [R -> Nat], \A x \in R : in[x] = f[x],
         NEW out \in [S \ R -> Nat], \A x \in S \ R : out[x] = f[x]
  PROVE  Total(f) = Total(in) + Total(out)
<1>1. PICK a : a = [x \in S |-> IF x \in R THEN f[x] ELSE 0]
  OBVIOUS
<1>2. PICK b : b = [x \in S |-> IF x \in R THEN 0 ELSE f[x]]
  OBVIOUS
<1>3. a \in [S -> Nat] /\ b \in [S -> Nat] /\ \A x \in S : f[x] = a[x] + b[x]
  BY <1>1, <1>2
<1>4. Total(f) = Total(a) + Total(b)
  BY <1>3, TotalPlus
<1>5. Total(a) = Total(in)
  <2>1. /\ a \in [S -> Nat] /\ in \in [R -> Nat] /\ R \subseteq S
        /\ \A x \in R : a[x] = in[x]
        /\ \A x \in S \ R : a[x] = 0
    BY <1>1, <1>3
  <2> QED
    BY ONLY <2>1, TotalRestrict
<1>6. Total(b) = Total(out)
  <2>1. PICK O : O = S \ R
    OBVIOUS
  <2>2. /\ b \in [S -> Nat] /\ out \in [O -> Nat] /\ O \subseteq S
        /\ \A x \in O : b[x] = out[x]
        /\ \A x \in S \ O : b[x] = 0
    BY <1>2, <1>3, <2>1
  <2> QED
    BY ONLY <2>2, TotalRestrict
<1> QED
  BY <1>4, <1>5, <1>6

\* The rows of a table that one owner has.
Share(f, owner, t) == [x \in {y \in DOMAIN f : owner[y] = t} |-> f[x]]

\* A share of a finite table is one.
LEMMA ShareType ==
  ASSUME NEW S, IsFiniteSet(S), NEW f \in [S -> Nat], NEW owner, NEW t
  PROVE  Total(Share(f, owner, t)) \in Nat
<1>1. PICK G : G = {y \in S : owner[y] = t}
  OBVIOUS
<1>2. PICK fG : fG = Share(f, owner, t)
  OBVIOUS
<1>3. IsFiniteSet(G) /\ fG \in [G -> Nat]
  BY <1>1, <1>2, FS_Subset DEF Share
<1>4. Total(fG) \in Nat
  BY ONLY <1>3, TotalType
<1> QED
  BY <1>2, <1>4

\* If every row of a table has an owner, the table totals what its owners'
\* rows total together.
LEMMA TotalByOwner ==
  ASSUME NEW S, IsFiniteSet(S), NEW T,
         NEW owner \in [S -> T], NEW f \in [S -> Nat], NEW g \in [T -> Nat],
         \A t \in T : g[t] = Total(Share(f, owner, t))
  PROVE  Total(f) = Total(g)
<1> DEFINE Group(t) == {y \in S : owner[y] = t}
           Part(t) == Units([x \in Group(t) |-> f[x]])
           b == [t \in T |-> CHOOSE h \in Bijection(Part(t), 1 .. g[t]) : TRUE]
           F == [u \in Units(f) |-> <<owner[u[1]], b[owner[u[1]]][u]>>]
<1>1. ASSUME NEW t \in T
      PROVE  b[t] \in Bijection(Part(t), 1 .. g[t])
  <2>1. PICK G : G = Group(t)
    OBVIOUS
  <2>2. PICK fG : fG = [x \in G |-> f[x]]
    OBVIOUS
  <2>3. IsFiniteSet(G) /\ fG \in [G -> Nat] /\ Units(fG) = Part(t) /\ Total(fG) = g[t]
    BY <2>1, <2>2, FS_Subset DEF Share
  <2>4. IsFiniteSet(Part(t)) /\ Cardinality(Part(t)) = g[t]
    BY ONLY <2>3, TotalType DEF Total
  <2> DEFINE P == Part(t)
  <2>5. P = Part(t)
    OBVIOUS
  <2> HIDE DEF P
  <2>6. PICK e \in Bijection(1 .. g[t], P) : TRUE
    <3>1. ExistsBijection(1 .. g[t], P)
      BY ONLY <2>4, <2>5, FS_CardinalityType
    <3> QED
      BY <3>1, Fun_ExistsBij
  <2>7. PICK d \in Bijection(P, 1 .. g[t]) : TRUE
    <3> DEFINE N == 1 .. g[t]
    <3>1. e \in Bijection(N, P)
      BY <2>6
    <3> HIDE DEF N
    <3>2. \E d \in Bijection(P, N) : TRUE
      BY ONLY <3>1, Fun_BijInverse
    <3> QED
      BY <3>2 DEF N
  <2>8. Bijection(Part(t), 1 .. g[t]) # {}
    BY <2>5, <2>7
  <2> HIDE DEF Part
  <2> QED
    BY <2>8
<1>2. ASSUME NEW t \in T
      PROVE  /\ b[t] \in [Part(t) -> 1 .. g[t]]
             /\ \A u, v \in Part(t) : b[t][u] = b[t][v] => u = v
             /\ \A n \in 1 .. g[t] : \E u \in Part(t) : b[t][u] = n
  <2> HIDE DEF b, Part
  <2>1. PICK h : h = b[t]
    OBVIOUS
  <2>2. PICK P : P = Part(t)
    OBVIOUS
  <2>3. PICK N : N = 1 .. g[t]
    OBVIOUS
  <2>4. h \in Bijection(P, N)
    BY <1>1, <2>1, <2>2, <2>3
  <2>5. /\ h \in [P -> N]
        /\ \A u, v \in P : h[u] = h[v] => u = v
        /\ \A n \in N : \E u \in P : h[u] = n
    <3>1. h \in [P -> N]
      BY ONLY <2>4, Fun_BijectionProperties
    <3>2. \A u, v \in P : h[u] = h[v] => u = v
      BY ONLY <2>4, Fun_BijectionProperties
    <3>3. \A n \in N : \E u \in P : h[u] = n
      BY ONLY <2>4, Fun_BijectionProperties
    <3> QED
      BY <3>1, <3>2, <3>3
  <2> QED
    BY <2>1, <2>2, <2>3, <2>5
<1>3. ASSUME NEW u \in Units(f)
      PROVE  u[1] \in S /\ owner[u[1]] \in T /\ u \in Part(owner[u[1]])
  <2>1. PICK x \in S : u \in {x} \X (1 .. f[x])
    BY DEF Units
  <2>2. u[1] = x
    BY <2>1
  <2> QED
    BY <2>1, <2>2 DEF Units
<1>4. ASSUME NEW t \in T, NEW u \in Part(t)
      PROVE  u \in Units(f) /\ owner[u[1]] = t
  <2>1. PICK x \in Group(t) : u \in {x} \X (1 .. f[x])
    BY DEF Units
  <2>2. u[1] = x
    BY <2>1
  <2> QED
    BY <2>1, <2>2 DEF Units
<1> HIDE DEF b, Part
<1>5. F \in [Units(f) -> Units(g)]
  <2>1. ASSUME NEW u \in Units(f)
        PROVE  <<owner[u[1]], b[owner[u[1]]][u]>> \in Units(g)
    <3>1. b[owner[u[1]]][u] \in 1 .. g[owner[u[1]]]
      BY <1>2, <1>3
    <3> QED
      BY <1>3, <3>1 DEF Units
  <2> QED
    BY <2>1
<1>6. \A u, v \in Units(f) : F[u] = F[v] => u = v
  <2> SUFFICES ASSUME NEW u \in Units(f), NEW v \in Units(f), F[u] = F[v]
               PROVE  u = v
    OBVIOUS
  <2>1. owner[u[1]] = owner[v[1]] /\ b[owner[u[1]]][u] = b[owner[v[1]]][v]
    OBVIOUS
  <2> QED
    BY <1>2, <1>3, <2>1
<1>7. \A w \in Units(g) : \E u \in Units(f) : F[u] = w
  <2> SUFFICES ASSUME NEW w \in Units(g) PROVE \E u \in Units(f) : F[u] = w
    OBVIOUS
  <2>1. PICK t \in T : w \in {t} \X (1 .. g[t])
    BY DEF Units
  <2>2. w = <<t, w[2]>> /\ w[2] \in 1 .. g[t]
    BY <2>1
  <2>3. PICK u \in Part(t) : b[t][u] = w[2]
    BY <1>2, <2>2
  <2>4. u \in Units(f) /\ owner[u[1]] = t
    BY <1>4, <2>3
  <2> QED
    BY <2>2, <2>3, <2>4
<1>8. IsFiniteSet(Units(f))
  BY TotalType
<1> HIDE DEF F
<1> QED
  BY <1>5, <1>6, <1>7, <1>8, PairedOff DEF Total

\* So if no owner's rows total more than the owner's own quantity, the table
\* totals no more than the owners do.
LEMMA TotalGrouped ==
  ASSUME NEW S, IsFiniteSet(S), NEW T, IsFiniteSet(T),
         NEW owner \in [S -> T], NEW f \in [S -> Nat], NEW g \in [T -> Nat],
         \A t \in T : Total([x \in {y \in S : owner[y] = t} |-> f[x]]) <= g[t]
  PROVE  Total(f) <= Total(g)
<1>1. PICK h : h = [t \in T |-> Total(Share(f, owner, t))]
  OBVIOUS
<1>2. ASSUME NEW t \in T
      PROVE  Total(Share(f, owner, t)) \in Nat /\ Total(Share(f, owner, t)) <= g[t]
  <2>1. Share(f, owner, t) = [x \in {y \in S : owner[y] = t} |-> f[x]]
    BY DEF Share
  <2> QED
    BY <2>1, ShareType
<1>3. PICK none : none = [t \in T |-> 0]
  OBVIOUS
<1>4. /\ h \in [T -> Nat] /\ none \in [T -> Nat] /\ \A t \in T : none[t] = 0
      /\ \A t \in T : h[t] + none[t] <= g[t]
  <2>1. ASSUME NEW t \in T PROVE h[t] \in Nat /\ h[t] <= g[t]
    BY <1>1, <1>2
  <2> QED
    BY <1>1, <1>3, <2>1
<1>5. Total(h) + Total(none) <= Total(g)
  BY <1>4, TotalFits
<1>6. Total(none) = 0 /\ Total(h) \in Nat
  BY <1>4, TotalZero, TotalType
<1>7. Total(f) = Total(h)
  <2>1. h \in [T -> Nat] /\ \A t \in T : h[t] = Total(Share(f, owner, t))
    BY <1>1, <1>4
  <2>2. IsFiniteSet(S) /\ owner \in [S -> T] /\ f \in [S -> Nat]
    OBVIOUS
  <2> QED
    BY ONLY <2>1, <2>2, TotalByOwner
<1> QED
  BY <1>5, <1>6, <1>7
=============================================================================
