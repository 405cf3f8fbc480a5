---------------------------- MODULE MoneyProofs -----------------------------
(***************************************************************************)
(* Money in the ledger, for every number of rows and all amounts: none is  *)
(* made or lost, no charge is overpaid, and the statuses are those the     *)
(* applications imply.                                                     *)
(*                                                                         *)
(* First what the model's sums do.                                         *)
(***************************************************************************)
EXTENDS LedgerProofs, FiniteSetTheorems, FunctionTheorems

(* A finite family of amounts.                                             *)
Amounts(f) ==
  IsFiniteSet(DOMAIN f) /\ \A x \in DOMAIN f : f[x] \in Nat

LEMMA CentsFinite ==
  ASSUME NEW f, Amounts(f)
  PROVE  IsFiniteSet(Cents(f)) /\ SumOf(f) \in Nat
<1> DEFINE piles == {{x} \X (1..f[x]) : x \in DOMAIN f}
           pile == [x \in DOMAIN f |-> {x} \X (1..f[x])]
<1>1. pile \in Surjection(DOMAIN f, piles)
  BY DEF Surjection
<1>2. IsFiniteSet(piles)
  BY <1>1, FS_Surjection DEF Amounts
<1>3. ASSUME NEW x \in DOMAIN f PROVE IsFiniteSet({x} \X (1..f[x]))
  <2>1. f[x] \in Int
    BY <1>3 DEF Amounts
  <2>2. IsFiniteSet({x})
    BY FS_Singleton
  <2>3. IsFiniteSet(1..f[x])
    BY <2>1, FS_Interval
  <2>4. QED BY <2>2, <2>3, FS_Product
<1>4. IsFiniteSet(UNION piles)
  BY <1>2, <1>3, FS_UNION
<1>5. QED BY <1>4, FS_CardinalityType DEF Cents, SumOf

LEMMA SumSame ==
  ASSUME NEW f, NEW g, DOMAIN f = DOMAIN g, \A x \in DOMAIN f : f[x] = g[x]
  PROVE  SumOf(f) = SumOf(g)
<1>1. Cents(f) = Cents(g)
  BY DEF Cents
<1>2. QED BY <1>1 DEF SumOf

LEMMA SumEmpty ==
  ASSUME NEW f, DOMAIN f = {}
  PROVE  SumOf(f) = 0
<1>1. Cents(f) = {}
  BY DEF Cents
<1>2. QED BY <1>1, FS_EmptySet DEF SumOf

LEMMA SumOne ==
  ASSUME NEW f, NEW x, DOMAIN f = {x}, f[x] \in Nat
  PROVE  SumOf(f) = f[x]
<1>1. Cents(f) = {x} \X (1..f[x])
  BY DEF Cents
<1>2. /\ IsFiniteSet({x}) /\ Cardinality({x}) = 1
      /\ IsFiniteSet(1..f[x]) /\ Cardinality(1..f[x]) = f[x]
  <2>1. IsFiniteSet({x}) /\ Cardinality({x}) = 1
    BY FS_Singleton
  <2>2. IsFiniteSet(1..f[x])
        /\ Cardinality(1..f[x]) = IF 1 > f[x] THEN 0 ELSE f[x] - 1 + 1
    BY FS_Interval
  <2>3. QED BY <2>1, <2>2
<1>3. Cardinality({x} \X (1..f[x])) = Cardinality({x}) * Cardinality(1..f[x])
  <2>1. PICK S, T : S = {x} /\ T = 1..f[x]
    OBVIOUS
  <2>2. IsFiniteSet(S) /\ IsFiniteSet(T)
    BY <1>2, <2>1
  <2>3. Cardinality(S \X T) = Cardinality(S) * Cardinality(T)
    BY <2>2, FS_Product
  <2>4. QED BY <2>1, <2>3
<1>4. QED BY <1>1, <1>2, <1>3 DEF SumOf

LEMMA AmountsPart ==
  ASSUME NEW f, Amounts(f), NEW g, DOMAIN g \subseteq DOMAIN f,
         \A x \in DOMAIN g : g[x] = f[x]
  PROVE  Amounts(g)
BY FS_Subset DEF Amounts

(* A family that falls into two adds up to the sum of both.                *)
LEMMA SumSplit ==
  ASSUME NEW f, Amounts(f), NEW g, NEW h,
         DOMAIN g = DOMAIN f \ DOMAIN h, DOMAIN h \subseteq DOMAIN f,
         \A x \in DOMAIN g : g[x] = f[x],
         \A x \in DOMAIN h : h[x] = f[x]
  PROVE  SumOf(f) = SumOf(g) + SumOf(h)
<1>1. Amounts(g) /\ Amounts(h)
  BY AmountsPart
<1>2. Cents(f) = Cents(g) \cup Cents(h)
  BY DEF Cents
<1>3. Cents(g) \cap Cents(h) = {}
  BY DEF Cents
<1>4. IsFiniteSet(Cents(g)) /\ IsFiniteSet(Cents(h))
  BY <1>1, CentsFinite
<1>5. Cardinality(Cents(f)) =
        Cardinality(Cents(g)) + Cardinality(Cents(h)) - Cardinality({})
  BY <1>2, <1>3, <1>4, FS_Union
<1>6. SumOf(g) \in Nat /\ SumOf(h) \in Nat
  BY <1>1, CentsFinite
<1>7. QED BY <1>5, <1>6, FS_EmptySet DEF SumOf

(* One member more, or one less.                                           *)
LEMMA SumWithout ==
  ASSUME NEW f, NEW x \in DOMAIN f, Amounts(f), NEW g,
         DOMAIN g = DOMAIN f \ {x}, \A y \in DOMAIN g : g[y] = f[y]
  PROVE  SumOf(f) = SumOf(g) + f[x]
<1>1. PICK h : h = [y \in {x} |-> f[y]]
  OBVIOUS
<1>2. DOMAIN h = {x} /\ h[x] = f[x] /\ f[x] \in Nat
  BY <1>1 DEF Amounts
<1>3. SumOf(f) = SumOf(g) + SumOf(h)
  BY <1>2, SumSplit
<1>4. SumOf(h) = f[x]
  BY <1>2, SumOne
<1>5. QED BY <1>3, <1>4

LEMMA SumZero ==
  ASSUME NEW f, Amounts(f), \A x \in DOMAIN f : f[x] > 0
  PROVE  SumOf(f) = 0 <=> DOMAIN f = {}
<1>1. ASSUME NEW x \in DOMAIN f PROVE SumOf(f) # 0
  <2>1. PICK g : g = [y \in DOMAIN f \ {x} |-> f[y]]
    OBVIOUS
  <2>2. SumOf(f) = SumOf(g) + f[x]
    BY <2>1, SumWithout
  <2>3. SumOf(g) \in Nat
    BY <2>1, AmountsPart, CentsFinite
  <2>4. f[x] \in Nat /\ f[x] > 0
    BY DEF Amounts
  <2>5. QED BY <2>2, <2>3, <2>4
<1>2. QED BY <1>1, SumEmpty

LEMMA SumType ==
  ASSUME NEW f, Amounts(f)
  PROVE  SumOf(f) \in Nat
BY CentsFinite

(* The sum of the sizes of some sets is the number of their members, told  *)
(* apart by the set they come from.                                        *)
LEMMA SumOfSizes ==
  ASSUME NEW A, IsFiniteSet(A), NEW S, NEW size,
         DOMAIN S = A, DOMAIN size = A,
         \A a \in A : IsFiniteSet(S[a]) /\ size[a] = Cardinality(S[a])
  PROVE  /\ IsFiniteSet(UNION {{a} \X S[a] : a \in A})
         /\ SumOf(size) = Cardinality(UNION {{a} \X S[a] : a \in A})
<1>1. PICK tagged : tagged = UNION {{a} \X S[a] : a \in A}
  OBVIOUS
<1>2. \A x : x \in tagged <=> \E a \in A : x \in {a} \X S[a]
  BY <1>1
<1>3. \A x : x \in Cents(size) <=> \E a \in A : x \in {a} \X (1..size[a])
  BY DEF Cents
<1>4. \A a \in A : size[a] \in Nat
  BY FS_CardinalityType
<1>5. \A a \in A : \E h : h \in Bijection(1..size[a], S[a])
  <2> SUFFICES ASSUME NEW a \in A
               PROVE  \E h : h \in Bijection(1..size[a], S[a])
    OBVIOUS
  <2>1. IsFiniteSet(S[a]) /\ size[a] = Cardinality(S[a]) /\ size[a] \in Nat
    BY <1>4
  <2>2. ExistsBijection(1..Cardinality(S[a]), S[a])
    BY <2>1, FS_CardinalityType
  <2>3. QED BY <2>1, <2>2 DEF ExistsBijection
<1>6. PICK count : /\ DOMAIN count = A
                   /\ \A a \in A : count[a] \in Bijection(1..size[a], S[a])
  <2>1. PICK count : count = [a \in A |-> CHOOSE h : h \in Bijection(1..size[a], S[a])]
    OBVIOUS
  <2>2. QED BY <1>5, <2>1
<1>7. \A a \in A :
        /\ \A i \in 1..size[a] : count[a][i] \in S[a]
        /\ \A i, j \in 1..size[a] : count[a][i] = count[a][j] => i = j
        /\ \A s \in S[a] : \E i \in 1..size[a] : count[a][i] = s
  <2> SUFFICES ASSUME NEW a \in A
               PROVE  /\ \A i \in 1..size[a] : count[a][i] \in S[a]
                      /\ \A i, j \in 1..size[a] : count[a][i] = count[a][j] => i = j
                      /\ \A s \in S[a] : \E i \in 1..size[a] : count[a][i] = s
    OBVIOUS
  <2>1. PICK h : h = count[a] /\ h \in Bijection(1..size[a], S[a])
    BY <1>6
  <2>2. /\ h \in [1..size[a] -> S[a]]
        /\ \A i, j \in 1..size[a] : h[i] = h[j] => i = j
        /\ \A s \in S[a] : \E i \in 1..size[a] : h[i] = s
    BY <2>1 DEF Bijection, Injection, Surjection, IsInjective
  <2>3. QED BY <2>1, <2>2
<1>8. PICK rename : rename = [x \in Cents(size) |-> <<x[1], count[x[1]][x[2]]>>]
  OBVIOUS
<1>9. rename \in [Cents(size) -> tagged]
  <2>1. ASSUME NEW x \in Cents(size)
        PROVE  <<x[1], count[x[1]][x[2]]>> \in tagged
    BY <1>2, <1>3, <1>7
  <2>2. QED BY <1>8, <2>1
<1>10. \A x, y \in Cents(size) : rename[x] = rename[y] => x = y
  <2> SUFFICES ASSUME NEW x \in Cents(size), NEW y \in Cents(size),
                      rename[x] = rename[y]
               PROVE  x = y
    OBVIOUS
  <2>1. PICK a, i : a \in A /\ i \in 1..size[a] /\ x = <<a, i>>
    BY <1>3
  <2>2. PICK b, j : b \in A /\ j \in 1..size[b] /\ y = <<b, j>>
    BY <1>3
  <2>3. a = b /\ count[a][i] = count[b][j]
    BY <1>8, <2>1, <2>2
  <2>4. QED BY <1>7, <2>1, <2>2, <2>3
<1>11. \A t \in tagged : \E x \in Cents(size) : rename[x] = t
  <2> SUFFICES ASSUME NEW t \in tagged
               PROVE  \E x \in Cents(size) : rename[x] = t
    OBVIOUS
  <2>1. PICK a, s : a \in A /\ s \in S[a] /\ t = <<a, s>>
    BY <1>2
  <2>2. PICK i \in 1..size[a] : count[a][i] = s
    BY <1>7, <2>1
  <2>3. <<a, i>> \in Cents(size)
    BY <1>3, <2>1
  <2>4. rename[<<a, i>>] = t
    BY <1>8, <2>1, <2>2, <2>3
  <2>5. QED BY <2>3, <2>4
<1>12. rename \in Bijection(Cents(size), tagged)
  BY <1>9, <1>10, <1>11, Fun_IsBij
<1>13. IsFiniteSet(Cents(size))
  BY <1>4, CentsFinite DEF Amounts
<1>14. IsFiniteSet(tagged) /\ Cardinality(tagged) = Cardinality(Cents(size))
  BY <1>12, <1>13, FS_Bijection DEF ExistsBijection
<1>15. QED BY <1>1, <1>14 DEF SumOf

(* The cents of a table of amounts, row by row.                            *)
Cells(rows) == UNION {{a} \X Cents(rows[a]) : a \in DOMAIN rows}

LEMMA SumOfSums ==
  ASSUME NEW rows, IsFiniteSet(DOMAIN rows),
         \A a \in DOMAIN rows : Amounts(rows[a]),
         NEW across, DOMAIN across = DOMAIN rows,
         \A a \in DOMAIN rows : across[a] = SumOf(rows[a])
  PROVE  IsFiniteSet(Cells(rows)) /\ SumOf(across) = Cardinality(Cells(rows))
<1>1. PICK S : S = [a \in DOMAIN rows |-> Cents(rows[a])]
  OBVIOUS
<1>2. \A a \in DOMAIN rows : IsFiniteSet(S[a]) /\ across[a] = Cardinality(S[a])
  BY <1>1, CentsFinite DEF SumOf
<1>3. DOMAIN S = DOMAIN rows
  BY <1>1
<1>4. /\ IsFiniteSet(UNION {{a} \X S[a] : a \in DOMAIN rows})
      /\ SumOf(across) = Cardinality(UNION {{a} \X S[a] : a \in DOMAIN rows})
  BY <1>2, <1>3, SumOfSizes
<1>5. Cells(rows) = UNION {{a} \X S[a] : a \in DOMAIN rows}
  BY <1>1 DEF Cells
<1>6. QED BY <1>4, <1>5

(* A table of amounts has one total: rows and columns name the same cells. *)
LEMMA BothWays ==
  ASSUME NEW A, IsFiniteSet(A), NEW B, IsFiniteSet(B),
         NEW rows, DOMAIN rows = A, NEW columns, DOMAIN columns = B,
         \A a \in A : Amounts(rows[a]) /\ DOMAIN rows[a] \subseteq B,
         \A b \in B : Amounts(columns[b]) /\ DOMAIN columns[b] \subseteq A,
         \A a \in A, b \in B :
           /\ b \in DOMAIN rows[a] <=> a \in DOMAIN columns[b]
           /\ b \in DOMAIN rows[a] => rows[a][b] = columns[b][a],
         NEW across, DOMAIN across = A, \A a \in A : across[a] = SumOf(rows[a]),
         NEW down, DOMAIN down = B, \A b \in B : down[b] = SumOf(columns[b])
  PROVE  SumOf(across) = SumOf(down)
<1>1. PICK left : left = Cells(rows)
  OBVIOUS
<1>2. PICK right : right = Cells(columns)
  OBVIOUS
<1>3. IsFiniteSet(left) /\ SumOf(across) = Cardinality(left)
  BY <1>1, SumOfSums
<1>4. IsFiniteSet(right) /\ SumOf(down) = Cardinality(right)
  BY <1>2, SumOfSums
<1>5. \A x : x \in left <=> \E a \in A : \E b \in DOMAIN rows[a] :
                              \E i \in 1..rows[a][b] : x = <<a, <<b, i>>>>
  BY <1>1 DEF Cells, Cents
<1>6. \A x : x \in right <=> \E b \in B : \E a \in DOMAIN columns[b] :
                               \E i \in 1..columns[b][a] : x = <<b, <<a, i>>>>
  BY <1>2 DEF Cells, Cents
<1>7. PICK swap : swap = [x \in left |-> <<x[2][1], <<x[1], x[2][2]>>>>]
  OBVIOUS
<1>8. swap \in [left -> right]
  <2>1. ASSUME NEW x \in left PROVE swap[x] \in right
    <3>1. PICK a, b, i :
            /\ a \in A /\ b \in DOMAIN rows[a] /\ i \in 1..rows[a][b]
            /\ x = <<a, <<b, i>>>>
      BY <1>5
    <3>2. swap[x] = <<b, <<a, i>>>>
      BY <1>7, <3>1
    <3>3. b \in B /\ a \in DOMAIN columns[b] /\ i \in 1..columns[b][a]
      BY <3>1
    <3>4. QED BY <1>6, <3>2, <3>3
  <2>2. QED BY <1>7, <2>1
<1>9. \A x, y \in left : swap[x] = swap[y] => x = y
  <2> SUFFICES ASSUME NEW x \in left, NEW y \in left, swap[x] = swap[y]
               PROVE  x = y
    OBVIOUS
  <2>1. PICK a, b, i :
            /\ a \in A /\ b \in DOMAIN rows[a] /\ i \in 1..rows[a][b]
            /\ x = <<a, <<b, i>>>>
    BY <1>5
  <2>2. PICK c, d, j :
            /\ c \in A /\ d \in DOMAIN rows[c] /\ j \in 1..rows[c][d]
            /\ y = <<c, <<d, j>>>>
    BY <1>5
  <2>3. <<b, <<a, i>>>> = <<d, <<c, j>>>>
    BY <1>7, <2>1, <2>2
  <2>4. QED BY <2>1, <2>2, <2>3
<1>10. \A y \in right : \E x \in left : swap[x] = y
  <2> SUFFICES ASSUME NEW y \in right PROVE \E x \in left : swap[x] = y
    OBVIOUS
  <2>1. PICK b, a, i :
            /\ b \in B /\ a \in DOMAIN columns[b] /\ i \in 1..columns[b][a]
            /\ y = <<b, <<a, i>>>>
    BY <1>6
  <2>2. a \in A /\ b \in DOMAIN rows[a] /\ i \in 1..rows[a][b]
    BY <2>1
  <2>3. <<a, <<b, i>>>> \in left
    BY <1>5, <2>2
  <2>4. swap[<<a, <<b, i>>>>] = y
    BY <1>7, <2>1, <2>3
  <2>5. QED BY <2>3, <2>4
<1>11. swap \in Bijection(left, right)
  BY <1>8, <1>9, <1>10, Fun_IsBij
<1>12. Cardinality(left) = Cardinality(right)
  BY <1>3, <1>11, FS_Bijection DEF ExistsBijection
<1>13. QED BY <1>3, <1>4, <1>12

LEMMA SumTwo ==
  ASSUME NEW x, NEW y, x # y, NEW q, DOMAIN q = {x, y}, q[x] \in Nat, q[y] \in Nat
  PROVE  Amounts(q) /\ SumOf(q) = q[x] + q[y]
<1>1. IsFiniteSet({x, y})
  <2>1. IsFiniteSet({x}) /\ {x, y} = {x} \cup {y}
    BY FS_Singleton
  <2>2. QED BY <2>1, FS_AddElement
<1>2. Amounts(q)
  BY <1>1 DEF Amounts
<1>3. PICK r : r = [i \in {y} |-> q[i]]
  OBVIOUS
<1>4. DOMAIN r = DOMAIN q \ {x} /\ \A i \in DOMAIN r : r[i] = q[i]
  BY <1>3
<1>5. SumOf(q) = SumOf(r) + q[x]
  BY <1>2, <1>4, SumWithout
<1>6. SumOf(r) = q[y]
  BY <1>3, SumOne
<1>7. QED BY <1>2, <1>5, <1>6

(* The sum of two families, member by member.                              *)
LEMMA SumPlus ==
  ASSUME NEW A, IsFiniteSet(A), NEW f, NEW g, NEW h,
         DOMAIN f = A, DOMAIN g = A, DOMAIN h = A,
         \A a \in A : f[a] \in Nat /\ g[a] \in Nat /\ h[a] = f[a] + g[a]
  PROVE  SumOf(h) = SumOf(f) + SumOf(g)
<1>1. PICK x, y : x # y
  <2>1. "f" # "g"
    OBVIOUS
  <2>2. QED BY <2>1, Zenon
<1>2. PICK rows : rows = [a \in A |-> [i \in {x, y} |-> IF i = x THEN f[a] ELSE g[a]]]
  OBVIOUS
<1>3. PICK columns : columns = [i \in {x, y} |-> IF i = x THEN f ELSE g]
  OBVIOUS
<1>4. DOMAIN rows = A /\ DOMAIN columns = {x, y}
  BY <1>2, <1>3
<1>5. \A a \in A : DOMAIN rows[a] = {x, y} /\ rows[a][x] = f[a] /\ rows[a][y] = g[a]
  BY <1>1, <1>2
<1>6. columns[x] = f /\ columns[y] = g
  BY <1>1, <1>3
<1>7. \A a \in A : Amounts(rows[a]) /\ SumOf(rows[a]) = h[a]
  <2> SUFFICES ASSUME NEW a \in A PROVE Amounts(rows[a]) /\ SumOf(rows[a]) = h[a]
    OBVIOUS
  <2>1. PICK q : q = rows[a]
    OBVIOUS
  <2>2. DOMAIN q = {x, y} /\ q[x] = f[a] /\ q[y] = g[a]
    BY <1>5, <2>1
  <2>3. Amounts(q) /\ SumOf(q) = q[x] + q[y]
    BY <1>1, <2>2, SumTwo
  <2>4. QED BY <2>1, <2>2, <2>3
<1>8. Amounts(f) /\ Amounts(g)
  BY DEF Amounts
<1>9. \A i \in {x, y} : Amounts(columns[i]) /\ DOMAIN columns[i] = A
  BY <1>6, <1>8
<1>10. \A a \in A, i \in {x, y} :
         /\ i \in DOMAIN rows[a] <=> a \in DOMAIN columns[i]
         /\ i \in DOMAIN rows[a] => rows[a][i] = columns[i][a]
  BY <1>5, <1>6, <1>9
<1>11. IsFiniteSet({x, y})
  <2>1. IsFiniteSet({x}) /\ {x, y} = {x} \cup {y}
    BY FS_Singleton
  <2>2. QED BY <2>1, FS_AddElement
<1>12. PICK totals : totals = [i \in {x, y} |-> SumOf(columns[i])]
  OBVIOUS
<1>13. SumOf(h) = SumOf(totals)
  <2>1. PICK B : B = {x, y}
    OBVIOUS
  <2>2. IsFiniteSet(B) /\ DOMAIN rows = A /\ DOMAIN columns = B
    BY <1>4, <1>11, <2>1
  <2>3. \A a \in A : Amounts(rows[a]) /\ DOMAIN rows[a] \subseteq B
    BY <1>5, <1>7, <2>1
  <2>4. \A b \in B : Amounts(columns[b]) /\ DOMAIN columns[b] \subseteq A
    BY <1>9, <2>1
  <2>5. \A a \in A, b \in B :
          /\ b \in DOMAIN rows[a] <=> a \in DOMAIN columns[b]
          /\ b \in DOMAIN rows[a] => rows[a][b] = columns[b][a]
    BY <1>10, <2>1
  <2>6. \A a \in A : h[a] = SumOf(rows[a])
    BY <1>7
  <2>7. DOMAIN totals = B /\ \A b \in B : totals[b] = SumOf(columns[b])
    BY <1>12, <2>1
  <2>8. QED BY <2>2, <2>3, <2>4, <2>5, <2>6, <2>7, BothWays
<1>14. totals[x] = SumOf(f) /\ totals[y] = SumOf(g) /\ DOMAIN totals = {x, y}
  BY <1>6, <1>12
<1>15. SumOf(f) \in Nat /\ SumOf(g) \in Nat
  BY <1>8, SumType
<1>16. SumOf(totals) = totals[x] + totals[y]
  BY <1>1, <1>14, <1>15, SumTwo
<1>17. QED BY <1>13, <1>14, <1>16

(* A sum is nothing only if each of its amounts is.                        *)
LEMMA SumNothing ==
  ASSUME NEW f, Amounts(f)
  PROVE  /\ SumOf(f) = 0 <=> \A x \in DOMAIN f : f[x] = 0
         /\ SumOf(f) > 0 <=> \E x \in DOMAIN f : f[x] > 0
<1>1. SumOf(f) \in Nat
  BY SumType
<1>2. ASSUME NEW x \in DOMAIN f PROVE SumOf(f) >= f[x]
  <2>1. PICK g : g = [y \in DOMAIN f \ {x} |-> f[y]]
    OBVIOUS
  <2>2. SumOf(f) = SumOf(g) + f[x]
    BY <2>1, SumWithout
  <2>3. SumOf(g) \in Nat /\ f[x] \in Nat
    BY <2>1, AmountsPart, SumType DEF Amounts
  <2>4. QED BY <2>2, <2>3
<1>3. ASSUME \A x \in DOMAIN f : f[x] = 0 PROVE SumOf(f) = 0
  <2>1. Cents(f) = {}
    BY <1>3 DEF Cents
  <2>2. QED BY <2>1, FS_EmptySet DEF SumOf
<1>4. \A x \in DOMAIN f : f[x] \in Nat
  BY DEF Amounts
<1>5. QED BY <1>1, <1>2, <1>3, <1>4

-----------------------------------------------------------------------------
(* What each write does to the sums.                                       *)

LEMMA AppliedAmounts ==
  ASSUME TypeOK
  PROVE  /\ \A p \in Payment : Amounts([c \in PaidBy(p) |-> app[p][c].amount])
         /\ \A c \in Charge : Amounts([p \in Payers(c) |-> app[p][c].amount])
<1>1. \A p \in Payment, c \in Charge : app[p][c].amount \in Nat
  BY DEF TypeOK, AppRow
<1>2. /\ \A p \in Payment : IsFiniteSet(PaidBy(p))
      /\ \A c \in Charge : IsFiniteSet(Payers(c))
  BY FiniteAssumption, FS_Subset DEF PaidBy, Payers
<1>3. QED BY <1>1, <1>2 DEF Amounts, PaidBy, Payers

LEMMA AppliedTypes ==
  ASSUME TypeOK
  PROVE  /\ \A p \in Payment : AppliedFrom(p) \in Nat
         /\ \A c \in Charge : AppliedTo(c) \in Nat
BY AppliedAmounts, CentsFinite DEF AppliedFrom, AppliedTo

LEMMA SameApplications ==
  ASSUME NEW p \in Payment, \A c \in Charge : app'[p][c] = app[p][c]
  PROVE  AppliedFrom(p)' = AppliedFrom(p) /\ PaidBy(p)' = PaidBy(p)
<1>1. PaidBy(p)' = PaidBy(p)
  BY DEF PaidBy, Active
<1>2. SumOf([c \in PaidBy(p)' |-> app'[p][c].amount])
        = SumOf([c \in PaidBy(p) |-> app[p][c].amount])
  BY <1>1, SumSame DEF PaidBy
<1>3. QED BY <1>1, <1>2 DEF AppliedFrom

LEMMA SamePayers ==
  ASSUME NEW c \in Charge, \A p \in Payment : app'[p][c] = app[p][c]
  PROVE  AppliedTo(c)' = AppliedTo(c) /\ Payers(c)' = Payers(c)
<1>1. Payers(c)' = Payers(c)
  BY DEF Payers, Active
<1>2. SumOf([p \in Payers(c)' |-> app'[p][c].amount])
        = SumOf([p \in Payers(c) |-> app[p][c].amount])
  BY <1>1, SumSame DEF Payers
<1>3. QED BY <1>1, <1>2 DEF AppliedTo

(* The active applications of a payment after an apply are the old ones    *)
(* and those of the request, which are new.                                *)
LEMMA ApplyFrom ==
  ASSUME TypeOK, NEW p \in Payment, NEW apps, DOMAIN apps \subseteq Charge,
         Apply(p, apps)
  PROVE  /\ PaidBy(p)' = PaidBy(p) \cup DOMAIN apps
         /\ AppliedFrom(p)' = AppliedFrom(p) + SumOf(apps)
<1>1. PICK row \in [Charge -> AppRow] :
        /\ app' = [app EXCEPT ![p] = row]
        /\ \A c \in DOMAIN apps : row[c].state = "active" /\ row[c].amount = apps[c]
        /\ \A c \in Charge \ DOMAIN apps : row[c] = app[p][c]
  <2> DEFINE row == [c \in Charge |->
                       IF c \in DOMAIN apps
                       THEN [state |-> "active", amount |-> apps[c]]
                       ELSE app[p][c]]
  <2>1. \A c \in DOMAIN apps : apps[c] \in Nat
    BY DEF Apply, ApplyOK, ItemOK
  <2>2. row \in [Charge -> AppRow]
    BY <2>1 DEF TypeOK, AppRow
  <2>3. app' = [app EXCEPT ![p] = row]
    BY DEF Apply, WriteApply
  <2>4. QED BY <2>2, <2>3
<1>2. app'[p] = row
  BY <1>1 DEF TypeOK
<1>3. PaidBy(p)' = PaidBy(p) \cup DOMAIN apps
  BY <1>1, <1>2 DEF PaidBy, Active
<1>4. PaidBy(p) \cap DOMAIN apps = {}
  BY DEF Apply, ApplyOK, ItemOK, PaidBy
<1>5. PICK f : f = [c \in PaidBy(p)' |-> row[c].amount]
  OBVIOUS
<1>6. PICK g : g = [c \in PaidBy(p) |-> app[p][c].amount]
  OBVIOUS
<1>7. Amounts(f)
  <2>1. PaidBy(p)' \subseteq Charge
    BY DEF PaidBy
  <2>2. IsFiniteSet(PaidBy(p)')
    BY <2>1, FiniteAssumption, FS_Subset
  <2>3. QED BY <1>5, <1>1, <2>1, <2>2 DEF Amounts, AppRow
<1>8. SumOf(f) = SumOf(g) + SumOf(apps)
  <2>1. DOMAIN g = DOMAIN f \ DOMAIN apps /\ DOMAIN apps \subseteq DOMAIN f
    BY <1>3, <1>4, <1>5, <1>6
  <2>2. \A c \in DOMAIN g : g[c] = f[c]
    BY <1>1, <1>3, <1>4, <1>5, <1>6 DEF PaidBy
  <2>3. \A c \in DOMAIN apps : apps[c] = f[c]
    BY <1>1, <1>3, <1>5
  <2>4. QED BY <1>7, <2>1, <2>2, <2>3, SumSplit
<1>9. AppliedFrom(p)' = SumOf(f)
  BY <1>2, <1>5 DEF AppliedFrom
<1>10. QED BY <1>3, <1>6, <1>8, <1>9 DEF AppliedFrom

(* The charges of the request gain the payment and what it applies.        *)
LEMMA ApplyTo ==
  ASSUME TypeOK, NEW p \in Payment, NEW apps, DOMAIN apps \subseteq Charge,
         Apply(p, apps), NEW c \in DOMAIN apps
  PROVE  /\ Payers(c)' = Payers(c) \cup {p}
         /\ AppliedTo(c)' = AppliedTo(c) + apps[c]
<1>1. /\ app'[p][c].state = "active" /\ app'[p][c].amount = apps[c]
      /\ \A q \in Payment \ {p} : app'[q][c] = app[q][c]
  BY DEF Apply, WriteApply, TypeOK
<1>2. Payers(c)' = Payers(c) \cup {p} /\ p \notin Payers(c)
  BY <1>1 DEF Apply, ApplyOK, ItemOK, Payers, Active
<1>3. PICK f : f = [q \in Payers(c)' |-> app'[q][c].amount]
  OBVIOUS
<1>4. PICK g : g = [q \in Payers(c) |-> app[q][c].amount]
  OBVIOUS
<1>5. Amounts(f)
  <2>1. \A q \in Payment : app'[q][c].amount \in Nat
    <3>1. apps[c] \in Nat
      BY DEF Apply, ApplyOK, ItemOK
    <3>2. \A q \in Payment : app[q][c].amount \in Nat
      BY DEF TypeOK, AppRow
    <3>3. QED BY <1>1, <3>1, <3>2
  <2>2. Payers(c)' \subseteq Payment
    BY DEF Payers
  <2>3. IsFiniteSet(Payers(c)')
    BY <2>2, FiniteAssumption, FS_Subset
  <2>4. QED BY <1>3, <2>1, <2>2, <2>3 DEF Amounts
<1>6. SumOf(f) = SumOf(g) + f[p]
  <2>1. p \in DOMAIN f /\ DOMAIN g = DOMAIN f \ {p}
    BY <1>2, <1>3, <1>4
  <2>2. \A q \in DOMAIN g : g[q] = f[q]
    BY <1>1, <1>2, <1>3, <1>4 DEF Payers
  <2>3. QED BY <1>5, <2>1, <2>2, SumWithout
<1>7. f[p] = apps[c]
  BY <1>1, <1>2, <1>3
<1>8. AppliedTo(c)' = SumOf(f)
  BY <1>3 DEF AppliedTo
<1>9. QED BY <1>2, <1>4, <1>6, <1>7, <1>8 DEF AppliedTo

PositiveApplied ==
  \A p \in Payment, c \in Charge : Active(p, c) => app[p][c].amount > 0

(* A reversal takes the pair, and its amount, from both sides.             *)
LEMMA ReverseFrom ==
  ASSUME TypeOK, PositiveApplied, NEW p \in Payment, NEW c \in Charge,
         ReverseApplication(p, c)
  PROVE  /\ PaidBy(p)' = PaidBy(p) \ {c} /\ c \in PaidBy(p)
         /\ AppliedFrom(p) = AppliedFrom(p)' + app[p][c].amount
         /\ AppliedFrom(p)' \in Nat /\ app[p][c].amount \in Nat \ {0}
         /\ AppliedFrom(p)' = 0 <=> PaidBy(p)' = {}
<1>1. /\ app'[p][c].state = "reversed"
      /\ \A d \in Charge \ {c} : app'[p][d] = app[p][d]
  BY DEF ReverseApplication, WriteReverse, TypeOK, AppRow
<1>2. PaidBy(p)' = PaidBy(p) \ {c} /\ c \in PaidBy(p)
  BY <1>1 DEF ReverseApplication, ReverseOK, PaidBy, Active
<1>3. PICK f : f = [d \in PaidBy(p) |-> app[p][d].amount]
  OBVIOUS
<1>4. PICK g : g = [d \in PaidBy(p)' |-> app'[p][d].amount]
  OBVIOUS
<1>5. Amounts(f)
  BY <1>3, AppliedAmounts
<1>6. /\ c \in DOMAIN f /\ DOMAIN g = DOMAIN f \ {c}
      /\ \A d \in DOMAIN g : g[d] = f[d]
  BY <1>1, <1>2, <1>3, <1>4 DEF PaidBy
<1>7. SumOf(f) = SumOf(g) + f[c]
  BY <1>5, <1>6, SumWithout
<1>8. SumOf(g) \in Nat
  BY <1>5, <1>6, AmountsPart, CentsFinite
<1>9. \A d \in PaidBy(p) : app[p][d].amount \in Nat /\ app[p][d].amount > 0
  BY DEF PositiveApplied, PaidBy, TypeOK, AppRow
<1>10. SumOf(g) = 0 <=> DOMAIN g = {}
  <2>1. \A d \in DOMAIN g : g[d] > 0
    BY <1>3, <1>6, <1>9
  <2>2. QED BY <1>5, <1>6, <2>1, AmountsPart, SumZero
<1>11. QED BY <1>2, <1>3, <1>4, <1>7, <1>8, <1>9, <1>10 DEF AppliedFrom

LEMMA ReverseTo ==
  ASSUME TypeOK, PositiveApplied, NEW p \in Payment, NEW c \in Charge,
         ReverseApplication(p, c)
  PROVE  /\ Payers(c)' = Payers(c) \ {p} /\ p \in Payers(c)
         /\ AppliedTo(c) = AppliedTo(c)' + app[p][c].amount
         /\ AppliedTo(c)' \in Nat /\ app[p][c].amount \in Nat \ {0}
         /\ AppliedTo(c)' = 0 <=> Payers(c)' = {}
<1>1. /\ app'[p][c].state = "reversed"
      /\ \A q \in Payment \ {p} : app'[q][c] = app[q][c]
  BY DEF ReverseApplication, WriteReverse, TypeOK, AppRow
<1>2. Payers(c)' = Payers(c) \ {p} /\ p \in Payers(c)
  BY <1>1 DEF ReverseApplication, ReverseOK, Payers, Active
<1>3. PICK f : f = [q \in Payers(c) |-> app[q][c].amount]
  OBVIOUS
<1>4. PICK g : g = [q \in Payers(c)' |-> app'[q][c].amount]
  OBVIOUS
<1>5. Amounts(f)
  BY <1>3, AppliedAmounts
<1>6. /\ p \in DOMAIN f /\ DOMAIN g = DOMAIN f \ {p}
      /\ \A q \in DOMAIN g : g[q] = f[q]
  BY <1>1, <1>2, <1>3, <1>4 DEF Payers
<1>7. SumOf(f) = SumOf(g) + f[p]
  BY <1>5, <1>6, SumWithout
<1>8. SumOf(g) \in Nat
  BY <1>5, <1>6, AmountsPart, CentsFinite
<1>9. \A q \in Payers(c) : app[q][c].amount \in Nat /\ app[q][c].amount > 0
  BY DEF PositiveApplied, Payers, TypeOK, AppRow
<1>10. SumOf(g) = 0 <=> DOMAIN g = {}
  <2>1. \A q \in DOMAIN g : g[q] > 0
    BY <1>3, <1>6, <1>9
  <2>2. QED BY <1>5, <1>6, <2>1, AmountsPart, SumZero
<1>11. QED BY <1>2, <1>3, <1>4, <1>7, <1>8, <1>9, <1>10 DEF AppliedTo

-----------------------------------------------------------------------------
(* The invariant                                                           *)

MoneyInv ==
  /\ PositiveApplied
  /\ MoneyConserved
  /\ NeverOverApplied
  /\ ChargeStatusDerived
  /\ PaymentStatusDerived

LEMMA InitMoney == Init => MoneyInv
<1> SUFFICES ASSUME Init PROVE MoneyInv
  OBVIOUS
<1>1. \A p \in Payment, c \in Charge : ~Active(p, c)
  BY DEF Init, NoAppRow, Active
<1>2. /\ \A p \in Payment : PaidBy(p) = {}
      /\ \A c \in Charge : Payers(c) = {}
  BY <1>1 DEF PaidBy, Payers
<1>3. /\ \A p \in Payment : AppliedFrom(p) = 0
      /\ \A c \in Charge : AppliedTo(c) = 0
  BY <1>2, SumEmpty DEF AppliedFrom, AppliedTo
<1>4. /\ \A p \in Payment : payment[p] = NoPaymentRow
      /\ \A c \in Charge : charge[c] = NoChargeRow
  BY DEF Init
<1>5. QED
  BY <1>1, <1>2, <1>3, <1>4
  DEF MoneyInv, PositiveApplied, MoneyConserved, NeverOverApplied,
      ChargeStatusDerived, PaymentStatusDerived, NoPaymentRow, NoChargeRow

(* Steps that are neither an application nor a reversal.                   *)
QuietStep ==
  \/ \E p \in Payment :
       \/ \E amount \in Amount, b \in BankTx \cup {None} :
            CreatePayment(p, amount, b)
       \/ ConfirmPayment(p)
       \/ CancelPayment(p)
  \/ ChargeNext \/ PeriodNext \/ BankNext \/ UNCHANGED vars

LEMMA StepKinds ==
  ASSUME [BankLedgerNext]_vars
  PROVE  \/ QuietStep
         \/ \E p \in Payment : \E apps : /\ DOMAIN apps \subseteq Charge
                                         /\ DOMAIN apps # {}
                                         /\ Apply(p, apps)
         \/ \E p \in Payment, c \in Charge : ReverseApplication(p, c)
<1>1. ASSUME NEW p \in Payment, NEW apps \in Requests, Apply(p, apps)
      PROVE  DOMAIN apps \subseteq Charge /\ DOMAIN apps # {}
  BY DEF Requests
<1>2. ASSUME NEW p \in Payment, NEW now \in Days, AutoApply(p, now)
      PROVE  \E apps : /\ DOMAIN apps \subseteq Charge /\ DOMAIN apps # {}
                       /\ Apply(p, apps)
  <2>1. PICK plan : /\ plan = AutoPlan(p, now)
                    /\ DOMAIN plan # {} /\ Apply(p, plan)
    BY <1>2 DEF AutoApply
  <2>2. DOMAIN plan \subseteq Charge
    BY <2>1 DEF AutoPlan, Plan, PayableDebits
  <2>3. QED BY <2>1, <2>2
<1>3. CASE PaymentNext
  BY <1>1, <1>2, <1>3, Zenon DEF PaymentNext, QuietStep
<1>4. QED BY <1>3, Zenon DEF BankLedgerNext, Next, QuietStep

-----------------------------------------------------------------------------
(* Quiet steps: a payment or charge they change has no application.        *)

LEMMA QuietApp ==
  QuietStep => UNCHANGED app
BY DEF QuietStep, CreatePayment, ConfirmPayment, CancelPayment, ChargeNext,
       CreateCharge, UpdateChargeAmount, UpdateChargeMovement, CancelCharge,
       PeriodNext, ClosePeriod, ReopenPeriod, RemovePeriod, BankNext,
       SuggestMatch, Match, Ignore, ReverseBank, vars

NothingApplied(q) ==
  /\ PaidBy(q) = {}
  /\ payment'[q].status \notin {"PARTIALLY_APPLIED", "APPLIED"}
  /\ payment'[q].unapplied = payment'[q].amount

LEMMA UnusedHasAll ==
  ASSUME TypeOK, MoneyConserved, NEW q \in Payment, PaidBy(q) = {}
  PROVE  payment[q].unapplied = payment[q].amount
<1>1. AppliedFrom(q) = 0
  BY SumEmpty DEF AppliedFrom
<1>2. payment[q].unapplied + AppliedFrom(q) = payment[q].amount
  BY DEF MoneyConserved
<1>3. QED BY <1>1, <1>2 DEF TypeOK, PaymentRow

LEMMA QuietPayments ==
  ASSUME TypeOK, RetiredRowsUnused, MoneyConserved, QuietStep, NEW q \in Payment
  PROVE  payment'[q] = payment[q] \/ NothingApplied(q)
<1>1. ASSUME NEW p \in Payment, NEW amount \in Amount,
             NEW b \in BankTx \cup {None}, CreatePayment(p, amount, b)
      PROVE  payment'[q] = payment[q] \/ NothingApplied(q)
  BY <1>1 DEF CreatePayment, CreatePaymentOK, WriteNewPayment, NothingApplied,
              RetiredRowsUnused, TypeOK
<1>2. ASSUME NEW p \in Payment, NEW status \in {"CONFIRMED", "CANCELLED"},
             PaidBy(p) = {}, WritePaymentStatus(p, status)
      PROVE  payment'[q] = payment[q] \/ NothingApplied(q)
  <2>1. CASE p # q
    BY <1>2, <2>1 DEF WritePaymentStatus, TypeOK
  <2>2. CASE p = q
    <3>1. payment'[q] = [payment[q] EXCEPT !.status = status]
      BY <1>2, <2>2 DEF WritePaymentStatus, TypeOK
    <3>2. payment[q] \in PaymentRow
      BY DEF TypeOK
    <3>3. /\ payment'[q].status = status
          /\ payment'[q].unapplied = payment[q].unapplied
          /\ payment'[q].amount = payment[q].amount
      BY <3>1, <3>2 DEF PaymentRow
    <3>4. payment[q].unapplied = payment[q].amount
      BY <1>2, <2>2, UnusedHasAll
    <3>5. QED BY <1>2, <2>2, <3>3, <3>4 DEF NothingApplied
  <2>3. QED BY <2>1, <2>2
<1>3. ASSUME NEW p \in Payment, ConfirmPayment(p)
      PROVE  payment'[q] = payment[q] \/ NothingApplied(q)
  <2>1. PaidBy(p) = {}
    BY <1>3 DEF ConfirmPayment, ConfirmOK, RetiredRowsUnused
  <2>2. QED BY <1>2, <1>3, <2>1 DEF ConfirmPayment
<1>4. ASSUME NEW p \in Payment, CancelPayment(p)
      PROVE  payment'[q] = payment[q] \/ NothingApplied(q)
  BY <1>2, <1>4 DEF CancelPayment, CancelPaymentOK
<1>5. CASE ChargeNext \/ PeriodNext \/ UNCHANGED vars
  BY <1>5 DEF ChargeNext, CreateCharge, UpdateChargeAmount,
              UpdateChargeMovement, CancelCharge, PeriodNext, ClosePeriod,
              ReopenPeriod, RemovePeriod, vars
<1>6. ASSUME NEW b \in BankTx, SuggestMatch(b) \/ Ignore(b)
      PROVE  payment'[q] = payment[q] \/ NothingApplied(q)
  BY <1>6 DEF SuggestMatch, Ignore
<1>7. ASSUME NEW b \in BankTx, NEW p \in Payment, Match(b, p)
      PROVE  payment'[q] = payment[q] \/ NothingApplied(q)
  BY <1>7 DEF Match, WriteMatch, WriteNewPayment, NothingApplied,
              RetiredRowsUnused, TypeOK
<1>8. ASSUME NEW b \in BankTx, ReverseBank(b)
      PROVE  payment'[q] = payment[q] \/ NothingApplied(q)
  <2>1. CASE q \notin LivePayments(b)
    BY <1>8, <2>1 DEF ReverseBank, WriteReverseBank
  <2>2. CASE q \in LivePayments(b)
    <3>1. PaidBy(q) = {}
      BY <1>8, <2>2 DEF ReverseBank, ReverseBankOK
    <3>2. payment'[q] = [payment[q] EXCEPT !.status = "REVERSED"]
      BY <1>8, <2>2 DEF ReverseBank, WriteReverseBank
    <3>3. payment[q] \in PaymentRow
      BY DEF TypeOK
    <3>4. /\ payment'[q].status = "REVERSED"
          /\ payment'[q].unapplied = payment[q].unapplied
          /\ payment'[q].amount = payment[q].amount
      BY <3>2, <3>3 DEF PaymentRow
    <3>5. QED BY <3>1, <3>4, UnusedHasAll DEF NothingApplied
  <2>3. QED BY <2>1, <2>2
<1>9. QED
  BY <1>1, <1>3, <1>4, <1>5, <1>6, <1>7, <1>8, Zenon DEF QuietStep, BankNext

QuietCharge(d) ==
  \/ /\ charge'[d].status = charge[d].status
     /\ charge'[d].amount = charge[d].amount
  \/ /\ Payers(d) = {}
     /\ charge'[d].status \in {"ABSENT", "PENDING", "CANCELLED"}

LEMMA QuietCharges ==
  ASSUME TypeOK, RetiredRowsUnused, ChargeStatusDerived, QuietStep,
         NEW d \in Charge
  PROVE  QuietCharge(d)
<1>1. ASSUME UNCHANGED charge PROVE QuietCharge(d)
  BY <1>1 DEF QuietCharge
<1>2. ASSUME NEW c \in Charge, NEW amount \in Amount, NEW movement \in Movement,
             CreateCharge(c, amount, movement)
      PROVE  QuietCharge(d)
  <2>1. charge[c].status = "ABSENT" /\ Payers(c) = {}
    BY <1>2 DEF CreateCharge, CreateChargeOK, RetiredRowsUnused
  <2>2. CASE c # d
    BY <1>2, <2>2 DEF CreateCharge, WriteNewCharge, QuietCharge, TypeOK
  <2>3. CASE c = d
    BY <1>2, <2>1, <2>3 DEF CreateCharge, WriteNewCharge, QuietCharge, TypeOK
  <2>4. QED BY <2>2, <2>3
<1>3. ASSUME NEW c \in Charge, NEW amount \in Amount, NEW movement \in Movement,
             UpdateChargeAmount(c, amount, movement)
      PROVE  QuietCharge(d)
  <2>1. Payers(c) = {} /\ charge[c].status \in {"ABSENT", "PENDING", "CANCELLED"}
    BY <1>3 DEF UpdateChargeAmount, UpdateAmountOK, ChargeStatusDerived
  <2>2. charge'[d].status = charge[d].status
    BY <1>3 DEF UpdateChargeAmount, WriteChargeAmount, TypeOK, ChargeRow
  <2>3. CASE c # d
    BY <1>3, <2>3 DEF UpdateChargeAmount, WriteChargeAmount, QuietCharge, TypeOK
  <2>4. QED BY <2>1, <2>2, <2>3 DEF QuietCharge
<1>4. ASSUME NEW c \in Charge, NEW movement \in Movement,
             UpdateChargeMovement(c, movement)
      PROVE  QuietCharge(d)
  BY <1>4 DEF UpdateChargeMovement, WriteChargeMovement, QuietCharge, TypeOK,
              ChargeRow
<1>5. ASSUME NEW c \in Charge, CancelCharge(c)
      PROVE  QuietCharge(d)
  <2>1. CASE c # d
    BY <1>5, <2>1 DEF CancelCharge, WriteChargeCancelled, QuietCharge, TypeOK
  <2>2. CASE c = d
    BY <1>5, <2>2 DEF CancelCharge, CancelChargeOK, WriteChargeCancelled,
                      QuietCharge, TypeOK, ChargeRow
  <2>3. QED BY <2>1, <2>2
<1>6. ChargeNext \/ UNCHANGED charge
  BY DEF QuietStep, CreatePayment, ConfirmPayment, CancelPayment, PeriodNext,
         ClosePeriod, ReopenPeriod, RemovePeriod, BankNext, SuggestMatch, Match,
         Ignore, ReverseBank, vars
<1>7. QED BY <1>1, <1>2, <1>3, <1>4, <1>5, <1>6, Zenon DEF ChargeNext

(* What a quiet step leaves of the rows is enough.                         *)
LEMMA QuietRows ==
  ASSUME TypeOK', MoneyInv, UNCHANGED app,
         \A q \in Payment : payment'[q] = payment[q] \/ NothingApplied(q),
         \A d \in Charge : QuietCharge(d)
  PROVE  MoneyInv'
<1>1. UNCHANGED app
  OBVIOUS
<1>2. PositiveApplied'
  BY <1>1 DEF MoneyInv, PositiveApplied, Active
<1>3. ASSUME NEW q \in Payment
      PROVE  /\ payment'[q].unapplied + AppliedFrom(q)' = payment'[q].amount
             /\ PaidBy(q)' = {} <=>
                  payment'[q].status \notin {"PARTIALLY_APPLIED", "APPLIED"}
             /\ payment'[q].status = "APPLIED" <=>
                  PaidBy(q)' # {} /\ payment'[q].unapplied = 0
  <2>1. AppliedFrom(q)' = AppliedFrom(q) /\ PaidBy(q)' = PaidBy(q)
    BY <1>1, SameApplications
  <2>2. CASE payment'[q] = payment[q]
    BY <2>1, <2>2 DEF MoneyInv, MoneyConserved, PaymentStatusDerived
  <2>3. CASE NothingApplied(q)
    <3>1. AppliedFrom(q) = 0
      BY <2>3, SumEmpty DEF NothingApplied, AppliedFrom
    <3>2. payment'[q].amount \in Nat
      BY DEF TypeOK, PaymentRow
    <3>3. QED BY <2>1, <2>3, <3>1, <3>2 DEF NothingApplied
  <2>4. QED BY <2>2, <2>3
<1>4. ASSUME NEW d \in Charge
      PROVE  /\ AppliedTo(d)' <= charge'[d].amount
             /\ Payers(d)' = {} <=>
                  charge'[d].status \in {"ABSENT", "PENDING", "CANCELLED"}
             /\ charge'[d].status = "PAID" <=>
                  Payers(d)' # {} /\ charge'[d].amount - AppliedTo(d)' = 0
  <2>1. AppliedTo(d)' = AppliedTo(d) /\ Payers(d)' = Payers(d)
    BY <1>1, SamePayers
  <2>2. CASE /\ charge'[d].status = charge[d].status
             /\ charge'[d].amount = charge[d].amount
    BY <2>1, <2>2 DEF MoneyInv, NeverOverApplied, ChargeStatusDerived, Remaining
  <2>3. CASE /\ Payers(d) = {}
             /\ charge'[d].status \in {"ABSENT", "PENDING", "CANCELLED"}
    <3>1. AppliedTo(d) = 0
      BY <2>3, SumEmpty DEF AppliedTo
    <3>2. charge'[d].amount \in Nat
      BY DEF TypeOK, ChargeRow
    <3>3. QED BY <2>1, <2>3, <3>1, <3>2
  <2>4. QED BY <2>2, <2>3 DEF QuietCharge
<1>5. QED
  BY <1>2, <1>3, <1>4
  DEF MoneyInv, MoneyConserved, NeverOverApplied, ChargeStatusDerived,
      PaymentStatusDerived, Remaining

LEMMA QuietMoney ==
  ASSUME TypeOK, TypeOK', RetiredRowsUnused, MoneyInv, QuietStep
  PROVE  MoneyInv'
BY QuietRows, QuietApp, QuietPayments, QuietCharges DEF MoneyInv

LEMMA ApplyMoney ==
  ASSUME TypeOK, TypeOK', MoneyInv, NEW p \in Payment, NEW apps,
         DOMAIN apps \subseteq Charge, DOMAIN apps # {}, Apply(p, apps)
  PROVE  MoneyInv'
<1>1. /\ \A q \in Payment \ {p}, c \in Charge : app'[q][c] = app[q][c]
      /\ \A q \in Payment, c \in Charge \ DOMAIN apps : app'[q][c] = app[q][c]
      /\ \A c \in DOMAIN apps : app'[p][c].amount = apps[c]
  BY DEF Apply, WriteApply, TypeOK
<1>2. \A c \in DOMAIN apps :
        apps[c] \in Nat \ {0} /\ apps[c] <= Remaining(c)
  BY DEF Apply, ApplyOK, ItemOK
<1>3. PositiveApplied'
  BY <1>1, <1>2 DEF MoneyInv, PositiveApplied, Active
<1>4. ASSUME NEW q \in Payment
      PROVE  /\ payment'[q].unapplied + AppliedFrom(q)' = payment'[q].amount
             /\ PaidBy(q)' = {} <=>
                  payment'[q].status \notin {"PARTIALLY_APPLIED", "APPLIED"}
             /\ payment'[q].status = "APPLIED" <=>
                  PaidBy(q)' # {} /\ payment'[q].unapplied = 0
  <2>1. CASE q # p
    <3>1. AppliedFrom(q)' = AppliedFrom(q) /\ PaidBy(q)' = PaidBy(q)
      BY <1>1, <2>1, SameApplications
    <3>2. payment'[q] = payment[q]
      BY <2>1 DEF Apply, WriteApply, TypeOK
    <3>3. QED BY <3>1, <3>2 DEF MoneyInv, MoneyConserved, PaymentStatusDerived
  <2>2. CASE q = p
    <3>1. /\ payment'[p].unapplied = payment[p].unapplied - SumOf(apps)
          /\ payment'[p].amount = payment[p].amount
          /\ payment'[p].status = AppliedStatus(payment'[p].unapplied)
      <4> DEFINE left == LeftAfter(p, apps)
      <4>1. payment' = [payment EXCEPT ![p].unapplied = left,
                                       ![p].status = AppliedStatus(left)]
        BY DEF Apply, WriteApply
      <4>2. left = payment[p].unapplied - SumOf(apps)
        BY DEF LeftAfter
      <4> HIDE DEF left
      <4>3. /\ payment'[p].unapplied = left
            /\ payment'[p].amount = payment[p].amount
            /\ payment'[p].status = AppliedStatus(left)
        BY <4>1 DEF TypeOK, PaymentRow
      <4>4. QED BY <4>2, <4>3
    <3>2. payment[p].unapplied + AppliedFrom(p) = payment[p].amount
      BY DEF MoneyInv, MoneyConserved
    <3>3. /\ PaidBy(p)' # {}
          /\ AppliedFrom(p)' = AppliedFrom(p) + SumOf(apps)
      BY ApplyFrom
    <3>4. SumOf(apps) \in Nat
      <4>1. IsFiniteSet(DOMAIN apps)
        BY FiniteAssumption, FS_Subset
      <4>2. QED BY <1>2, <4>1, CentsFinite DEF Amounts
    <3>5. /\ payment[p].unapplied \in Nat /\ payment[p].amount \in Nat
          /\ payment'[p].unapplied \in Nat /\ AppliedFrom(p) \in Nat
      BY AppliedTypes DEF TypeOK, PaymentRow
    <3>6. payment'[p].unapplied + AppliedFrom(p)' = payment'[p].amount
      BY <3>1, <3>2, <3>3, <3>4, <3>5
    <3>7. /\ payment'[p].status \in {"PARTIALLY_APPLIED", "APPLIED"}
          /\ payment'[p].status = "APPLIED" <=> payment'[p].unapplied = 0
      BY <3>1, <3>5 DEF AppliedStatus
    <3>8. QED BY <2>2, <3>3, <3>6, <3>7
  <2>3. QED BY <2>1, <2>2
<1>5. ASSUME NEW c \in Charge
      PROVE  /\ AppliedTo(c)' <= charge'[c].amount
             /\ Payers(c)' = {} <=>
                  charge'[c].status \in {"ABSENT", "PENDING", "CANCELLED"}
             /\ charge'[c].status = "PAID" <=>
                  Payers(c)' # {} /\ charge'[c].amount - AppliedTo(c)' = 0
  <2>1. CASE c \notin DOMAIN apps
    <3>1. AppliedTo(c)' = AppliedTo(c) /\ Payers(c)' = Payers(c)
      BY <1>1, <2>1, SamePayers
    <3>2. charge'[c] = charge[c]
      BY <2>1 DEF Apply, WriteApply, TypeOK
    <3>3. QED BY <3>1, <3>2 DEF MoneyInv, NeverOverApplied, ChargeStatusDerived,
                                Remaining
  <2>2. CASE c \in DOMAIN apps
    <3>1. /\ charge'[c].status = PaidStatus(Remaining(c) - apps[c])
          /\ charge'[c].amount = charge[c].amount
      BY <2>2 DEF Apply, WriteApply, RemainingAfter, TypeOK, ChargeRow
    <3>2. Payers(c)' # {} /\ AppliedTo(c)' = AppliedTo(c) + apps[c]
      BY <2>2, ApplyTo
    <3>3. charge[c].amount \in Nat /\ AppliedTo(c) \in Nat
      BY AppliedTypes DEF TypeOK, ChargeRow
    <3>4. Remaining(c) = charge[c].amount - AppliedTo(c)
      BY DEF Remaining
    <3>5. apps[c] \in Nat /\ apps[c] <= Remaining(c)
      BY <1>2, <2>2
    <3>6. /\ charge'[c].status \in {"PAID", "PARTIALLY_PAID"}
          /\ charge'[c].status = "PAID" <=> Remaining(c) - apps[c] <= 0
      BY <3>1 DEF PaidStatus
    <3>7. AppliedTo(c)' <= charge'[c].amount
      BY <3>1, <3>2, <3>3, <3>4, <3>5
    <3>8. charge'[c].amount - AppliedTo(c)' = 0 <=> Remaining(c) - apps[c] <= 0
      BY <3>1, <3>2, <3>3, <3>4, <3>5
    <3>9. QED BY <3>2, <3>6, <3>7, <3>8
  <2>3. QED BY <2>1, <2>2
<1>6. QED
  BY <1>3, <1>4, <1>5
  DEF MoneyInv, MoneyConserved, NeverOverApplied, ChargeStatusDerived,
      PaymentStatusDerived, Remaining

LEMMA ReverseMoney ==
  ASSUME TypeOK, TypeOK', MoneyInv, NEW p \in Payment, NEW c \in Charge,
         ReverseApplication(p, c)
  PROVE  MoneyInv'
<1>1. /\ \A q \in Payment \ {p}, d \in Charge : app'[q][d] = app[q][d]
      /\ \A q \in Payment, d \in Charge \ {c} : app'[q][d] = app[q][d]
      /\ app'[p][c].state = "reversed"
  BY DEF ReverseApplication, WriteReverse, TypeOK, AppRow
<1>2. PositiveApplied'
  BY <1>1 DEF MoneyInv, PositiveApplied, Active
<1>3. /\ PaidBy(p)' = {} <=> AppliedFrom(p)' = 0
      /\ AppliedFrom(p) = AppliedFrom(p)' + app[p][c].amount
      /\ AppliedFrom(p)' \in Nat /\ app[p][c].amount \in Nat \ {0}
  BY ReverseFrom DEF MoneyInv
<1>4. /\ Payers(c)' = {} <=> AppliedTo(c)' = 0
      /\ AppliedTo(c) = AppliedTo(c)' + app[p][c].amount
      /\ AppliedTo(c)' \in Nat
  BY ReverseTo DEF MoneyInv
<1>5. ASSUME NEW q \in Payment
      PROVE  /\ payment'[q].unapplied + AppliedFrom(q)' = payment'[q].amount
             /\ PaidBy(q)' = {} <=>
                  payment'[q].status \notin {"PARTIALLY_APPLIED", "APPLIED"}
             /\ payment'[q].status = "APPLIED" <=>
                  PaidBy(q)' # {} /\ payment'[q].unapplied = 0
  <2>1. CASE q # p
    <3>1. AppliedFrom(q)' = AppliedFrom(q) /\ PaidBy(q)' = PaidBy(q)
      BY <1>1, <2>1, SameApplications
    <3>2. payment'[q] = payment[q]
      BY <2>1 DEF ReverseApplication, WriteReverse, TypeOK
    <3>3. QED BY <3>1, <3>2 DEF MoneyInv, MoneyConserved, PaymentStatusDerived
  <2>2. CASE q = p
    <3> DEFINE left == payment[p].unapplied + app[p][c].amount
    <3>1. /\ payment'[p].unapplied = left
          /\ payment'[p].amount = payment[p].amount
          /\ payment'[p].status = IF left = payment[p].amount THEN "CONFIRMED"
                                  ELSE "PARTIALLY_APPLIED"
      BY DEF ReverseApplication, WriteReverse, TypeOK, PaymentRow
    <3>2. payment[p].unapplied + AppliedFrom(p) = payment[p].amount
      BY DEF MoneyInv, MoneyConserved
    <3>3. payment[p].unapplied \in Nat /\ payment[p].amount \in Nat
      BY DEF TypeOK, PaymentRow
    <3>4. /\ payment'[p].unapplied + AppliedFrom(p)' = payment'[p].amount
          /\ left = payment[p].amount <=> AppliedFrom(p)' = 0
          /\ left # 0
      <4>1. PICK n \in Nat, k \in Nat \ {0}, u \in Nat, t \in Nat :
              /\ n = AppliedFrom(p)' /\ k = app[p][c].amount
              /\ u = payment[p].unapplied /\ t = payment[p].amount
        BY <1>3, <3>3
      <4>2. u + (n + k) = t /\ left = u + k
        BY <1>3, <3>2, <4>1
      <4>3. left + n = t /\ (left = t <=> n = 0) /\ left # 0
        BY <4>2
      <4>4. QED BY <3>1, <4>1, <4>3
    <3>5. QED BY <1>3, <2>2, <3>1, <3>4
  <2>3. QED BY <2>1, <2>2
<1>6. ASSUME NEW d \in Charge
      PROVE  /\ AppliedTo(d)' <= charge'[d].amount
             /\ Payers(d)' = {} <=>
                  charge'[d].status \in {"ABSENT", "PENDING", "CANCELLED"}
             /\ charge'[d].status = "PAID" <=>
                  Payers(d)' # {} /\ charge'[d].amount - AppliedTo(d)' = 0
  <2>1. CASE d # c
    <3>1. AppliedTo(d)' = AppliedTo(d) /\ Payers(d)' = Payers(d)
      BY <1>1, <2>1, SamePayers
    <3>2. charge'[d] = charge[d]
      BY <2>1 DEF ReverseApplication, WriteReverse, TypeOK
    <3>3. QED BY <3>1, <3>2 DEF MoneyInv, NeverOverApplied, ChargeStatusDerived,
                                Remaining
  <2>2. CASE d = c
    <3> DEFINE rem == Remaining(c) + app[p][c].amount
    <3>1. /\ charge'[c].status = RestoredStatus(c, rem)
          /\ charge'[c].amount = charge[c].amount
      BY DEF ReverseApplication, WriteReverse, TypeOK, ChargeRow
    <3>2. charge[c].amount \in Nat
      BY DEF TypeOK, ChargeRow
    <3>3. Remaining(c) = charge[c].amount - AppliedTo(c)
      BY DEF Remaining
    <3>4. AppliedTo(c) <= charge[c].amount
      BY DEF MoneyInv, NeverOverApplied
    <3>5. /\ rem = charge[c].amount <=> AppliedTo(c)' = 0
          /\ ~(rem <= 0)
          /\ AppliedTo(c)' <= charge'[c].amount
          /\ charge'[c].amount - AppliedTo(c)' # 0
      <4>1. PICK n \in Nat, k \in Nat \ {0}, t \in Nat :
              /\ n = AppliedTo(c)' /\ k = app[p][c].amount
              /\ t = charge[c].amount
        BY <1>3, <1>4, <3>2
      <4>2. rem = t - (n + k) + k /\ n + k <= t
        BY <1>4, <3>3, <3>4, <4>1
      <4>3. (rem = t <=> n = 0) /\ ~(rem <= 0) /\ n <= t /\ t - n # 0
        BY <4>2
      <4>4. QED BY <3>1, <4>1, <4>3
    <3> HIDE DEF rem
    <3>6. charge'[c].status = IF AppliedTo(c)' = 0 THEN "PENDING"
                              ELSE "PARTIALLY_PAID"
      BY <3>1, <3>5 DEF RestoredStatus, PaidStatus
    <3>7. QED BY <1>4, <2>2, <3>5, <3>6
  <2>3. QED BY <2>1, <2>2
<1>7. QED
  BY <1>2, <1>5, <1>6
  DEF MoneyInv, MoneyConserved, NeverOverApplied, ChargeStatusDerived,
      PaymentStatusDerived, Remaining

LEMMA NextMoney ==
  TypeOK /\ TypeOK' /\ RetiredRowsUnused /\ MoneyInv /\ [BankLedgerNext]_vars
    => MoneyInv'
BY StepKinds, QuietMoney, ApplyMoney, ReverseMoney

THEOREM MoneyCorrect == BankLedgerSpec => []MoneyInv
BY InitMoney, NextMoney, TypeCorrect, UnusedWhenRetired, PTL
DEF BankLedgerSpec

(* What a payment still has plus what is applied from it is its amount,    *)
(* through any chain of applications and reversals of any sizes.           *)
THEOREM Conserved == BankLedgerSpec => []MoneyConserved
BY MoneyCorrect, PTL DEF MoneyInv

(* No charge is paid beyond its amount by any number of payments.          *)
THEOREM NotOverApplied == BankLedgerSpec => []NeverOverApplied
BY MoneyCorrect, PTL DEF MoneyInv

(* The stored status of a charge is the one its applications imply.        *)
THEOREM ChargeStatusCorrect == BankLedgerSpec => []ChargeStatusDerived
BY MoneyCorrect, PTL DEF MoneyInv

(* The stored status of a payment is the one its applications imply.       *)
THEOREM PaymentStatusCorrect == BankLedgerSpec => []PaymentStatusDerived
BY MoneyCorrect, PTL DEF MoneyInv

-----------------------------------------------------------------------------
(* autoApply pays what is past due first.                                  *)

LEMMA LesserOf ==
  ASSUME NEW a \in Int, NEW b \in Int
  PROVE  Min({a, b}) = IF a <= b THEN a ELSE b
BY DEF Min

(* The sort key puts a past-due charge and all that come before it before  *)
(* any charge that is not yet due.                                         *)
LEMMA PastDueOrder ==
  ASSUME NEW now, NEW c \in Charge, NEW d \in Charge,
         PastDue(c, now), ~PastDue(d, now)
  PROVE  /\ PaidBefore(c, d, now) /\ ~PaidBefore(c, c, now)
         /\ \A x \in Charge : PaidBefore(x, c, now) => PaidBefore(x, d, now)
<1>1. \A x \in Charge :
        /\ SortKey(x, now)[1] = IF PastDue(x, now) THEN 0 ELSE 1
        /\ SortKey(x, now)[2] = IF x \in PenaltyCharge THEN 0 ELSE 1
        /\ SortKey(x, now)[3] = DueDate[x] /\ DueDate[x] \in Nat
        /\ SortKey(x, now)[4] = ChargeDate[x] /\ ChargeDate[x] \in Nat
  BY DatesAssumption DEF SortKey
<1>2. \A x \in Charge : PastDue(x, now) => PaidBefore(x, d, now)
  BY <1>1 DEF PaidBefore
<1>3. \A i \in 1..4 : ~(SortKey(c, now)[i] < SortKey(c, now)[i])
  BY <1>1
<1>4. ASSUME NEW x \in Charge, PaidBefore(x, c, now) PROVE PastDue(x, now)
  <2>1. PICK i \in 1..4 : /\ SortKey(x, now)[i] < SortKey(c, now)[i]
                          /\ \A j \in 1..(i - 1) :
                               SortKey(x, now)[j] = SortKey(c, now)[j]
    BY <1>4 DEF PaidBefore
  <2>2. CASE i = 1
    BY <1>1, <2>1, <2>2
  <2>3. CASE i # 1
    <3>1. SortKey(x, now)[1] = SortKey(c, now)[1]
      BY <2>1, <2>3
    <3>2. QED BY <1>1, <3>1
  <2>4. QED BY <2>2, <2>3
<1>5. QED BY <1>2, <1>3, <1>4 DEF PaidBefore

LEMMA AutoApplyOrder ==
  ASSUME TypeOK, TypeOK', MoneyInv, NEW p \in Payment, NEW now \in Days
  PROVE  PastDueFirst(p, now)
<1> SUFFICES ASSUME NEW c \in PayableDebits(p), NEW d \in PayableDebits(p),
                    PastDue(c, now), ~PastDue(d, now),
                    ~Active(p, d), Active(p, d)', AutoApply(p, now)
             PROVE  Remaining(c)' <= 0
  BY DEF PastDueFirst
<1>1. PICK owed : owed = [x \in PayableDebits(p) |-> Remaining(x)]
  OBVIOUS
<1>2. PICK debits : /\ debits = DOMAIN owed /\ debits \subseteq Charge
                    /\ c \in debits /\ d \in debits
  BY <1>1 DEF PayableDebits
<1>3. \A x \in debits : owed[x] = Remaining(x) /\ owed[x] \in Nat
  <2>1. \A x \in Charge : /\ charge[x].amount \in Nat /\ AppliedTo(x) \in Nat
                          /\ AppliedTo(x) <= charge[x].amount
    BY AppliedTypes DEF TypeOK, ChargeRow, MoneyInv, NeverOverApplied
  <2>2. QED BY <1>1, <1>2, <2>1 DEF Remaining
<1> DEFINE First(x) == [y \in {y \in DOMAIN owed : PaidBefore(y, x, now)} |-> owed[y]]
           Part == [x \in DOMAIN owed |->
                      Min({owed[x], payment[p].unapplied - SumOf(First(x))})]
<1>4. PICK first : first = [x \in debits |-> First(x)]
  OBVIOUS
<1>5. \A x \in debits :
        /\ DOMAIN first[x] = {y \in debits : PaidBefore(y, x, now)}
        /\ \A y \in DOMAIN first[x] : first[x][y] = owed[y]
  <2>1. \A x \in debits :
          /\ DOMAIN First(x) = {y \in debits : PaidBefore(y, x, now)}
          /\ \A y \in DOMAIN First(x) : First(x)[y] = owed[y]
    BY <1>2
  <2> HIDE DEF First
  <2>2. \A x \in debits : first[x] = First(x)
    BY <1>4
  <2>3. QED BY <2>1, <2>2
<1>6. PICK part : part = Part
  OBVIOUS
<1>7. /\ part = [x \in debits |->
                   Min({owed[x], payment[p].unapplied - SumOf(first[x])})]
      /\ AutoPlan(p, now) = [x \in {x \in debits : part[x] > 0} |-> part[x]]
  <2>1. AutoPlan(p, now) = [x \in {x \in DOMAIN owed : Part[x] > 0} |-> Part[x]]
    BY <1>1 DEF AutoPlan, Plan
  <2>2. \A x \in debits : First(x) = first[x]
    BY <1>4
  <2> HIDE DEF First
  <2>3. Part = [x \in debits |->
                  Min({owed[x], payment[p].unapplied - SumOf(first[x])})]
    BY <1>2, <2>2
  <2> HIDE DEF Part
  <2>4. AutoPlan(p, now) = [x \in {x \in debits : Part[x] > 0} |-> Part[x]]
    BY <1>2, <2>1
  <2>5. QED BY <1>6, <2>3, <2>4
<1> HIDE DEF First, Part
<1>8. PICK plan : /\ plan = [x \in {x \in debits : part[x] > 0} |-> part[x]]
                  /\ Apply(p, plan)
  BY <1>7 DEF AutoApply
<1>9. DOMAIN plan \subseteq Charge
  BY <1>2, <1>8
<1>10. d \in DOMAIN plan
  <2>1. \A x \in Charge \ DOMAIN plan : app'[p][x] = app[p][x]
    BY <1>8 DEF Apply, WriteApply, TypeOK
  <2>2. d \in Charge
    BY <1>2
  <2>3. QED BY <2>1, <2>2 DEF Active
<1>11. \A x \in debits : Amounts(first[x])
  <2>1. IsFiniteSet(debits)
    BY <1>2, FiniteAssumption, FS_Subset
  <2>2. ASSUME NEW x \in debits PROVE IsFiniteSet(DOMAIN first[x])
    BY <1>5, <2>1, FS_Subset
  <2>3. QED BY <1>3, <1>5, <2>2 DEF Amounts
<1>12. c \in debits /\ d \in debits /\ c \in Charge /\ d \in Charge
  BY <1>2
<1>13. SumOf(first[c]) + owed[c] <= SumOf(first[d])
  <2>1. PICK upto : upto = [x \in DOMAIN first[c] \cup {c} |-> owed[x]]
    OBVIOUS
  <2>2. /\ c \notin DOMAIN first[c]
        /\ DOMAIN first[c] \cup {c} \subseteq DOMAIN first[d]
    <3>1. /\ PaidBefore(c, d, now) /\ ~PaidBefore(c, c, now)
          /\ \A x \in Charge : PaidBefore(x, c, now) => PaidBefore(x, d, now)
      BY <1>12, PastDueOrder
    <3>2. /\ DOMAIN first[c] = {y \in debits : PaidBefore(y, c, now)}
          /\ DOMAIN first[d] = {y \in debits : PaidBefore(y, d, now)}
      BY <1>5, <1>12
    <3>3. QED BY <1>2, <1>12, <3>1, <3>2
  <2>3. PICK rest : rest = [x \in DOMAIN first[d] \ DOMAIN upto |-> first[d][x]]
    OBVIOUS
  <2>4. \A x \in DOMAIN upto : upto[x] = first[d][x]
    BY <1>5, <1>12, <2>1, <2>2
  <2>5. SumOf(first[d]) = SumOf(rest) + SumOf(upto)
    <3>1. /\ DOMAIN rest = DOMAIN first[d] \ DOMAIN upto
          /\ DOMAIN upto \subseteq DOMAIN first[d]
          /\ \A x \in DOMAIN rest : rest[x] = first[d][x]
      BY <2>1, <2>2, <2>3
    <3>2. Amounts(first[d])
      BY <1>11, <1>12
    <3>3. QED BY <2>4, <3>1, <3>2, SumSplit
  <2>6. Amounts(upto) /\ Amounts(rest)
    BY <1>11, <1>12, <2>1, <2>2, <2>3, <2>4, AmountsPart
  <2>7. SumOf(upto) = SumOf(first[c]) + owed[c]
    <3>1. c \in DOMAIN upto /\ upto[c] = owed[c]
      BY <2>1
    <3>2. DOMAIN first[c] = DOMAIN upto \ {c}
      BY <2>1, <2>2
    <3>3. \A x \in DOMAIN first[c] : first[c][x] = upto[x]
      BY <1>5, <1>12, <2>1
    <3>4. QED BY <2>6, <3>1, <3>2, <3>3, SumWithout
  <2>8. SumOf(rest) \in Nat /\ SumOf(upto) \in Nat
    BY <2>6, CentsFinite
  <2>9. QED BY <2>5, <2>7, <2>8
<1>14. PICK u \in Nat, before \in Nat, all \in Nat :
         /\ u = payment[p].unapplied
         /\ before = SumOf(first[c]) /\ all = SumOf(first[d])
  BY <1>11, <1>12, CentsFinite DEF TypeOK, PaymentRow
<1>15. part[c] = owed[c]
  <2>1. part[d] > 0 /\ part[d] = Min({owed[d], u - all})
    BY <1>7, <1>8, <1>10, <1>12, <1>14
  <2>2. u - all > 0
    BY <1>3, <1>12, <2>1, LesserOf
  <2>3. owed[c] <= u - before
    BY <1>3, <1>12, <1>13, <1>14, <2>2
  <2>4. part[c] = Min({owed[c], u - before})
    BY <1>7, <1>12, <1>14
  <2>5. QED BY <1>3, <1>12, <2>3, <2>4, LesserOf
<1>16. charge'[c].amount = charge[c].amount
  BY <1>8, <1>12 DEF Apply, WriteApply, TypeOK, ChargeRow
<1>17. CASE owed[c] > 0
  <2>1. c \in DOMAIN plan /\ plan[c] = owed[c]
    BY <1>8, <1>12, <1>15, <1>17
  <2>2. AppliedTo(c)' = AppliedTo(c) + owed[c]
    BY <1>8, <1>9, <2>1, ApplyTo
  <2>3. owed[c] = charge[c].amount - AppliedTo(c)
    BY <1>3, <1>12 DEF Remaining
  <2>4. charge[c].amount \in Nat /\ AppliedTo(c) \in Nat
    BY <1>12, AppliedTypes DEF TypeOK, ChargeRow
  <2>5. QED BY <1>16, <2>2, <2>3, <2>4 DEF Remaining
<1>18. CASE ~(owed[c] > 0)
  <2>1. c \notin DOMAIN plan
    BY <1>8, <1>15, <1>18
  <2>2. \A q \in Payment : app'[q][c] = app[q][c]
    BY <1>8, <1>12, <2>1 DEF Apply, WriteApply, TypeOK
  <2>3. AppliedTo(c)' = AppliedTo(c)
    BY <1>12, <2>2, SamePayers
  <2>4. owed[c] = Remaining(c) /\ owed[c] \in Nat
    BY <1>3, <1>12
  <2>5. QED BY <1>16, <1>18, <2>3, <2>4 DEF Remaining
<1>19. QED BY <1>3, <1>12, <1>17, <1>18

(* An automatic application, whatever the charges, their dates and what    *)
(* is left of the payment, leaves nothing of a past-due debit when it pays *)
(* one that is not yet due.                                                *)
THEOREM PastDuePaidFirst == BankLedgerSpec => AutoApplyPastDueFirst
<1>1. ASSUME TypeOK, TypeOK', MoneyInv
      PROVE  \A p \in Payment, now \in Days : PastDueFirst(p, now)
  BY <1>1, AutoApplyOrder
<1>2. QED
  BY <1>1, TypeCorrect, MoneyCorrect, PTL
  DEF BankLedgerSpec, AutoApplyPastDueFirst
=============================================================================
