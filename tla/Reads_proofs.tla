------------------------------ MODULE Reads_proofs -----------------------------
(***************************************************************************)
(* Proofs about Permissions and Reads for any users, roles, fields, values,*)
(* rules, tables and queries, and any number of combinator calls and       *)
(* writes.                                                                 *)
(*                                                                         *)
(* Permissions: a rule, and the condition made of it, is a tree, and each  *)
(* evaluator a recursive function on trees.  The first parts show that the *)
(* functions exist, and so that a combinator's value is made of its parts' *)
(* values; the evaluators then agree by induction on trees.  The invariant,*)
(* Building, bounds a rule's depth by the calls that built it, so that the *)
(* evaluators are defined on it, and says that it means what was meant.    *)
(*                                                                         *)
(* Reads: a list answers with pages of what its filter and rule choose.    *)
(* Reading says what was parsed, by whom, and from which tables; Counting  *)
(* that a page is as long as the count taken of its table.                 *)
(*                                                                         *)
(* tlapm takes a recursive function for one that is not when the function  *)
(* calls itself within a CASE: the functions on trees are written with IF, *)
(* and each is first shown to be the CHOOSE that defines it (TreesIsLevel, *)
(* evalRowIsRowFn, evalSqlIsSqlFn, SqlValueIsValueFn).                     *)
(***************************************************************************)
EXTENDS Reads, WellFoundedInduction, FiniteSetTheorems, SequenceTheorems, TLAPS

-----------------------------------------------------------------------------
(* Induction.                                                              *)

\* A set of numbers has a least one.
LEMMA LeastNat ==
  ASSUME NEW T, T \subseteq Nat, T # {}
  PROVE  \E n \in T : \A m \in T : ~(m < n)
  <1>1. \E n \in T : \A m \in T : ~(<<m, n>> \in OpToRel(<, Nat))
    BY WFMin, NatLessThanWellFounded, Zenon
  <1>2. QED BY <1>1 DEF OpToRel

\* A set with zero, and with the successor of each number it has, has them all.
LEMMA Induction ==
  ASSUME NEW S, 0 \in S, \A n \in Nat : n \in S => n + 1 \in S
  PROVE  Nat \subseteq S
  <1> DEFINE T == Nat \ S
  <1>1. SUFFICES ASSUME T # {} PROVE FALSE
    OBVIOUS
  <1>2. PICK n \in T : \A m \in T : ~(m < n)
    BY <1>1, LeastNat, Zenon
  <1>3. n # 0 /\ n \in Nat
    BY <1>2
  <1>4. n - 1 \in Nat /\ n - 1 < n /\ (n - 1) + 1 = n
    BY <1>3
  <1>5. n - 1 \in S
    BY <1>2, <1>4
  <1>6. QED BY <1>2, <1>4, <1>5

-----------------------------------------------------------------------------
(* Trees.                                                                  *)

Grown(trees) == trees \cup [kind : {"or", "and"}, parts : SUBSET trees]

\* g gives the trees over some leaves up to depth n.
Levels(g, n, leaves) ==
    g = [m \in 0..n |-> IF m = 0 THEN leaves ELSE Grown(g[m - 1])]

LEMMA LevelsAt ==
  ASSUME NEW g, NEW n \in Nat, NEW leaves, Levels(g, n, leaves), NEW m \in 0..n
  PROVE  g[m] = IF m = 0 THEN leaves ELSE Grown(g[m - 1])
  BY Zenon DEF Levels

LEMMA LevelsExist ==
  ASSUME NEW leaves, NEW n \in Nat
  PROVE  \E g : Levels(g, n, leaves)
  <1> DEFINE S == {k \in Nat : \E g : Levels(g, k, leaves)}
  <1>1. 0 \in S
    <2> DEFINE g == [m \in 0..0 |-> leaves]
    <2>1. g = [m \in 0..0 |-> IF m = 0 THEN leaves ELSE Grown(g[m - 1])]
      OBVIOUS
    <2>2. Levels(g, 0, leaves)
      BY <2>1, Zenon DEF Levels
    <2>3. QED BY <2>2
  <1>2. ASSUME NEW k \in Nat, k \in S PROVE k + 1 \in S
    <2>1. PICK g : Levels(g, k, leaves)
      BY <1>2
    <2> DEFINE h == [m \in 0..(k + 1) |-> IF m \in 0..k THEN g[m] ELSE Grown(g[k])]
    <2>2. ASSUME NEW m \in 0..(k + 1)
          PROVE  h[m] = IF m = 0 THEN leaves ELSE Grown(h[m - 1])
      <3>1. CASE m = 0
        <4>1. g[0] = leaves
          BY <2>1, LevelsAt
        <4>2. QED BY <3>1, <4>1
      <3>2. CASE m # 0 /\ m \in 0..k
        <4>1. g[m] = Grown(g[m - 1])
          BY <2>1, <3>2, LevelsAt
        <4>2. m - 1 \in 0..k /\ m - 1 \in 0..(k + 1)
          BY <3>2
        <4>3. h[m] = g[m] /\ h[m - 1] = g[m - 1]
          BY <3>2, <4>2
        <4>4. QED BY <3>2, <4>1, <4>3
      <3>3. CASE m \notin 0..k
        <4>1. m = k + 1 /\ m - 1 = k /\ k \in 0..k /\ k \in 0..(k + 1) /\ m # 0
          BY <3>3
        <4>2. h[m] = Grown(g[k])
          BY <3>3
        <4>3. h[k] = g[k]
          BY <4>1
        <4>4. QED BY <4>1, <4>2, <4>3
      <3>4. QED BY <3>1, <3>2, <3>3
    <2>3. h = [m \in 0..(k + 1) |-> IF m = 0 THEN leaves ELSE Grown(h[m - 1])]
      BY <2>2
    <2>4. Levels(h, k + 1, leaves)
      BY <2>3, Zenon DEF Levels
    <2>5. QED BY <2>4
  <1>3. Nat \subseteq S
    <2> HIDE DEF S
    <2>1. QED BY <1>1, <1>2, Induction
  <1>4. QED BY <1>3

LEMMA LevelsAgree ==
  ASSUME NEW leaves, NEW n \in Nat, NEW m \in Nat, NEW g, NEW h,
         Levels(g, n, leaves), Levels(h, m, leaves), NEW k \in Nat, k <= n, k <= m
  PROVE  g[k] = h[k]
  <1> DEFINE S == {i \in Nat : i <= n /\ i <= m => g[i] = h[i]}
  <1>1. 0 \in S
    BY LevelsAt
  <1>2. ASSUME NEW i \in Nat, i \in S PROVE i + 1 \in S
    <2>1. SUFFICES ASSUME i + 1 <= n, i + 1 <= m PROVE g[i + 1] = h[i + 1]
      OBVIOUS
    <2>2. g[i] = h[i]
      BY <1>2, <2>1
    <2>3. i + 1 \in 0..n /\ i + 1 \in 0..m /\ i + 1 # 0 /\ (i + 1) - 1 = i
      BY <2>1
    <2>4. g[i + 1] = Grown(g[i]) /\ h[i + 1] = Grown(h[i])
      BY <2>3, LevelsAt
    <2>5. QED BY <2>2, <2>4
  <1>3. Nat \subseteq S
    <2> HIDE DEF S
    <2>1. QED BY <1>1, <1>2, Induction
  <1>4. QED BY <1>3

\* The function that Trees is defined by.
Level(leaves) ==
    CHOOSE f : f = [n \in Nat |-> IF n = 0 THEN leaves ELSE Grown(f[n - 1])]

LEMMA LevelDefined ==
  ASSUME NEW leaves
  PROVE  Level(leaves) = [n \in Nat |-> IF n = 0 THEN leaves ELSE Grown(Level(leaves)[n - 1])]
  <1> DEFINE G(n) == CHOOSE g : Levels(g, n, leaves)
             f == [n \in Nat |-> G(n)[n]]
  <1>1. ASSUME NEW n \in Nat PROVE Levels(G(n), n, leaves)
    BY LevelsExist
  <1> HIDE DEF G
  <1>2. ASSUME NEW n \in Nat
        PROVE  f[n] = IF n = 0 THEN leaves ELSE Grown(f[n - 1])
    <2>1. CASE n = 0
      <3>1. G(0)[0] = leaves
        BY <1>1, LevelsAt
      <3>2. QED BY <2>1, <3>1
    <2>2. CASE n # 0
      <3>1. n - 1 \in Nat /\ n \in 0..n /\ n - 1 <= n - 1 /\ n - 1 <= n
        BY <2>2
      <3>2. G(n)[n] = Grown(G(n)[n - 1])
        BY <1>1, <2>2, <3>1, LevelsAt
      <3>3. G(n)[n - 1] = G(n - 1)[n - 1]
        BY <1>1, <3>1, LevelsAgree
      <3>4. QED BY <2>2, <3>1, <3>2, <3>3
    <2>3. QED BY <2>1, <2>2
  <1>3. f = [n \in Nat |-> IF n = 0 THEN leaves ELSE Grown(f[n - 1])]
    BY <1>2
  <1>4. \E g : g = [n \in Nat |-> IF n = 0 THEN leaves ELSE Grown(g[n - 1])]
    <2> HIDE DEF f
    <2>1. QED BY <1>3, Zenon
  <1>5. QED BY <1>4, Zenon DEF Level

LEMMA TreesIsLevel ==
  ASSUME NEW leaves, NEW n
  PROVE  Trees(leaves, n) = Level(leaves)[n]
  BY Zenon DEF Trees, Level, Grown

\* The trees of no depth are the leaves, and those of one more are what they
\* grow to.
LEMMA TreesAt ==
  ASSUME NEW leaves, NEW n \in Nat
  PROVE  /\ Trees(leaves, 0) = leaves
         /\ Trees(leaves, n + 1) = Grown(Trees(leaves, n))
  <1>1. Level(leaves)[0] = leaves
    BY LevelDefined
  <1>2. n + 1 \in Nat /\ n + 1 # 0 /\ (n + 1) - 1 = n
    OBVIOUS
  <1>3. Level(leaves)[n + 1] = Grown(Level(leaves)[n])
    BY <1>2, LevelDefined
  <1>4. QED BY <1>1, <1>3, TreesIsLevel

LEMMA TreesGrow ==
  ASSUME NEW leaves, NEW m \in Nat, NEW n \in Nat, m <= n
  PROVE  Trees(leaves, m) \subseteq Trees(leaves, n)
  <1> DEFINE S == {k \in Nat : Trees(leaves, m) \subseteq Trees(leaves, m + k)}
  <1>1. 0 \in S
    <2>1. m + 0 = m
      OBVIOUS
    <2>2. QED BY <2>1
  <1>2. ASSUME NEW k \in Nat, k \in S PROVE k + 1 \in S
    <2>1. m + (k + 1) = (m + k) + 1 /\ m + k \in Nat
      OBVIOUS
    <2>2. Trees(leaves, m + (k + 1)) = Grown(Trees(leaves, m + k))
      BY <2>1, TreesAt
    <2>3. Trees(leaves, m + k) \subseteq Trees(leaves, m + (k + 1))
      BY <2>2, Zenon DEF Grown
    <2>4. QED BY <1>2, <2>3
  <1>3. Nat \subseteq S
    <2> HIDE DEF S
    <2>1. QED BY <1>1, <1>2, Induction
  <1>4. n - m \in Nat /\ m + (n - m) = n
    OBVIOUS
  <1>5. n - m \in S
    <2> HIDE DEF S
    <2>1. QED BY <1>3, <1>4
  <1>6. QED BY <1>4, <1>5

Connectives == {"or", "and"}

\* Leaves are no combinators.
Flat(leaves) == \A x \in leaves : x.kind \notin Connectives

\* A tree is a leaf, or a combinator over trees less deep.
LEMMA TreesSplit ==
  ASSUME NEW leaves, NEW n \in Nat, NEW x \in Trees(leaves, n + 1)
  PROVE  \/ x \in leaves
         \/ x.kind \in Connectives /\ x.parts \subseteq Trees(leaves, n)
  <1> DEFINE Fits(k) == \A y \in Trees(leaves, k + 1) :
                          \/ y \in leaves
                          \/ y.kind \in Connectives /\ y.parts \subseteq Trees(leaves, k)
             S == {k \in Nat : Fits(k)}
  <1>1. 0 \in S
    <2>1. Trees(leaves, 0 + 1) = Grown(leaves) /\ Trees(leaves, 0) = leaves
      BY TreesAt
    <2>2. Fits(0)
      BY <2>1 DEF Grown, Connectives
    <2>3. QED BY <2>2
  <1>2. ASSUME NEW k \in Nat, k \in S PROVE k + 1 \in S
    <2>1. Trees(leaves, (k + 1) + 1) = Grown(Trees(leaves, k + 1))
      BY TreesAt
    <2>2. Trees(leaves, k) \subseteq Trees(leaves, k + 1)
      BY TreesGrow
    <2>3. Fits(k)
      BY <1>2
    <2>4. Fits(k + 1)
      BY <2>1, <2>2, <2>3 DEF Grown, Connectives
    <2>5. QED BY <2>4
  <1>3. Nat \subseteq S
    <2> HIDE DEF S
    <2>1. QED BY <1>1, <1>2, Induction
  <1>4. QED BY <1>3

\* The same at the depth of the tree itself.
LEMMA TreesParts ==
  ASSUME NEW leaves, NEW n \in Nat, NEW x \in Trees(leaves, n)
  PROVE  \/ x \in leaves
         \/ x.kind \in Connectives /\ x.parts \subseteq Trees(leaves, n)
  <1>1. x \in Trees(leaves, n + 1)
    BY TreesGrow
  <1>2. QED BY <1>1, TreesSplit

\* What holds of the leaves, and of a combinator when it holds of its parts,
\* holds of every tree.
LEMMA TreeInduction ==
  ASSUME NEW leaves, NEW n \in Nat, NEW S,
         \A x \in leaves : x \in S,
         \A x \in Trees(leaves, n) :
            x.kind \in Connectives /\ x.parts \subseteq S \cap Trees(leaves, n) => x \in S
  PROVE  Trees(leaves, n) \subseteq S
  <1> DEFINE D == {k \in Nat : k <= n => Trees(leaves, k) \subseteq S}
  <1>1. 0 \in D
    BY TreesAt
  <1>2. ASSUME NEW k \in Nat, k \in D PROVE k + 1 \in D
    <2>1. SUFFICES ASSUME k + 1 <= n, NEW x \in Trees(leaves, k + 1) PROVE x \in S
      OBVIOUS
    <2>2. Trees(leaves, k) \subseteq S
      BY <1>2, <2>1
    <2>3. Trees(leaves, k) \subseteq Trees(leaves, n) /\ x \in Trees(leaves, n)
      BY <2>1, TreesGrow
    <2>4. QED BY <2>2, <2>3, TreesSplit
  <1>3. Nat \subseteq D
    <2> HIDE DEF D
    <2>1. QED BY <1>1, <1>2, Induction
  <1>4. QED BY <1>3

-----------------------------------------------------------------------------
(* The evaluators, one combinator at a time.                               *)

LEMMA Flatness == Flat(Atoms) /\ Flat(Leaves)
  BY DEF Flat, Atoms, Leaves, Connectives

Depth == MaxCalls + 1

LEMMA DepthType == Depth \in Nat
  BY PermissionsAssumption DEF Depth

RowStep(f, e, ctx, row) ==
    IF e.kind = "or" THEN \E p \in e.parts : f[p]
    ELSE IF e.kind = "and" THEN \A p \in e.parts : f[p]
    ELSE Admits(e, ctx, row)

LEMMA RowStepSame ==
  ASSUME NEW f, NEW g, NEW e, NEW c, NEW r, \A p \in e.parts : f[p] = g[p]
  PROVE  RowStep(f, e, c, r) = RowStep(g, e, c, r)
  BY Zenon DEF RowStep

HasRowFn(n, c, r) == \E f : f = [e \in Trees(Atoms, n) |-> RowStep(f, e, c, r)]

LEMMA RowFnExists ==
  ASSUME NEW c, NEW r, NEW n \in Nat
  PROVE  HasRowFn(n, c, r)
  <1> DEFINE S == {k \in Nat : HasRowFn(k, c, r)}
  <1>1. 0 \in S
    <2> DEFINE f == [e \in Atoms |-> RowStep(<<>>, e, c, r)]
    <2>1. ASSUME NEW e \in Atoms PROVE RowStep(<<>>, e, c, r) = RowStep(f, e, c, r)
      <3> HIDE DEF f
      <3>1. e.kind # "or" /\ e.kind # "and"
        BY Flatness DEF Flat, Connectives
      <3>2. QED BY <3>1, Zenon DEF RowStep
    <2>2. f = [e \in Atoms |-> RowStep(f, e, c, r)]
      BY <2>1, Zenon
    <2>3. Trees(Atoms, 0) = Atoms
      BY TreesAt
    <2>4. HasRowFn(0, c, r)
      <3> HIDE DEF f
      <3>1. QED BY <2>2, <2>3, Zenon DEF HasRowFn
    <2>5. QED BY <2>4
  <1>2. ASSUME NEW k \in Nat, k \in S PROVE k + 1 \in S
    <2>0. HasRowFn(k, c, r)
      BY <1>2
    <2>1. PICK f : f = [e \in Trees(Atoms, k) |-> RowStep(f, e, c, r)]
      BY <2>0, Zenon DEF HasRowFn
    <2> DEFINE g == [e \in Trees(Atoms, k + 1) |-> RowStep(f, e, c, r)]
    <2>2. ASSUME NEW p \in Trees(Atoms, k) PROVE g[p] = f[p]
      <3>1. p \in Trees(Atoms, k + 1)
        BY TreesGrow
      <3>2. g[p] = RowStep(f, p, c, r)
        BY <3>1, Zenon
      <3>3. f[p] = RowStep(f, p, c, r)
        BY <2>1, Zenon
      <3>4. QED BY <3>2, <3>3, Zenon
    <2>3. ASSUME NEW e \in Trees(Atoms, k + 1) PROVE RowStep(f, e, c, r) = RowStep(g, e, c, r)
      <3> HIDE DEF g
      <3>1. CASE e \in Atoms
        <4>1. e.kind # "or" /\ e.kind # "and"
          BY <3>1, Flatness DEF Flat, Connectives
        <4>2. QED BY <4>1, Zenon DEF RowStep
      <3>2. CASE e.parts \subseteq Trees(Atoms, k)
        <4>1. \A p \in e.parts : f[p] = g[p]
          BY <2>2, <3>2, Zenon
        <4>2. QED BY <4>1, RowStepSame
      <3>3. QED BY <3>1, <3>2, TreesSplit
    <2>4. g = [e \in Trees(Atoms, k + 1) |-> RowStep(g, e, c, r)]
      BY <2>3, Zenon
    <2>5. HasRowFn(k + 1, c, r)
      <3> HIDE DEF g
      <3>1. QED BY <2>4, Zenon DEF HasRowFn
    <2>6. QED BY <2>5
  <1>3. Nat \subseteq S
    <2> HIDE DEF S
    <2>1. QED BY <1>1, <1>2, Induction
  <1>4. QED BY <1>3

RowFn(c, r) == CHOOSE f : f = [e \in Exprs |-> RowStep(f, e, c, r)]

LEMMA RowFnDefined ==
  ASSUME NEW c, NEW r
  PROVE  RowFn(c, r) = [e \in Exprs |-> RowStep(RowFn(c, r), e, c, r)]
  <1>1. Exprs = Trees(Atoms, Depth)
    BY Zenon DEF Exprs, Depth
  <1>2. \E f : f = [e \in Exprs |-> RowStep(f, e, c, r)]
    <2>1. HasRowFn(Depth, c, r)
      BY DepthType, RowFnExists
    <2>2. QED BY <1>1, <2>1, Zenon DEF HasRowFn
  <1>3. QED BY <1>2, Zenon DEF RowFn

LEMMA evalRowIsRowFn ==
  ASSUME NEW e, NEW c, NEW r
  PROVE  evalRow(e, c, r) = RowFn(c, r)[e]
  BY Zenon DEF evalRow, RowFn, RowStep

\* evalRow asks the parts of a combinator, and says of an atom what it admits.
LEMMA evalRowAt ==
  ASSUME NEW e \in Exprs, NEW c, NEW r
  PROVE  /\ e.kind = "or" => (evalRow(e, c, r) <=> \E p \in e.parts : evalRow(p, c, r))
         /\ e.kind = "and" => (evalRow(e, c, r) <=> \A p \in e.parts : evalRow(p, c, r))
         /\ e.kind \notin Connectives => (evalRow(e, c, r) <=> Admits(e, c, r))
  <1>1. evalRow(e, c, r) = RowStep(RowFn(c, r), e, c, r)
    BY evalRowIsRowFn, RowFnDefined, Zenon
  <1>2. \A p : evalRow(p, c, r) = RowFn(c, r)[p]
    BY evalRowIsRowFn, Zenon
  <1>3. QED BY <1>1, <1>2, Zenon DEF RowStep, Connectives
SqlStep(f, e, ctx) ==
    IF e.kind = "or" THEN Combine("or", True, False, {f[p] : p \in e.parts})
    ELSE IF e.kind = "and" THEN Combine("and", False, True, {f[p] : p \in e.parts})
    ELSE Asks(e, ctx)

LEMMA SqlStepSame ==
  ASSUME NEW f, NEW g, NEW e, NEW c, \A p \in e.parts : f[p] = g[p]
  PROVE  SqlStep(f, e, c) = SqlStep(g, e, c)
  <1>1. {f[p] : p \in e.parts} = {g[p] : p \in e.parts}
    OBVIOUS
  <1>2. QED BY <1>1, Zenon DEF SqlStep

HasSqlFn(n, c) == \E f : f = [e \in Trees(Atoms, n) |-> SqlStep(f, e, c)]

LEMMA SqlFnExists ==
  ASSUME NEW c, NEW n \in Nat
  PROVE  HasSqlFn(n, c)
  <1> DEFINE S == {k \in Nat : HasSqlFn(k, c)}
  <1>1. 0 \in S
    <2> DEFINE f == [e \in Atoms |-> SqlStep(<<>>, e, c)]
    <2>1. ASSUME NEW e \in Atoms PROVE SqlStep(<<>>, e, c) = SqlStep(f, e, c)
      <3> HIDE DEF f
      <3>1. e.kind # "or" /\ e.kind # "and"
        BY Flatness DEF Flat, Connectives
      <3>2. QED BY <3>1, Zenon DEF SqlStep
    <2>2. f = [e \in Atoms |-> SqlStep(f, e, c)]
      BY <2>1, Zenon
    <2>3. Trees(Atoms, 0) = Atoms
      BY TreesAt
    <2>4. HasSqlFn(0, c)
      <3> HIDE DEF f
      <3>1. QED BY <2>2, <2>3, Zenon DEF HasSqlFn
    <2>5. QED BY <2>4
  <1>2. ASSUME NEW k \in Nat, k \in S PROVE k + 1 \in S
    <2>0. HasSqlFn(k, c)
      BY <1>2
    <2>1. PICK f : f = [e \in Trees(Atoms, k) |-> SqlStep(f, e, c)]
      BY <2>0, Zenon DEF HasSqlFn
    <2> DEFINE g == [e \in Trees(Atoms, k + 1) |-> SqlStep(f, e, c)]
    <2>2. ASSUME NEW p \in Trees(Atoms, k) PROVE g[p] = f[p]
      <3>1. p \in Trees(Atoms, k + 1)
        BY TreesGrow
      <3>2. g[p] = SqlStep(f, p, c)
        BY <3>1, Zenon
      <3>3. f[p] = SqlStep(f, p, c)
        BY <2>1, Zenon
      <3>4. QED BY <3>2, <3>3, Zenon
    <2>3. ASSUME NEW e \in Trees(Atoms, k + 1) PROVE SqlStep(f, e, c) = SqlStep(g, e, c)
      <3> HIDE DEF g
      <3>1. CASE e \in Atoms
        <4>1. e.kind # "or" /\ e.kind # "and"
          BY <3>1, Flatness DEF Flat, Connectives
        <4>2. QED BY <4>1, Zenon DEF SqlStep
      <3>2. CASE e.parts \subseteq Trees(Atoms, k)
        <4>1. \A p \in e.parts : f[p] = g[p]
          BY <2>2, <3>2, Zenon
        <4>2. QED BY <4>1, SqlStepSame
      <3>3. QED BY <3>1, <3>2, TreesSplit
    <2>4. g = [e \in Trees(Atoms, k + 1) |-> SqlStep(g, e, c)]
      BY <2>3, Zenon
    <2>5. HasSqlFn(k + 1, c)
      <3> HIDE DEF g
      <3>1. QED BY <2>4, Zenon DEF HasSqlFn
    <2>6. QED BY <2>5
  <1>3. Nat \subseteq S
    <2> HIDE DEF S
    <2>1. QED BY <1>1, <1>2, Induction
  <1>4. QED BY <1>3

SqlFn(c) == CHOOSE f : f = [e \in Exprs |-> SqlStep(f, e, c)]

LEMMA SqlFnDefined ==
  ASSUME NEW c
  PROVE  SqlFn(c) = [e \in Exprs |-> SqlStep(SqlFn(c), e, c)]
  <1>1. Exprs = Trees(Atoms, Depth)
    BY Zenon DEF Exprs, Depth
  <1>2. \E f : f = [e \in Exprs |-> SqlStep(f, e, c)]
    <2>1. HasSqlFn(Depth, c)
      BY DepthType, SqlFnExists
    <2>2. QED BY <1>1, <2>1, Zenon DEF HasSqlFn
  <1>3. QED BY <1>2, Zenon DEF SqlFn

LEMMA evalSqlIsSqlFn ==
  ASSUME NEW e, NEW c
  PROVE  evalSql(e, c) = SqlFn(c)[e]
  BY Zenon DEF evalSql, SqlFn, SqlStep

\* evalSql combines what it makes of the parts of a combinator.
LEMMA evalSqlAt ==
  ASSUME NEW e \in Exprs, NEW c
  PROVE  /\ e.kind = "or" =>
              evalSql(e, c) = Combine("or", True, False, {evalSql(p, c) : p \in e.parts})
         /\ e.kind = "and" =>
              evalSql(e, c) = Combine("and", False, True, {evalSql(p, c) : p \in e.parts})
         /\ e.kind \notin Connectives => evalSql(e, c) = Asks(e, c)
  <1>1. evalSql(e, c) = SqlStep(SqlFn(c), e, c)
    BY evalSqlIsSqlFn, SqlFnDefined, Zenon
  <1>2. \A p : evalSql(p, c) = SqlFn(c)[p]
    BY evalSqlIsSqlFn, Zenon
  <1>3. {evalSql(p, c) : p \in e.parts} = {SqlFn(c)[p] : p \in e.parts}
    BY <1>2
  <1>4. QED BY <1>1, <1>3, Zenon DEF SqlStep, Connectives

ValueStep(f, e, row) ==
    IF e.kind = "or" THEN Connected("true", "false", {f[p] : p \in e.parts})
    ELSE IF e.kind = "and" THEN Connected("false", "true", {f[p] : p \in e.parts})
    ELSE Compared(e, row)

LEMMA ValueStepSame ==
  ASSUME NEW f, NEW g, NEW e, NEW r, \A p \in e.parts : f[p] = g[p]
  PROVE  ValueStep(f, e, r) = ValueStep(g, e, r)
  <1>1. {f[p] : p \in e.parts} = {g[p] : p \in e.parts}
    OBVIOUS
  <1>2. QED BY <1>1, Zenon DEF ValueStep

HasValueFn(n, r) == \E f : f = [e \in Trees(Leaves, n) |-> ValueStep(f, e, r)]

LEMMA ValueFnExists ==
  ASSUME NEW r, NEW n \in Nat
  PROVE  HasValueFn(n, r)
  <1> DEFINE S == {k \in Nat : HasValueFn(k, r)}
  <1>1. 0 \in S
    <2> DEFINE f == [e \in Leaves |-> ValueStep(<<>>, e, r)]
    <2>1. ASSUME NEW e \in Leaves PROVE ValueStep(<<>>, e, r) = ValueStep(f, e, r)
      <3> HIDE DEF f
      <3>1. e.kind # "or" /\ e.kind # "and"
        BY Flatness DEF Flat, Connectives
      <3>2. QED BY <3>1, Zenon DEF ValueStep
    <2>2. f = [e \in Leaves |-> ValueStep(f, e, r)]
      BY <2>1, Zenon
    <2>3. Trees(Leaves, 0) = Leaves
      BY TreesAt
    <2>4. HasValueFn(0, r)
      <3> HIDE DEF f
      <3>1. QED BY <2>2, <2>3, Zenon DEF HasValueFn
    <2>5. QED BY <2>4
  <1>2. ASSUME NEW k \in Nat, k \in S PROVE k + 1 \in S
    <2>0. HasValueFn(k, r)
      BY <1>2
    <2>1. PICK f : f = [e \in Trees(Leaves, k) |-> ValueStep(f, e, r)]
      BY <2>0, Zenon DEF HasValueFn
    <2> DEFINE g == [e \in Trees(Leaves, k + 1) |-> ValueStep(f, e, r)]
    <2>2. ASSUME NEW p \in Trees(Leaves, k) PROVE g[p] = f[p]
      <3>1. p \in Trees(Leaves, k + 1)
        BY TreesGrow
      <3>2. g[p] = ValueStep(f, p, r)
        BY <3>1, Zenon
      <3>3. f[p] = ValueStep(f, p, r)
        BY <2>1, Zenon
      <3>4. QED BY <3>2, <3>3, Zenon
    <2>3. ASSUME NEW e \in Trees(Leaves, k + 1) PROVE ValueStep(f, e, r) = ValueStep(g, e, r)
      <3> HIDE DEF g
      <3>1. CASE e \in Leaves
        <4>1. e.kind # "or" /\ e.kind # "and"
          BY <3>1, Flatness DEF Flat, Connectives
        <4>2. QED BY <4>1, Zenon DEF ValueStep
      <3>2. CASE e.parts \subseteq Trees(Leaves, k)
        <4>1. \A p \in e.parts : f[p] = g[p]
          BY <2>2, <3>2, Zenon
        <4>2. QED BY <4>1, ValueStepSame
      <3>3. QED BY <3>1, <3>2, TreesSplit
    <2>4. g = [e \in Trees(Leaves, k + 1) |-> ValueStep(g, e, r)]
      BY <2>3, Zenon
    <2>5. HasValueFn(k + 1, r)
      <3> HIDE DEF g
      <3>1. QED BY <2>4, Zenon DEF HasValueFn
    <2>6. QED BY <2>5
  <1>3. Nat \subseteq S
    <2> HIDE DEF S
    <2>1. QED BY <1>1, <1>2, Induction
  <1>4. QED BY <1>3

ValueFn(r) == CHOOSE f : f = [e \in Conds |-> ValueStep(f, e, r)]

LEMMA ValueFnDefined ==
  ASSUME NEW r
  PROVE  ValueFn(r) = [e \in Conds |-> ValueStep(ValueFn(r), e, r)]
  <1>1. Conds = Trees(Leaves, Depth)
    BY Zenon DEF Conds, Depth
  <1>2. \E f : f = [e \in Conds |-> ValueStep(f, e, r)]
    <2>1. HasValueFn(Depth, r)
      BY DepthType, ValueFnExists
    <2>2. QED BY <1>1, <2>1, Zenon DEF HasValueFn
  <1>3. QED BY <1>2, Zenon DEF ValueFn

LEMMA SqlValueIsValueFn ==
  ASSUME NEW e, NEW r
  PROVE  SqlValue(e, r) = ValueFn(r)[e]
  BY Zenon DEF SqlValue, ValueFn, ValueStep

\* The database connects the values of the parts of a condition.
LEMMA SqlValueAt ==
  ASSUME NEW e \in Conds, NEW r
  PROVE  /\ e.kind = "or" =>
              SqlValue(e, r) = Connected("true", "false", {SqlValue(p, r) : p \in e.parts})
         /\ e.kind = "and" =>
              SqlValue(e, r) = Connected("false", "true", {SqlValue(p, r) : p \in e.parts})
         /\ e.kind \notin Connectives => SqlValue(e, r) = Compared(e, r)
  <1>1. SqlValue(e, r) = ValueStep(ValueFn(r), e, r)
    BY SqlValueIsValueFn, ValueFnDefined, Zenon
  <1>2. \A p : SqlValue(p, r) = ValueFn(r)[p]
    BY SqlValueIsValueFn, Zenon
  <1>3. {SqlValue(p, r) : p \in e.parts} = {ValueFn(r)[p] : p \in e.parts}
    BY <1>2
  <1>4. QED BY <1>1, <1>3, Zenon DEF ValueStep, Connectives

-----------------------------------------------------------------------------
(* The evaluators agree.                                                   *)

Truths == {"true", "false", "unknown"}

LEMMA ExprsAre == Exprs = Trees(Atoms, Depth) /\ Conds = Trees(Leaves, Depth)
  BY Zenon DEF Exprs, Conds, Depth

LEMMA ExprParts ==
  ASSUME NEW e \in Exprs
  PROVE  \/ e \in Atoms /\ e.kind \notin Connectives
         \/ e.kind \in Connectives /\ e.parts \subseteq Exprs
  BY ExprsAre, DepthType, TreesParts, Flatness, Zenon DEF Flat

LEMMA CondParts ==
  ASSUME NEW q \in Conds
  PROVE  \/ q \in Leaves /\ q.kind \notin Connectives
         \/ q.kind \in Connectives /\ q.parts \subseteq Conds
  BY ExprsAre, DepthType, TreesParts, Flatness, Zenon DEF Flat

LEMMA SqlValueType ==
  ASSUME NEW q \in Conds, NEW r
  PROVE  SqlValue(q, r) \in Truths
  <1>1. CASE q.kind = "or"
    <2>1. SqlValue(q, r) = Connected("true", "false", {SqlValue(p, r) : p \in q.parts})
      BY <1>1, SqlValueAt, Zenon
    <2>2. QED BY <2>1 DEF Connected, Truths
  <1>2. CASE q.kind = "and"
    <2>1. SqlValue(q, r) = Connected("false", "true", {SqlValue(p, r) : p \in q.parts})
      BY <1>2, SqlValueAt, Zenon
    <2>2. QED BY <2>1 DEF Connected, Truths
  <1>3. CASE q.kind \notin Connectives
    <2>1. SqlValue(q, r) = Compared(q, r)
      BY <1>3, SqlValueAt, Zenon
    <2>2. q \in Leaves
      BY <1>3, CondParts
    <2>3. q.kind \in {"eq", "true", "false"}
      BY <2>2 DEF Leaves
    <2>4. QED BY <2>1, <2>3 DEF Compared, Truths
  <1>4. QED BY <1>1, <1>2, <1>3 DEF Connectives

LEMMA StaticConds == True \in Leaves /\ False \in Leaves /\ True # False
  BY DEF True, False, Static, Leaves

LEMMA LeavesAreConds == Leaves \subseteq Conds
  <1>1. Trees(Leaves, 0) = Leaves
    BY TreesAt
  <1>2. QED BY <1>1, ExprsAre, DepthType, TreesGrow

LEMMA StaticValues ==
  ASSUME NEW r
  PROVE  SqlValue(True, r) = "true" /\ SqlValue(False, r) = "false"
  <1>1. True \in Conds /\ False \in Conds
    BY StaticConds, LeavesAreConds
  <1>2. True.kind = "true" /\ False.kind = "false"
    BY DEF True, False, Static
  <1>3. "true" \notin Connectives /\ "false" \notin Connectives
    BY DEF Connectives
  <1>4. SqlValue(True, r) = Compared(True, r) /\ SqlValue(False, r) = Compared(False, r)
    BY <1>1, <1>2, <1>3, SqlValueAt
  <1>5. QED BY <1>2, <1>4 DEF Compared

LEMMA AskedType ==
  ASSUME NEW atom \in Atoms, NEW c \in Callers
  PROVE  Asks(atom, c) \in Leaves
  <1>1. CASE atom.kind = "owner"
    <2>1. atom.field \in Fields
      BY <1>1 DEF Atoms
    <2>2. Asks(atom, c) = IF c = Guest THEN False
                          ELSE [kind |-> "eq", field |-> atom.field, value |-> c]
      BY <1>1 DEF Asks
    <2>3. c # Guest => c \in Users
      BY DEF Callers
    <2>4. QED BY <2>1, <2>2, <2>3, StaticConds DEF Leaves
  <1>2. CASE atom.kind # "owner"
    <2>1. atom.kind \in {"role", "authenticated", "public"}
      BY <1>2 DEF Atoms
    <2>2. Asks(atom, c) \in {True, False}
      BY <2>1 DEF Asks, Static, True, False
    <2>3. QED BY <2>2, StaticConds
  <1>3. QED BY <1>1, <1>2

LEMMA CombineType ==
  ASSUME NEW n \in Nat, NEW ps, ps \subseteq Trees(Leaves, n),
         NEW op \in Connectives, NEW a \in {True, False}, NEW z \in {True, False}
  PROVE  Combine(op, a, z, ps) \in Trees(Leaves, n + 1)
  <1> DEFINE open == ps \ {z}
  <1>1. Leaves \subseteq Trees(Leaves, n + 1)
    <2>1. Trees(Leaves, 0) = Leaves /\ 0 \in Nat /\ n + 1 \in Nat /\ 0 <= n + 1
      BY TreesAt
    <2>2. QED BY <2>1, TreesGrow
  <1>2. Trees(Leaves, n + 1) = Grown(Trees(Leaves, n))
    BY TreesAt
  <1>3. [kind |-> op, parts |-> open] \in Trees(Leaves, n + 1)
    BY <1>2 DEF Grown, Connectives
  <1>4. \A only \in open : open = {only} => (CHOOSE x \in open : TRUE) \in Trees(Leaves, n)
    OBVIOUS
  <1>5. Trees(Leaves, n) \subseteq Trees(Leaves, n + 1)
    BY <1>2 DEF Grown
  <1>6. QED BY <1>1, <1>3, <1>4, <1>5, StaticConds, Zenon DEF Combine

\* evalSql makes of a rule a condition no deeper.
LEMMA SqlType ==
  ASSUME NEW n \in Nat, n <= Depth, NEW e \in Trees(Atoms, n), NEW c \in Callers
  PROVE  evalSql(e, c) \in Trees(Leaves, n)
  <1> DEFINE Fits(k) == \A x \in Trees(Atoms, k) : evalSql(x, c) \in Trees(Leaves, k)
             D == {k \in Nat : k <= Depth => Fits(k)}
  <1>0. ASSUME NEW k \in Nat, k <= Depth, NEW x \in Atoms
        PROVE  evalSql(x, c) \in Trees(Leaves, k)
    <2>1. x \in Exprs
      <3>1. x \in Trees(Atoms, 0)
        BY TreesAt
      <3>2. QED BY <3>1, ExprsAre, DepthType, TreesGrow
    <2>2. x.kind \notin Connectives
      BY Flatness DEF Flat
    <2>3. evalSql(x, c) = Asks(x, c)
      BY <2>1, <2>2, evalSqlAt, Zenon
    <2>4. Trees(Leaves, 0) = Leaves /\ Trees(Leaves, 0) \subseteq Trees(Leaves, k)
      BY TreesAt, TreesGrow
    <2>5. QED BY <2>3, <2>4, AskedType
  <1>1. 0 \in D
    <2>1. Trees(Atoms, 0) = Atoms
      BY TreesAt
    <2>2. 0 <= Depth
      BY DepthType
    <2>3. QED BY <2>1, <2>2, <1>0
  <1>2. ASSUME NEW k \in Nat, k \in D PROVE k + 1 \in D
    <2>1. SUFFICES ASSUME k + 1 <= Depth, NEW x \in Trees(Atoms, k + 1)
                   PROVE  evalSql(x, c) \in Trees(Leaves, k + 1)
      OBVIOUS
    <2>2. Fits(k)
      BY <1>2, <2>1, DepthType
    <2>3. x \in Exprs
      BY <2>1, ExprsAre, DepthType, TreesGrow
    <2>4. CASE x \in Atoms
      BY <2>4, <2>1, <1>0
    <2>5. CASE x.kind \in Connectives /\ x.parts \subseteq Trees(Atoms, k)
      <3>1. {evalSql(p, c) : p \in x.parts} \subseteq Trees(Leaves, k)
        BY <2>2, <2>5
      <3>2. CASE x.kind = "or"
        <4>1. evalSql(x, c) = Combine("or", True, False, {evalSql(p, c) : p \in x.parts})
          BY <2>3, <3>2, evalSqlAt, Zenon
        <4>2. QED BY <3>1, <4>1, CombineType DEF Connectives
      <3>3. CASE x.kind = "and"
        <4>1. evalSql(x, c) = Combine("and", False, True, {evalSql(p, c) : p \in x.parts})
          BY <2>3, <3>3, evalSqlAt, Zenon
        <4>2. QED BY <3>1, <4>1, CombineType DEF Connectives
      <3>4. QED BY <2>5, <3>2, <3>3 DEF Connectives
    <2>6. QED BY <2>1, <2>4, <2>5, TreesSplit
  <1>3. Nat \subseteq D
    <2> HIDE DEF D
    <2>1. QED BY <1>1, <1>2, Induction
  <1>4. QED BY <1>3

LEMMA SqlIsCond ==
  ASSUME NEW e \in Exprs, NEW c \in Callers
  PROVE  evalSql(e, c) \in Conds
  BY SqlType, ExprsAre, DepthType

\* An "or" of conditions is true of a row when one of them is.
LEMMA OrSelects ==
  ASSUME NEW r, NEW ps, ps \subseteq Conds, Combine("or", True, False, ps) \in Conds
  PROVE  Selected(Combine("or", True, False, ps), r) <=> \E p \in ps : Selected(p, r)
  <1> DEFINE open == ps \ {False}
  <1>1. CASE True \in ps
    <2>1. Combine("or", True, False, ps) = True
      BY <1>1 DEF Combine
    <2>2. Selected(True, r)
      BY StaticValues DEF Selected
    <2>3. QED BY <1>1, <2>1, <2>2, Zenon
  <1>2. CASE True \notin ps /\ open = {}
    <2>1. Combine("or", True, False, ps) = False
      BY <1>2 DEF Combine
    <2>2. ~Selected(False, r)
      BY StaticValues DEF Selected
    <2>3. \A p \in ps : p = False
      BY <1>2
    <2>4. QED BY <2>1, <2>2, <2>3, Zenon
  <1>3. ASSUME True \notin ps, NEW only \in open, open = {only}
        PROVE  Selected(Combine("or", True, False, ps), r) <=> \E p \in ps : Selected(p, r)
    <2>1. Combine("or", True, False, ps) = only
      BY <1>3 DEF Combine
    <2>2. ~Selected(False, r)
      BY StaticValues DEF Selected
    <2>3. only \in ps /\ \A p \in ps : p = False \/ p = only
      BY <1>3
    <2>4. QED BY <2>1, <2>2, <2>3, Zenon
  <1>4. CASE True \notin ps /\ open # {} /\ ~\E only \in open : open = {only}
    <2> DEFINE q == [kind |-> "or", parts |-> open]
    <2>1. Combine("or", True, False, ps) = q
      BY <1>4, Zenon DEF Combine
    <2>2. q \in Conds /\ q.kind = "or" /\ q.parts = open
      BY <2>1
    <2> HIDE DEF q
    <2>3. SqlValue(q, r) = Connected("true", "false", {SqlValue(p, r) : p \in open})
      BY <2>2, SqlValueAt, Zenon
    <2>4. SqlValue(q, r) = "true" <=> "true" \in {SqlValue(p, r) : p \in open}
      BY <2>3 DEF Connected
    <2>5. Selected(q, r) <=> \E p \in open : Selected(p, r)
      BY <2>4 DEF Selected
    <2>6. ~Selected(False, r)
      BY StaticValues DEF Selected
    <2>7. QED BY <2>1, <2>5, <2>6
  <1>5. QED BY <1>1, <1>2, <1>3, <1>4

\* An "and" of conditions is true of a row when all of them are.
LEMMA AndSelects ==
  ASSUME NEW r, NEW ps, ps \subseteq Conds, Combine("and", False, True, ps) \in Conds
  PROVE  Selected(Combine("and", False, True, ps), r) <=> \A p \in ps : Selected(p, r)
  <1> DEFINE open == ps \ {True}
  <1>1. CASE False \in ps
    <2>1. Combine("and", False, True, ps) = False
      BY <1>1 DEF Combine
    <2>2. ~Selected(False, r)
      BY StaticValues DEF Selected
    <2>3. QED BY <1>1, <2>1, <2>2, Zenon
  <1>2. CASE False \notin ps /\ open = {}
    <2>1. Combine("and", False, True, ps) = True
      BY <1>2 DEF Combine
    <2>2. Selected(True, r)
      BY StaticValues DEF Selected
    <2>3. \A p \in ps : p = True
      BY <1>2
    <2>4. QED BY <2>1, <2>2, <2>3, Zenon
  <1>3. ASSUME False \notin ps, NEW only \in open, open = {only}
        PROVE  Selected(Combine("and", False, True, ps), r) <=> \A p \in ps : Selected(p, r)
    <2>1. Combine("and", False, True, ps) = only
      BY <1>3 DEF Combine
    <2>2. Selected(True, r)
      BY StaticValues DEF Selected
    <2>3. only \in ps /\ \A p \in ps : p = True \/ p = only
      BY <1>3
    <2>4. QED BY <2>1, <2>2, <2>3, Zenon
  <1>4. CASE False \notin ps /\ open # {} /\ ~\E only \in open : open = {only}
    <2> DEFINE q == [kind |-> "and", parts |-> open]
    <2>1. Combine("and", False, True, ps) = q
      BY <1>4, Zenon DEF Combine
    <2>2. q \in Conds /\ q.kind = "and" /\ q.parts = open
      BY <2>1
    <2> HIDE DEF q
    <2>3. SqlValue(q, r) = Connected("false", "true", {SqlValue(p, r) : p \in open})
      BY <2>2, SqlValueAt, Zenon
    <2>4. \A p \in open : SqlValue(p, r) \in Truths
      BY SqlValueType
    <2>5. SqlValue(q, r) = "true" <=> \A p \in open : SqlValue(p, r) = "true"
      BY <2>3, <2>4 DEF Connected, Truths
    <2>6. Selected(q, r) <=> \A p \in open : Selected(p, r)
      BY <2>5 DEF Selected
    <2>7. Selected(True, r)
      BY StaticValues DEF Selected
    <2>8. QED BY <2>1, <2>6, <2>7
  <1>5. QED BY <1>1, <1>2, <1>3, <1>4

LEMMA AtomAgrees ==
  ASSUME NEW atom \in Atoms, NEW c \in Callers, NEW r
  PROVE  Selected(Asks(atom, c), r) <=> Admits(atom, c, r)
  <1>1. Asks(atom, c) \in Leaves
    BY AskedType
  <1>2. Asks(atom, c).kind \notin Connectives
    BY <1>1, Flatness DEF Flat
  <1>3. SqlValue(Asks(atom, c), r) = Compared(Asks(atom, c), r)
    BY <1>1, <1>2, LeavesAreConds, SqlValueAt, Zenon
  <1>4. CASE atom.kind = "owner"
    <2>1. Admits(atom, c, r) <=> c # Guest /\ r[atom.field] = c
      BY <1>4 DEF Admits
    <2>2. Asks(atom, c) = IF c = Guest THEN False
                          ELSE [kind |-> "eq", field |-> atom.field, value |-> c]
      BY <1>4 DEF Asks
    <2>3. c # Guest => c # Null
      BY PermissionsAssumption DEF Callers
    <2>4. CASE c = Guest
      BY <2>1, <2>2, <2>4, StaticValues DEF Selected
    <2>5. CASE c # Guest
      <3> DEFINE q == [kind |-> "eq", field |-> atom.field, value |-> c]
      <3>1. q.kind = "eq" /\ q.field = atom.field /\ q.value = c
        OBVIOUS
      <3>2. Asks(atom, c) = q
        BY <2>2, <2>5
      <3> HIDE DEF q
      <3>3. Compared(q, r) = "true" <=> r[atom.field] # Null /\ r[atom.field] = c
        BY <3>1 DEF Compared
      <3>4. QED BY <1>3, <2>1, <2>3, <2>5, <3>2, <3>3 DEF Selected
    <2>6. QED BY <2>4, <2>5
  <1>5. CASE atom.kind # "owner"
    <2>1. atom.kind \in {"role", "authenticated", "public"}
      BY <1>5 DEF Atoms
    <2>2. Asks(atom, c) = IF Admits(atom, c, r) THEN True ELSE False
      BY <2>1 DEF Asks, Admits, Static, True, False
    <2>3. QED BY <2>2, StaticValues DEF Selected
  <1>6. QED BY <1>4, <1>5

\* The condition evalSql makes of a rule is true of exactly the rows evalRow
\* admits, whatever the rule, the caller and the row.
THEOREM EvaluatorsAgree ==
  ASSUME NEW e \in Exprs, NEW c \in Callers, NEW r
  PROVE  Selected(evalSql(e, c), r) <=> evalRow(e, c, r)
  <1> DEFINE S == {x \in Exprs : Selected(evalSql(x, c), r) <=> evalRow(x, c, r)}
  <1>1. \A x \in Atoms : x \in S
    <2> SUFFICES ASSUME NEW x \in Atoms PROVE x \in S
      OBVIOUS
    <2>1. x \in Exprs
      <3>1. x \in Trees(Atoms, 0)
        BY TreesAt
      <3>2. QED BY <3>1, ExprsAre, DepthType, TreesGrow
    <2>2. x.kind \notin Connectives
      BY Flatness DEF Flat
    <2>3. evalSql(x, c) = Asks(x, c) /\ (evalRow(x, c, r) <=> Admits(x, c, r))
      BY <2>1, <2>2, evalSqlAt, evalRowAt, Zenon
    <2>4. Selected(evalSql(x, c), r) <=> evalRow(x, c, r)
      BY <2>3, AtomAgrees, Zenon
    <2>5. QED BY <2>1, <2>4
  <1>2. ASSUME NEW x \in Trees(Atoms, Depth), x.kind \in Connectives,
               x.parts \subseteq S \cap Trees(Atoms, Depth)
        PROVE  x \in S
    <2> DEFINE ps == {evalSql(p, c) : p \in x.parts}
    <2>1. x \in Exprs /\ x.parts \subseteq Exprs
      BY <1>2, ExprsAre
    <2>2. \A p \in x.parts : Selected(evalSql(p, c), r) <=> evalRow(p, c, r)
      BY <1>2
    <2>3. ps \subseteq Conds /\ evalSql(x, c) \in Conds
      BY <2>1, SqlIsCond
    <2>4. (\E q \in ps : Selected(q, r)) <=> \E p \in x.parts : Selected(evalSql(p, c), r)
      BY Zenon
    <2>5. (\A q \in ps : Selected(q, r)) <=> \A p \in x.parts : Selected(evalSql(p, c), r)
      BY Zenon
    <2> HIDE DEF ps
    <2>6. CASE x.kind = "or"
      <3>1. evalSql(x, c) = Combine("or", True, False, ps)
        BY <2>1, <2>6, evalSqlAt, Zenon DEF ps
      <3>2. evalRow(x, c, r) <=> \E p \in x.parts : evalRow(p, c, r)
        BY <2>1, <2>6, evalRowAt, Zenon
      <3>3. Selected(evalSql(x, c), r) <=> \E q \in ps : Selected(q, r)
        BY <2>3, <3>1, OrSelects, Zenon
      <3>4. Selected(evalSql(x, c), r) <=> evalRow(x, c, r)
        BY <2>2, <2>4, <3>2, <3>3, Zenon
      <3>5. QED BY <2>1, <3>4
    <2>7. CASE x.kind = "and"
      <3>1. evalSql(x, c) = Combine("and", False, True, ps)
        BY <2>1, <2>7, evalSqlAt, Zenon DEF ps
      <3>2. evalRow(x, c, r) <=> \A p \in x.parts : evalRow(p, c, r)
        BY <2>1, <2>7, evalRowAt, Zenon
      <3>3. Selected(evalSql(x, c), r) <=> \A q \in ps : Selected(q, r)
        BY <2>3, <3>1, AndSelects, Zenon
      <3>4. Selected(evalSql(x, c), r) <=> evalRow(x, c, r)
        BY <2>2, <2>5, <3>2, <3>3, Zenon
      <3>5. QED BY <2>1, <3>4
    <2>8. QED BY <1>2, <2>6, <2>7 DEF Connectives
  <1>3. Exprs \subseteq S
    <2> HIDE DEF S
    <2>1. QED BY <1>1, <1>2, ExprsAre, DepthType, TreeInduction
  <1>4. QED BY <1>3

-----------------------------------------------------------------------------
(* The builder.                                                            *)

\* Both readings of what is built so far, with the depth that the calls made
\* so far can have given it.
Building ==
    /\ calls \in 0..MaxCalls
    /\ \/ rule = NoRule /\ calls = 0 /\ meaning = {}
       \/ rule \in Trees(Atoms, calls + 1) /\ meaning = Meant(rule)

LEMMA NoRuleIsNone == NoRule \notin Exprs /\ NoRule \notin Atoms
  <1>1. NoRule \notin Atoms /\ NoRule.kind \notin Connectives
    BY DEF NoRule, Atoms, Connectives
  <1>2. QED BY <1>1, ExprParts

LEMMA ArgumentsAre ==
  ASSUME NEW x \in Arguments
  PROVE  x \in Trees(Atoms, 1)
  <1>1. Trees(Atoms, 0) = Atoms /\ Trees(Atoms, 0 + 1) = Grown(Trees(Atoms, 0)) /\ 0 + 1 = 1
    BY TreesAt
  <1>2. Trees(Atoms, 1) = Grown(Atoms)
    BY <1>1
  <1>3. CASE x \in Atoms
    BY <1>2, <1>3 DEF Grown
  <1>4. ASSUME NEW k \in {"or", "and"}, NEW a \in Atoms, NEW b \in Atoms, x = Join(k, a, b)
        PROVE  x \in Trees(Atoms, 1)
    <2>1. a.kind \notin Connectives /\ b.kind \notin Connectives
      BY Flatness DEF Flat
    <2>2. Operands(k, a) = {a} /\ Operands(k, b) = {b}
      BY <1>4, <2>1 DEF Operands, Connectives
    <2>3. x = [kind |-> k, parts |-> {a, b}]
      BY <1>4, <2>2 DEF Join
    <2>4. QED BY <1>2, <2>3 DEF Grown
  <1>5. QED BY <1>3, <1>4 DEF Arguments

\* A combinator call makes a rule one deeper at most.
LEMMA JoinType ==
  ASSUME NEW n \in Nat, NEW a \in Trees(Atoms, n), NEW b \in Trees(Atoms, n),
         NEW k \in Connectives
  PROVE  Join(k, a, b) \in Trees(Atoms, n + 1)
  <1>1. ASSUME NEW x \in Trees(Atoms, n) PROVE Operands(k, x) \subseteq Trees(Atoms, n)
    <2>1. x.kind = k => x.parts \subseteq Trees(Atoms, n)
      BY TreesParts, Flatness, Zenon DEF Flat
    <2>2. QED BY <2>1 DEF Operands
  <1>2. Operands(k, a) \cup Operands(k, b) \subseteq Trees(Atoms, n)
    BY <1>1
  <1>3. Trees(Atoms, n + 1) = Grown(Trees(Atoms, n))
    BY TreesAt
  <1>4. QED BY <1>2, <1>3 DEF Join, Grown, Connectives

\* A flattened "or" admits whoever either of its rules admits, a flattened
\* "and" whoever both do.
LEMMA JoinMeans ==
  ASSUME NEW a \in Exprs, NEW b \in Exprs, NEW c, NEW r
  PROVE  /\ Join("or", a, b) \in Exprs =>
              (evalRow(Join("or", a, b), c, r) <=> evalRow(a, c, r) \/ evalRow(b, c, r))
         /\ Join("and", a, b) \in Exprs =>
              (evalRow(Join("and", a, b), c, r) <=> evalRow(a, c, r) /\ evalRow(b, c, r))
  <1>1. ASSUME NEW x \in Exprs
        PROVE  /\ (\E p \in Operands("or", x) : evalRow(p, c, r)) <=> evalRow(x, c, r)
               /\ (\A p \in Operands("and", x) : evalRow(p, c, r)) <=> evalRow(x, c, r)
    BY evalRowAt, Zenon DEF Operands
  <1>2. ASSUME Join("or", a, b) \in Exprs
        PROVE  evalRow(Join("or", a, b), c, r) <=> evalRow(a, c, r) \/ evalRow(b, c, r)
    <2>1. /\ Join("or", a, b).kind = "or"
          /\ Join("or", a, b).parts = Operands("or", a) \cup Operands("or", b)
      BY DEF Join
    <2>2. evalRow(Join("or", a, b), c, r)
            <=> \E p \in Operands("or", a) \cup Operands("or", b) : evalRow(p, c, r)
      BY <1>2, <2>1, evalRowAt, Zenon
    <2>3. QED BY <1>1, <2>2, Zenon
  <1>3. ASSUME Join("and", a, b) \in Exprs
        PROVE  evalRow(Join("and", a, b), c, r) <=> evalRow(a, c, r) /\ evalRow(b, c, r)
    <2>1. /\ Join("and", a, b).kind = "and"
          /\ Join("and", a, b).parts = Operands("and", a) \cup Operands("and", b)
      BY DEF Join
    <2>2. evalRow(Join("and", a, b), c, r)
            <=> \A p \in Operands("and", a) \cup Operands("and", b) : evalRow(p, c, r)
      BY <1>3, <2>1, evalRowAt, Zenon
    <2>3. QED BY <1>1, <2>2, Zenon
  <1>4. QED BY <1>2, <1>3, Zenon

LEMMA BuildingInit == Init => Building
  BY PermissionsAssumption DEF Init, Building

LEMMA BuildingNext == Building /\ [Next]_vars => Building'
  <1> SUFFICES ASSUME Building, [Next]_vars PROVE Building'
    OBVIOUS
  <1>1. ASSUME NEW atom \in Atoms, Start(atom) PROVE Building'
    <2>1. rule = NoRule /\ calls' = calls
      BY <1>1 DEF Start
    <2>2. calls = 0
      <3>1. ASSUME rule \in Trees(Atoms, calls + 1) PROVE FALSE
        <4>1. calls + 1 <= Depth /\ calls + 1 \in Nat
          BY PermissionsAssumption DEF Building, Depth
        <4>2. rule \in Exprs
          BY <3>1, <4>1, ExprsAre, DepthType, TreesGrow
        <4>3. QED BY <2>1, <4>2, NoRuleIsNone
      <3>2. QED BY <3>1 DEF Building
    <2>3. rule' = atom /\ meaning' = Meant(rule')
      BY <1>1 DEF Start
    <2>4. Trees(Atoms, 0) = Atoms /\ Trees(Atoms, 0) \subseteq Trees(Atoms, 1)
      BY TreesAt, TreesGrow
    <2>5. rule' \in Trees(Atoms, calls' + 1)
      BY <2>1, <2>2, <2>3, <2>4
    <2>6. calls' \in 0..MaxCalls
      BY <2>1 DEF Building
    <2>7. QED BY <2>3, <2>5, <2>6 DEF Building
  <1>2. ASSUME NEW other \in Arguments, Or(other) \/ And(other) PROVE Building'
    <2>1. rule # NoRule /\ calls < MaxCalls /\ calls' = calls + 1
      BY <1>2 DEF Or, And
    <2>2. /\ calls \in Nat /\ calls' \in Nat /\ calls' \in 0..MaxCalls
          /\ calls + 1 <= Depth /\ (calls + 1) + 1 <= Depth /\ calls' + 1 = (calls + 1) + 1
      BY <2>1, PermissionsAssumption DEF Building, Depth
    <2>3. rule \in Trees(Atoms, calls + 1) /\ meaning = Meant(rule)
      BY <2>1 DEF Building
    <2>4. other \in Trees(Atoms, calls + 1)
      <3>1. Trees(Atoms, 1) \subseteq Trees(Atoms, calls + 1)
        BY <2>2, TreesGrow
      <3>2. QED BY <3>1, ArgumentsAre
    <2>5. Trees(Atoms, calls + 1) \subseteq Exprs /\ Trees(Atoms, calls' + 1) \subseteq Exprs
      <3>1. Trees(Atoms, calls + 1) \subseteq Trees(Atoms, Depth)
        BY <2>2, DepthType, TreesGrow
      <3>2. calls' + 1 \in Nat /\ calls' + 1 <= Depth
        <4>1. calls' + 1 = (calls + 1) + 1 /\ calls \in Nat
          BY <2>2
        <4>2. (calls + 1) + 1 <= Depth
          BY <2>2
        <4>3. QED BY <4>1, <4>2
      <3>3. Trees(Atoms, calls' + 1) \subseteq Trees(Atoms, Depth)
        BY <3>2, DepthType, TreesGrow
      <3>4. QED BY <3>1, <3>3, ExprsAre
    <2>6. ASSUME NEW k \in Connectives, rule' = Join(k, rule, other)
          PROVE  rule' \in Trees(Atoms, calls' + 1)
      <3>1. calls + 1 \in Nat
        BY <2>2
      <3>2. Join(k, rule, other) \in Trees(Atoms, (calls + 1) + 1)
        BY <2>3, <2>4, <3>1, JoinType
      <3>3. QED BY <2>2, <2>6, <3>2
    <2>7. rule \in Exprs /\ other \in Exprs
      BY <2>3, <2>4, <2>5
    <2>8. CASE Or(other)
      <3>1. rule' = Join("or", rule, other) /\ meaning' = meaning \cup Meant(other)
        BY <2>8 DEF Or
      <3>2. rule' \in Trees(Atoms, calls' + 1)
        BY <2>6, <3>1 DEF Connectives
      <3>3. \A c, r : evalRow(rule', c, r) <=> evalRow(rule, c, r) \/ evalRow(other, c, r)
        BY <2>5, <2>7, <3>1, <3>2, JoinMeans
      <3>4. Meant(rule') = Meant(rule) \cup Meant(other)
        BY <3>3 DEF Meant
      <3>5. meaning' = Meant(rule')
        BY <2>3, <3>1, <3>4
      <3>6. QED BY <2>2, <3>2, <3>5 DEF Building
    <2>9. CASE And(other)
      <3>1. rule' = Join("and", rule, other) /\ meaning' = meaning \cap Meant(other)
        BY <2>9 DEF And
      <3>2. rule' \in Trees(Atoms, calls' + 1)
        BY <2>6, <3>1 DEF Connectives
      <3>3. \A c, r : evalRow(rule', c, r) <=> evalRow(rule, c, r) /\ evalRow(other, c, r)
        BY <2>5, <2>7, <3>1, <3>2, JoinMeans
      <3>4. Meant(rule') = Meant(rule) \cap Meant(other)
        BY <3>3 DEF Meant
      <3>5. meaning' = Meant(rule')
        BY <2>3, <3>1, <3>4
      <3>6. QED BY <2>2, <3>2, <3>5 DEF Building
    <2>10. QED BY <1>2, <2>8, <2>9
  <1>3. CASE UNCHANGED vars
    BY <1>3 DEF vars, Building
  <1>4. QED BY <1>1, <1>2, <1>3 DEF Next

LEMMA BuildingMeans == Building => MeansWhatItSays
  BY DEF Building, MeansWhatItSays

LEMMA BuildingIsExpr == Building => rule \in Exprs \cup {NoRule}
  <1> SUFFICES ASSUME Building, rule \in Trees(Atoms, calls + 1) PROVE rule \in Exprs
    BY DEF Building
  <1>1. calls + 1 <= Depth /\ calls + 1 \in Nat
    BY PermissionsAssumption DEF Building, Depth
  <1>2. QED BY <1>1, ExprsAre, DepthType, TreesGrow

\* What reads select is what the row check passes, whatever the rule.
LEMMA DecisionsAgree ==
  ASSUME NEW e \in Exprs \cup {NoRule}, NEW c \in Callers, NEW r
  PROVE  Selected(decide(e, c), r) <=> checkRow(e, c, r)
  <1>1. Selected(True, r) /\ ~Selected(False, r)
    BY StaticValues DEF Selected
  <1>2. CASE Admin(c)
    BY <1>1, <1>2, Zenon DEF decide, checkRow
  <1>3. CASE ~Admin(c) /\ e = NoRule
    BY <1>1, <1>3, Zenon DEF decide, checkRow
  <1>4. CASE ~Admin(c) /\ e # NoRule
    <2>1. decide(e, c) = evalSql(e, c)
      BY <1>4, Zenon DEF decide
    <2>2. checkRow(e, c, r) <=> evalRow(e, c, r)
      BY <1>4, Zenon DEF checkRow
    <2>3. e \in Exprs
      BY <1>4
    <2>4. QED BY <2>1, <2>2, <2>3, EvaluatorsAgree, Zenon
  <1>5. QED BY <1>2, <1>3, <1>4

LEMMA BuildingAgrees == Building => FilterIsRowCheck
  <1> SUFFICES ASSUME Building, NEW c \in Cases
               PROVE  Selected(decide(rule, c[1]), c[2]) <=> checkRow(rule, c[1], c[2])
    BY DEF FilterIsRowCheck
  <1>1. c[1] \in Callers
    BY DEF Cases
  <1>2. QED BY <1>1, BuildingIsExpr, DecisionsAgree

\* Every rule an author can build in the calls allowed is a tree no deeper
\* than those calls, and means what its author meant.
THEOREM RulesAreBuilt == Spec => []Building
  <1>1. QED BY BuildingInit, BuildingNext, PTL DEF Spec

\* Chaining and flattening keeps what the author meant, however long.
THEOREM RulesMean == Spec => []MeansWhatItSays
  <1>1. QED BY RulesAreBuilt, BuildingMeans, PTL

\* A caller's reads select the rows that pass the caller's row check.
THEOREM RulesAgree == Spec => []FilterIsRowCheck
  <1>1. QED BY RulesAreBuilt, BuildingAgrees, PTL

-----------------------------------------------------------------------------
(* The client and the parser.                                              *)

LEMMA NumberBack ==
  ASSUME NEW n \in Numbers
  PROVE  (CHOOSE m \in Numbers : <<Numeral[n]>> = <<Numeral[m]>>) = n
  <1>1. ASSUME NEW m \in Numbers, <<Numeral[n]>> = <<Numeral[m]>> PROVE m = n
    <2>1. Numeral[m] = Numeral[n]
      BY <1>1
    <2>2. QED BY <2>1, ReadsAssumption
  <1>2. QED BY <1>1

\* A scalar comes back from the wire as it was sent.
LEMMA ScalarBack ==
  ASSUME NEW field, NEW value, field \in NumberFields => value \in Numbers
  PROVE  Coerce(field, Text(field, value)) = value
  <1>1. CASE field \notin NumberFields
    BY <1>1 DEF Coerce, Text
  <1>2. CASE field \in NumberFields
    <2>1. Text(field, value) = <<Numeral[value]>>
      BY <1>2 DEF Text
    <2>2. value \in Numbers
      BY <1>2
    <2>3. \E n \in Numbers : <<Numeral[value]>> = <<Numeral[n]>>
      BY <2>2
    <2>4. Coerce(field, <<Numeral[value]>>)
            = CHOOSE n \in Numbers : <<Numeral[value]>> = <<Numeral[n]>>
      BY <1>2, <2>3, Zenon DEF Coerce
    <2>5. QED BY <2>1, <2>2, <2>4, NumberBack
  <1>3. QED BY <1>1, <1>2

ItemsOf(clause) == IF clause.op = "in" THEN Items(clause.value) ELSE <<clause.value>>

LEMMA ParamOf ==
  ASSUME NEW clause, NEW p \in Params(clause)
  PROVE  /\ p.field = clause.field /\ p.op = clause.op
         /\ \E i \in DOMAIN ItemsOf(clause) : p.raw = Text(clause.field, ItemsOf(clause)[i])
  BY DEF Params, ItemsOf

\* The parameters with the key of one of a clause's are the clause's.
LEMMA KeyOfClause ==
  ASSUME NEW q, TypedQuery(q), NEW clause \in q.filter, NEW p \in Params(clause)
  PROVE  SameKey(Encode(q.filter), p) = Params(clause)
  <1>1. ASSUME NEW other \in SameKey(Encode(q.filter), p) PROVE other \in Params(clause)
    <2>1. other \in Encode(q.filter) /\ other.field = p.field /\ other.op = p.op
      BY DEF SameKey
    <2>2. PICK d \in q.filter : other \in Params(d)
      BY <2>1 DEF Encode
    <2>3. d.field = clause.field /\ d.op = clause.op
      BY <2>1, <2>2, ParamOf
    <2>4. d = clause
      BY <2>3 DEF TypedQuery
    <2>5. QED BY <2>2, <2>4
  <1>2. ASSUME NEW other \in Params(clause) PROVE other \in SameKey(Encode(q.filter), p)
    <2>1. other \in Encode(q.filter)
      BY DEF Encode
    <2>2. other.field = p.field /\ other.op = p.op
      BY ParamOf
    <2>3. QED BY <2>1, <2>2 DEF SameKey
  <1>3. QED BY <1>1, <1>2

\* An `in` sends the items it has, and never one of them alone.
LEMMA ItemsSent ==
  ASSUME NEW S, NEW v \in Seq(S)
  PROVE  /\ {Items(v)[i] : i \in DOMAIN Items(v)} = {v[i] : i \in DOMAIN v}
         /\ DOMAIN Items(v) # {} => 1 \in DOMAIN Items(v) /\ 2 \in DOMAIN Items(v)
  <1>1. Len(v) \in Nat /\ DOMAIN v = 1..Len(v)
    OBVIOUS
  <1>2. CASE Len(v) = 1
    <2>1. Items(v) = v \o v
      BY <1>2 DEF Items
    <2>2. Len(v \o v) = 2 /\ v \o v \in Seq(S)
      BY <1>2
    <2>3. DOMAIN (v \o v) = {1, 2} /\ DOMAIN v = {1}
      BY <1>1, <1>2, <2>2
    <2>4. (v \o v)[1] = v[1] /\ (v \o v)[2] = v[1]
      BY <1>2, ConcatProperties
    <2>5. QED BY <2>1, <2>3, <2>4
  <1>3. CASE Len(v) # 1
    <2>1. Items(v) = v
      BY <1>3 DEF Items
    <2>2. Len(v) # 0 => 1 \in 1..Len(v) /\ 2 \in 1..Len(v)
      BY <1>1, <1>3
    <2>3. Len(v) = 0 => 1..Len(v) = {}
      OBVIOUS
    <2>4. QED BY <1>1, <2>1, <2>2, <2>3
  <1>4. QED BY <1>2, <1>3

\* An `in` never sends a parameter alone.
LEMMA NeverAlone ==
  ASSUME NEW clause, TypedClause(clause), clause.op = "in", NEW p \in Params(clause)
  PROVE  Params(clause) # {p}
  <1> DEFINE v == clause.value
             its == Items(v)
  <1>1. v \in Seq({v[i] : i \in DOMAIN v})
    BY DEF TypedClause, List
  <1>2. DOMAIN its # {} => 1 \in DOMAIN its /\ 2 \in DOMAIN its
    BY <1>1, ItemsSent
  <1> DEFINE Q(i) == [field |-> clause.field, op |-> clause.op, nth |-> i,
                      raw |-> Text(clause.field, its[i])]
  <1>3. Params(clause) = {Q(i) : i \in DOMAIN its}
    BY DEF Params
  <1>4. Q(1).nth = 1 /\ Q(2).nth = 2
    OBVIOUS
  <1>5. Q(1) # Q(2)
    <2> HIDE DEF Q
    <2>1. QED BY <1>4
  <1> HIDE DEF Q, its
  <1>6. DOMAIN its # {}
    BY <1>3
  <1>7. QED BY <1>2, <1>3, <1>5, <1>6

\* What a clause says, as a set of values one of which is to compare.
Values(clause) ==
    IF clause.op = "in" THEN {clause.value[i] : i \in DOMAIN clause.value} ELSE {clause.value}

LEMMA ItemsAre ==
  ASSUME NEW clause, TypedClause(clause)
  PROVE  {ItemsOf(clause)[i] : i \in DOMAIN ItemsOf(clause)} = Values(clause)
  <1>1. CASE clause.op # "in"
    <2>1. ItemsOf(clause) = <<clause.value>> /\ Values(clause) = {clause.value}
      BY <1>1 DEF ItemsOf, Values
    <2>2. QED BY <2>1
  <1>2. CASE clause.op = "in"
    <2> DEFINE v == clause.value
    <2>1. v \in Seq({v[i] : i \in DOMAIN v})
      BY <1>2 DEF TypedClause, List
    <2>2. ItemsOf(clause) = Items(v) /\ Values(clause) = {v[i] : i \in DOMAIN v}
      BY <1>2 DEF ItemsOf, Values
    <2>3. {Items(v)[i] : i \in DOMAIN Items(v)} = {v[i] : i \in DOMAIN v}
      BY <2>1, ItemsSent
    <2>4. QED BY <2>2, <2>3, Zenon
  <1>3. QED BY <1>1, <1>2

\* The condition made of a clause's parameters has the clause's values.
LEMMA ConditionOf ==
  ASSUME NEW q, TypedQuery(q), NEW clause \in q.filter, NEW p \in Params(clause)
  PROVE  /\ Condition(Encode(q.filter), p).field = clause.field
         /\ Condition(Encode(q.filter), p).op = clause.op
         /\ Condition(Encode(q.filter), p).values = Values(clause)
  <1> DEFINE cond == Condition(Encode(q.filter), p)
             its == ItemsOf(clause)
             raws == IF p.op = "in" THEN Fold(Encode(q.filter), p) ELSE {p.raw}
  <1>1. p.field = clause.field /\ p.op = clause.op /\ TypedClause(clause)
    BY ParamOf DEF TypedQuery
  <1>2. cond.field = clause.field /\ cond.op = clause.op
        /\ cond.values = {Coerce(p.field, raw) : raw \in raws}
    BY <1>1 DEF Condition
  <1>3. raws = {Text(clause.field, its[i]) : i \in DOMAIN its}
    <2>1. CASE clause.op = "in"
      <3>1. SameKey(Encode(q.filter), p) = Params(clause)
        BY KeyOfClause
      <3>2. Params(clause) # {p}
        BY <1>1, <2>1, NeverAlone
      <3>3. raws = {other.raw : other \in Params(clause)}
        BY <1>1, <2>1, <3>1, <3>2 DEF Fold
      <3>4. {other.raw : other \in Params(clause)} = {Text(clause.field, its[i]) : i \in DOMAIN its}
        <4> DEFINE Q(i) == [field |-> clause.field, op |-> clause.op, nth |-> i,
                            raw |-> Text(clause.field, its[i])]
        <4>1. Params(clause) = {Q(i) : i \in DOMAIN its}
          BY Zenon DEF Params, ItemsOf
        <4>2. \A i : Q(i).raw = Text(clause.field, its[i])
          OBVIOUS
        <4> HIDE DEF Q, its
        <4>3. QED BY <4>1, <4>2
      <3>5. QED BY <3>3, <3>4
    <2>2. CASE clause.op # "in"
      <3>1. raws = {p.raw}
        BY <1>1, <2>2
      <3>2. its = <<clause.value>>
        BY <2>2 DEF ItemsOf
      <3>3. DOMAIN its = {1} /\ its[1] = clause.value
        BY <3>2
      <3>4. p.raw = Text(clause.field, clause.value)
        BY <3>3, ParamOf
      <3>5. QED BY <3>1, <3>3, <3>4
    <2>3. QED BY <2>1, <2>2
  <1>4. ASSUME NEW i \in DOMAIN its
        PROVE  Coerce(clause.field, Text(clause.field, its[i])) = its[i]
    <2>1. its[i] \in Values(clause)
      BY <1>1, ItemsAre
    <2>2. clause.field \in NumberFields => its[i] \in Numbers
      BY <1>1, <2>1 DEF Values, TypedClause
    <2>3. QED BY <2>2, ScalarBack
  <1>5. cond.values = {its[i] : i \in DOMAIN its}
    BY <1>1, <1>2, <1>3, <1>4
  <1>6. QED BY <1>1, <1>2, <1>5, ItemsAre

LEMMA ClauseMeets ==
  ASSUME NEW clause, NEW cond, NEW row, cond.field = clause.field, cond.op = clause.op,
         cond.values = Values(clause)
  PROVE  Meets(cond, row) <=> ClientMeets(clause, row)
  <1>1. CASE clause.op = "in"
    <2>1. \A x, y : Compares(clause.field, clause.op, x, y) <=> x = y
      BY <1>1 DEF Compares
    <2>2. cond.values = {clause.value[i] : i \in DOMAIN clause.value}
      BY <1>1 DEF Values
    <2>3. (\E v \in cond.values : Compares(clause.field, clause.op, row[clause.field], v))
            <=> \E i \in DOMAIN clause.value : row[clause.field] = clause.value[i]
      BY <2>1, <2>2
    <2>4. QED BY <1>1, <2>3, Zenon DEF Meets, ClientMeets
  <1>2. CASE clause.op # "in"
    <2>1. cond.values = {clause.value}
      BY <1>2 DEF Values
    <2>2. QED BY <1>2, <2>1, Zenon DEF Meets, ClientMeets
  <1>3. QED BY <1>1, <1>2

\* A clause leaves no parameter only when it is an empty `in`.
LEMMA SilentClause ==
  ASSUME NEW clause, TypedClause(clause)
  PROVE  Params(clause) = {} <=> clause.op = "in" /\ clause.value = <<>>
  <1> DEFINE its == ItemsOf(clause)
             Q(i) == [field |-> clause.field, op |-> clause.op, nth |-> i,
                      raw |-> Text(clause.field, its[i])]
  <1>1. Params(clause) = {Q(i) : i \in DOMAIN its}
    BY Zenon DEF Params, ItemsOf
  <1>2. Params(clause) = {} <=> DOMAIN its = {}
    <2> HIDE DEF Q, its
    <2>1. QED BY <1>1
  <1>3. DOMAIN its = {} <=> Values(clause) = {}
    <2>1. {its[i] : i \in DOMAIN its} = Values(clause)
      BY ItemsAre
    <2> HIDE DEF its
    <2>2. QED BY <2>1
  <1>4. CASE clause.op # "in"
    BY <1>2, <1>3, <1>4 DEF Values
  <1>5. CASE clause.op = "in"
    <2> DEFINE v == clause.value
               S == {v[i] : i \in DOMAIN v}
    <2>1. v \in Seq(S)
      BY <1>5 DEF TypedClause, List
    <2>2. Values(clause) = S
      BY <1>5 DEF Values
    <2>3. S = {} <=> DOMAIN v = {}
      OBVIOUS
    <2>4. DOMAIN v = {} <=> v = <<>>
      <3> HIDE DEF S, v
      <3>1. Len(v) \in Nat /\ DOMAIN v = 1..Len(v)
        BY <2>1
      <3>2. DOMAIN v = {} => Len(v) = 0
        BY <3>1
      <3>3. Len(v) = 0 => v = <<>>
        BY <2>1
      <3>4. QED BY <3>2, <3>3
    <2> HIDE DEF S
    <2>5. QED BY <1>2, <1>3, <1>5, <2>2, <2>3, <2>4
  <1>6. QED BY <1>4, <1>5

\* The conditions that come out of the parser are met by the rows that meet
\* the clauses that went into the encoder.
LEMMA WireKeeps ==
  ASSUME NEW q, TypedQuery(q), NEW row
  PROVE  (\A c \in Parse(q).conds : Meets(c, row))
           <=> \A clause \in q.filter :
                 \/ clause.op = "in" /\ clause.value = <<>>
                 \/ ClientMeets(clause, row)
  <1>0. Parse(q).conds = Conditions(Encode(q.filter))
    BY DEF Parse
  <1>1. ASSUME NEW clause \in q.filter, NEW p \in Params(clause)
        PROVE  Meets(Condition(Encode(q.filter), p), row) <=> ClientMeets(clause, row)
    BY ConditionOf, ClauseMeets
  <1>2. ASSUME \A c \in Parse(q).conds : Meets(c, row), NEW clause \in q.filter,
               ~(clause.op = "in" /\ clause.value = <<>>)
        PROVE  ClientMeets(clause, row)
    <2>1. PICK p : p \in Params(clause)
      BY <1>2, SilentClause DEF TypedQuery
    <2>2. p \in Encode(q.filter)
      BY <2>1 DEF Encode
    <2>3. Condition(Encode(q.filter), p) \in Parse(q).conds
      BY <1>0, <2>2 DEF Conditions
    <2>4. QED BY <1>1, <1>2, <2>1, <2>3
  <1>3. ASSUME \A clause \in q.filter :
                 \/ clause.op = "in" /\ clause.value = <<>>
                 \/ ClientMeets(clause, row),
               NEW c \in Parse(q).conds
        PROVE  Meets(c, row)
    <2>1. PICK p \in Encode(q.filter) : c = Condition(Encode(q.filter), p)
      BY <1>0 DEF Conditions
    <2>2. PICK clause \in q.filter : p \in Params(clause)
      BY <2>1 DEF Encode
    <2>3. ~(clause.op = "in" /\ clause.value = <<>>)
      BY <2>2, SilentClause DEF TypedQuery
    <2>4. ClientMeets(clause, row)
      BY <1>3, <2>3
    <2>5. QED BY <1>1, <2>1, <2>2, <2>4
  <1>4. QED BY <1>2, <1>3

-----------------------------------------------------------------------------
(* Pages.                                                                  *)

\* As many rows as a page of a query has, of so many.
Fits(q, n) == Min2(Limit(q), Max2(n - Offset(q), 0))

LEMMA LimitType ==
  ASSUME NEW q, q.limit = Missing \/ q.limit \in Int, q.offset = Missing \/ q.offset \in Int
  PROVE  Limit(q) \in Nat \ {0} /\ Offset(q) \in Nat
  BY ReadsAssumption DEF Limit, Offset, Min2, Max2

LEMMA ChosenFinite ==
  ASSUME NEW table, NEW q
  PROVE  IsFiniteSet(Chosen(table, q)) /\ Cardinality(Chosen(table, q)) \in Nat
  <1>1. Chosen(table, q) \subseteq Posts
    BY DEF Chosen
  <1>2. IsFiniteSet(Chosen(table, q))
    BY <1>1, ReadsAssumption, FS_Subset
  <1>3. QED BY <1>2, FS_CardinalityType

LEMMA PageLength ==
  ASSUME NEW table, NEW q, q.limit = Missing \/ q.limit \in Int,
         q.offset = Missing \/ q.offset \in Int, NEW ids \in Pages(table, q)
  PROVE  /\ DOMAIN ids = 1..Fits(q, Cardinality(Chosen(table, q)))
         /\ Fits(q, Cardinality(Chosen(table, q))) \in Nat
  <1> DEFINE C == Chosen(table, q)
             n == Cardinality(C)
             m == Min2(Offset(q) + Limit(q), n)
  <1>1. n \in Nat
    BY ChosenFinite
  <1>2. Limit(q) \in Nat \ {0} /\ Offset(q) \in Nat
    BY LimitType
  <1>3. PICK o \in Orders(C) : ids = SubSeq(o, Offset(q) + 1, Min2(Offset(q) + Limit(q), Len(o)))
    BY DEF Pages
  <1>4. o \in [1..n -> C]
    BY DEF Orders
  <1> HIDE DEF C, n
  <1>5. o \in Seq(C) /\ Len(o) = n
    BY <1>1, <1>4
  <1>6. ids = SubSeq(o, Offset(q) + 1, m)
    BY <1>3, <1>5
  <1>7. m \in Nat /\ m <= n /\ m = IF Offset(q) + Limit(q) < n THEN Offset(q) + Limit(q) ELSE n
    BY <1>1, <1>2 DEF Min2
  <1> HIDE DEF m
  <1>8. DOMAIN ids = 1..(m - Offset(q))
    BY <1>2, <1>5, <1>6, <1>7
  <1>9. Fits(q, n) = IF m - Offset(q) < 0 THEN 0 ELSE m - Offset(q)
    BY <1>1, <1>2, <1>7 DEF Fits, Min2, Max2
  <1>10. Fits(q, n) \in Nat
    BY <1>1, <1>2, <1>7, <1>9
  <1>11. 1..(m - Offset(q)) = 1..Fits(q, n)
    BY <1>2, <1>7, <1>9
  <1>12. QED BY <1>8, <1>10, <1>11 DEF n, C

-----------------------------------------------------------------------------
(* Hidden fields.                                                          *)

\* A rule reads of a row only the fields that owner() may name.
LEMMA evalRowReads ==
  ASSUME NEW e \in Exprs, NEW c, NEW r, NEW s, \A f \in Fields : r[f] = s[f]
  PROVE  evalRow(e, c, r) <=> evalRow(e, c, s)
  <1> DEFINE S == {x \in Exprs : evalRow(x, c, r) <=> evalRow(x, c, s)}
  <1>1. \A x \in Atoms : x \in S
    <2> SUFFICES ASSUME NEW x \in Atoms PROVE x \in S
      OBVIOUS
    <2>1. x \in Exprs
      <3>1. x \in Trees(Atoms, 0)
        BY TreesAt
      <3>2. QED BY <3>1, ExprsAre, DepthType, TreesGrow
    <2>2. x.kind \notin Connectives
      BY Flatness DEF Flat
    <2>3. (evalRow(x, c, r) <=> Admits(x, c, r)) /\ (evalRow(x, c, s) <=> Admits(x, c, s))
      BY <2>1, <2>2, evalRowAt, Zenon
    <2>4. x.kind = "owner" => r[x.field] = s[x.field]
      BY DEF Atoms
    <2>5. x.kind \in {"role", "authenticated", "public", "owner"}
      BY DEF Atoms
    <2>6. Admits(x, c, r) <=> Admits(x, c, s)
      BY <2>4, <2>5 DEF Admits
    <2>7. evalRow(x, c, r) <=> evalRow(x, c, s)
      BY <2>3, <2>6, Zenon
    <2>8. QED BY <2>1, <2>7
  <1>2. ASSUME NEW x \in Trees(Atoms, Depth), x.kind \in Connectives,
               x.parts \subseteq S \cap Trees(Atoms, Depth)
        PROVE  x \in S
    <2>1. x \in Exprs
      BY ExprsAre
    <2>2. \A p \in x.parts : evalRow(p, c, r) <=> evalRow(p, c, s)
      BY <1>2
    <2>3. x.kind = "or" \/ x.kind = "and"
      BY <1>2 DEF Connectives
    <2>4. evalRow(x, c, r) <=> evalRow(x, c, s)
      BY <2>1, <2>2, <2>3, evalRowAt, Zenon
    <2>5. QED BY <2>1, <2>4
  <1>3. Exprs \subseteq S
    <2> HIDE DEF S
    <2>1. QED BY <1>1, <1>2, ExprsAre, DepthType, TreeInduction
  <1>4. QED BY <1>3

LEMMA SelectedReads ==
  ASSUME NEW e \in Exprs \cup {NoRule}, NEW c \in Callers, NEW r, NEW s,
         \A f \in Fields : r[f] = s[f]
  PROVE  Selected(decide(e, c), r) <=> Selected(decide(e, c), s)
  <1>1. e # NoRule => (evalRow(e, c, r) <=> evalRow(e, c, s))
    BY evalRowReads
  <1>2. checkRow(e, c, r) <=> checkRow(e, c, s)
    BY <1>1, Zenon DEF checkRow
  <1>3. QED BY <1>2, DecisionsAgree, Zenon

\* No rule is about a field its reader may not see.  (One that is answers each
\* reader by it: that is what its author asked for.)
OwnersShown == Fields \cap Hidden = {}

Tabled == [Posts -> PostRows \cup {Missing}]

\* The other table may be any that a caller may not tell from this one.
LEMMA AlikeRow ==
  ASSUME NEW x \in PostRows \cup {Missing}, NEW y \in PostRows \cup {Missing}, Alike(x, y)
  PROVE  /\ y = Missing <=> x = Missing
         /\ \A f \in Declared \ Hidden : y[f] = x[f]
  BY DEF Alike

\* What the parser lets through names no hidden field.
LEMMA ParsedFields ==
  ASSUME NEW q, TypedQuery(q), ~Unparsable(q, Encode(q.filter))
  PROVE  /\ \A c \in Parse(q).conds : c.field \in Declared \ Hidden
         /\ \A i \in DOMAIN Parse(q).sort : Parse(q).sort[i].field \in Declared \ Hidden
  <1>1. ASSUME NEW c \in Parse(q).conds PROVE c.field \in Declared \ Hidden
    <2>1. PICK p \in Encode(q.filter) : c = Condition(Encode(q.filter), p)
      BY DEF Parse, Conditions
    <2>2. PICK clause \in q.filter : p \in Params(clause)
      BY <2>1 DEF Encode
    <2>3. c.field = p.field /\ p.field = clause.field
      BY <2>1, <2>2, ParamOf DEF Condition
    <2>4. clause.field # "id"
      BY <2>2 DEF TypedQuery, TypedClause
    <2>5. Known(p.field)
      BY <2>1 DEF Unparsable
    <2>6. QED BY <2>3, <2>4, <2>5 DEF Known
  <1>2. ASSUME NEW i \in DOMAIN Parse(q).sort
        PROVE  Parse(q).sort[i].field \in Declared \ Hidden
    <2>1. Parse(q).sort = q.sort
      BY DEF Parse
    <2>2. Known(q.sort[i].field) /\ q.sort[i].field # "id"
      BY <2>1 DEF Unparsable, TypedQuery
    <2>3. QED BY <2>1, <2>2 DEF Known
  <1>3. QED BY <1>1, <1>2

\* The pages of a query, and the rows it counts, are those of any other table
\* that a caller may not tell from this one.
LEMMA PagesAlike ==
  ASSUME OwnersShown, NEW table \in Tabled, NEW other \in Tabled,
         \A p \in Posts : Alike(table[p], other[p]),
         rule \in Exprs \cup {NoRule}, who \in Callers, NEW q,
         \A c \in q.conds : c.field \in Declared \ Hidden,
         \A i \in DOMAIN q.sort : q.sort[i].field \in Declared \ Hidden
  PROVE  Pages(other, q) = Pages(table, q) /\ Counted(other, q) = Counted(table, q)
  <1>1. ASSUME NEW p \in Posts
        PROVE  /\ other[p] = Missing <=> table[p] = Missing
               /\ \A f \in Declared \ Hidden : other[p][f] = table[p][f]
    <2>1. table[p] \in PostRows \cup {Missing} /\ other[p] \in PostRows \cup {Missing}
      BY DEF Tabled
    <2>2. QED BY <2>1, AlikeRow
  <1>2. ASSUME NEW p \in Posts
        PROVE  /\ Selected(decide(rule, who), other[p]) <=> Selected(decide(rule, who), table[p])
               /\ \A c \in q.conds : Meets(c, other[p]) <=> Meets(c, table[p])
    <2>1. \A f \in Fields : other[p][f] = table[p][f]
      BY <1>1, ReadsAssumption DEF OwnersShown
    <2>2. Selected(decide(rule, who), other[p]) <=> Selected(decide(rule, who), table[p])
      BY <2>1, SelectedReads
    <2>3. ASSUME NEW c \in q.conds PROVE Meets(c, other[p]) <=> Meets(c, table[p])
      <3>1. other[p][c.field] = table[p][c.field]
        BY <1>1
      <3>2. QED BY <3>1, Zenon DEF Meets
    <2>4. QED BY <2>2, <2>3
  <1>3. Chosen(other, q) = Chosen(table, q)
    BY <1>1, <1>2 DEF Chosen
  <1>4. ASSUME NEW o \in Orders(Chosen(table, q)), NEW low \in BOOLEAN
        PROVE  Sorted(other, o, q.sort, low) <=> Sorted(table, o, q.sort, low)
    <2>1. ASSUME NEW i \in DOMAIN o, NEW k \in DOMAIN q.sort
          PROVE  other[o[i]][q.sort[k].field] = table[o[i]][q.sort[k].field]
      <3>1. o[i] \in Chosen(table, q)
        BY DEF Orders
      <3>2. o[i] \in Posts
        BY <3>1 DEF Chosen
      <3>3. QED BY <1>1, <3>2
    <2>2. ASSUME NEW i \in DOMAIN o, NEW j \in DOMAIN o
          PROVE  Before(other[o[j]], other[o[i]], q.sort, low)
                   <=> Before(table[o[j]], table[o[i]], q.sort, low)
      <3>1. \A k \in DOMAIN q.sort :
               /\ other[o[i]][q.sort[k].field] = table[o[i]][q.sort[k].field]
               /\ other[o[j]][q.sort[k].field] = table[o[j]][q.sort[k].field]
        BY <2>1
      <3>2. QED BY <3>1, Zenon DEF Before
    <2>3. QED BY <2>2, Zenon DEF Sorted
  <1>5. {x \in Orders(Chosen(other, q)) : \E low \in BOOLEAN : Sorted(other, x, q.sort, low)}
          = {x \in Orders(Chosen(table, q)) : \E low \in BOOLEAN : Sorted(table, x, q.sort, low)}
    BY <1>3, <1>4
  <1>6. Pages(other, q) = Pages(table, q)
    BY <1>5, Zenon DEF Pages
  <1>7. QED BY <1>3, <1>6 DEF Counted

-----------------------------------------------------------------------------
(* The invariant.                                                          *)

\* What the list or read under way has made of its request, where it is.
Reading ==
    /\ Building
    /\ who \in Callers
    /\ posts \in [Posts -> PostRows \cup {Missing}]
    /\ pc \in {"author", "rows", "count", "embed", "done"}
    /\ pc = "author" => asked = Missing
    /\ asked # Missing => asked \in Queries /\ query = Parse(asked)
    /\ pc \in {"rows", "count"} =>
         asked \in Queries /\ query = Parse(asked) /\ ~Unparsable(asked, Encode(asked.filter))
    /\ pc = "done" /\ answer = "ok" =>
         \A i \in DOMAIN page : DOMAIN page[i] \cap Hidden = {}

Paged(n) == n \in Nat /\ DOMAIN page = 1..n /\ Len(page) = n

\* The page is as long as the count, now or when it was taken, says it is.
Counting ==
    /\ pc = "count" /\ ~moved => Paged(Fits(query, Cardinality(Chosen(posts, query))))
    /\ pc = "embed" /\ asked # Missing /\ ~moved => Paged(Fits(query, total))
    /\ PageFitsTotal

LEMMA ReadingInit == ReadInit => Reading /\ Counting
  <1> SUFFICES ASSUME ReadInit PROVE Reading /\ Counting
    OBVIOUS
  <1>1. Building
    BY BuildingInit DEF ReadInit
  <1>2. posts \in [Posts -> PostRows \cup {Missing}]
    BY ReadsAssumption DEF ReadInit
  <1>3. pc = "author" /\ asked = Missing /\ page = <<>> /\ who = Guest
    BY DEF ReadInit
  <1>4. DOMAIN page = {}
    BY <1>3
  <1>5. Reading
    BY <1>1, <1>2, <1>3, <1>4 DEF Reading, Callers
  <1>6. Counting
    BY <1>3 DEF Counting, PageFitsTotal
  <1>7. QED BY <1>5, <1>6

\* Every step of a read builds the rule a step further, or leaves it.
LEMMA ReadBuilds == [ReadNext]_<<vars, readVars>> => [Next]_vars
  <1> SUFFICES ASSUME [ReadNext]_<<vars, readVars>> PROVE [Next]_vars
    OBVIOUS
  <1>1. CASE Author
    BY <1>1 DEF Author
  <1>2. CASE ReadNext /\ ~Author
    <2>1. UNCHANGED vars
      BY <1>2 DEF ReadNext, Ask, Read, FetchRows, CountRows, Embed, Write, DeleteTopic, Swap
    <2>2. QED BY <2>1
  <1>3. CASE UNCHANGED <<vars, readVars>>
    BY <1>3
  <1>4. QED BY <1>1, <1>2, <1>3

\* Whatever rows are returned, they are stripped.
LEMMA ReturnShows ==
  ASSUME NEW rows, Return(rows)
  PROVE  /\ pc' = "done" /\ DOMAIN page' = DOMAIN rows
         /\ \A i \in DOMAIN page' : DOMAIN page'[i] \cap Hidden = {}
  BY DEF Return, Reply, Shown

LEMMA ReadingNext == Reading /\ [ReadNext]_<<vars, readVars>> => Reading'
  <1> SUFFICES ASSUME Reading, [ReadNext]_<<vars, readVars>> PROVE Reading'
    OBVIOUS
  <1>0. Building'
    BY ReadBuilds, BuildingNext DEF Reading
  <1>1. CASE Author \/ UNCHANGED <<vars, readVars>>
    <2>1. UNCHANGED readVars
      BY <1>1 DEF Author
    <2>2. QED BY <1>0, <2>1 DEF Reading, readVars, Unparsable
  <1>2. ASSUME NEW ctx \in Callees, NEW q \in Queries, Ask(ctx, q) PROVE Reading'
    <2>1. /\ who' = ctx /\ asked' = q /\ query' = Parse(q) /\ UNCHANGED <<posts, page>>
          /\ pc' = "rows" \/ (pc' = "done" /\ answer' # "ok")
          /\ pc' = "rows" => ~Unparsable(q, Encode(q.filter))
      BY <1>2 DEF Ask, Reply
    <2>2. who' \in Callers
      BY <2>1, ReadsAssumption
    <2>3. QED BY <1>0, <2>1, <2>2 DEF Reading
  <1>3. ASSUME NEW ctx \in Callees, NEW id \in Posts, NEW with, Read(ctx, id, with)
        PROVE  Reading'
    <2>1. /\ who' = ctx /\ UNCHANGED <<posts, asked>> /\ pc = "author"
          /\ pc' = "embed" \/ (pc' = "done" /\ answer' # "ok") \/ Return(<<posts[id]>>)
      BY <1>3 DEF Read, Reply
    <2>2. who' \in Callers
      BY <2>1, ReadsAssumption
    <2>3. asked' = Missing
      BY <2>1 DEF Reading
    <2>4. QED BY <1>0, <2>1, <2>2, <2>3, ReturnShows DEF Reading
  <1>4. CASE FetchRows
    <2>1. pc = "rows" /\ pc' = "count" /\ UNCHANGED <<posts, who, asked, query>>
      BY <1>4 DEF FetchRows
    <2>2. QED BY <1>0, <2>1 DEF Reading, Unparsable
  <1>5. CASE CountRows \/ Embed
    <2>1. /\ UNCHANGED <<posts, who, asked, query>>
          /\ pc' = "embed" \/ (pc' = "done" /\ answer' # "ok") \/ Return(page)
      BY <1>5 DEF CountRows, Embed, Reply
    <2>2. QED BY <1>0, <2>1, ReturnShows DEF Reading
  <1>6. ASSUME NEW id \in Posts, Write(id) PROVE Reading'
    <2>1. /\ UNCHANGED <<pc, who, asked, query, page, answer>>
          /\ \E row \in PostRows \cup {Missing} : posts' = [posts EXCEPT ![id] = row]
      BY <1>6 DEF Write
    <2>2. posts' \in [Posts -> PostRows \cup {Missing}]
      BY <2>1 DEF Reading
    <2>3. QED BY <1>0, <2>1, <2>2 DEF Reading, Unparsable
  <1>7. CASE Swap \/ \E t \in Topics : DeleteTopic(t)
    <2>1. UNCHANGED <<posts, pc, who, asked, query, page, answer>>
      BY <1>7 DEF Swap, DeleteTopic
    <2>2. QED BY <1>0, <2>1 DEF Reading, Unparsable
  <1>8. QED BY <1>1, <1>2, <1>3, <1>4, <1>5, <1>6, <1>7 DEF ReadNext

LEMMA ReturnPages ==
  ASSUME NEW n, Paged(n), Return(page)
  PROVE  n \in Nat /\ DOMAIN page' = 1..n /\ Len(page') = n
  <1>1. page' = [i \in DOMAIN page |-> Shown(page[i])] /\ DOMAIN page = 1..n /\ n \in Nat
    BY DEF Paged, Return
  <1>2. QED BY <1>1

LEMMA CountingNext ==
    Reading /\ Counting /\ [ReadNext]_<<vars, readVars>> => Counting'
  <1> SUFFICES ASSUME Reading, Counting, [ReadNext]_<<vars, readVars>> PROVE Counting'
    OBVIOUS
  <1>1. CASE Author \/ UNCHANGED <<vars, readVars>>
    <2>1. UNCHANGED readVars
      BY <1>1 DEF Author
    <2>2. pc = "count" => UNCHANGED rule
      BY <1>1 DEF Author, vars
    <2>3. pc = "count" => Chosen(posts, query)' = Chosen(posts, query)
      BY <2>1, <2>2 DEF Chosen, readVars
    <2>4. QED BY <2>1, <2>3 DEF Counting, PageFitsTotal, Paged, readVars, Fits, Limit, Offset
  <1>2. ASSUME NEW ctx \in Callees, NEW q \in Queries, Ask(ctx, q) PROVE Counting'
    <2>1. pc' = "rows" \/ (pc' = "done" /\ answer' \in {"422", "403"})
      BY <1>2 DEF Ask, Reply
    <2>2. QED BY <2>1 DEF Counting, PageFitsTotal
  <1>3. ASSUME NEW ctx \in Callees, NEW id \in Posts, NEW with, Read(ctx, id, with)
        PROVE  Counting'
    <2>1. UNCHANGED asked /\ pc' \in {"embed", "done"} /\ pc = "author"
      BY <1>3 DEF Read, Reply, Return
    <2>2. asked' = Missing
      BY <2>1 DEF Reading
    <2>3. QED BY <2>1, <2>2 DEF Counting, PageFitsTotal
  <1>4. CASE FetchRows
    <2>1. pc = "rows" /\ pc' = "count" /\ UNCHANGED <<vars, posts, who, query>>
      BY <1>4 DEF FetchRows
    <2>2. PICK ids \in Pages(posts, query) : page' = [i \in DOMAIN ids |-> posts[ids[i]]]
      BY <1>4 DEF FetchRows
    <2>3. query = Parse(asked) /\ TypedQuery(asked)
      BY <2>1, ReadsAssumption DEF Reading
    <2>4. /\ query.limit = Missing \/ query.limit \in Int
          /\ query.offset = Missing \/ query.offset \in Int
      BY <2>3 DEF Parse, TypedQuery
    <2> DEFINE n == Fits(query, Cardinality(Chosen(posts, query)))
    <2>5. DOMAIN ids = 1..n /\ n \in Nat
      BY <2>4, PageLength
    <2> HIDE DEF n
    <2>6. DOMAIN page' = 1..n /\ Len(page') = n
      BY <2>2, <2>5
    <2>7. Fits(query, Cardinality(Chosen(posts, query)))' = n
      BY <2>1 DEF n, Chosen, vars, Fits, Limit, Offset
    <2>8. Paged(Fits(query, Cardinality(Chosen(posts, query))))'
      BY <2>5, <2>6, <2>7 DEF Paged
    <2>9. QED BY <2>1, <2>8 DEF Counting, PageFitsTotal
  <1>5. CASE CountRows
    <2>1. /\ pc = "count" /\ total' = Cardinality(Chosen(posts, query)) /\ UNCHANGED <<query, moved>>
          /\ (pc' = "embed" /\ UNCHANGED page) \/ Return(page)
      BY <1>5 DEF CountRows, Counted
    <2>2. Fits(query, total)' = Fits(query, Cardinality(Chosen(posts, query)))
      BY <2>1 DEF Fits, Limit, Offset
    <2>3. ~moved' => Paged(Fits(query, total))'
      BY <2>1, <2>2, ReturnPages DEF Counting, Paged
    <2>4. pc' \in {"embed", "done"}
      BY <2>1, ReturnShows
    <2>5. QED BY <2>3, <2>4 DEF Counting, PageFitsTotal, Fits, Paged
  <1>6. CASE Embed
    <2>1. /\ pc = "embed" /\ UNCHANGED <<asked, query, total, moved>>
          /\ (pc' \in {"embed", "done"} /\ UNCHANGED page) \/ Return(page)
      BY <1>6 DEF Embed, Reply
    <2>2. Fits(query, total)' = Fits(query, total)
      BY <2>1 DEF Fits, Limit, Offset
    <2>3. asked' # Missing /\ ~moved' => Paged(Fits(query, total))'
      BY <2>1, <2>2, ReturnPages DEF Counting, Paged
    <2>4. pc' \in {"embed", "done"}
      BY <2>1, ReturnShows
    <2>5. QED BY <2>3, <2>4 DEF Counting, PageFitsTotal, Fits, Paged
  <1>7. ASSUME NEW id \in Posts, Write(id) PROVE Counting'
    <2>1. /\ UNCHANGED <<pc, asked, query, page, total, answer>> /\ pc \in {"rows", "count", "embed"}
          /\ moved' = (moved \/ pc = "count")
      BY <1>7 DEF Write, UnderWay
    <2>2. Fits(query, total)' = Fits(query, total)
      BY <2>1 DEF Fits, Limit, Offset
    <2>3. pc' = "embed" /\ asked' # Missing /\ ~moved' => Paged(Fits(query, total))'
      BY <2>1, <2>2 DEF Counting, Paged
    <2>4. QED BY <2>1, <2>3 DEF Counting, PageFitsTotal, Fits, Paged
  <1>8. CASE Swap \/ \E t \in Topics : DeleteTopic(t)
    <2>1. UNCHANGED <<vars, posts, who, pc, asked, query, page, total, moved, answer>>
      BY <1>8 DEF Swap, DeleteTopic
    <2>2. Chosen(posts, query)' = Chosen(posts, query)
      BY <2>1 DEF Chosen, vars
    <2>3. QED BY <2>1, <2>2 DEF Counting, PageFitsTotal, Paged, Fits, Limit, Offset
  <1>9. QED BY <1>1, <1>2, <1>3, <1>4, <1>5, <1>6, <1>7, <1>8 DEF ReadNext

LEMMA ReadingHides == ASSUME OwnersShown PROVE Reading => HiddenInvisible
  <1> SUFFICES ASSUME Reading PROVE HiddenInvisible
    OBVIOUS
  <1>1. ASSUME pc \in {"rows", "count"}, NEW other \in [Posts -> PostRows \cup {Missing}],
               \A p \in Posts : Alike(posts[p], other[p])
        PROVE  /\ Pages(other, query) = Pages(posts, query)
               /\ Counted(other, query) = Counted(posts, query)
    <2>1. query = Parse(asked) /\ TypedQuery(asked) /\ ~Unparsable(asked, Encode(asked.filter))
      BY <1>1, ReadsAssumption DEF Reading
    <2>2. /\ \A c \in query.conds : c.field \in Declared \ Hidden
          /\ \A i \in DOMAIN query.sort : query.sort[i].field \in Declared \ Hidden
      BY <2>1, ParsedFields
    <2>3. rule \in Exprs \cup {NoRule} /\ who \in Callers
      BY BuildingIsExpr DEF Reading
    <2>4. posts \in Tabled /\ other \in Tabled
      BY DEF Reading, Tabled
    <2>5. QED BY <1>1, <2>2, <2>3, <2>4, PagesAlike
  <1>2. pc = "done" /\ answer = "ok" => \A i \in DOMAIN page : DOMAIN page[i] \cap Hidden = {}
    BY DEF Reading
  <1>3. QED BY <1>1, <1>2, Zenon DEF HiddenInvisible

LEMMA ReadingSurvives == Reading => FilterSurvivesTheWire
  <1> SUFFICES ASSUME Reading, asked # Missing, NEW row \in PostRows
               PROVE  (\A c \in query.conds : Meets(c, row))
                        <=> \A clause \in asked.filter :
                              \/ clause.op = "in" /\ clause.value = <<>>
                              \/ ClientMeets(clause, row)
    BY Zenon DEF FilterSurvivesTheWire
  <1>1. query = Parse(asked) /\ TypedQuery(asked)
    BY ReadsAssumption DEF Reading
  <1>2. QED BY <1>1, WireKeeps

\* A reader's rules are built as an author builds them: the module composed
\* with it implements Permissions.
THEOREM ReadsBuildRules == ReadSpec => Spec
  <1>1. ReadInit => Init
    BY DEF ReadInit
  <1>2. QED BY <1>1, ReadBuilds, PTL DEF ReadSpec, Spec

\* The evaluators agree, and rules mean what they say, on every rule that is
\* read under.
THEOREM ReadersAgree == ReadSpec => [](FilterIsRowCheck /\ MeansWhatItSays)
  <1>1. QED BY ReadsBuildRules, RulesAreBuilt, BuildingAgrees, BuildingMeans, PTL

\* A request under way is the one that was asked, parsed, and its page and
\* its count are of one table unless somebody wrote between them.
THEOREM ReadsProceed == ReadSpec => [](Reading /\ Counting)
  <1>1. QED BY ReadingInit, ReadingNext, CountingNext, PTL DEF ReadSpec

\* The filter that reaches the database means what the client's filter means,
\* for every query a typed client can write.
THEOREM FiltersSurvive == ReadSpec => []FilterSurvivesTheWire
  <1>1. QED BY ReadsProceed, ReadingSurvives, PTL

\* Without a write between its two queries, a page is as long as the total
\* that comes with it says.
THEOREM PagesFit == ReadSpec => []PageFitsTotal
  <1>1. Counting => PageFitsTotal
    BY DEF Counting
  <1>2. QED BY <1>1, ReadsProceed, PTL

\* No page, no order of rows, no total and no row that is answered tells a
\* hidden field, as long as no rule is about one.
THEOREM HiddenFieldsHide == ASSUME OwnersShown PROVE ReadSpec => []HiddenInvisible
  <1>1. Reading => HiddenInvisible
    BY ReadingHides
  <1>2. QED BY <1>1, ReadsProceed, PTL
=============================================================================
