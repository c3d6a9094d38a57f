-------------------------- MODULE RenderingLemmas --------------------------
(***************************************************************************)
(* Lemmas about the operators of Renderer, Terminal and Finders, for       *)
(* articles of any length with any number of colours and links. Recursion  *)
(* over a line is a fold of a function of a type: the first section says   *)
(* what such a fold returns, and that FoldLeft is one; each operator that  *)
(* is written with FoldLeft is then shown to be that fold. From there:     *)
(* what the segments of a line and its mapper hold (LineOK), that the      *)
(* state of the renderer has its type, what a reader of HTML sees (Rd),    *)
(* what one walk over the segments has shown (Walked), where a link is     *)
(* put, and which of the finds Find leaves.                                *)
(***************************************************************************)
EXTENDS Renderer, AnsiParser, FiniteSetTheorems, SequenceTheorems, WellFoundedInduction, TLAPS

\* Induction over the natural numbers, for a set in place of a predicate.
LEMMA NatSetInduction ==
  ASSUME NEW S, 0 \in S, \A n \in Nat : n \in S => n + 1 \in S
  PROVE  Nat \subseteq S
<1> DEFINE T == Nat \ S
           R == OpToRel(<, Nat)
<1> SUFFICES ASSUME T # {} PROVE FALSE
    OBVIOUS
<1>1. IsWellFoundedOn(R, Nat)
  BY NatLessThanWellFounded
<1>2. T \subseteq Nat
  OBVIOUS
<1>3. PICK x \in T : \A y \in T : ~(<<y, x>> \in R)
  <2> HIDE DEF T, R
  <2> QED BY <1>1, <1>2, WFMin
<1>4. x # 0 /\ x \in Nat
  OBVIOUS
<1>5. x - 1 \in T
  BY <1>4
<1>6. <<x - 1, x>> \in R
  BY <1>4, <1>5 DEF OpToRel
<1> QED
  BY <1>3, <1>5, <1>6

\* Every non-empty part of 1 .. n has a greatest element.
LEMMA MaxOfInterval ==
  ASSUME NEW L \in Nat, NEW S \in SUBSET (1 .. L), S # {}
  PROVE  Max(S) \in S /\ \A y \in S : Max(S) >= y
<1> DEFINE U == {n \in Nat : \A s \in SUBSET (1 .. n) : s # {} => \E x \in s : \A y \in s : x >= y}
<1>1. 0 \in U
  <2>1. 1 .. 0 = {}
    OBVIOUS
  <2> QED BY <2>1
<1>2. \A n \in Nat : n \in U => n + 1 \in U
  <2> SUFFICES ASSUME NEW n \in Nat, n \in U, NEW s \in SUBSET (1 .. n + 1), s # {}
               PROVE  \E x \in s : \A y \in s : x >= y
    OBVIOUS
  <2>1. CASE n + 1 \in s
    BY <2>1
  <2>2. CASE n + 1 \notin s
    <3>1. s \in SUBSET (1 .. n)
      BY <2>2
    <3> QED BY <3>1
  <2> QED BY <2>1, <2>2
<1>3. Nat \subseteq U
  <2> HIDE DEF U
  <2> QED BY <1>1, <1>2, NatSetInduction
<1>4. \E x \in S : \A y \in S : x >= y
  BY <1>3
<1> QED BY <1>4 DEF Max

\* The iterations of MapThenFoldSet take the last place from those up to it.
LEMMA MaxOfPrefix ==
  ASSUME NEW n \in Nat \ {0}
  PROVE  Max(1 .. n) = n /\ (1 .. n) \ {n} = 1 .. n - 1
<1>1. Max(1 .. n) \in 1 .. n /\ \A y \in 1 .. n : Max(1 .. n) >= y
  <2> DEFINE s == 1 .. n
  <2>1. n \in Nat /\ s \in SUBSET (1 .. n) /\ s # {}
    OBVIOUS
  <2> HIDE DEF s
  <2>2. Max(s) \in s /\ \A y \in s : Max(s) >= y
    BY <2>1, MaxOfInterval
  <2> QED BY <2>2 DEF s
<1>2. n \in 1 .. n
  OBVIOUS
<1>3. Max(1 .. n) = n
  <2>1. PICK m : m = Max(1 .. n)
    OBVIOUS
  <2>2. m \in 1 .. n /\ m >= n
    BY <1>1, <1>2, <2>1
  <2> QED BY <2>1, <2>2
<1>4. (1 .. n) \ {n} = 1 .. n - 1
  OBVIOUS
<1> QED
  BY <1>3, <1>4

\* The functions that MapThenFoldSet recurses on, for typed steps.
FoldsOn(n, T, b, step) ==
  {g \in [SUBSET (1 .. n) -> T] :
     \A s \in SUBSET (1 .. n) : g[s] = IF s = {} THEN b ELSE step[Max(s)][g[s \ {Max(s)}]]}

\* A fold of the first n elements can be extended by one more.
LEMMA FoldExtends ==
  ASSUME NEW T, NEW b \in T, NEW L \in Nat, NEW step \in [1 .. L -> [T -> T]],
         NEW n \in Nat, n + 1 <= L, NEW h \in FoldsOn(n, T, b, step)
  PROVE  FoldsOn(n + 1, T, b, step) # {}
<1> DEFINE g == [s \in SUBSET (1 .. n + 1) |->
                     IF n + 1 \in s THEN step[n + 1][h[s \ {n + 1}]] ELSE h[s]]
<1>1. /\ h \in [SUBSET (1 .. n) -> T]
      /\ \A s \in SUBSET (1 .. n) : h[s] = IF s = {} THEN b ELSE step[Max(s)][h[s \ {Max(s)}]]
  BY DEF FoldsOn
<1> HIDE DEF FoldsOn
<1>2. ASSUME NEW s \in SUBSET (1 .. n + 1), n + 1 \in s
      PROVE  Max(s) = n + 1 /\ s \ {n + 1} \in SUBSET (1 .. n)
  <2>1. Max(s) \in s /\ \A y \in s : Max(s) >= y
    BY <1>2, MaxOfInterval, n + 1 \in Nat, s # {}
  <2>2. PICK m : m = Max(s)
    OBVIOUS
  <2>3. m \in 1 .. n + 1 /\ m >= n + 1
    BY <2>1, <2>2, <1>2
  <2>4. Max(s) = n + 1
    BY <2>2, <2>3
  <2>5. s \ {n + 1} \in SUBSET (1 .. n)
    OBVIOUS
  <2> QED BY <2>4, <2>5
<1>3. ASSUME NEW s \in SUBSET (1 .. n + 1), n + 1 \notin s
      PROVE  s \in SUBSET (1 .. n)
  BY <1>3
<1>4. ASSUME NEW s \in SUBSET (1 .. n), s # {}
      PROVE  Max(s) \in 1 .. n /\ s \ {Max(s)} \in SUBSET (1 .. n)
  <2>1. Max(s) \in s
    BY MaxOfInterval, <1>4
  <2> QED BY <2>1
<1>5. g \in [SUBSET (1 .. n + 1) -> T]
  <2> SUFFICES ASSUME NEW s \in SUBSET (1 .. n + 1)
               PROVE  (IF n + 1 \in s THEN step[n + 1][h[s \ {n + 1}]] ELSE h[s]) \in T
    OBVIOUS
  <2>1. n + 1 \in 1 .. L /\ step[n + 1] \in [T -> T]
    OBVIOUS
  <2> QED BY <2>1, <1>1, <1>2, <1>3
<1>6. ASSUME NEW s \in SUBSET (1 .. n + 1)
      PROVE  g[s] = IF s = {} THEN b ELSE step[Max(s)][g[s \ {Max(s)}]]
  <2>1. CASE n + 1 \in s
    <3> DEFINE r == s \ {n + 1}
    <3>0. r \in SUBSET (1 .. n) /\ r \in SUBSET (1 .. n + 1) /\ n + 1 \notin r /\ Max(s) = n + 1
      BY <2>1, <1>2
    <3>1. g[s] = step[n + 1][h[r]]
      BY <2>1
    <3>2. g[r] = h[r]
      BY <3>0
    <3> QED BY <2>1, <3>0, <3>1, <3>2
  <2>2. CASE n + 1 \notin s /\ s # {}
    <3> DEFINE r == s \ {Max(s)}
    <3>0. s \in SUBSET (1 .. n) /\ r \in SUBSET (1 .. n) /\ r \in SUBSET (1 .. n + 1) /\ n + 1 \notin r
      BY <2>2, <1>3, <1>4
    <3>1. h[s] = step[Max(s)][h[r]]
      BY <3>0, <1>1, <2>2
    <3>2. g[s] = h[s] /\ g[r] = h[r]
      BY <3>0, <2>2
    <3> QED BY <3>1, <3>2, <2>2
  <2>3. CASE s = {}
    <3>1. h[{}] = b /\ g[{}] = h[{}]
      BY <1>1
    <3> QED BY <3>1, <2>3
  <2> QED BY <2>1, <2>2, <2>3
<1> HIDE DEF g
<1>7. g \in FoldsOn(n + 1, T, b, step)
  BY <1>5, <1>6 DEF FoldsOn
<1> QED BY <1>7

\* There is a fold, which CHOOSE then finds.
LEMMA FoldExists ==
  ASSUME NEW T, NEW b \in T, NEW L \in Nat, NEW step \in [1 .. L -> [T -> T]]
  PROVE  FoldsOn(L, T, b, step) # {}
<1> DEFINE U == {n \in Nat : n <= L => FoldsOn(n, T, b, step) # {}}
<1>1. 0 \in U
  <2> DEFINE g == [s \in SUBSET (1 .. 0) |-> b]
  <2>1. SUBSET (1 .. 0) = {{}}
    OBVIOUS
  <2>2. g \in FoldsOn(0, T, b, step)
    BY <2>1 DEF FoldsOn
  <2> HIDE DEF g
  <2> QED BY <2>2
<1>2. ASSUME NEW n \in Nat, n \in U PROVE n + 1 \in U
  <2> SUFFICES ASSUME n + 1 <= L PROVE FoldsOn(n + 1, T, b, step) # {}
    OBVIOUS
  <2>1. PICK h \in FoldsOn(n, T, b, step) : TRUE
    BY <1>2
  <2> QED BY <2>1, FoldExtends
<1>3. Nat \subseteq U
  <2> HIDE DEF U
  <2> QED BY <1>1, <1>2, NatSetInduction
<1> QED BY <1>3

\* What is used of it.
IsChain(L, T, b, step, g) ==
  \A n \in 0 .. L : /\ g[1 .. n] \in T
                   /\ g[1 .. n] = IF n = 0 THEN b ELSE step[n][g[1 .. n - 1]]

\* It goes through the places from the first to the last.
LEMMA FoldChain ==
  ASSUME NEW T, NEW b \in T, NEW L \in Nat, NEW step \in [1 .. L -> [T -> T]],
         NEW g \in FoldsOn(L, T, b, step)
  PROVE  IsChain(L, T, b, step, g)
<1> SUFFICES ASSUME NEW n \in 0 .. L
             PROVE  g[1 .. n] \in T /\ g[1 .. n] = IF n = 0 THEN b ELSE step[n][g[1 .. n - 1]]
    BY DEF IsChain
<1>1. 1 .. n \in SUBSET (1 .. L)
  OBVIOUS
<1>2. n = 0 => 1 .. n = {}
  OBVIOUS
<1>3. n # 0 => 1 .. n # {} /\ Max(1 .. n) = n /\ (1 .. n) \ {n} = 1 .. n - 1
  <2> SUFFICES ASSUME n # 0 PROVE Max(1 .. n) = n /\ (1 .. n) \ {n} = 1 .. n - 1
    OBVIOUS
  <2>1. n \in Nat \ {0}
    OBVIOUS
  <2> QED BY <2>1, MaxOfPrefix
<1> QED BY <1>1, <1>2, <1>3 DEF FoldsOn

\* What holds at 0 and is handed on up to L holds up to L.
LEMMA IntervalInduction ==
  ASSUME NEW L \in Nat, NEW S, 0 \in S, \A n \in 1 .. L : n - 1 \in S => n \in S
  PROVE  0 .. L \subseteq S
<1> DEFINE U == {n \in Nat : n <= L => n \in S}
<1>1. 0 \in U
  OBVIOUS
<1>2. ASSUME NEW n \in Nat, n \in U PROVE n + 1 \in U
  <2> SUFFICES ASSUME n + 1 <= L PROVE n + 1 \in S
    OBVIOUS
  <2>1. n + 1 \in 1 .. L /\ (n + 1) - 1 = n /\ n \in S
    BY <1>2
  <2> QED BY <2>1
<1>3. Nat \subseteq U
  <2> HIDE DEF U
  <2> QED BY <1>1, <1>2, NatSetInduction
<1> QED BY <1>3

-----------------------------------------------------------------------------
(* A fold of a typed function, and how FoldLeft is one. *)

\* What each element of s does.
StepsOf(T, op, s) == [n \in 1 .. Len(s) |-> [t \in T |-> op[<<t, s[n]>>]]]

\* The fold of s by op from b: what FoldLeft computes, for typed functions.
FoldFn(T, op, b, s) ==
  LET g == CHOOSE h \in FoldsOn(Len(s), T, b, StepsOf(T, op, s)) : TRUE IN g[1 .. Len(s)]

\* it is such a fold, of every beginning of s.
IsFold(T, op, b, s, it) ==
  /\ it[{}] = b
  /\ \A n \in 1 .. Len(s) : it[1 .. n - 1] \in T => it[1 .. n] = op[<<it[1 .. n - 1], s[n]>>]

\* The result of such an iteration.
WholeOf(it, s) == it[1 .. Len(s)]

\* op takes a state of T and an element of E to a state of T.
IsOp(T, E, op) == op \in [T \X E -> T]

\* The steps are functions on the states.
LEMMA StepsType ==
  ASSUME NEW T, NEW E, NEW op, IsOp(T, E, op), NEW s \in Seq(E)
  PROVE  StepsOf(T, op, s) \in [1 .. Len(s) -> [T -> T]]
<1> SUFFICES ASSUME NEW n \in 1 .. Len(s), NEW t \in T PROVE op[<<t, s[n]>>] \in T
  BY DEF StepsOf
<1>1. s[n] \in E
  OBVIOUS
<1> QED BY <1>1 DEF IsOp

\* Any two iterations agree on the whole.
LEMMA FoldFnIs ==
  ASSUME NEW T, NEW E, NEW op, IsOp(T, E, op), NEW b \in T, NEW s \in Seq(E), NEW it,
         IsFold(T, op, b, s, it)
  PROVE  /\ WholeOf(it, s) = FoldFn(T, op, b, s)
         /\ FoldFn(T, op, b, s) \in T
<1> DEFINE L == Len(s)
           step == StepsOf(T, op, s)
           g == CHOOSE h \in FoldsOn(L, T, b, step) : TRUE
           S == {n \in 0 .. L : it[1 .. n] = g[1 .. n]}
<1>0. /\ L \in Nat
      /\ it[{}] = b
      /\ \A n \in 1 .. L : it[1 .. n - 1] \in T => it[1 .. n] = op[<<it[1 .. n - 1], s[n]>>]
  BY DEF IsFold
<1>1. step \in [1 .. L -> [T -> T]]
  BY StepsType
<1>2. g \in FoldsOn(L, T, b, step)
  <2>1. FoldsOn(L, T, b, step) # {}
    <3> HIDE DEF L, step
    <3> QED BY <1>0, <1>1, FoldExists
  <2> HIDE DEF step
  <2> QED BY <2>1
<1>3. \A n \in 0 .. L : /\ g[1 .. n] \in T
                        /\ g[1 .. n] = IF n = 0 THEN b ELSE step[n][g[1 .. n - 1]]
  <2>1. IsChain(L, T, b, step, g)
    <3> HIDE DEF L, step, g
    <3> QED BY <1>0, <1>1, <1>2, FoldChain
  <2> HIDE DEF L, step, g
  <2> QED BY <2>1 DEF IsChain
<1>4. \A n \in 1 .. L : \A t \in T : step[n][t] = op[<<t, s[n]>>]
  BY DEF StepsOf
<1>5. 0 \in S
  <2>1. 1 .. 0 = {}
    OBVIOUS
  <2> HIDE DEF g, step
  <2> QED BY <2>1, <1>3, <1>0
<1>6. ASSUME NEW n \in 1 .. L, n - 1 \in S PROVE n \in S
  <2>1. n - 1 \in 0 .. L /\ n \in 0 .. L /\ n # 0
    OBVIOUS
  <2>2. it[1 .. n - 1] = g[1 .. n - 1] /\ g[1 .. n - 1] \in T
    <3> HIDE DEF g, step
    <3> QED BY <1>6, <1>3, <2>1
  <2>3. it[1 .. n] = op[<<g[1 .. n - 1], s[n]>>]
    BY <1>0, <2>2
  <2>4. g[1 .. n] = step[n][g[1 .. n - 1]]
    <3> HIDE DEF g, step
    <3> QED BY <1>3, <2>1
  <2>5. step[n][g[1 .. n - 1]] = op[<<g[1 .. n - 1], s[n]>>]
    <3> HIDE DEF g, step
    <3> QED BY <1>4, <2>2
  <2> HIDE DEF g, step
  <2> QED BY <2>1, <2>3, <2>4, <2>5
<1>7. 0 .. L \subseteq S
  <2> HIDE DEF S, L
  <2> QED BY <1>0, <1>5, <1>6, IntervalInduction
<1>8. L \in 0 .. L
  BY <1>0
<1>9. FoldFn(T, op, b, s) = g[1 .. L]
  BY DEF FoldFn
<1> HIDE DEF g, step
<1> QED BY <1>3, <1>7, <1>8, <1>9 DEF WholeOf

\* No elements: the state is the first.
LEMMA FoldFnEmpty ==
  ASSUME NEW T, NEW E, NEW op, IsOp(T, E, op), NEW b \in T, NEW s \in Seq(E), Len(s) = 0
  PROVE  FoldFn(T, op, b, s) = b
<1> DEFINE it == [r \in {{}} |-> b]
<1>1. Len(s) = 0 /\ 1 .. Len(s) = {}
  OBVIOUS
<1>2. it[{}] = b
  OBVIOUS
<1>3. IsFold(T, op, b, s, it)
  BY <1>1 DEF IsFold
<1>4. WholeOf(it, s) = FoldFn(T, op, b, s)
  <2> HIDE DEF it
  <2> QED BY <1>3, FoldFnIs
<1> QED BY <1>1, <1>2, <1>4 DEF WholeOf

\* r is s, and then x.
IsAppend(r, s, x) == Len(r) = Len(s) + 1 /\ r[Len(r)] = x /\ \A n \in 1 .. Len(s) : r[n] = s[n]

\* The fold of a longer sequence is the step of its last element.
LEMMA FoldFnLast ==
  ASSUME NEW T, NEW E, NEW op, IsOp(T, E, op), NEW b \in T, NEW s \in Seq(E), NEW r \in Seq(E),
         NEW x \in E, IsAppend(r, s, x)
  PROVE  /\ FoldFn(T, op, b, s) \in T
         /\ FoldFn(T, op, b, r) = op[<<FoldFn(T, op, b, s), x>>]
<1> DEFINE step == StepsOf(T, op, r)
           L == Len(s)
           K == Len(r)
           g == CHOOSE h \in FoldsOn(K, T, b, step) : TRUE
<1>0. L \in Nat /\ K = L + 1 /\ (\A n \in 1 .. L : r[n] = s[n]) /\ r[K] = x
  BY DEF IsAppend
<1>1. K \in Nat /\ K \in 1 .. K /\ K - 1 = L
  BY <1>0
<1>2. step \in [1 .. K -> [T -> T]]
  BY StepsType
<1>3. \A n \in 1 .. K : \A t \in T : step[n][t] = op[<<t, r[n]>>]
  BY DEF StepsOf
<1> HIDE DEF step
<1>4. g \in FoldsOn(K, T, b, step)
  <2>1. FoldsOn(K, T, b, step) # {}
    <3> HIDE DEF K
    <3> QED BY <1>1, <1>2, FoldExists
  <2> QED BY <2>1
<1> HIDE DEF g
<1>5. \A n \in 0 .. K : /\ g[1 .. n] \in T
                        /\ g[1 .. n] = IF n = 0 THEN b ELSE step[n][g[1 .. n - 1]]
  <2>1. IsChain(K, T, b, step, g)
    <3> HIDE DEF K
    <3> QED BY <1>1, <1>2, <1>4, FoldChain
  <2> HIDE DEF K
  <2> QED BY <2>1 DEF IsChain
<1> HIDE DEF K, L
<1>6. g[{}] = b
  <2>1. 1 .. 0 = {} /\ 0 \in 0 .. K
    BY <1>1
  <2> QED BY <1>5, <2>1
<1>7. \A n \in 1 .. K : g[1 .. n - 1] \in T /\ g[1 .. n] = op[<<g[1 .. n - 1], r[n]>>]
  <2> SUFFICES ASSUME NEW n \in 1 .. K
               PROVE  g[1 .. n - 1] \in T /\ g[1 .. n] = op[<<g[1 .. n - 1], r[n]>>]
    OBVIOUS
  <2>1. n \in 0 .. K /\ n - 1 \in 0 .. K /\ n # 0
    BY <1>1
  <2> QED BY <2>1, <1>3, <1>5
<1>8. g[1 .. K] = FoldFn(T, op, b, r)
  <2>1. IsFold(T, op, b, r, g)
    BY <1>6, <1>7 DEF K, IsFold
  <2>2. WholeOf(g, r) = FoldFn(T, op, b, r)
    BY <2>1, FoldFnIs
  <2> QED BY <2>2 DEF K, WholeOf
<1>9. g[1 .. L] = FoldFn(T, op, b, s) /\ FoldFn(T, op, b, s) \in T
  <2>1. \A n \in 1 .. Len(s) : g[1 .. n - 1] \in T => g[1 .. n] = op[<<g[1 .. n - 1], s[n]>>]
    BY <1>0, <1>7 DEF L
  <2>2. IsFold(T, op, b, s, g)
    BY <1>6, <2>1 DEF IsFold
  <2>3. WholeOf(g, s) = FoldFn(T, op, b, s) /\ FoldFn(T, op, b, s) \in T
    BY <2>2, FoldFnIs
  <2> QED BY <2>3 DEF L, WholeOf
<1>10. g[1 .. K] = op[<<g[1 .. L], r[K]>>]
  BY <1>1, <1>7
<1> QED BY <1>0, <1>8, <1>9, <1>10 DEF K

\* The same of Append.
LEMMA FoldFnAppend ==
  ASSUME NEW T, NEW E, NEW op, IsOp(T, E, op), NEW b \in T, NEW s \in Seq(E), NEW x \in E
  PROVE  /\ FoldFn(T, op, b, s) \in T
         /\ FoldFn(T, op, b, Append(s, x)) = op[<<FoldFn(T, op, b, s), x>>]
<1>0. Append(s, x) \in Seq(E)
  OBVIOUS
<1>1. PICK r \in Seq(E) : r = Append(s, x)
  BY <1>0, Zenon
<1>2. IsAppend(r, s, x)
  BY <1>1 DEF IsAppend
<1>3. FoldFn(T, op, b, s) \in T /\ FoldFn(T, op, b, r) = op[<<FoldFn(T, op, b, s), x>>]
  BY <1>2, FoldFnLast
<1> QED BY <1>1, <1>3
\* it is what MapThenFoldSet recurses on, as far as its values are in T.
Iterated(T, op, b, s, it) ==
  \A r \in SUBSET (DOMAIN s) :
    /\ r = {} => it[r] = b
    /\ r # {} /\ it[r \ {Max(r)}] \in T => it[r] = op[<<it[r \ {Max(r)}], s[Max(r)]>>]

\* One that is so for all of them, and typed.
Iterates(T, E, op, b, s) ==
  {g \in [SUBSET (DOMAIN s) -> T] :
     \A r \in SUBSET (DOMAIN s) :
       /\ r = {} => g[r] = b
       /\ r # {} => /\ r \ {Max(r)} \in SUBSET (DOMAIN s) /\ s[Max(r)] \in E
                   /\ g[r \ {Max(r)}] \in T
                   /\ g[r] = op[<<g[r \ {Max(r)}], s[Max(r)]>>]}

\* There is an iteration of MapThenFoldSet for a typed function.
LEMMA IterateExists ==
  ASSUME NEW T, NEW E, NEW op, IsOp(T, E, op), NEW b \in T, NEW s \in Seq(E)
  PROVE  \E g \in Iterates(T, E, op, b, s) : TRUE
<1> DEFINE L == Len(s)
           step == StepsOf(T, op, s)
<1>1. L \in Nat /\ DOMAIN s = 1 .. L
  OBVIOUS
<1>2. step \in [1 .. L -> [T -> T]]
  BY StepsType
<1>3. PICK g \in FoldsOn(L, T, b, step) : TRUE
  <2> HIDE DEF L, step
  <2> QED BY <1>1, <1>2, FoldExists
<1>4. g \in [SUBSET (1 .. L) -> T]
  BY <1>3 DEF FoldsOn
<1>5. ASSUME NEW r \in SUBSET (1 .. L)
      PROVE  /\ r = {} => g[r] = b
             /\ r # {} => /\ r \ {Max(r)} \in SUBSET (1 .. L) /\ s[Max(r)] \in E
                         /\ g[r \ {Max(r)}] \in T
                         /\ g[r] = op[<<g[r \ {Max(r)}], s[Max(r)]>>]
  <2>1. g[r] = IF r = {} THEN b ELSE step[Max(r)][g[r \ {Max(r)}]]
    <3> HIDE DEF step
    <3> QED BY <1>3 DEF FoldsOn
  <2>2. ASSUME r # {} PROVE Max(r) \in 1 .. L
    <3>1. Max(r) \in r
      BY <1>1, <2>2, MaxOfInterval
    <3> QED BY <3>1
  <2>3. ASSUME r # {}
        PROVE  /\ r \ {Max(r)} \in SUBSET (1 .. L) /\ s[Max(r)] \in E
               /\ g[r \ {Max(r)}] \in T
               /\ step[Max(r)][g[r \ {Max(r)}]] = op[<<g[r \ {Max(r)}], s[Max(r)]>>]
    <3>1. PICK q \in SUBSET (1 .. L) : q = r \ {Max(r)}
      BY Zenon
    <3>2. PICK m \in 1 .. L : m = Max(r)
      BY <2>2, <2>3
    <3>3. g[q] \in T /\ s[m] \in E
      <4>1. g[q] \in T
        BY <1>4
      <4> QED BY <4>1
    <3>4. step[m][g[q]] = op[<<g[q], s[m]>>]
      BY <3>3 DEF StepsOf
    <3> HIDE DEF step
    <3> QED BY <3>1, <3>2, <3>3, <3>4
  <2> HIDE DEF step, L
  <2> QED BY <2>1, <2>3
<1>6. g \in Iterates(T, E, op, b, s)
  <2> HIDE DEF step, L
  <2> QED BY <1>1, <1>4, <1>5 DEF Iterates
<1> QED BY <1>6

\* Whatever FoldLeft's CHOOSE finds, its value on the whole is FoldFn.
LEMMA IteratedIsFold ==
  ASSUME NEW T, NEW E, NEW op, IsOp(T, E, op), NEW b \in T, NEW s \in Seq(E), NEW it,
         Iterated(T, op, b, s, it)
  PROVE  it[DOMAIN s] = FoldFn(T, op, b, s) /\ FoldFn(T, op, b, s) \in T
<1>1. it[{}] = b
  BY DEF Iterated
<1>2. ASSUME NEW n \in 1 .. Len(s), it[1 .. n - 1] \in T
      PROVE  it[1 .. n] = op[<<it[1 .. n - 1], s[n]>>]
  <2>1. PICK r : r = 1 .. n
    OBVIOUS
  <2>2. n \in Nat \ {0}
    OBVIOUS
  <2>3. Max(r) = n /\ r \ {n} = 1 .. n - 1 
    BY <2>1, <2>2, MaxOfPrefix
  <2>4. r \in SUBSET (DOMAIN s) /\ r # {}
    <3>1. DOMAIN s = 1 .. Len(s) /\ n \in r /\ \A k \in r : k \in 1 .. Len(s)
      BY <2>1
    <3> QED BY <3>1
  <2>5. it[r \ {Max(r)}] \in T => it[r] = op[<<it[r \ {Max(r)}], s[Max(r)]>>]
    BY <2>4 DEF Iterated
  <2> QED BY <1>2, <2>1, <2>3, <2>5
<1>3. IsFold(T, op, b, s, it)
  BY <1>1, <1>2 DEF IsFold
<1>4. WholeOf(it, s) = FoldFn(T, op, b, s) /\ FoldFn(T, op, b, s) \in T
  BY <1>3, FoldFnIs
<1>5. DOMAIN s = 1 .. Len(s)
  OBVIOUS
<1> QED BY <1>4, <1>5 DEF WholeOf

\* The result is a state.
LEMMA FoldFnType ==
  ASSUME NEW T, NEW E, NEW op, IsOp(T, E, op), NEW b \in T, NEW s \in Seq(E)
  PROVE  FoldFn(T, op, b, s) \in T
<1>1. PICK g \in Iterates(T, E, op, b, s) : TRUE
  BY IterateExists
<1>2. Iterated(T, op, b, s, g)
  BY <1>1 DEF Iterates, Iterated
<1> QED BY <1>2, IteratedIsFold

\* One element at a time.
LEMMA FoldFnPrefix ==
  ASSUME NEW T, NEW E, NEW op, IsOp(T, E, op), NEW b \in T, NEW s \in Seq(E), NEW n \in 1 .. Len(s)
  PROVE  /\ FoldFn(T, op, b, SubSeq(s, 1, n - 1)) \in T
         /\ FoldFn(T, op, b, SubSeq(s, 1, n)) = op[<<FoldFn(T, op, b, SubSeq(s, 1, n - 1)), s[n]>>]
<1>1. PICK r \in Seq(E) : r = SubSeq(s, 1, n - 1)
  <2>1. SubSeq(s, 1, n - 1) \in Seq(E)
    OBVIOUS
  <2> QED BY <2>1, Zenon
<1>2. s[n] \in E
  OBVIOUS
<1>3. SubSeq(s, 1, n) = Append(r, s[n])
  BY <1>1
<1>4. /\ FoldFn(T, op, b, r) \in T
      /\ FoldFn(T, op, b, Append(r, s[n])) = op[<<FoldFn(T, op, b, r), s[n]>>]
  BY <1>2, FoldFnAppend
<1> QED BY <1>1, <1>3, <1>4, Zenon

\* Concatenation and Append.
LEMMA ConcatAppend ==
  ASSUME NEW E, NEW s \in Seq(E), NEW q \in Seq(E), NEW x \in E
  PROVE  s \o Append(q, x) = Append(s \o q, x)
<1> DEFINE u == s \o Append(q, x)
           v == Append(s \o q, x)
<1>1. u \in Seq(E) /\ v \in Seq(E) /\ Len(u) = Len(s) + Len(q) + 1 /\ Len(v) = Len(s) + Len(q) + 1
  OBVIOUS
<1>2. \A i \in 1 .. Len(s) + Len(q) + 1 : u[i] = v[i]
  OBVIOUS
<1> HIDE DEF u, v
<1>3. u = v
  BY <1>1, <1>2, SeqEqual
<1> QED BY <1>3 DEF u, v

\* The fold of two sequences is that of the second from that of the first.
LEMMA FoldFnConcat ==
  ASSUME NEW T, NEW E, NEW op, IsOp(T, E, op), NEW b \in T, NEW s \in Seq(E), NEW r \in Seq(E)
  PROVE  FoldFn(T, op, b, s \o r) = FoldFn(T, op, FoldFn(T, op, b, s), r)
<1> DEFINE F(q) == FoldFn(T, op, b, q)
           G(q) == FoldFn(T, op, F(s), q)
           L == Len(r)
           P(n) == SubSeq(r, 1, n)
           U == {n \in 0 .. L : F(s \o P(n)) = G(P(n))}
<1>0. L \in Nat /\ F(s) \in T
  BY FoldFnType
<1>1. 0 \in U
  <2>1. P(0) = <<>> /\ s \o P(0) = s
    OBVIOUS
  <2>2. PICK e \in Seq(E) : e = P(0)
    <3>1. P(0) \in Seq(E)
      OBVIOUS
    <3> QED BY <3>1, Zenon
  <2>3. G(e) = F(s)
    <3>1. Len(e) = 0
      BY <2>1, <2>2
    <3> QED BY <1>0, <3>1, FoldFnEmpty, ZenonT(60)
  <2> HIDE DEF F, G, P
  <2>4. F(s \o P(0)) = G(P(0))
    BY <2>1, <2>2, <2>3
  <2>5. 0 \in 0 .. L
    BY <1>0
  <2> QED BY <2>4, <2>5
<1>2. ASSUME NEW n \in 1 .. L, n - 1 \in U PROVE n \in U
  <2>1. PICK q \in Seq(E) : q = P(n - 1)
    <3>1. P(n - 1) \in Seq(E)
      OBVIOUS
    <3> QED BY <3>1, Zenon
  <2>2. PICK x \in E : x = r[n]
    OBVIOUS
  <2>3. P(n) = Append(q, x)
    BY <2>1, <2>2
  <2>4. PICK sq \in Seq(E) : sq = s \o q
    <3>1. s \o q \in Seq(E)
      OBVIOUS
    <3> QED BY <3>1, Zenon
  <2>5. s \o P(n) = Append(sq, x)
    <3> HIDE DEF P
    <3> QED BY <2>3, <2>4, ConcatAppend
  <2>6. F(sq) \in T /\ F(Append(sq, x)) = op[<<F(sq), x>>]
    BY FoldFnAppend
  <2>7. G(q) \in T /\ G(Append(q, x)) = op[<<G(q), x>>]
    <3> HIDE DEF F
    <3> QED BY <1>0, FoldFnAppend
  <2>8. F(sq) = G(q)
    BY <1>2, <2>1, <2>4
  <2> HIDE DEF F, G, P
  <2>9. F(s \o P(n)) = G(P(n))
    BY <2>3, <2>5, <2>6, <2>7, <2>8
  <2> QED BY <2>9
<1>3. 0 .. L \subseteq U
  <2> HIDE DEF U, L
  <2> QED BY <1>0, <1>1, <1>2, IntervalInduction
<1>4. L \in 0 .. L /\ P(L) = r
  OBVIOUS
<1> HIDE DEF F, G, P
<1>5. F(s \o r) = G(r)
  BY <1>3, <1>4
<1> QED BY <1>5 DEF F, G

-----------------------------------------------------------------------------
(* The terminal *)

\* Control keeps to the states of a terminal.
LEMMA ControlType ==
  ASSUME NEW t \in TerminalStates, NEW ctl \in Nat
  PROVE  Control(t, ctl) \in TerminalStates
  BY DEF Control, TerminalStates, ResetState, Color, NoFlags, Highlighted, DefaultFg, DefaultBg

\* Control as a function, for the folds.
ControlFn == [x \in TerminalStates \X Nat |-> Control(x[1], x[2])]

\* It is one on the states and numbers.
LEMMA ControlFnType == IsOp(TerminalStates, Nat, ControlFn)
  BY ControlType DEF IsOp, ControlFn

\* ApplyAll is a fold, and has a state for its value.
LEMMA ApplyAllType ==
  ASSUME NEW t \in TerminalStates, NEW nums \in Seq(Nat)
  PROVE  /\ ApplyAll(t, nums) = FoldFn(TerminalStates, ControlFn, t, nums)
         /\ ApplyAll(t, nums) \in TerminalStates
<1> DEFINE Good(it) == it = [s \in SUBSET (DOMAIN nums) |->
                               IF s = {} THEN t ELSE Control(it[s \ {Max(s)}], nums[Max(s)])]
           it == CHOOSE it : Good(it)
<1>1. ApplyAll(t, nums) = it[DOMAIN nums]
  BY DEF ApplyAll, FoldLeft, MapThenFoldSet
<1>2. PICK g \in Iterates(TerminalStates, Nat, ControlFn, t, nums) : TRUE
  BY ControlFnType, IterateExists
<1>3. Good(g)
  BY <1>2 DEF Iterates, ControlFn
<1>4. Good(it)
  BY <1>3
<1> HIDE DEF it
<1>5. Iterated(TerminalStates, ControlFn, t, nums, it)
  <2> SUFFICES ASSUME NEW r \in SUBSET (DOMAIN nums)
               PROVE  /\ r = {} => it[r] = t
                      /\ r # {} /\ it[r \ {Max(r)}] \in TerminalStates
                           => it[r] = ControlFn[<<it[r \ {Max(r)}], nums[Max(r)]>>]
    BY DEF Iterated
  <2>1. it[r] = IF r = {} THEN t ELSE Control(it[r \ {Max(r)}], nums[Max(r)])
    BY <1>4
  <2>2. r # {} => nums[Max(r)] \in Nat
    BY <1>2 DEF Iterates
  <2> QED BY <2>1, <2>2 DEF ControlFn
<1> QED BY <1>1, <1>5, ControlFnType, IteratedIsFold

\* So has ApplyNums, of no numbers too.
LEMMA ApplyNumsType ==
  ASSUME NEW t \in TerminalStates, NEW nums \in Seq(Nat)
  PROVE  ApplyNums(t, nums) \in TerminalStates
<1>1. ResetState \in TerminalStates
  BY DEF TerminalStates, ResetState, Color, NoFlags, Highlighted, DefaultFg, DefaultBg
<1> QED BY <1>1, ApplyAllType DEF ApplyNums

-----------------------------------------------------------------------------
(* Widths *)

\* The positions of the runes of an article.
RunesOf(c) == {p \in 1 .. Len(c) : c[p].kind = "rune"}

\* A rune is one or two columns wide and makes one to three bytes.
LEMMA WidthType ==
  ASSUME NEW cl \in DOMAIN TextWidth
  PROVE  TextWidth[cl] \in 1 .. 2 /\ HtmlWidth[cl] \in 1 .. 3
  BY DEF TextWidth, HtmlWidth

\* What the places of runes are.
LEMMA RuneType ==
  ASSUME NEW c \in Seq(Tokens), NEW p \in RunesOf(c)
  PROVE  /\ p \in 1 .. Len(c) /\ p \in Nat /\ c[p].class \in DOMAIN TextWidth
         /\ TextWidth[c[p].class] \in 1 .. 2 /\ HtmlWidth[c[p].class] \in 1 .. 3
<1>1. p \in 1 .. Len(c) /\ c[p] \in Tokens /\ c[p].kind = "rune"
  BY DEF RunesOf
<1>2. c[p].class \in DOMAIN TextWidth
  BY <1>1 DEF Tokens
<1> QED BY <1>1, <1>2, WidthType

\* Nat and 0, not to be expanded where folds are instantiated.
Lengths == Nat
\* The length of no text.
Zero == 0

\* The width of one more rune.
TextFn(c) == [x \in Lengths \X RunesOf(c) |-> x[1] + TextWidth[c[x[2]].class]]

\* The width of the runes at ps: TextLen, as a typed fold.
TLen(c, ps) == FoldFn(Lengths, TextFn(c), Zero, ps)

\* It is a step on lengths.
LEMMA TextFnType ==
  ASSUME NEW c \in Seq(Tokens)
  PROVE  IsOp(Lengths, RunesOf(c), TextFn(c)) /\ Zero \in Lengths
<1>1. ASSUME NEW n \in Lengths, NEW p \in RunesOf(c)
      PROVE  n + TextWidth[c[p].class] \in Lengths
  <2>1. TextWidth[c[p].class] \in 1 .. 2
    BY RuneType
  <2> QED BY <2>1 DEF Lengths
<1> QED BY <1>1 DEF IsOp, TextFn, Lengths, Zero

\* TextLen is that fold.
LEMMA TextLenIs ==
  ASSUME NEW ps \in Seq(RunesOf(content)), content \in Seq(Tokens)
  PROVE  TextLen(ps) = TLen(content, ps)
<1> DEFINE op == TextFn(content)
           Good(it) == it = [s \in SUBSET (DOMAIN ps) |->
                               IF s = {} THEN 0
                               ELSE it[s \ {Max(s)}] + TextWidth[content[ps[Max(s)]].class]]
           it == CHOOSE it : Good(it)
<1>1. TextLen(ps) = it[DOMAIN ps]
  BY DEF TextLen, SumWidths, ClassAt, FoldLeft, MapThenFoldSet
<1>2. IsOp(Lengths, RunesOf(content), op) /\ Zero \in Lengths
  BY TextFnType
<1>3. PICK g \in Iterates(Lengths, RunesOf(content), op, Zero, ps) : TRUE
  <2> HIDE DEF op
  <2> QED BY <1>2, IterateExists
<1>4. Good(g)
  BY <1>3 DEF Iterates, TextFn, Zero
<1>5. Good(it)
  BY <1>4
<1> HIDE DEF it
<1>6. Iterated(Lengths, op, Zero, ps, it)
  <2> SUFFICES ASSUME NEW r \in SUBSET (DOMAIN ps)
               PROVE  /\ r = {} => it[r] = Zero
                      /\ r # {} /\ it[r \ {Max(r)}] \in Lengths
                           => it[r] = op[<<it[r \ {Max(r)}], ps[Max(r)]>>]
    BY DEF Iterated
  <2>1. it[r] = IF r = {} THEN 0 ELSE it[r \ {Max(r)}] + TextWidth[content[ps[Max(r)]].class]
    BY <1>5
  <2>2. r # {} => ps[Max(r)] \in RunesOf(content)
    BY <1>3 DEF Iterates
  <2> QED BY <2>1, <2>2 DEF TextFn, Zero
<1> HIDE DEF op
<1>7. it[DOMAIN ps] = FoldFn(Lengths, op, Zero, ps)
  BY <1>2, <1>6, IteratedIsFold
<1> QED BY <1>1, <1>7 DEF op, TLen

\* No runes are of no width.
LEMMA TLenEmpty ==
  ASSUME NEW c \in Seq(Tokens), NEW ps \in Seq(RunesOf(c)), Len(ps) = 0
  PROVE  TLen(c, ps) = 0
<1>1. IsOp(Lengths, RunesOf(c), TextFn(c)) /\ Zero \in Lengths
  BY TextFnType
<1>2. FoldFn(Lengths, TextFn(c), Zero, ps) = Zero
  BY <1>1, FoldFnEmpty, ZenonT(60)
<1> QED BY <1>2 DEF TLen, Zero

\* One more adds its width.
LEMMA TLenAppend ==
  ASSUME NEW c \in Seq(Tokens), NEW ps \in Seq(RunesOf(c)), NEW p \in RunesOf(c)
  PROVE  /\ TLen(c, ps) \in Nat
         /\ TLen(c, Append(ps, p)) = TLen(c, ps) + TextWidth[c[p].class]
<1>1. IsOp(Lengths, RunesOf(c), TextFn(c)) /\ Zero \in Lengths
  BY TextFnType
<1>2. /\ FoldFn(Lengths, TextFn(c), Zero, ps) \in Lengths
      /\ FoldFn(Lengths, TextFn(c), Zero, Append(ps, p))
           = TextFn(c)[<<FoldFn(Lengths, TextFn(c), Zero, ps), p>>]
  BY <1>1, FoldFnAppend
<1> QED BY <1>2, ZenonT(60) DEF TextFn, TLen, Lengths

\* The byte offsets of the runes of a line ascend.
LEMMA TLenMonotone ==
  ASSUME NEW c \in Seq(Tokens), NEW ps \in Seq(RunesOf(c))
  PROVE  \A n \in 0 .. Len(ps) :
           /\ TLen(c, SubSeq(ps, 1, n)) \in 0 .. 2 * n
           /\ \A k \in 0 .. n - 1 : TLen(c, SubSeq(ps, 1, k)) < TLen(c, SubSeq(ps, 1, n))
<1> DEFINE L == Len(ps)
           T(n) == TLen(c, SubSeq(ps, 1, n))
           S == {n \in 0 .. L : T(n) \in 0 .. 2 * n /\ \A k \in 0 .. n - 1 : T(k) < T(n)}
<1>0. L \in Nat
  OBVIOUS
<1>01. ASSUME NEW n \in 0 .. L PROVE T(n) \in Nat
  <2>1. PICK q \in Seq(RunesOf(c)) : q = SubSeq(ps, 1, n)
    <3>1. SubSeq(ps, 1, n) \in Seq(RunesOf(c))
      OBVIOUS
    <3> QED BY <3>1, Zenon
  <2>2. TLen(c, q) \in Nat
    <3>1. IsOp(Lengths, RunesOf(c), TextFn(c)) /\ Zero \in Lengths
      BY TextFnType
    <3>2. FoldFn(Lengths, TextFn(c), Zero, q) \in Lengths
      BY <3>1, FoldFnType
    <3> QED BY <3>2 DEF TLen, Lengths
  <2> QED BY <2>1, <2>2
<1>1. 0 \in S
  <2>1. PICK e \in Seq(RunesOf(c)) : e = SubSeq(ps, 1, 0)
    <3>1. SubSeq(ps, 1, 0) \in Seq(RunesOf(c))
      OBVIOUS
    <3> QED BY <3>1, Zenon
  <2>2. T(0) = 0
    <3>1. Len(e) = 0
      BY <2>1
    <3>2. TLen(c, e) = 0
      BY <3>1, TLenEmpty
    <3> QED BY <2>1, <3>2
  <2> HIDE DEF T
  <2> QED BY <2>2
<1>2. ASSUME NEW n \in 1 .. L, n - 1 \in S PROVE n \in S
  <2>1. PICK q \in Seq(RunesOf(c)) : q = SubSeq(ps, 1, n - 1)
    <3>1. SubSeq(ps, 1, n - 1) \in Seq(RunesOf(c))
      OBVIOUS
    <3> QED BY <3>1, Zenon
  <2>2. PICK p \in RunesOf(c) : p = ps[n]
    OBVIOUS
  <2>3. SubSeq(ps, 1, n) = Append(q, p)
    BY <2>1, <2>2
  <2>4. PICK w : w = TextWidth[c[p].class]
    OBVIOUS
  <2>5. w \in 1 .. 2
    BY <2>4, RuneType
  <2>6. T(n) = T(n - 1) + w
    BY <2>1, <2>3, <2>4, TLenAppend
  <2> HIDE DEF T
  <2>7. T(n - 1) \in 0 .. 2 * (n - 1) /\ \A k \in 0 .. n - 2 : T(k) < T(n - 1)
    BY <1>2
  <2>8. T(n) \in 0 .. 2 * n /\ T(n - 1) < T(n)
    BY <2>5, <2>6, <2>7
  <2>9. \A k \in 0 .. n - 1 : T(k) < T(n)
    <3> SUFFICES ASSUME NEW k \in 0 .. n - 1 PROVE T(k) < T(n)
      OBVIOUS
    <3>1. CASE k = n - 1
      BY <3>1, <2>8
    <3>2. CASE k \in 0 .. n - 2
      <4>1. T(k) < T(n - 1)
        BY <2>7, <3>2
      <4>2. T(k) \in Nat
        <5>1. k \in 0 .. L
          BY <1>0, <3>2
        <5> QED BY <5>1, <1>01
      <4> QED BY <4>1, <4>2, <2>5, <2>6, <2>7
    <3> QED BY <3>1, <3>2
  <2> QED BY <2>8, <2>9
<1>3. 0 .. L \subseteq S
  <2> HIDE DEF S, L
  <2> QED BY <1>0, <1>1, <1>2, IntervalInduction
<1> QED BY <1>3

-----------------------------------------------------------------------------
(* The HTML of runes *)

\* The bytes of runes.
ByteSet == [tag : {"byte"}, where : Nat \X Nat, look : {NoLook}]

\* That of one rune, and of several.
ByteSeqs == Seq(ByteSet)
\* The text of nothing.
NoBytes == <<>>
\* The bytes of one more rune.
HtmlFn(c) == [x \in ByteSeqs \X RunesOf(c) |-> x[1] \o RuneBytes(c, x[2])]
\* The bytes of the runes at ps, as a typed fold.
HBytes(c, ps) == FoldFn(ByteSeqs, HtmlFn(c), NoBytes, ps)

\* A rune has one to three bytes, which name its place.
LEMMA RuneBytesType ==
  ASSUME NEW c \in Seq(Tokens), NEW p \in RunesOf(c)
  PROVE  /\ RuneBytes(c, p) \in Seq(ByteSet)
         /\ Len(RuneBytes(c, p)) = HtmlWidth[c[p].class]
         /\ Len(RuneBytes(c, p)) \in 1 .. 3
         /\ \A k \in 1 .. Len(RuneBytes(c, p)) : RuneBytes(c, p)[k] = Byte(p, k)
<1>1. PICK w : w = HtmlWidth[c[p].class]
  OBVIOUS
<1>2. w \in 1 .. 3 /\ p \in Nat
  BY <1>1, RuneType
<1>3. \A k \in 1 .. w : Byte(p, k) \in ByteSet
  BY <1>2 DEF Byte, Html, ByteSet
<1> QED BY <1>1, <1>2, <1>3 DEF RuneBytes

\* It is a step on sequences of bytes.
LEMMA HtmlFnType ==
  ASSUME NEW c \in Seq(Tokens)
  PROVE  IsOp(ByteSeqs, RunesOf(c), HtmlFn(c)) /\ NoBytes \in ByteSeqs
<1>1. ASSUME NEW s \in Seq(ByteSet), NEW p \in RunesOf(c)
      PROVE  s \o RuneBytes(c, p) \in Seq(ByteSet)
  BY RuneBytesType
<1> QED BY <1>1 DEF IsOp, HtmlFn, ByteSeqs, NoBytes

\* The text of runes is a sequence of bytes.
LEMMA HBytesType ==
  ASSUME NEW c \in Seq(Tokens), NEW ps \in Seq(RunesOf(c))
  PROVE  HBytes(c, ps) \in Seq(ByteSet)
<1>1. FoldFn(ByteSeqs, HtmlFn(c), NoBytes, ps) \in ByteSeqs
  BY HtmlFnType, FoldFnType
<1> QED BY <1>1 DEF HBytes, ByteSeqs

\* Of no runes, nothing.
LEMMA HBytesEmpty ==
  ASSUME NEW c \in Seq(Tokens), NEW ps \in Seq(RunesOf(c)), Len(ps) = 0
  PROVE  HBytes(c, ps) = <<>>
<1>1. FoldFn(ByteSeqs, HtmlFn(c), NoBytes, ps) = NoBytes
  BY HtmlFnType, FoldFnEmpty
<1> QED BY <1>1 DEF HBytes, NoBytes

\* One more rune adds its bytes.
LEMMA HBytesAppend ==
  ASSUME NEW c \in Seq(Tokens), NEW ps \in Seq(RunesOf(c)), NEW p \in RunesOf(c)
  PROVE  HBytes(c, Append(ps, p)) = HBytes(c, ps) \o RuneBytes(c, p)
<1>1. IsOp(ByteSeqs, RunesOf(c), HtmlFn(c)) /\ NoBytes \in ByteSeqs
  BY HtmlFnType
<1> DEFINE F(s) == FoldFn(ByteSeqs, HtmlFn(c), NoBytes, s)
<1>2. F(ps) \in ByteSeqs /\ F(Append(ps, p)) = HtmlFn(c)[<<F(ps), p>>]
  BY <1>1, FoldFnAppend
<1> HIDE DEF F
<1>3. F(Append(ps, p)) = F(ps) \o RuneBytes(c, p)
  BY <1>2 DEF HtmlFn
<1> QED BY <1>3 DEF F, HBytes

\* Concatenation is associative.
LEMMA ConcatAssoc ==
  ASSUME NEW S, NEW s \in Seq(S), NEW t \in Seq(S), NEW u \in Seq(S)
  PROVE  (s \o t) \o u = s \o (t \o u)
<1> DEFINE v == (s \o t) \o u
           w == s \o (t \o u)
<1>1. v \in Seq(S) /\ w \in Seq(S)
  OBVIOUS
<1>2. Len(v) = Len(s) + Len(t) + Len(u) /\ Len(w) = Len(s) + Len(t) + Len(u)
  OBVIOUS
<1>3. \A i \in 1 .. Len(s) + Len(t) + Len(u) : v[i] = w[i]
  OBVIOUS
<1> HIDE DEF v, w
<1>4. v = w
  BY <1>1, <1>2, <1>3, SeqEqual
<1> QED BY <1>4 DEF v, w

\* That of bytes.
LEMMA BytesAssoc ==
  ASSUME NEW s \in Seq(ByteSet), NEW t \in Seq(ByteSet), NEW u \in Seq(ByteSet)
  PROVE  (s \o t) \o u = s \o (t \o u)
  BY ConcatAssoc

\* The text of two sequences of runes.
LEMMA HBytesConcat ==
  ASSUME NEW c \in Seq(Tokens), NEW ps \in Seq(RunesOf(c)), NEW qs \in Seq(RunesOf(c))
  PROVE  HBytes(c, ps \o qs) = HBytes(c, ps) \o HBytes(c, qs)
<1> DEFINE E == RunesOf(c)
           L == Len(qs)
           P(n) == SubSeq(qs, 1, n)
           H(s) == HBytes(c, s)
           U == {n \in 0 .. L : H(ps \o P(n)) = H(ps) \o H(P(n))}
<1>0. L \in Nat
  OBVIOUS
<1>1. 0 \in U
  <2>1. PICK e \in Seq(E) : e = P(0)
    <3>1. P(0) \in Seq(E)
      OBVIOUS
    <3> QED BY <3>1, Zenon
  <2>2. H(e) = <<>>
    <3>1. Len(e) = 0
      BY <2>1
    <3> QED BY <3>1, HBytesEmpty
  <2>3. ps \o e = ps /\ H(ps) \o <<>> = H(ps)
    <3>1. H(ps) \in Seq(ByteSet)
      BY HBytesType
    <3>2. Len(e) = 0
      BY <2>1
    <3> HIDE DEF H
    <3> QED BY <3>1, <3>2
  <2> HIDE DEF H, P
  <2>4. H(ps \o P(0)) = H(ps) \o H(P(0))
    BY <2>1, <2>2, <2>3
  <2>5. 0 \in 0 .. L
    BY <1>0
  <2> QED BY <2>4, <2>5
<1>2. ASSUME NEW n \in 1 .. L, n - 1 \in U PROVE n \in U
  <2>1. PICK q \in Seq(E) : q = P(n - 1)
    <3>1. P(n - 1) \in Seq(E)
      OBVIOUS
    <3> QED BY <3>1, Zenon
  <2>2. PICK x \in E : x = qs[n]
    OBVIOUS
  <2>3. P(n) = Append(q, x)
    BY <2>1, <2>2
  <2>4. PICK sq \in Seq(E) : sq = ps \o q
    <3>1. ps \o q \in Seq(E)
      OBVIOUS
    <3> QED BY <3>1, Zenon
  <2>5. ps \o P(n) = Append(sq, x)
    <3> HIDE DEF P
    <3> QED BY <2>3, <2>4, ConcatAppend
  <2>6. H(Append(sq, x)) = H(sq) \o RuneBytes(c, x) /\ H(Append(q, x)) = H(q) \o RuneBytes(c, x)
    BY HBytesAppend
  <2>7. H(sq) = H(ps) \o H(q)
    BY <1>2, <2>1, <2>4
  <2>8. (H(ps) \o H(q)) \o RuneBytes(c, x) = H(ps) \o (H(q) \o RuneBytes(c, x))
    <3>1. H(ps) \in Seq(ByteSet) /\ H(q) \in Seq(ByteSet) /\ RuneBytes(c, x) \in Seq(ByteSet)
      BY HBytesType, RuneBytesType
    <3> HIDE DEF H
    <3>2. PICK x1 \in Seq(ByteSet) : x1 = H(ps)
      BY <3>1, Zenon
    <3>3. PICK x2 \in Seq(ByteSet) : x2 = H(q)
      BY <3>1, Zenon
    <3>4. PICK x3 \in Seq(ByteSet) : x3 = RuneBytes(c, x)
      BY <3>1, Zenon
    <3>5. (x1 \o x2) \o x3 = x1 \o (x2 \o x3)
      BY BytesAssoc
    <3> QED BY <3>2, <3>3, <3>4, <3>5
  <2> HIDE DEF H, P
  <2>9. H(ps \o P(n)) = H(ps) \o H(P(n))
    BY <2>3, <2>5, <2>6, <2>7, <2>8
  <2> QED BY <2>9
<1>3. 0 .. L \subseteq U
  <2> HIDE DEF U, L
  <2> QED BY <1>0, <1>1, <1>2, IntervalInduction
<1>4. L \in 0 .. L /\ P(L) = qs
  OBVIOUS
<1> HIDE DEF H, P
<1>5. H(ps \o qs) = H(ps) \o H(qs)
  BY <1>3, <1>4
<1> QED BY <1>5 DEF H

\* That of a part of a line, cut at k.
LEMMA HBytesCut ==
  ASSUME NEW c \in Seq(Tokens), NEW ps \in Seq(RunesOf(c)),
         NEW a \in 1 .. Len(ps) + 1, NEW k \in a .. Len(ps) + 1, NEW e \in k .. Len(ps) + 1
  PROVE  /\ HBytes(c, SubSeq(ps, a, e - 1))
              = HBytes(c, SubSeq(ps, a, k - 1)) \o HBytes(c, SubSeq(ps, k, e - 1))
         /\ HBytes(c, SubSeq(ps, a, k - 1)) \in Seq(ByteSet)
         /\ HBytes(c, SubSeq(ps, k, e - 1)) \in Seq(ByteSet)
         /\ HBytes(c, SubSeq(ps, a, e - 1)) \in Seq(ByteSet)
<1> DEFINE E == RunesOf(c)
<1>1. PICK u \in Seq(E) : u = SubSeq(ps, a, k - 1)
  <2>1. SubSeq(ps, a, k - 1) \in Seq(E)
    OBVIOUS
  <2> QED BY <2>1, Zenon
<1>2. PICK v \in Seq(E) : v = SubSeq(ps, k, e - 1)
  <2>1. SubSeq(ps, k, e - 1) \in Seq(E)
    OBVIOUS
  <2> QED BY <2>1, Zenon
<1>3. PICK w \in Seq(E) : w = SubSeq(ps, a, e - 1)
  <2>1. SubSeq(ps, a, e - 1) \in Seq(E)
    OBVIOUS
  <2> QED BY <2>1, Zenon
<1>4. w = u \o v
  <2>1. Len(u) = k - a /\ \A i \in 1 .. k - a : u[i] = ps[a + i - 1]
    BY <1>1
  <2>2. Len(v) = e - k /\ \A i \in 1 .. e - k : v[i] = ps[k + i - 1]
    BY <1>2
  <2>3. Len(w) = e - a /\ \A i \in 1 .. e - a : w[i] = ps[a + i - 1]
    BY <1>3
  <2>4. PICK z \in Seq(E) : z = u \o v
    <3>1. u \o v \in Seq(E)
      OBVIOUS
    <3> QED BY <3>1, Zenon
  <2>45. Len(z) = Len(u) + Len(v) /\ \A i \in 1 .. Len(u) + Len(v) : z[i] = IF i <= Len(u) THEN u[i] ELSE v[i - Len(u)]
    BY <2>4
  <2>5. Len(z) = e - a /\ \A i \in 1 .. e - a : z[i] = IF i <= k - a THEN u[i] ELSE v[i - (k - a)]
    BY <2>1, <2>2, <2>45
  <2>6. \A i \in 1 .. e - a : z[i] = w[i]
    BY <2>1, <2>2, <2>3, <2>5, SMTT(40)
  <2>7. z = w
    BY <2>3, <2>5, <2>6, SeqEqual
  <2> QED BY <2>4, <2>7
<1>5. HBytes(c, w) = HBytes(c, u) \o HBytes(c, v)
  BY <1>4, HBytesConcat
<1>6. HBytes(c, u) \in Seq(ByteSet) /\ HBytes(c, v) \in Seq(ByteSet) /\ HBytes(c, w) \in Seq(ByteSet)
  BY HBytesType
<1> QED BY <1>1, <1>2, <1>3, <1>5, <1>6

-----------------------------------------------------------------------------
(* The line that is being read *)

\* The segments of lines.
SegmentSet == [bytes : Seq(ByteSet), len : Nat, look : Looks]

\* The byte of the text that rune k of a line begins with, and the HTML of its
\* runes from number i up to number k - 1.
TextOf(c, line, k) == TLen(c, SubSeq(line, 1, k - 1))
\* The bytes of the runes of the line from the i-th to before the k-th.
HtmlFrom(c, line, i, k) == HBytes(c, SubSeq(line, i, k - 1))

\* Segment i holds the HTML of the runes from number f[i] on, and the mapper
\* knows where in the segment each of them is.
Divided(c, line, segs, map, f) ==
  /\ f \in [1 .. Len(segs) + 1 -> 1 .. Len(line) + 1]
  /\ f[1] = 1 /\ f[Len(segs) + 1] = Len(line) + 1
  /\ \A i \in 1 .. Len(segs) :
       /\ f[i] <= f[i + 1]
       /\ segs[i].bytes = HtmlFrom(c, line, f[i], f[i + 1])
       /\ \A k \in f[i] .. f[i + 1] - 1 :
            map[TextOf(c, line, k)] = <<i - 1, Len(HtmlFrom(c, line, f[i], k))>>

\* What is known of the line at any time; only its last segment may be empty.
LineOK(c, a, line, segs, closed, map, t) ==
  /\ a \in 0 .. Len(c)
  /\ line \in Seq(RunesOf(c)) /\ Len(line) <= a /\ \A k \in DOMAIN line : line[k] <= a
  /\ segs \in Seq(SegmentSet)
  /\ \A i \in 1 .. Len(segs) : segs[i].len = Len(segs[i].bytes) /\ segs[i].look.extra = {}
  /\ \A i \in 1 .. Len(segs) - 1 : segs[i].len > 0
  /\ closed \in BOOLEAN /\ (closed <=> segs = <<>>)
  /\ t \in TerminalStates /\ (segs # <<>> => segs[Len(segs)].look.state = t)
  /\ map \in [0 .. 3 * Len(c) -> Nat \X Nat]
  /\ \E f : Divided(c, line, segs, map, f)

\* A part of a sequence is one of the same elements.
LEMMA SubSeqType ==
  ASSUME NEW S, NEW s \in Seq(S), NEW i \in 1 .. Len(s) + 1, NEW k \in 0 .. Len(s)
  PROVE  SubSeq(s, i, k) \in Seq(S)
  OBVIOUS

\* HtmlFrom is a sequence of bytes.
LEMMA HtmlFromType ==
  ASSUME NEW c \in Seq(Tokens), NEW line \in Seq(RunesOf(c)),
         NEW i \in 1 .. Len(line) + 1, NEW k \in 1 .. Len(line) + 1
  PROVE  HtmlFrom(c, line, i, k) \in Seq(ByteSet) /\ (k <= i => HtmlFrom(c, line, i, k) = <<>>)
<1>1. PICK q \in Seq(RunesOf(c)) : q = SubSeq(line, i, k - 1)
  <2>1. SubSeq(line, i, k - 1) \in Seq(RunesOf(c))
    OBVIOUS
  <2> QED BY <2>1, Zenon
<1>2. k <= i => Len(q) = 0
  BY <1>1
<1>3. HBytes(c, q) \in Seq(ByteSet) /\ (Len(q) = 0 => HBytes(c, q) = <<>>)
  BY HBytesType, HBytesEmpty
<1> QED BY <1>1, <1>2, <1>3 DEF HtmlFrom

\* There is none from a place to itself.
LEMMA HtmlFromNone ==
  ASSUME NEW c \in Seq(Tokens), NEW line \in Seq(RunesOf(c)), NEW k \in 1 .. Len(line) + 1
  PROVE  HtmlFrom(c, line, k, k) = <<>>
<1>1. Len(line) \in Nat
  OBVIOUS
<1>2. k <= k
  BY <1>1
<1> QED BY <1>2, HtmlFromType

\* The bytes up to k, and from there.
LEMMA HtmlFromCut ==
  ASSUME NEW c \in Seq(Tokens), NEW line \in Seq(RunesOf(c)),
         NEW a \in 1 .. Len(line) + 1, NEW k \in a .. Len(line) + 1, NEW e \in k .. Len(line) + 1
  PROVE  HtmlFrom(c, line, a, e) = HtmlFrom(c, line, a, k) \o HtmlFrom(c, line, k, e)
  BY HBytesCut DEF HtmlFrom

\* The bytes of a single rune.
LEMMA HtmlFromOne ==
  ASSUME NEW c \in Seq(Tokens), NEW line \in Seq(RunesOf(c)), NEW k \in 1 .. Len(line)
  PROVE  HtmlFrom(c, line, k, k + 1) = RuneBytes(c, line[k])
<1>0. <<>> \in Seq(RunesOf(c))
  OBVIOUS
<1>1. PICK e \in Seq(RunesOf(c)) : e = <<>>
  BY <1>0, Zenon
<1>2. PICK p \in RunesOf(c) : p = line[k]
  OBVIOUS
<1>3. SubSeq(line, k, (k + 1) - 1) = Append(e, p)
  <2>1. (k + 1) - 1 = k
    OBVIOUS
  <2>2. SubSeq(line, k, k) = <<p>>
    <3>1. PICK q \in Seq(RunesOf(c)) : q = SubSeq(line, k, k)
      <4>1. SubSeq(line, k, k) \in Seq(RunesOf(c))
        OBVIOUS
      <4> QED BY <4>1, Zenon
    <3>2. PICK r \in Seq(RunesOf(c)) : r = <<p>>
      <4>1. <<p>> \in Seq(RunesOf(c))
        OBVIOUS
      <4> QED BY <4>1, Zenon
    <3>3. Len(q) = 1 /\ q[1] = p
      BY <1>2, <3>1
    <3>4. Len(r) = 1 /\ r[1] = p
      BY <3>2
    <3>5. q = r
      BY <3>3, <3>4, SeqEqual
    <3> QED BY <3>1, <3>2, <3>5
  <2>3. Append(<<>>, p) = <<p>>
    OBVIOUS
  <2> QED BY <1>1, <2>1, <2>2, <2>3
<1>4. HBytes(c, Append(e, p)) = HBytes(c, e) \o RuneBytes(c, p)
  BY HBytesAppend
<1>5. HBytes(c, e) = <<>>
  <2>1. Len(e) = 0
    BY <1>1
  <2> QED BY <2>1, HBytesEmpty
<1>6. RuneBytes(c, p) \in Seq(ByteSet)
  BY RuneBytesType
<1>7. <<>> \o RuneBytes(c, p) = RuneBytes(c, p)
  BY <1>6
<1> QED BY <1>2, <1>3, <1>4, <1>5, <1>7 DEF HtmlFrom

\* Growing the line changes nothing of what comes before.
LEMMA Grown ==
  ASSUME NEW c \in Seq(Tokens), NEW line \in Seq(RunesOf(c)), NEW p \in RunesOf(c)
  PROVE  /\ Append(line, p) \in Seq(RunesOf(c)) /\ Len(Append(line, p)) = Len(line) + 1
         /\ \A k \in 1 .. Len(line) + 1 : TextOf(c, Append(line, p), k) = TextOf(c, line, k)
         /\ \A i, k \in 1 .. Len(line) + 1 :
              HtmlFrom(c, Append(line, p), i, k) = HtmlFrom(c, line, i, k)
         /\ \A i \in 1 .. Len(line) + 1 :
              HtmlFrom(c, Append(line, p), i, Len(line) + 2)
                = HtmlFrom(c, line, i, Len(line) + 1) \o RuneBytes(c, p)
         /\ TextOf(c, line, Len(line) + 1) = TLen(c, line)
<1> DEFINE l == Append(line, p)
<1>1. l \in Seq(RunesOf(c)) /\ Len(l) = Len(line) + 1 /\ l[Len(line) + 1] = p
  OBVIOUS
<1>2. \A i, k \in 1 .. Len(line) + 1 : SubSeq(l, i, k - 1) = SubSeq(line, i, k - 1)
  OBVIOUS
<1>3. SubSeq(line, 1, (Len(line) + 1) - 1) = line
  OBVIOUS
<1> HIDE DEF l
<1>4. \A i, k \in 1 .. Len(line) + 1 : HtmlFrom(c, l, i, k) = HtmlFrom(c, line, i, k)
  BY <1>2 DEF HtmlFrom
<1>5. \A k \in 1 .. Len(line) + 1 : TextOf(c, l, k) = TextOf(c, line, k)
  <2>1. 1 \in 1 .. Len(line) + 1
    OBVIOUS
  <2> QED BY <1>2, <2>1 DEF TextOf
<1>6. ASSUME NEW i \in 1 .. Len(line) + 1
      PROVE  HtmlFrom(c, l, i, Len(line) + 2) = HtmlFrom(c, line, i, Len(line) + 1) \o RuneBytes(c, p)
  <2> DEFINE k == Len(line) + 1
  <2>1. k \in 1 .. Len(l) /\ i \in 1 .. Len(l) + 1 /\ k \in i .. Len(l) + 1 /\ k + 1 \in k .. Len(l) + 1
    BY <1>1
  <2>2. k + 1 = Len(line) + 2 /\ k \in 1 .. Len(line) + 1
    OBVIOUS
  <2> HIDE DEF k
  <2>3. HtmlFrom(c, l, i, k + 1) = HtmlFrom(c, l, i, k) \o HtmlFrom(c, l, k, k + 1)
    BY <1>1, <2>1, HtmlFromCut
  <2>4. HtmlFrom(c, l, k, k + 1) = RuneBytes(c, l[k])
    BY <1>1, <2>1, HtmlFromOne
  <2>5. l[k] = p
    BY <1>1 DEF k
  <2>6. HtmlFrom(c, l, i, k) = HtmlFrom(c, line, i, k)
    BY <1>4, <2>2
  <2> QED BY <2>2, <2>3, <2>4, <2>5, <2>6 DEF k
<1>7. TextOf(c, line, Len(line) + 1) = TLen(c, line)
  BY <1>3 DEF TextOf
<1> QED BY <1>1, <1>4, <1>5, <1>6, <1>7 DEF l

\* StartSegment, of any line.
Started(segs, closed, t) == Append(IF closed THEN segs ELSE EndSegment(segs), Segment(<<>>, t))

\* The first elements of a sequence.
LEMMA PrefixOf ==
  ASSUME NEW S, NEW s \in Seq(S), NEW n \in 0 .. Len(s)
  PROVE  /\ SubSeq(s, 1, n) \in Seq(S) /\ Len(SubSeq(s, 1, n)) = n
         /\ \A i \in 1 .. n : SubSeq(s, 1, n)[i] = s[i]
  OBVIOUS

\* A new segment is empty.
LEMMA SegmentType ==
  ASSUME NEW t \in TerminalStates
  PROVE  /\ Segment(<<>>, t) \in SegmentSet
         /\ Segment(<<>>, t).bytes = <<>> /\ Segment(<<>>, t).len = 0
         /\ Segment(<<>>, t).look.state = t /\ Segment(<<>>, t).look.extra = {}
  BY DEF Segment, SegmentSet, Looks

\* A segment that is begun divides the line as before; an empty one is replaced.
Begun(c, line, new, map, u) ==
  /\ new \in Seq(SegmentSet) /\ new # <<>> /\ new[Len(new)].look.state = u
  /\ \A i \in 1 .. Len(new) : new[i].len = Len(new[i].bytes) /\ new[i].look.extra = {}
  /\ \A i \in 1 .. Len(new) - 1 : new[i].len > 0
  /\ \E g : Divided(c, line, new, map, g)

\* With a new segment, the segments still divide the line: an empty one
\* before it is dropped only if nothing is recorded for it.
LEMMA StartedDivides ==
  ASSUME NEW c \in Seq(Tokens), NEW a, NEW line, NEW segs, NEW closed, NEW map, NEW t,
         LineOK(c, a, line, segs, closed, map, t), NEW u \in TerminalStates,
         NEW f, Divided(c, line, segs, map, f), NEW new, new = Started(segs, closed, u)
  PROVE  Begun(c, line, new, map, u)
<1> DEFINE N == Len(segs)
           s == Segment(<<>>, u)
<1>1. /\ line \in Seq(RunesOf(c)) /\ segs \in Seq(SegmentSet)
      /\ \A i \in 1 .. N : segs[i].len = Len(segs[i].bytes) /\ segs[i].look.extra = {}
      /\ \A i \in 1 .. N - 1 : segs[i].len > 0
      /\ closed \in BOOLEAN /\ (closed <=> segs = <<>>)
  BY DEF LineOK
<1>2. /\ f \in [1 .. N + 1 -> 1 .. Len(line) + 1]
      /\ f[1] = 1 /\ f[N + 1] = Len(line) + 1
      /\ \A i \in 1 .. N :
           /\ f[i] <= f[i + 1]
           /\ segs[i].bytes = HtmlFrom(c, line, f[i], f[i + 1])
           /\ \A k \in f[i] .. f[i + 1] - 1 :
                map[TextOf(c, line, k)] = <<i - 1, Len(HtmlFrom(c, line, f[i], k))>>
  BY DEF Divided
<1>3. s \in SegmentSet /\ s.bytes = <<>> /\ s.len = 0 /\ s.look.state = u /\ s.look.extra = {}
  BY SegmentType
<1>4. N \in Nat /\ Len(line) \in Nat
  BY <1>1
<1> HIDE DEF s
<1>5. CASE ~closed /\ segs[N].len = 0
  <2>1. N > 0
    BY <1>1, <1>5
  <2>2. new = Append(SubSeq(segs, 1, N - 1), s)
    BY <1>5 DEF Started, EndSegment, Last, Front, s
  <2>a. PICK cut \in Seq(SegmentSet) : cut = SubSeq(segs, 1, N - 1)
    <3>1. SubSeq(segs, 1, N - 1) \in Seq(SegmentSet)
      BY <1>1, <1>4, <2>1
    <3> QED BY <3>1, Zenon
  <2>b. Len(cut) = N - 1 /\ \A i \in 1 .. N - 1 : cut[i] = segs[i]
    <3>1. N - 1 \in 0 .. Len(segs)
      BY <1>4, <2>1
    <3> QED BY <1>1, <2>a, <3>1, PrefixOf, ZenonT(60)
  <2>c. new = Append(cut, s)
    BY <2>2, <2>a
  <2>3. Len(new) = N /\ new[N] = s /\ \A i \in 1 .. N - 1 : new[i] = segs[i]
    BY <1>3, <1>4, <2>b, <2>c
  <2>4. new \in Seq(SegmentSet)
    BY <1>3, <2>c
  <2>5. segs[N].bytes = <<>>
    <3>0. segs[N] \in SegmentSet
      BY <1>1, <1>4, <2>1
    <3>1. segs[N].bytes \in Seq(ByteSet)
      BY <3>0 DEF SegmentSet
    <3>2. Len(segs[N].bytes) = 0
      BY <1>1, <1>4, <1>5, <2>1
    <3> QED BY <3>1, <3>2
  <2>6. Divided(c, line, new, map, f)
    <3>1. \A i \in 1 .. N : new[i].bytes = segs[i].bytes
      <4> SUFFICES ASSUME NEW i \in 1 .. N PROVE new[i].bytes = segs[i].bytes
        OBVIOUS
      <4>1. CASE i = N
        BY <4>1, <1>3, <2>3, <2>5
      <4>2. CASE i \in 1 .. N - 1
        BY <4>2, <2>3
      <4> QED BY <4>1, <4>2, <1>4
    <3> QED BY <1>2, <2>3, <3>1 DEF Divided
  <2>7. \A i \in 1 .. Len(new) : new[i].len = Len(new[i].bytes) /\ new[i].look.extra = {}
    BY <1>1, <1>3, <1>4, <2>3
  <2>8. \A i \in 1 .. Len(new) - 1 : new[i].len > 0
    BY <1>1, <1>4, <2>3
  <2>9. new # <<>> /\ new[Len(new)].look.state = u
    BY <1>3, <2>1, <2>3
  <2> QED BY <2>4, <2>6, <2>7, <2>8, <2>9 DEF Begun
<1>6. CASE closed \/ segs[N].len # 0
  <2>1. new = Append(segs, s)
    BY <1>6, <1>1 DEF Started, EndSegment, Last, s
  <2>2. Len(new) = N + 1 /\ new[N + 1] = s /\ \A i \in 1 .. N : new[i] = segs[i]
    BY <1>1, <1>3, <2>1
  <2>3. new \in Seq(SegmentSet)
    BY <1>1, <1>3, <2>1
  <2> DEFINE g == [i \in 1 .. N + 2 |-> IF i = N + 2 THEN Len(line) + 1 ELSE f[i]]
  <2>4. g \in [1 .. N + 2 -> 1 .. Len(line) + 1] /\ g[N + 2] = Len(line) + 1
    BY <1>2, <1>4
  <2>5. \A i \in 1 .. N + 1 : g[i] = f[i]
    BY <1>4
  <2> HIDE DEF g
  <2>6. HtmlFrom(c, line, Len(line) + 1, Len(line) + 1) = <<>>
    <3>1. PICK k \in 1 .. Len(line) + 1 : k = Len(line) + 1
      BY <1>4
    <3>2. HtmlFrom(c, line, k, k) = <<>>
      BY <1>1, <3>1, HtmlFromNone
    <3> QED BY <3>1, <3>2
  <2>7. ASSUME NEW i \in 1 .. N + 1
        PROVE  /\ g[i] <= g[i + 1]
               /\ new[i].bytes = HtmlFrom(c, line, g[i], g[i + 1])
               /\ \A k \in g[i] .. g[i + 1] - 1 :
                    map[TextOf(c, line, k)] = <<i - 1, Len(HtmlFrom(c, line, g[i], k))>>
    <3>1. CASE i = N + 1
      <4>1. g[i] = Len(line) + 1 /\ g[i + 1] = Len(line) + 1
        BY <3>1, <1>2, <1>4, <2>4, <2>5
      <4>2. new[i].bytes = <<>>
        BY <1>3, <2>2, <3>1
      <4> QED BY <4>1, <4>2, <2>6, <1>4
    <3>2. CASE i \in 1 .. N
      <4>1. g[i] = f[i] /\ g[i + 1] = f[i + 1] /\ new[i] = segs[i]
        BY <3>2, <2>2, <2>5, <1>4
      <4> QED BY <4>1, <3>2, <1>2
    <3> QED BY <3>1, <3>2, <1>4
  <2>8. g[1] = 1
    BY <1>2, <1>4, <2>5
  <2>9. Divided(c, line, new, map, g)
    <3>1. Len(new) + 1 = N + 2
      BY <2>2, <1>4
    <3> QED BY <2>2, <2>4, <2>7, <2>8, <3>1 DEF Divided
  <2>10. \A i \in 1 .. Len(new) : new[i].len = Len(new[i].bytes) /\ new[i].look.extra = {}
    <3>1. Len(<<>>) = 0
      OBVIOUS
    <3>2. \A i \in 1 .. N + 1 : i = N + 1 \/ i \in 1 .. N
      BY <1>4
    <3> QED BY <1>1, <1>3, <2>2, <3>1, <3>2
  <2>11. \A i \in 1 .. Len(new) - 1 : new[i].len > 0
    <3> SUFFICES ASSUME NEW i \in 1 .. N PROVE new[i].len > 0
      BY <2>2, <1>4
    <3>1. segs[i].len \in Nat
      BY <1>1 DEF SegmentSet
    <3>2. CASE i = N
      BY <3>1, <3>2, <1>1, <1>6, <2>2
    <3>3. CASE i \in 1 .. N - 1
      BY <3>3, <1>1, <2>2
    <3> QED BY <3>2, <3>3, <1>4
  <2>12. new # <<>> /\ new[Len(new)].look.state = u
    BY <1>3, <2>2
  <2> QED BY <2>3, <2>9, <2>10, <2>11, <2>12 DEF Begun
<1> QED BY <1>1, <1>5, <1>6

\* So the invariant of the line holds when a segment is begun.
LEMMA StartedOK ==
  ASSUME NEW c \in Seq(Tokens), NEW a, NEW line, NEW segs, NEW closed, NEW map, NEW t,
         LineOK(c, a, line, segs, closed, map, t), NEW u \in TerminalStates
  PROVE  /\ LineOK(c, a, line, Started(segs, closed, u), FALSE, map, u)
         /\ Started(segs, closed, u) # <<>>
<1>1. PICK f : Divided(c, line, segs, map, f)
  BY DEF LineOK
<1>2. PICK new : new = Started(segs, closed, u)
  OBVIOUS
<1>3. Begun(c, line, new, map, u)
  BY <1>1, <1>2, StartedDivides
<1>4. LineOK(c, a, line, new, FALSE, map, u)
  BY <1>3 DEF LineOK, Begun
<1> QED BY <1>2, <1>3, <1>4 DEF Begun

\* Written, of any content.
WrittenTo(c, segs, p) ==
  [segs EXCEPT ![Len(segs)].bytes = @ \o RuneBytes(c, p), ![Len(segs)].len = @ + Len(RuneBytes(c, p))]

\* Two fields of the same segment change.
LEMMA ExceptTwice ==
  ASSUME NEW segs \in Seq(SegmentSet), NEW N \in 1 .. Len(segs), NEW e, NEW m
  PROVE  [segs EXCEPT ![N].bytes = e, ![N].len = m]
           = [segs EXCEPT ![N] = [[segs[N] EXCEPT !.bytes = e] EXCEPT !.len = m]]
<1>1. PICK u : u = [segs EXCEPT ![N] = [segs[N] EXCEPT !.bytes = e]]
  OBVIOUS
<1>2. u[N] = [segs[N] EXCEPT !.bytes = e] /\ \A i \in 1 .. Len(segs) : i # N => u[i] = segs[i]
  BY <1>1
<1>3. [u EXCEPT ![N].len = m] = [segs EXCEPT ![N] = [u[N] EXCEPT !.len = m]]
  BY <1>1
<1> QED BY <1>1, <1>2, <1>3

\* new is segs with b written to the last one.
IsWritten(new, segs, N, b) ==
  /\ new \in Seq(SegmentSet) /\ Len(new) = N /\ new # <<>>
  /\ \A i \in 1 .. N - 1 : new[i] = segs[i]
  /\ new[N].bytes = segs[N].bytes \o b
  /\ new[N].len = segs[N].len + Len(b)
  /\ new[N].look = segs[N].look

\* That is what WrittenTo does.
LEMMA WrittenSegs ==
  ASSUME NEW c \in Seq(Tokens), NEW segs \in Seq(SegmentSet), segs # <<>>, NEW p \in RunesOf(c)
  PROVE  IsWritten(WrittenTo(c, segs, p), segs, Len(segs), RuneBytes(c, p))
<1> DEFINE N == Len(segs)
           new == WrittenTo(c, segs, p)
<1>1. PICK r \in Seq(ByteSet) : r = RuneBytes(c, p)
  BY RuneBytesType
<1>2. N \in 1 .. Len(segs) /\ N \in Nat /\ segs[N] \in SegmentSet
  OBVIOUS
<1>3. PICK b \in Seq(ByteSet) : b = segs[N].bytes
  BY <1>2 DEF SegmentSet
<1>4. PICK n \in Nat : n = segs[N].len
  BY <1>2 DEF SegmentSet
<1>5. PICK o \in Seq(ByteSet) : o = b \o r
  <2>1. b \o r \in Seq(ByteSet)
    OBVIOUS
  <2> QED BY <2>1, Zenon
<1>6. PICK s : s = [[segs[N] EXCEPT !.bytes = o] EXCEPT !.len = n + Len(r)]
  OBVIOUS
<1>7. s \in SegmentSet /\ s.bytes = o /\ s.len = n + Len(r) /\ s.look = segs[N].look
  <2>1. n + Len(r) \in Nat
    OBVIOUS
  <2>2. PICK m \in Nat : m = n + Len(r)
    BY <2>1
  <2> QED BY <1>2, <1>6, <2>2 DEF SegmentSet
<1>8. new = [segs EXCEPT ![N] = s]
  <2>1. new = [segs EXCEPT ![N].bytes = segs[N].bytes \o RuneBytes(c, p),
                           ![N].len = segs[N].len + Len(RuneBytes(c, p))]
    BY <1>2 DEF WrittenTo
  <2>2. new = [segs EXCEPT ![N].bytes = o, ![N].len = n + Len(r)]
    BY <2>1, <1>1, <1>3, <1>4, <1>5
  <2>3. PICK m : m = n + Len(r)
    OBVIOUS
  <2>4. new = [segs EXCEPT ![N].bytes = o, ![N].len = m]
    BY <2>2, <2>3
  <2>5. new = [segs EXCEPT ![N] = [[segs[N] EXCEPT !.bytes = o] EXCEPT !.len = m]]
    BY <1>2, <2>4, ExceptTwice, ZenonT(60)
  <2> QED BY <1>6, <2>3, <2>5
<1>9. new \in Seq(SegmentSet) /\ Len(new) = N /\ new[N] = s /\ \A i \in 1 .. N - 1 : new[i] = segs[i]
  BY <1>2, <1>7, <1>8
<1> QED BY <1>1, <1>2, <1>3, <1>4, <1>5, <1>7, <1>9 DEF IsWritten

\* A rune that is written to the last segment is recorded where it begins.
LEMMA WriteOK ==
  ASSUME NEW c \in Seq(Tokens), NEW a, NEW line, NEW segs, NEW map, NEW t,
         LineOK(c, a, line, segs, FALSE, map, t), a < Len(c), c[a + 1].kind = "rune"
  PROVE  LineOK(c, a + 1, Append(line, a + 1), WrittenTo(c, segs, a + 1), FALSE,
                [map EXCEPT ![TLen(c, line)] = <<Len(segs) - 1, segs[Len(segs)].len>>], t)
<1>1. PICK f : Divided(c, line, segs, map, f)
  BY DEF LineOK
<1>2. PICK N : N = Len(segs)
  OBVIOUS
<1>3. PICK L : L = Len(line)
  OBVIOUS
<1>4. /\ a \in 0 .. Len(c) /\ line \in Seq(RunesOf(c)) /\ L <= a /\ \A k \in 1 .. L : line[k] <= a
      /\ segs \in Seq(SegmentSet) /\ segs # <<>>
      /\ \A i \in 1 .. N : segs[i].len = Len(segs[i].bytes) /\ segs[i].look.extra = {}
      /\ \A i \in 1 .. N - 1 : segs[i].len > 0
      /\ t \in TerminalStates /\ segs[N].look.state = t
      /\ map \in [0 .. 3 * Len(c) -> Nat \X Nat]
  <2>1. DOMAIN line = 1 .. L
    BY <1>3 DEF LineOK
  <2> QED BY <1>2, <1>3, <2>1 DEF LineOK
<1>5. N \in Nat /\ L \in Nat /\ Len(c) \in Nat /\ N > 0
  BY <1>2, <1>3, <1>4
<1>6. PICK p \in RunesOf(c) : p = a + 1
  BY <1>4, <1>5 DEF RunesOf
<1>7. PICK l : l = Append(line, p)
  OBVIOUS
<1>8. /\ l \in Seq(RunesOf(c)) /\ Len(l) = L + 1
      /\ \A k \in 1 .. L + 1 : TextOf(c, l, k) = TextOf(c, line, k)
      /\ \A i, k \in 1 .. L + 1 : HtmlFrom(c, l, i, k) = HtmlFrom(c, line, i, k)
      /\ \A i \in 1 .. L + 1 : HtmlFrom(c, l, i, L + 2) = HtmlFrom(c, line, i, L + 1) \o RuneBytes(c, p)
      /\ TextOf(c, line, L + 1) = TLen(c, line)
  <2>1. line \in Seq(RunesOf(c)) /\ p \in RunesOf(c) /\ c \in Seq(Tokens)
    BY <1>4
  <2>2. /\ l \in Seq(RunesOf(c)) /\ Len(l) = Len(line) + 1
        /\ \A k \in 1 .. Len(line) + 1 : TextOf(c, l, k) = TextOf(c, line, k)
        /\ TextOf(c, line, Len(line) + 1) = TLen(c, line)
    BY <1>7, <2>1, Grown, ZenonT(60)
  <2>3. \A i, k \in 1 .. Len(line) + 1 : HtmlFrom(c, l, i, k) = HtmlFrom(c, line, i, k)
    BY <1>7, <2>1, Grown, ZenonT(60)
  <2>4. \A i \in 1 .. Len(line) + 1 :
           HtmlFrom(c, l, i, Len(line) + 2) = HtmlFrom(c, line, i, Len(line) + 1) \o RuneBytes(c, p)
    BY <1>7, <2>1, Grown, ZenonT(60)
  <2> QED BY <1>3, <2>2, <2>3, <2>4, ZenonT(60)
<1>9. PICK new : new = WrittenTo(c, segs, p)
  OBVIOUS
<1>10. /\ new \in Seq(SegmentSet) /\ Len(new) = N /\ new # <<>>
       /\ \A i \in 1 .. N - 1 : new[i] = segs[i]
       /\ new[N].bytes = segs[N].bytes \o RuneBytes(c, p)
       /\ new[N].len = segs[N].len + Len(RuneBytes(c, p))
       /\ new[N].look = segs[N].look
  <2>1. IsWritten(new, segs, N, RuneBytes(c, p))
    BY <1>2, <1>4, <1>9, WrittenSegs
  <2> QED BY <2>1 DEF IsWritten
<1>11. PICK b : b = TLen(c, line)
  OBVIOUS
<1>12. b \in 0 .. 3 * Len(c) /\ \A k \in 1 .. L : TextOf(c, line, k) < b
  <2>1. \A n \in 0 .. L :
           /\ TLen(c, SubSeq(line, 1, n)) \in 0 .. 2 * n
           /\ \A k \in 0 .. n - 1 : TLen(c, SubSeq(line, 1, k)) < TLen(c, SubSeq(line, 1, n))
    BY <1>3, <1>4, TLenMonotone
  <2>2. SubSeq(line, 1, L) = line
    BY <1>3, <1>4
  <2>3. b \in 0 .. 2 * L /\ \A k \in 0 .. L - 1 : TLen(c, SubSeq(line, 1, k)) < b
    <3>1. L \in 0 .. L
      BY <1>5
    <3> QED BY <1>11, <2>1, <2>2, <3>1
  <2>4. \A k \in 1 .. L : k - 1 \in 0 .. L - 1
    BY <1>5
  <2> QED BY <1>4, <1>5, <2>3, <2>4 DEF TextOf
<1>13. PICK m : m = [map EXCEPT ![b] = <<N - 1, segs[N].len>>]
  OBVIOUS
<1>14. N - 1 \in Nat /\ segs[N].len \in Nat /\ segs[N].bytes \in Seq(ByteSet)
  <2>1. segs[N] \in SegmentSet
    BY <1>2, <1>4, <1>5
  <2> QED BY <1>5, <2>1 DEF SegmentSet
<1>15. m \in [0 .. 3 * Len(c) -> Nat \X Nat]
  BY <1>4, <1>13, <1>14
<1>16. m[b] = <<N - 1, segs[N].len>> /\ \A k \in 1 .. L : m[TextOf(c, line, k)] = map[TextOf(c, line, k)]
  <2>1. \A n \in 0 .. 3 * Len(c) : n # b => m[n] = map[n]
    BY <1>4, <1>13
  <2>2. ASSUME NEW k \in 1 .. L PROVE TextOf(c, line, k) # b
    <3>1. TextOf(c, line, k) < b /\ b \in Int
      BY <1>12
    <3>2. ~(b < b)
      BY <3>1
    <3> QED BY <3>1, <3>2
  <2>3. \A n : n # b => m[n] = map[n]
    BY <1>4, <1>13
  <2> QED BY <1>4, <1>12, <1>13, <2>2, <2>3
<1>17. /\ f \in [1 .. N + 1 -> 1 .. L + 1]
       /\ f[1] = 1 /\ f[N + 1] = L + 1
       /\ \A i \in 1 .. N :
            /\ f[i] <= f[i + 1]
            /\ segs[i].bytes = HtmlFrom(c, line, f[i], f[i + 1])
            /\ \A k \in f[i] .. f[i + 1] - 1 :
                 map[TextOf(c, line, k)] = <<i - 1, Len(HtmlFrom(c, line, f[i], k))>>
  BY <1>1, <1>2, <1>3 DEF Divided
<1>18. PICK g : g = [i \in 1 .. N + 1 |-> IF i = N + 1 THEN L + 2 ELSE f[i]]
  OBVIOUS
<1>19. g \in [1 .. N + 1 -> 1 .. L + 2] /\ g[N + 1] = L + 2 /\ \A i \in 1 .. N : g[i] = f[i]
  BY <1>5, <1>17, <1>18
<1>20. \A i \in 1 .. N + 1 : f[i] \in 1 .. L + 1
  BY <1>17
<1>21. ASSUME NEW i \in 1 .. N
       PROVE  /\ g[i] <= g[i + 1]
              /\ new[i].bytes = HtmlFrom(c, l, g[i], g[i + 1])
              /\ \A k \in g[i] .. g[i + 1] - 1 :
                   m[TextOf(c, l, k)] = <<i - 1, Len(HtmlFrom(c, l, g[i], k))>>
  <2>0. i \in 1 .. N + 1 /\ i + 1 \in 1 .. N + 1 /\ f[i] \in 1 .. L + 1 /\ f[i + 1] \in 1 .. L + 1 /\ g[i] = f[i]
    BY <1>5, <1>19, <1>20
  <2>1. ASSUME NEW k \in f[i] .. f[i + 1] - 1
        PROVE  m[TextOf(c, l, k)] = <<i - 1, Len(HtmlFrom(c, l, f[i], k))>>
    <3>1. k \in 1 .. L /\ k \in 1 .. L + 1
      BY <1>5, <2>0
    <3>2. map[TextOf(c, line, k)] = <<i - 1, Len(HtmlFrom(c, line, f[i], k))>>
      BY <1>17
    <3>3. TextOf(c, l, k) = TextOf(c, line, k) /\ HtmlFrom(c, l, f[i], k) = HtmlFrom(c, line, f[i], k)
      BY <1>8, <2>0, <3>1
    <3>4. m[TextOf(c, line, k)] = map[TextOf(c, line, k)]
      BY <1>16, <3>1
    <3> QED BY <3>2, <3>3, <3>4
  <2>2. CASE i \in 1 .. N - 1
    <3>1. g[i + 1] = f[i + 1] /\ new[i] = segs[i]
      <4>1. i + 1 \in 1 .. N
        BY <1>5, <2>2
      <4>2. g[i + 1] = f[i + 1]
        BY <1>19, <4>1
      <4>3. new[i] = segs[i]
        BY <1>10, <2>2
      <4> QED BY <4>2, <4>3
    <3>2. HtmlFrom(c, l, f[i], f[i + 1]) = HtmlFrom(c, line, f[i], f[i + 1])
      BY <1>8, <2>0
    <3> QED BY <1>17, <2>0, <2>1, <3>1, <3>2
  <2>3. CASE i = N
    <3>1. g[i + 1] = L + 2 /\ f[i + 1] = L + 1
      BY <1>17, <1>19, <2>3
    <3>2. g[i] <= g[i + 1]
      BY <1>5, <2>0, <3>1
    <3>3. new[i].bytes = HtmlFrom(c, l, g[i], g[i + 1])
      <4>1. segs[i].bytes = HtmlFrom(c, line, f[i], L + 1)
        BY <1>17, <3>1
      <4>2. HtmlFrom(c, l, f[i], L + 2) = HtmlFrom(c, line, f[i], L + 1) \o RuneBytes(c, p)
        BY <1>8, <2>0
      <4> QED BY <1>10, <2>0, <2>3, <3>1, <4>1, <4>2
    <3>4. ASSUME NEW k \in f[i] .. L + 1
          PROVE  m[TextOf(c, l, k)] = <<i - 1, Len(HtmlFrom(c, l, f[i], k))>>
      <4>1. CASE k \in f[i] .. f[i + 1] - 1
        BY <2>1, <4>1
      <4>2. CASE k = L + 1
        <5>0. L + 1 \in 1 .. L + 1
          BY <1>5
        <5>1. TextOf(c, l, L + 1) = b
          BY <1>8, <1>11, <5>0
        <5>2. HtmlFrom(c, l, f[i], L + 1) = segs[i].bytes
          BY <1>8, <1>17, <2>0, <3>1, <5>0
        <5>3. segs[i].len = Len(segs[i].bytes)
          BY <1>4
        <5> QED BY <1>16, <2>3, <4>2, <5>1, <5>2, <5>3
      <4> QED BY <1>5, <2>0, <3>1, <4>1, <4>2
    <3>5. g[i + 1] - 1 = L + 1
      BY <1>5, <3>1
    <3> QED BY <2>0, <3>2, <3>3, <3>4, <3>5
  <2> QED BY <1>5, <2>2, <2>3
<1>22. Divided(c, l, new, m, g)
  <2>1. Len(l) + 1 = L + 2 /\ 1 \in 1 .. N
    BY <1>5, <1>8
  <2> QED BY <1>8, <1>10, <1>17, <1>19, <1>21, <2>1 DEF Divided
<1>23. \A i \in 1 .. N : new[i].len = Len(new[i].bytes) /\ new[i].look.extra = {}
  <2>1. RuneBytes(c, p) \in Seq(ByteSet)
    BY RuneBytesType
  <2>2. PICK r \in Seq(ByteSet) : r = RuneBytes(c, p)
    BY <2>1
  <2>3. PICK s \in Seq(ByteSet) : s = segs[N].bytes
    BY <1>14
  <2>4. Len(s \o r) = Len(s) + Len(r)
    OBVIOUS
  <2>5. new[N].len = Len(new[N].bytes) /\ new[N].look.extra = {}
    BY <1>4, <1>5, <1>10, <2>2, <2>3, <2>4
  <2>6. \A i \in 1 .. N : i = N \/ i \in 1 .. N - 1
    BY <1>5
  <2> QED BY <1>4, <1>10, <2>5, <2>6
<1>24. \A i \in 1 .. N - 1 : new[i].len > 0
  BY <1>4, <1>10
<1>25. a + 1 \in 0 .. Len(c) /\ Len(l) <= a + 1 /\ \A k \in DOMAIN l : l[k] <= a + 1
  <2>1. DOMAIN l = 1 .. L + 1 /\ l[L + 1] = p /\ \A k \in 1 .. L : l[k] = line[k]
    BY <1>3, <1>4, <1>7
  <2>2. ASSUME NEW k \in 1 .. L + 1 PROVE l[k] <= a + 1
    <3>1. CASE k = L + 1
      BY <1>4, <1>6, <2>1, <3>1
    <3>2. CASE k \in 1 .. L
      <4>1. line[k] \in RunesOf(c) /\ line[k] <= a
        BY <1>3, <1>4, <3>2
      <4>2. line[k] \in Nat
        BY <4>1 DEF RunesOf
      <4> QED BY <1>4, <2>1, <3>2, <4>1, <4>2
    <3> QED BY <1>5, <3>1, <3>2
  <2> QED BY <1>4, <1>5, <1>8, <2>1, <2>2
<1>26. new[N].look.state = t
  BY <1>4, <1>10
<1>27. LineOK(c, a + 1, l, new, FALSE, m, t)
  BY <1>4, <1>8, <1>10, <1>15, <1>22, <1>23, <1>24, <1>25, <1>26 DEF LineOK
<1> QED BY <1>2, <1>6, <1>7, <1>9, <1>11, <1>13, <1>27

\* Every rune of the line is in some segment.
LEMMA RuneIsSomewhere ==
  ASSUME NEW c \in Seq(Tokens), NEW line \in Seq(RunesOf(c)), NEW segs \in Seq(SegmentSet), NEW map, NEW f,
         Divided(c, line, segs, map, f), NEW k \in 1 .. Len(line)
  PROVE  \E i \in 1 .. Len(segs) : f[i] <= k /\ k < f[i + 1]
<1> DEFINE N == Len(segs)
           L == Len(line)
           S == {n \in 0 .. N : k < f[n + 1] => \E i \in 1 .. n : f[i] <= k /\ k < f[i + 1]}
<1>1. N \in Nat /\ L \in Nat
  OBVIOUS
<1>2. f \in [1 .. N + 1 -> 1 .. L + 1] /\ f[1] = 1 /\ f[N + 1] = L + 1
  BY DEF Divided
<1>3. \A n \in 1 .. N + 1 : f[n] \in 1 .. L + 1
  BY <1>2
<1>4. 0 \in S
  BY <1>1, <1>2
<1>5. ASSUME NEW n \in 1 .. N, n - 1 \in S PROVE n \in S
  <2> SUFFICES ASSUME k < f[n + 1] PROVE \E i \in 1 .. n : f[i] <= k /\ k < f[i + 1]
    BY <1>1
  <2>1. CASE f[n] <= k
    BY <2>1, <1>1
  <2>2. CASE ~(f[n] <= k)
    <3>1. k < f[(n - 1) + 1]
      BY <1>1, <1>3, <2>2
    <3>2. PICK i \in 1 .. n - 1 : f[i] <= k /\ k < f[i + 1]
      BY <1>5, <3>1
    <3> QED BY <3>2
  <2> QED BY <2>1, <2>2
<1>6. 0 .. N \subseteq S
  <2> HIDE DEF S, N
  <2> QED BY <1>1, <1>4, <1>5, IntervalInduction
<1>7. N \in S
  <2> HIDE DEF S, N
  <2> QED BY <1>1, <1>6
<1>8. k < f[N + 1]
  BY <1>1, <1>2
<1> QED BY <1>7, <1>8

\* Where a rune is in its segment; and where what follows it is.
Holds(c, line, seg, map, i, next, k, off) ==
  LET r == RuneBytes(c, line[k])
  IN /\ map[TextOf(c, line, k)] = <<i - 1, off>>
     /\ off \in Nat /\ Len(r) \in 1 .. 3 /\ off + Len(r) <= Len(seg.bytes)
     /\ \A j \in 1 .. Len(r) : seg.bytes[off + j] = r[j]
     /\ k + 1 < next => map[TextOf(c, line, k + 1)] = <<i - 1, off + Len(r)>>
     /\ k + 1 = next => off + Len(r) = Len(seg.bytes)

\* What is in the middle of three parts.
LEMMA ThreeParts ==
  ASSUME NEW a \in Seq(ByteSet), NEW b \in Seq(ByteSet), NEW d \in Seq(ByteSet)
  PROVE  /\ Len(a \o b) = Len(a) + Len(b) /\ a \o b \in Seq(ByteSet)
         /\ Len((a \o b) \o d) = Len(a) + Len(b) + Len(d)
         /\ \A j \in 1 .. Len(b) : ((a \o b) \o d)[Len(a) + j] = b[j]
  OBVIOUS

\* The segment of a rune holds its bytes where the mapper says.
LEMMA RuneIsHeld ==
  ASSUME NEW c \in Seq(Tokens), NEW line \in Seq(RunesOf(c)), NEW segs \in Seq(SegmentSet), NEW map, NEW f,
         Divided(c, line, segs, map, f), NEW k \in 1 .. Len(line),
         NEW i \in 1 .. Len(segs), f[i] <= k, k < f[i + 1]
  PROVE  Holds(c, line, segs[i], map, i, f[i + 1], k, Len(HtmlFrom(c, line, f[i], k)))
<1> DEFINE L == Len(line)
<1>1. /\ f[i] \in 1 .. L + 1 /\ f[i + 1] \in 1 .. L + 1
      /\ segs[i].bytes = HtmlFrom(c, line, f[i], f[i + 1])
      /\ \A n \in f[i] .. f[i + 1] - 1 :
           map[TextOf(c, line, n)] = <<i - 1, Len(HtmlFrom(c, line, f[i], n))>>
  BY DEF Divided
<1>2. PICK x \in 1 .. L + 1 : x = f[i]
  BY <1>1
<1>3. PICK y \in 1 .. L + 1 : y = f[i + 1]
  BY <1>1
<1>4. x <= k /\ k < y /\ L \in Nat
  BY <1>2, <1>3
<1>5. PICK p \in RunesOf(c) : p = line[k]
  OBVIOUS
<1>6. PICK r \in Seq(ByteSet) : r = RuneBytes(c, p) /\ Len(r) \in 1 .. 3
  BY RuneBytesType
<1>7. PICK b1 \in Seq(ByteSet) : b1 = HtmlFrom(c, line, x, k)
  <2>1. k \in 1 .. L + 1
    BY <1>4
  <2>2. HtmlFrom(c, line, x, k) \in Seq(ByteSet)
    BY <2>1, HtmlFromType
  <2> QED BY <2>2, Zenon
<1>8. PICK b3 \in Seq(ByteSet) : b3 = HtmlFrom(c, line, k + 1, y)
  <2>1. PICK z \in 1 .. L + 1 : z = k + 1
    BY <1>4
  <2>2. HtmlFrom(c, line, z, y) \in Seq(ByteSet)
    BY HtmlFromType
  <2> QED BY <2>1, <2>2, Zenon
<1>9. HtmlFrom(c, line, x, k + 1) = b1 \o r
  <2>1. k \in x .. L + 1 /\ k + 1 \in k .. L + 1
    BY <1>4
  <2>2. PICK z \in k .. L + 1 : z = k + 1
    BY <2>1
  <2>3. HtmlFrom(c, line, x, z) = HtmlFrom(c, line, x, k) \o HtmlFrom(c, line, k, z)
    BY <2>1, HtmlFromCut
  <2>4. HtmlFrom(c, line, k, k + 1) = r
    BY <1>5, <1>6, HtmlFromOne
  <2> QED BY <1>7, <2>2, <2>3, <2>4
<1>10. segs[i].bytes = (b1 \o r) \o b3
  <2>1. PICK z \in x .. L + 1 : z = k + 1
    BY <1>4
  <2>2. y \in z .. L + 1
    BY <1>4, <2>1
  <2>3. HtmlFrom(c, line, x, y) = HtmlFrom(c, line, x, z) \o HtmlFrom(c, line, z, y)
    BY <2>2, HtmlFromCut
  <2> QED BY <1>1, <1>2, <1>3, <1>8, <1>9, <2>1, <2>3
<1>11. map[TextOf(c, line, k)] = <<i - 1, Len(b1)>>
  <2>1. k \in f[i] .. f[i + 1] - 1
    BY <1>2, <1>3, <1>4
  <2> QED BY <1>1, <1>2, <1>7, <2>1
<1>12. ASSUME k + 1 < y PROVE map[TextOf(c, line, k + 1)] = <<i - 1, Len(b1) + Len(r)>>
  <2>1. k + 1 \in f[i] .. f[i + 1] - 1
    BY <1>2, <1>3, <1>4, <1>12, SMTT(40)
  <2>2. map[TextOf(c, line, k + 1)] = <<i - 1, Len(HtmlFrom(c, line, x, k + 1))>>
    BY <1>1, <1>2, <2>1
  <2>3. Len(b1 \o r) = Len(b1) + Len(r)
    BY ThreeParts
  <2> QED BY <1>9, <2>2, <2>3
<1>13. ASSUME k + 1 = y PROVE Len(b1) + Len(r) = Len(segs[i].bytes)
  <2>1. HtmlFrom(c, line, k + 1, y) = <<>>
    BY <1>13, HtmlFromType
  <2>2. Len(b3) = 0
    BY <1>8, <2>1
  <2>3. Len((b1 \o r) \o b3) = Len(b1) + Len(r) + Len(b3)
    BY ThreeParts
  <2> QED BY <1>6, <1>10, <2>2, <2>3
<1>14. /\ Len(b1) + Len(r) <= Len(segs[i].bytes)
       /\ \A j \in 1 .. Len(r) : segs[i].bytes[Len(b1) + j] = r[j]
  <2>1. /\ Len((b1 \o r) \o b3) = Len(b1) + Len(r) + Len(b3)
        /\ \A j \in 1 .. Len(r) : ((b1 \o r) \o b3)[Len(b1) + j] = r[j]
    BY ThreeParts
  <2>2. Len(b1) \in Nat /\ Len(r) \in Nat /\ Len(b3) \in Nat
    OBVIOUS
  <2> QED BY <1>10, <2>1, <2>2, SMTT(40)
<1>15. Len(b1) \in Nat
  OBVIOUS
<1> QED BY <1>2, <1>3, <1>5, <1>6, <1>7, <1>11, <1>12, <1>13, <1>14, <1>15 DEF Holds

\* Every byte of HTML is one of some rune.
LEMMA BytesOfRunes ==
  ASSUME NEW c \in Seq(Tokens), NEW ps \in Seq(RunesOf(c))
  PROVE  \A n \in 1 .. Len(HBytes(c, ps)) : \E j \in 1 .. Len(ps) : HBytes(c, ps)[n].where[1] = ps[j]
<1> DEFINE L == Len(ps)
           Fine(m) == \A n \in 1 .. Len(HBytes(c, SubSeq(ps, 1, m))) :
                        \E j \in 1 .. m : HBytes(c, SubSeq(ps, 1, m))[n].where[1] = ps[j]
           S == {m \in 0 .. L : Fine(m)}
<1>1. L \in Nat
  OBVIOUS
<1>2. 0 \in S
  <2>1. PICK e \in Seq(RunesOf(c)) : e = SubSeq(ps, 1, 0)
    <3>1. SubSeq(ps, 1, 0) \in Seq(RunesOf(c))
      OBVIOUS
    <3> QED BY <3>1, Zenon
  <2>2. HBytes(c, e) = <<>>
    <3>1. Len(e) = 0
      BY <2>1
    <3> QED BY <3>1, HBytesEmpty
  <2> QED BY <1>1, <2>1, <2>2
<1>3. ASSUME NEW m \in 1 .. L, m - 1 \in S PROVE m \in S
  <2>1. PICK q \in Seq(RunesOf(c)) : q = SubSeq(ps, 1, m - 1)
    <3>1. SubSeq(ps, 1, m - 1) \in Seq(RunesOf(c))
      OBVIOUS
    <3> QED BY <3>1, Zenon
  <2>2. PICK p \in RunesOf(c) : p = ps[m]
    OBVIOUS
  <2>3. SubSeq(ps, 1, m) = Append(q, p)
    BY <2>1, <2>2
  <2>4. HBytes(c, SubSeq(ps, 1, m)) = HBytes(c, q) \o RuneBytes(c, p)
    BY <2>3, HBytesAppend
  <2>5. PICK h \in Seq(ByteSet) : h = HBytes(c, q)
    BY HBytesType
  <2>6. PICK r \in Seq(ByteSet) : r = RuneBytes(c, p)
    BY RuneBytesType
  <2>7. \A n \in 1 .. Len(r) : r[n].where[1] = p
    <3>1. HtmlWidth[c[p].class] \in Nat /\ r = [k \in 1 .. HtmlWidth[c[p].class] |-> Byte(p, k)]
      <4>1. HtmlWidth[c[p].class] \in 1 .. 3
        BY RuneType
      <4>2. r = [k \in 1 .. HtmlWidth[c[p].class] |-> Byte(p, k)]
        BY <2>6, Zenon DEF RuneBytes
      <4> QED BY <4>1, <4>2
    <3>2. DOMAIN r = 1 .. HtmlWidth[c[p].class] /\ DOMAIN r = 1 .. Len(r)
      BY <3>1
    <3>3. \A k : Byte(p, k).where[1] = p
      BY DEF Byte, Html
    <3> QED BY <3>1, <3>2, <3>3
  <2>8. \A n \in 1 .. Len(h) : \E j \in 1 .. m - 1 : h[n].where[1] = ps[j]
    BY <1>3, <2>1, <2>5
  <2>9. ASSUME NEW n \in 1 .. Len(h \o r) PROVE \E j \in 1 .. m : (h \o r)[n].where[1] = ps[j]
    <3>1. Len(h) \in Nat /\ Len(r) \in Nat /\ Len(h \o r) = Len(h) + Len(r)
      OBVIOUS
    <3>2. CASE n <= Len(h)
      <4>1. (h \o r)[n] = h[n] /\ n \in 1 .. Len(h)
        BY <3>1, <3>2
      <4>2. PICK j \in 1 .. m - 1 : h[n].where[1] = ps[j]
        BY <2>8, <4>1
      <4> QED BY <1>1, <4>1, <4>2
    <3>3. CASE n > Len(h)
      <4>1. (h \o r)[n] = r[n - Len(h)] /\ n - Len(h) \in 1 .. Len(r)
        BY <3>1, <3>3
      <4>2. (h \o r)[n].where[1] = ps[m]
        BY <2>2, <2>7, <4>1
      <4>3. m \in 1 .. m
        BY <1>1
      <4> QED BY <4>2, <4>3
    <3> QED BY <3>1, <3>2, <3>3
  <2>10. Fine(m)
    BY <2>4, <2>5, <2>6, <2>9
  <2> QED BY <1>1, <2>10
<1>4. 0 .. L \subseteq S
  <2> HIDE DEF S, L
  <2> QED BY <1>1, <1>2, <1>3, IntervalInduction
<1>5. L \in S /\ SubSeq(ps, 1, L) = ps
  BY <1>1, <1>4
<1> QED BY <1>5

\* TrimRight stops somewhere.
LEMMA TrimmedType ==
  ASSUME NEW seg, seg.len \in Nat
  PROVE  /\ TrimmedLen(seg) \in 0 .. seg.len
         /\ \A k \in 1 .. seg.len : ~IsSpaceByte(seg.bytes[k]) => k <= TrimmedLen(seg)
<1> DEFINE Cut(n, m) == /\ n = 0 \/ ~IsSpaceByte(seg.bytes[n])
                        /\ \A k \in n + 1 .. m : IsSpaceByte(seg.bytes[k])
           S == {m \in 0 .. seg.len : \E n \in 0 .. m : Cut(n, m)}
<1>1. 0 \in S
  <2>1. 0 \in 0 .. seg.len /\ 0 \in 0 .. 0 /\ \A k \in 0 + 1 .. 0 : FALSE
    OBVIOUS
  <2>2. Cut(0, 0)
    BY <2>1
  <2> HIDE DEF Cut
  <2> QED BY <2>1, <2>2
<1>2. ASSUME NEW m \in 1 .. seg.len, m - 1 \in S PROVE m \in S
  <2>1. PICK n \in 0 .. m - 1 : Cut(n, m - 1)
    BY <1>2
  <2>2. CASE IsSpaceByte(seg.bytes[m])
    <3>1. ASSUME NEW k \in n + 1 .. m PROVE IsSpaceByte(seg.bytes[k])
      <4>1. CASE k = m
        BY <2>2, <4>1
      <4>2. CASE k # m
        <5>1. k \in n + 1 .. m - 1
          BY <4>2
        <5> QED BY <2>1, <5>1
      <4> QED BY <4>1, <4>2
    <3>2. Cut(n, m)
      BY <2>1, <3>1
    <3> HIDE DEF Cut
    <3> QED BY <2>1, <3>2
  <2>3. CASE ~IsSpaceByte(seg.bytes[m])
    <3>1. Cut(m, m)
      <4>1. m + 1 .. m = {}
        OBVIOUS
      <4> QED BY <2>3, <4>1
    <3> HIDE DEF Cut
    <3> QED BY <3>1
  <2> QED BY <2>2, <2>3
<1>3. 0 .. seg.len \subseteq S
  <2> HIDE DEF S
  <2> QED BY <1>1, <1>2, IntervalInduction
<1>4. \E n \in 0 .. seg.len : Cut(n, seg.len)
  <2> HIDE DEF Cut
  <2> QED BY <1>3
<1>5. TrimmedLen(seg) \in 0 .. seg.len /\ Cut(TrimmedLen(seg), seg.len)
  BY <1>4 DEF TrimmedLen
<1>6. ASSUME NEW k \in 1 .. seg.len, ~IsSpaceByte(seg.bytes[k]) PROVE k <= TrimmedLen(seg)
  <2>1. PICK n \in 0 .. seg.len : n = TrimmedLen(seg)
    BY <1>5
  <2>2. ~(k \in n + 1 .. seg.len)
    BY <1>5, <1>6, <2>1
  <2> QED BY <2>1, <2>2
<1> QED BY <1>5, <1>6

-----------------------------------------------------------------------------
(* RendererTypeOK *)

\* The rest of the renderer's state.
ArticleOK ==
  /\ headers \in BOOLEAN /\ acceptMetaLines \in BOOLEAN
  /\ lineNo \in Nat \ {0} /\ preview \in Seq(Nat) /\ Len(preview) <= 5
  /\ hidden \subseteq 1 .. at

\* The inductive invariant of the renderer: the segments divide the line,
\* and the mapper has the place of every rune that began.
RendererInv ==
  /\ content \in Seq(Tokens)
  /\ ArticleOK
  /\ LineOK(content, at, lineBuf, lineSegs, segClosed, mapper, terminalState)

\* It holds of an empty line.
LEMMA EmptyLineOK ==
  ASSUME NEW c \in Seq(Tokens), NEW a \in 0 .. Len(c), NEW map \in [0 .. 3 * Len(c) -> Nat \X Nat],
         NEW t \in TerminalStates
  PROVE  LineOK(c, a, <<>>, <<>>, TRUE, map, t)
<1>1. Divided(c, <<>>, <<>>, map, [i \in 1 .. 1 |-> 1])
  <2>1. Len(<<>>) = 0
    OBVIOUS
  <2> QED BY <2>1 DEF Divided
<1>2. PICK e : e = <<>>
  OBVIOUS
<1>3. e \in Seq(RunesOf(c)) /\ e \in Seq(SegmentSet) /\ Len(e) = 0 /\ DOMAIN e = {}
  BY <1>2
<1>4. LineOK(c, a, e, e, TRUE, map, t)
  BY <1>1, <1>2, <1>3 DEF LineOK
<1> QED BY <1>2, <1>4

\* It remains when more is read that is not of the line.
LEMMA LineLater ==
  ASSUME NEW c \in Seq(Tokens), NEW a \in 0 .. Len(c), NEW line, NEW segs, NEW closed, NEW map, NEW t,
         LineOK(c, a, line, segs, closed, map, t), a < Len(c)
  PROVE  LineOK(c, a + 1, line, segs, closed, map, t)
<1>1. line \in Seq(RunesOf(c)) /\ Len(line) <= a /\ \A k \in DOMAIN line : line[k] <= a
  BY DEF LineOK
<1>2. Len(c) \in Nat /\ Len(line) \in Nat /\ DOMAIN line = 1 .. Len(line)
  BY <1>1
<1>3. ASSUME NEW k \in DOMAIN line PROVE line[k] <= a + 1
  <2>1. line[k] \in RunesOf(c) /\ line[k] <= a
    BY <1>1, <1>2
  <2>2. line[k] \in Nat
    BY <2>1, RuneType
  <2> QED BY <1>2, <2>1, <2>2
<1>4. a + 1 \in 0 .. Len(c) /\ Len(line) <= a + 1
  BY <1>1, <1>2
<1> QED BY <1>3, <1>4 DEF LineOK

\* A sequence whose elements are all in T.
LEMMA SeqOfNarrow ==
  ASSUME NEW S, NEW T, NEW s \in Seq(S), \A k \in 1 .. Len(s) : s[k] \in T
  PROVE  s \in Seq(T)
  OBVIOUS

\* It implies RendererTypeOK, and that every entry of the mapper is within
\* the segments.
LEMMA TypeOfLine ==
  ASSUME RendererInv
  PROVE  RendererTypeOK
<1> DEFINE N == Len(lineSegs)
           L == Len(lineBuf)
<1>1. /\ content \in Seq(Tokens) /\ at \in 0 .. Len(content)
      /\ lineBuf \in Seq(RunesOf(content)) /\ \A k \in DOMAIN lineBuf : lineBuf[k] <= at
      /\ lineSegs \in Seq(SegmentSet)
      /\ \A i \in 1 .. N : lineSegs[i].len = Len(lineSegs[i].bytes) /\ lineSegs[i].look.extra = {}
      /\ segClosed \in BOOLEAN /\ terminalState \in TerminalStates
  BY DEF RendererInv, LineOK
<1>2. PICK f : Divided(content, lineBuf, lineSegs, mapper, f)
  BY DEF RendererInv, LineOK
<1>3. lineBuf \in Seq(1 .. at)
  <2>1. ASSUME NEW k \in 1 .. L PROVE lineBuf[k] \in 1 .. at
    <3>1. lineBuf[k] \in RunesOf(content) /\ lineBuf[k] <= at
      BY <1>1
    <3> QED BY <1>1, <3>1, RuneType
  <2> QED BY <1>1, <2>1, SeqOfNarrow
<1>4. ASSUME NEW k \in DOMAIN lineSegs
      PROVE  lineSegs[k].look \in Looks /\ lineSegs[k].len = Len(lineSegs[k].bytes)
  <2>1. k \in 1 .. N /\ lineSegs[k] \in SegmentSet
    BY <1>1
  <2> QED BY <1>1, <2>1 DEF SegmentSet
<1>5. ASSUME NEW k \in DOMAIN lineBuf
      PROVE  LET m == mapper[TextLen(SubSeq(lineBuf, 1, k - 1))]
             IN m[1] < Len(lineSegs) /\ m[2] < lineSegs[m[1] + 1].len
  <2>1. k \in 1 .. L /\ L \in Nat
    BY <1>1
  <2>2. PICK i \in 1 .. N : f[i] <= k /\ k < f[i + 1]
    BY <1>1, <1>2, <2>1, RuneIsSomewhere
  <2>3. PICK off : Holds(content, lineBuf, lineSegs[i], mapper, i, f[i + 1], k, off)
    BY <1>1, <1>2, <2>1, <2>2, RuneIsHeld
  <2>4. PICK q \in Seq(RunesOf(content)) : q = SubSeq(lineBuf, 1, k - 1)
    <3>1. SubSeq(lineBuf, 1, k - 1) \in Seq(RunesOf(content))
      BY <1>1, <2>1
    <3> QED BY <3>1, Zenon
  <2>5. TextLen(q) = TLen(content, q)
    BY <1>1, TextLenIs
  <2>6. mapper[TextLen(q)] = <<i - 1, off>>
    BY <2>3, <2>4, <2>5 DEF Holds, TextOf
  <2>7. PICK r : r = Len(RuneBytes(content, lineBuf[k]))
    OBVIOUS
  <2>8. off \in Nat /\ r \in 1 .. 3 /\ off + r <= Len(lineSegs[i].bytes)
    BY <2>3, <2>7 DEF Holds
  <2>9. N \in Nat /\ lineSegs[i] \in SegmentSet
    BY <1>1
  <2>10. off < lineSegs[i].len
    <3>1. lineSegs[i].len = Len(lineSegs[i].bytes) /\ lineSegs[i].len \in Nat
      BY <1>1, <2>9 DEF SegmentSet
    <3> QED BY <2>8, <3>1
  <2>11. (i - 1) + 1 = i /\ i - 1 < N
    BY <2>9
  <2> QED BY <2>4, <2>6, <2>10, <2>11
<1> QED BY <1>1, <1>3, <1>4, <1>5 DEF RendererInv, ArticleOK, RendererTypeOK

\* What is hidden of a line is of that line.
LEMMA CutOfLine ==
  ASSUME NEW c \in Seq(Tokens), NEW a, NEW line, NEW segs, NEW closed, NEW map, NEW t,
         LineOK(c, a, line, segs, closed, map, t),
         NEW i \in 1 .. Len(segs), NEW k \in 1 .. segs[i].len
  PROVE  segs[i].bytes[k].where[1] \in 1 .. a
<1>1. PICK f : Divided(c, line, segs, map, f)
  BY DEF LineOK
<1>2. /\ line \in Seq(RunesOf(c)) /\ \A n \in DOMAIN line : line[n] <= a
      /\ segs \in Seq(SegmentSet) /\ segs[i].len = Len(segs[i].bytes)
      /\ a \in 0 .. Len(c)
  BY DEF LineOK
<1>3. segs[i].bytes = HtmlFrom(c, line, f[i], f[i + 1])
      /\ f[i] \in 1 .. Len(line) + 1 /\ f[i + 1] \in 1 .. Len(line) + 1
  <2>1. Len(segs) \in Nat /\ i \in 1 .. Len(segs) + 1 /\ i + 1 \in 1 .. Len(segs) + 1
    BY <1>2
  <2>2. f \in [1 .. Len(segs) + 1 -> 1 .. Len(line) + 1]
    BY <1>1 DEF Divided
  <2>3. segs[i].bytes = HtmlFrom(c, line, f[i], f[i + 1])
    BY <1>1 DEF Divided
  <2> QED BY <2>1, <2>2, <2>3
<1>4. PICK q \in Seq(RunesOf(c)) : q = SubSeq(line, f[i], f[i + 1] - 1)
  <2>1. SubSeq(line, f[i], f[i + 1] - 1) \in Seq(RunesOf(c))
    BY <1>2, <1>3, SMTT(40)
  <2> QED BY <2>1, Zenon
<1>5. segs[i].bytes = HBytes(c, q)
  BY <1>3, <1>4 DEF HtmlFrom
<1>6. PICK j \in 1 .. Len(q) : segs[i].bytes[k].where[1] = q[j]
  BY <1>2, <1>5, BytesOfRunes
<1>7. q[j] = line[f[i] + j - 1] /\ f[i] + j - 1 \in 1 .. Len(line)
  <2>1. PICK x \in 1 .. Len(line) + 1 : x = f[i]
    BY <1>3
  <2>2. PICK y \in 1 .. Len(line) + 1 : y = f[i + 1]
    BY <1>3
  <2>3. q = SubSeq(line, x, y - 1)
    BY <1>4, <2>1, <2>2
  <2>4. q[j] = line[x + j - 1] /\ x + j - 1 \in 1 .. Len(line)
    BY <1>2, <2>3
  <2> QED BY <2>1, <2>4
<1>8. q[j] \in RunesOf(c) /\ q[j] <= a
  BY <1>2, <1>7
<1> QED BY <1>2, <1>6, <1>8, RuneType

\* The end of a line, from any place.
LEMMA EndOfLineOK ==
  ASSUME content \in Seq(Tokens), ArticleOK,
         NEW a \in 0 .. Len(content), at <= a, at \in 0 .. Len(content),
         NEW line, NEW segs, NEW closed, NEW map, NEW t,
         LineOK(content, a, line, segs, closed, map, t), EndOfLine(line, segs, map)
  PROVE  /\ acceptMetaLines' \in BOOLEAN
         /\ lineNo' \in Nat \ {0} /\ preview' \in Seq(Nat) /\ Len(preview') <= 5
         /\ hidden' \subseteq 1 .. a
         /\ LineOK(content, a, lineBuf', lineSegs', segClosed', mapper', t)
<1> DEFINE full == [map EXCEPT ![TextLen(line)] = <<Len(segs), 0>>]
           header == headers /\ acceptMetaLines /\ lineNo < 5
<1>1. /\ lineBuf' = <<>> /\ lineSegs' = <<>> /\ segClosed' = TRUE
      /\ lineNo' = lineNo + 1 /\ mapper' = full
  BY DEF EndOfLine
<1>2. segs \in Seq(SegmentSet) /\ line \in Seq(RunesOf(content)) /\ t \in TerminalStates
      /\ map \in [0 .. 3 * Len(content) -> Nat \X Nat] /\ \A k \in DOMAIN line : line[k] <= a
  BY DEF LineOK
<1>3. full \in [0 .. 3 * Len(content) -> Nat \X Nat]
  <2>1. <<Len(segs), 0>> \in Nat \X Nat
    BY <1>2
  <2> QED BY <1>2, <2>1
<1>4. LineOK(content, a, lineBuf', lineSegs', segClosed', mapper', t)
  BY <1>1, <1>2, <1>3, EmptyLineOK
<1>5. hidden \subseteq 1 .. a
  BY DEF ArticleOK
<1>a. lineNo' \in Nat \ {0} /\ lineNo \in Nat
  BY <1>1 DEF ArticleOK
<1>6. CASE header /\ IsMeta(line)
  <2>1. hidden' = hidden \cup ToSet(line) /\ UNCHANGED <<acceptMetaLines, preview>>
    BY <1>6 DEF EndOfLine
  <2>2. ToSet(line) \subseteq 1 .. a
    <3> SUFFICES ASSUME NEW k \in DOMAIN line PROVE line[k] \in 1 .. a
      BY DEF ToSet
    <3>1. line[k] \in RunesOf(content) /\ line[k] <= a
      BY <1>2
    <3> QED BY <3>1, RuneType
  <2> QED BY <1>a, <1>4, <1>5, <2>1, <2>2 DEF ArticleOK
<1>7. CASE ~(header /\ IsMeta(line))
  <2>1. /\ acceptMetaLines' = (acceptMetaLines /\ ~header)
        /\ preview' = IF /\ ~IsBlank(line) /\ Len(preview) < 5
                         /\ preview # <<>> \/ ~IsQuote(line)
                      THEN Append(preview, lineNo) ELSE preview
        /\ \E finds \in Finds(line) : NormalLine(Recolored(segs, line), line, full, Filtered(finds))
    BY <1>7 DEF EndOfLine
  <2>2. acceptMetaLines' \in BOOLEAN
    BY <2>1
  <2>3. preview' \in Seq(Nat) /\ Len(preview') <= 5
    <3>1. preview' = preview \/ (Len(preview) < 5 /\ preview' = Append(preview, lineNo))
      BY <2>1
    <3>2. PICK p \in Seq(Nat) : p = preview /\ Len(p) <= 5
      BY DEF ArticleOK
    <3>3. PICK n \in Nat : n = lineNo
      BY <1>a
    <3>4. Len(p) < 5 => Append(p, n) \in Seq(Nat) /\ Len(Append(p, n)) <= 5
      BY <3>2
    <3>5. preview' = p \/ (Len(p) < 5 /\ preview' = Append(p, n))
      BY <3>1, <3>2, <3>3
    <3> QED BY <3>2, <3>4, <3>5
  <2>4. hidden' \subseteq 1 .. a
    <3>1. PICK finds : NormalLine(Recolored(segs, line), line, full, Filtered(finds))
      BY <2>1
    <3>2. PICK s : s = Recolored(segs, line)
      OBVIOUS
    <3>3. Len(s) = Len(segs) /\ \A i \in 1 .. Len(segs) : s[i].bytes = segs[i].bytes /\ s[i].len = segs[i].len
      <4>1. \A i \in 1 .. Len(segs) : segs[i] \in SegmentSet
        BY <1>2
      <4> QED BY <1>2, <3>2, <4>1 DEF Recolored, SegmentSet
    <3>4. CASE ~IsPush(s)
      BY <1>5, <3>1, <3>2, <3>4 DEF NormalLine
    <3>5. CASE IsPush(s)
      <4>1. hidden' = hidden \cup {s[3].bytes[k].where[1] : k \in MarkedAsPush(s)[3].len + 1 .. s[3].len}
        BY <3>1, <3>2, <3>5 DEF NormalLine
      <4>2. Len(segs) = 4
        BY <3>3, <3>5 DEF IsPush
      <4>3. segs[3] \in SegmentSet /\ 3 \in 1 .. Len(segs)
        BY <1>2, <4>2
      <4>4. s[3].len \in Nat /\ s[3].bytes = segs[3].bytes /\ s[3].len = segs[3].len
        BY <3>3, <4>3 DEF SegmentSet
      <4>5. MarkedAsPush(s)[3].len \in 0 .. s[3].len
        <5>1. TrimmedLen(s[3]) \in 0 .. s[3].len
          BY <4>4, TrimmedType
        <5>3. MarkedAsPush(s)[3].len = TrimmedLen(s[3])
          BY DEF MarkedAsPush
        <5> QED BY <5>1, <5>3
      <4>6. ASSUME NEW k \in MarkedAsPush(s)[3].len + 1 .. s[3].len
            PROVE  s[3].bytes[k].where[1] \in 1 .. a
        <5>1. k \in 1 .. segs[3].len
          BY <4>4, <4>5
        <5>2. segs[3].bytes[k].where[1] \in 1 .. a
          BY <4>3, <5>1, CutOfLine
        <5> QED BY <4>4, <5>2
      <4> QED BY <1>5, <4>1, <4>6
    <3> QED BY <3>4, <3>5
  <2> QED BY <1>a, <1>4, <2>2, <2>3, <2>4
<1> QED BY <1>6, <1>7

\* It holds at first.
LEMMA RendererStarts ==
  RendererInit => RendererInv
<1> SUFFICES ASSUME RendererInit PROVE RendererInv
  OBVIOUS
<1>1. content \in Seq(Tokens) /\ at = 0
  BY RendererAssumption DEF RendererInit
<1>2. ResetState \in TerminalStates
  BY DEF TerminalStates, ResetState, Color, NoFlags, Highlighted, DefaultFg, DefaultBg
<1>3. 0 \in 0 .. Len(content) /\ mapper \in [0 .. 3 * Len(content) -> Nat \X Nat]
  BY <1>1 DEF RendererInit
<1>4. LineOK(content, 0, <<>>, <<>>, TRUE, mapper, ResetState)
  BY <1>1, <1>2, <1>3, EmptyLineOK
<1>5. LineOK(content, at, lineBuf, lineSegs, segClosed, mapper, terminalState)
  BY <1>1, <1>4 DEF RendererInit
<1>6. ArticleOK
  BY DEF RendererInit, ArticleOK
<1> QED BY <1>1, <1>5, <1>6 DEF RendererInv

\* currSeg has a segment to write to.
LEMMA CurrSegOK ==
  ASSUME RendererInv
  PROVE  /\ WithCurrSeg # <<>>
         /\ LineOK(content, at, lineBuf, WithCurrSeg, FALSE, mapper, terminalState)
<1>1. /\ content \in Seq(Tokens)
      /\ LineOK(content, at, lineBuf, lineSegs, segClosed, mapper, terminalState)
  BY DEF RendererInv
<1>2. terminalState \in TerminalStates /\ segClosed \in BOOLEAN /\ (segClosed <=> lineSegs = <<>>)
  BY <1>1 DEF LineOK
<1>3. CASE lineSegs = <<>>
  <2>1. WithCurrSeg = Started(lineSegs, segClosed, terminalState)
    BY <1>3 DEF WithCurrSeg, StartSegment, Started
  <2> QED BY <1>1, <1>2, <2>1, StartedOK
<1>4. CASE lineSegs # <<>>
  <2>1. WithCurrSeg = lineSegs /\ segClosed = FALSE
    BY <1>2, <1>4 DEF WithCurrSeg
  <2> QED BY <1>1, <1>4, <2>1
<1> QED BY <1>3, <1>4

\* What ReadRune writes and records.
LEMMA WrittenOK ==
  ASSUME RendererInv, at < Len(content), content[at + 1].kind = "rune"
  PROVE  /\ LineOK(content, at + 1, Append(lineBuf, at + 1), Written(WithCurrSeg, at + 1), FALSE,
                   Record(WithCurrSeg, TextLen(lineBuf)), terminalState)
<1>1. content \in Seq(Tokens) /\ lineBuf \in Seq(RunesOf(content))
  BY DEF RendererInv, LineOK
<1>2. PICK segs : segs = WithCurrSeg
  OBVIOUS
<1>3. segs # <<>> /\ LineOK(content, at, lineBuf, segs, FALSE, mapper, terminalState)
  BY <1>2, CurrSegOK
<1>4. LineOK(content, at + 1, Append(lineBuf, at + 1), WrittenTo(content, segs, at + 1), FALSE,
             [mapper EXCEPT ![TLen(content, lineBuf)] = <<Len(segs) - 1, segs[Len(segs)].len>>],
             terminalState)
  BY <1>1, <1>3, WriteOK
<1>5. TextLen(lineBuf) = TLen(content, lineBuf)
  BY <1>1, TextLenIs
<1>6. Record(segs, TextLen(lineBuf))
        = [mapper EXCEPT ![TLen(content, lineBuf)] = <<Len(segs) - 1, segs[Len(segs)].len>>]
  BY <1>5 DEF Record, Last
<1>7. Written(segs, at + 1) = WrittenTo(content, segs, at + 1)
  BY DEF Written, WrittenTo, RuneBytes, ClassAt
<1> QED BY <1>2, <1>4, <1>6, <1>7

\* An escape sequence changes the state of the terminal, and ends the
\* segment.
LEMMA EscapeStep ==
  ASSUME RendererInv, ReadEscape
  PROVE  RendererInv'
<1>1. /\ content \in Seq(Tokens) /\ content' = content
      /\ LineOK(content, at, lineBuf, lineSegs, segClosed, mapper, terminalState)
      /\ at < Len(content) /\ content[at + 1].kind = "escape"
      /\ at' = at + 1
      /\ UNCHANGED <<headers, lineBuf, mapper, articleVars>>
  BY DEF RendererInv, ReadEscape
<1>2. at \in 0 .. Len(content) /\ terminalState \in TerminalStates
      /\ segClosed \in BOOLEAN /\ (segClosed <=> lineSegs = <<>>)
      /\ (lineSegs # <<>> => Last(lineSegs).look.state = terminalState)
  BY <1>1 DEF LineOK, Last
<1>3. PICK u : u = terminalState'
  OBVIOUS
<1>4. u \in TerminalStates
  <2>1. at + 1 \in 1 .. Len(content)
    BY <1>1, <1>2
  <2>2. content[at + 1] \in Tokens
    BY <1>1, <2>1
  <2>3. content[at + 1].nums \in Seq(Nat)
    BY <1>1, <2>2 DEF Tokens
  <2>4. u = ApplyNums(terminalState, content[at + 1].nums)
    BY <1>3 DEF ReadEscape
  <2> QED BY <1>2, <2>3, <2>4, ApplyNumsType
<1>5. /\ lineSegs' = IF segClosed \/ u # Last(lineSegs).look.state
                     THEN Started(lineSegs, segClosed, u) ELSE lineSegs
      /\ segClosed' = FALSE
  BY <1>3 DEF ReadEscape, StartSegment, Started
<1>6. LineOK(content, at, lineBuf, lineSegs', FALSE, mapper, u)
  <2>1. CASE segClosed \/ u # Last(lineSegs).look.state
    BY <1>1, <1>4, <1>5, <2>1, StartedOK
  <2>2. CASE ~(segClosed \/ u # Last(lineSegs).look.state)
    <3>1. u = terminalState /\ segClosed = FALSE /\ lineSegs' = lineSegs
      BY <1>2, <1>5, <2>2
    <3> QED BY <1>1, <3>1
  <2> QED BY <2>1, <2>2
<1>7. LineOK(content, at + 1, lineBuf, lineSegs', FALSE, mapper, u)
  BY <1>1, <1>2, <1>6, LineLater
<1>8. ArticleOK'
  <2>1. ArticleOK
    BY DEF RendererInv
  <2>2. 1 .. at \subseteq 1 .. at + 1
    BY <1>2
  <2> QED BY <1>1, <2>1, <2>2 DEF ArticleOK, articleVars
<1>9. (LineOK(content, at, lineBuf, lineSegs, segClosed, mapper, terminalState))'
  BY <1>1, <1>3, <1>5, <1>7
<1> QED BY <1>1, <1>8, <1>9 DEF RendererInv

\* A rune is written to the segment, or ends the line.
LEMMA RuneStep ==
  ASSUME RendererInv, ReadRune
  PROVE  RendererInv'
<1>1. /\ content \in Seq(Tokens) /\ content' = content
      /\ at < Len(content) /\ content[at + 1].kind = "rune"
      /\ at' = at + 1 /\ headers' = headers /\ terminalState' = terminalState
      /\ at \in 0 .. Len(content) /\ ArticleOK
  BY DEF RendererInv, ReadRune, LineOK
<1> DEFINE line == Append(lineBuf, at + 1)
           segs == Written(WithCurrSeg, at + 1)
           map  == Record(WithCurrSeg, TextLen(lineBuf))
<1>2. LineOK(content, at + 1, line, segs, FALSE, map, terminalState)
  BY <1>1, WrittenOK
<1>3. CASE content[at + 1].class = "newline"
  <2>1. EndOfLine(line, segs, map)
    BY <1>3 DEF ReadRune
  <2> HIDE DEF line, segs, map
  <2>2. at + 1 \in 0 .. Len(content) /\ at <= at + 1
    BY <1>1
  <2>3. /\ acceptMetaLines' \in BOOLEAN
        /\ lineNo' \in Nat \ {0} /\ preview' \in Seq(Nat) /\ Len(preview') <= 5
        /\ hidden' \subseteq 1 .. at + 1
        /\ LineOK(content, at + 1, lineBuf', lineSegs', segClosed', mapper', terminalState)
    BY <1>1, <1>2, <2>1, <2>2, EndOfLineOK
  <2> QED BY <1>1, <2>3 DEF RendererInv, ArticleOK
<1>4. CASE content[at + 1].class # "newline"
  <2>1. /\ lineBuf' = line /\ lineSegs' = segs /\ segClosed' = FALSE /\ mapper' = map
        /\ UNCHANGED articleVars
    BY <1>4 DEF ReadRune
  <2> HIDE DEF line, segs, map
  <2>2. 1 .. at \subseteq 1 .. at + 1
    BY <1>1
  <2>3. ArticleOK'
    BY <1>1, <2>1, <2>2 DEF ArticleOK, articleVars
  <2>4. (LineOK(content, at, lineBuf, lineSegs, segClosed, mapper, terminalState))'
    BY <1>1, <1>2, <2>1
  <2> QED BY <1>1, <2>3, <2>4 DEF RendererInv
<1> QED BY <1>3, <1>4

\* The last line may have no end.
LEMMA FinishStep ==
  ASSUME RendererInv, FinishLine
  PROVE  RendererInv'
<1>1. /\ content \in Seq(Tokens) /\ UNCHANGED <<content, at, headers, terminalState>>
      /\ at \in 0 .. Len(content) /\ at <= at /\ ArticleOK
      /\ EndOfLine(lineBuf, lineSegs, mapper)
      /\ LineOK(content, at, lineBuf, lineSegs, segClosed, mapper, terminalState)
  BY DEF RendererInv, FinishLine, LineOK
<1>2. /\ acceptMetaLines' \in BOOLEAN
      /\ lineNo' \in Nat \ {0} /\ preview' \in Seq(Nat) /\ Len(preview') <= 5
      /\ hidden' \subseteq 1 .. at
      /\ LineOK(content, at, lineBuf', lineSegs', segClosed', mapper', terminalState)
  BY <1>1, EndOfLineOK
<1> QED BY <1>1, <1>2 DEF RendererInv, ArticleOK

\* RendererInv is inductive.
LEMMA RendererTypeStep ==
  RendererInv /\ [RendererNext]_rendererVars => RendererInv'
<1> SUFFICES ASSUME RendererInv, [RendererNext]_rendererVars PROVE RendererInv'
  OBVIOUS
<1>1. CASE UNCHANGED rendererVars
  BY <1>1 DEF RendererInv, ArticleOK, rendererVars, lineVars, articleVars
<1> QED BY <1>1, EscapeStep, RuneStep, FinishStep DEF RendererNext

\* For every article, whatever its bytes and wherever it is cut, the
\* segments, the mapper and the terminal state remain what endOfLine and
\* link expect: no place of a link can be outside of a segment.
THEOREM RendererTypes == RendererSpec => []RendererTypeOK
<1>1. RendererSpec => []RendererInv
  BY RendererStarts, RendererTypeStep, PTL DEF RendererSpec
<1> QED BY <1>1, TypeOfLine, PTL

-----------------------------------------------------------------------------
(* The reader of HTML *)

\* The HTML of articles, and what the reader makes of it.
TagNames == {"span", "/span", "a", "/a", "div", "/div", "meta", "richcontent", "panic"}
\* What HTML is made of: tags, and bytes.
TagSet == [tag : TagNames, where : Nat \X Nat, look : Looks]
Htmls == ByteSet \cup TagSet
HtmlSeqs == Seq(Htmls)
OpenTags == {"span", "a", "div", "bad"}
\* The open tags, what a reader has seen of a byte, and all that it knows.
Stacks == Seq(OpenTags)
Glyphs == [where : Nat \X Nat, look : Looks, link : Nat \X Nat]
Readers ==
  [open : Stacks, look : Looks, link : Nat \X Nat, links : SUBSET (Nat \X Nat),
   text : ByteSeqs, seen : SUBSET Glyphs]
\* The reader of nothing.
BlankReader == Blank

\* ReadHtml, for the folds.
ReadFn == [x \in Readers \X Htmls |-> ReadHtml(x[1], x[2])]
\* ReaderOf, as a typed fold.
Rd(html) == FoldFn(Readers, ReadFn, BlankReader, html)

\* The look of text outside of segments.
LEMMA NoLookType == NoLook \in Looks
  BY DEF NoLook, Looks, TerminalStates, ResetState, Color, NoFlags, Highlighted, DefaultFg, DefaultBg

\* Nest keeps to the open elements, of which "bad" is one.
LEMMA NestType ==
  ASSUME NEW s \in Stacks, NEW h \in Htmls
  PROVE  Nest(s, h) \in Stacks
<1>1. \A x \in OpenTags : Append(s, x) \in Stacks
  BY DEF Stacks
<1>2. s # <<>> => Front(s) \in Stacks
  <2> SUFFICES ASSUME s # <<>> PROVE Front(s) \in Stacks
    OBVIOUS
  <2>1. s \in Seq(OpenTags) /\ Len(s) - 1 \in 0 .. Len(s)
    BY DEF Stacks
  <2>2. SubSeq(s, 1, Len(s) - 1) \in Seq(OpenTags)
    BY <2>1, PrefixOf
  <2> QED BY <2>2 DEF Stacks, Front
<1>3. {"span", "a", "div", "bad"} = OpenTags
  BY DEF OpenTags
<1>4. CASE h.tag \in {"span", "a", "div"}
  BY <1>1, <1>3, <1>4 DEF Nest
<1>5. CASE h.tag \in {"/span", "/a", "/div"}
  <2>1. Nest(s, h) = IF s # <<>> /\ h.tag = CloserOf[Last(s)] THEN Front(s) ELSE Append(s, "bad")
    BY <1>5 DEF Nest
  <2> QED BY <1>1, <1>2, <1>3, <2>1
<1>6. CASE h.tag \in {"meta", "richcontent", "panic"}
  <2>1. Nest(s, h) = IF h.tag = "panic" \/ s # <<>> THEN Append(s, "bad") ELSE s
    BY <1>6 DEF Nest
  <2> QED BY <1>1, <1>3, <2>1
<1>7. CASE h.tag = "byte"
  <2>1. Nest(s, h) = s
    BY <1>7 DEF Nest
  <2> QED BY <2>1
<1> QED BY <1>4, <1>5, <1>6, <1>7 DEF Htmls, ByteSet, TagSet, TagNames

\* ReadHtml keeps to the readers.
LEMMA ReadType ==
  ASSUME NEW r \in Readers, NEW h \in Htmls
  PROVE  ReadHtml(r, h) \in Readers
<1>1. Nest(r.open, h) \in Stacks
  BY NestType DEF Readers
<1>2. h.where \in Nat \X Nat /\ h.look \in Looks
  BY NoLookType DEF Htmls, ByteSet, TagSet
<1>3. <<0, 0>> \in Nat \X Nat
  OBVIOUS
<1>4. PICK look \in Looks :
        look = CASE h.tag = "span" -> h.look [] h.tag = "/span" -> NoLook [] OTHER -> r.look
  BY <1>2, NoLookType DEF Readers
<1>5. PICK link \in Nat \X Nat :
        link = CASE h.tag = "a" -> h.where [] h.tag = "/a" -> <<0, 0>> [] OTHER -> r.link
  <2>1. r.link \in Nat \X Nat
    BY DEF Readers
  <2>2. CASE h.tag = "a"
    BY <1>2, <2>2
  <2>3. CASE h.tag = "/a"
    BY <1>3, <2>3
  <2>4. CASE h.tag # "a" /\ h.tag # "/a"
    BY <2>1, <2>4
  <2> QED BY <2>2, <2>3, <2>4
<1>6. PICK links \in SUBSET (Nat \X Nat) : links = IF h.tag = "a" THEN r.links \cup {h.where} ELSE r.links
  BY <1>2 DEF Readers
<1>7. PICK text \in ByteSeqs : text = IF h.tag = "byte" THEN Append(r.text, h) ELSE r.text
  <2>1. r.text \in Seq(ByteSet)
    BY DEF Readers, ByteSeqs
  <2>2. h.tag = "byte" => h \in ByteSet
    BY DEF Htmls, TagSet, TagNames
  <2>3. h.tag = "byte" => Append(r.text, h) \in Seq(ByteSet)
    BY <2>1, <2>2
  <2> QED BY <2>1, <2>3 DEF ByteSeqs
<1>8. PICK seen \in SUBSET Glyphs :
        seen = IF h.tag = "byte"
               THEN r.seen \cup {[where |-> h.where, look |-> r.look, link |-> r.link]} ELSE r.seen
  <2>1. [where |-> h.where, look |-> r.look, link |-> r.link] \in Glyphs
    BY <1>2 DEF Readers, Glyphs
  <2>2. r.seen \in SUBSET Glyphs
    BY DEF Readers
  <2> QED BY <2>1, <2>2
<1>9. ReadHtml(r, h) = [open |-> Nest(r.open, h), look |-> look, link |-> link, links |-> links,
                    text |-> text, seen |-> seen]
  BY <1>4, <1>5, <1>6, <1>7, <1>8 DEF ReadHtml
<1> QED BY <1>1, <1>9 DEF Readers

\* So is the blank one.
LEMMA BlankType == BlankReader \in Readers
<1>1. <<>> \in Stacks
  BY DEF Stacks
<1>2. <<>> \in ByteSeqs
  BY DEF ByteSeqs
<1> QED BY <1>1, <1>2, NoLookType DEF BlankReader, Blank, Readers

\* It is a step on readers.
LEMMA ReadFnType == IsOp(Readers, Htmls, ReadFn)
<1>1. \A x \in Readers \X Htmls : ReadHtml(x[1], x[2]) \in Readers
  BY ReadType
<1> QED BY <1>1 DEF IsOp, ReadFn

\* What has been read is a reader.
LEMMA RdType ==
  ASSUME NEW h \in HtmlSeqs
  PROVE  Rd(h) \in Readers
<1>1. h \in Seq(Htmls)
  BY DEF HtmlSeqs
<1>2. FoldFn(Readers, ReadFn, BlankReader, h) \in Readers
  BY <1>1, ReadFnType, BlankType, FoldFnType
<1> QED BY <1>2 DEF Rd

\* One more piece of HTML.
LEMMA RdAppend ==
  ASSUME NEW h \in HtmlSeqs, NEW x \in Htmls
  PROVE  Append(h, x) \in HtmlSeqs /\ Rd(Append(h, x)) = ReadHtml(Rd(h), x)
<1>1. h \in Seq(Htmls)
  BY DEF HtmlSeqs
<1>2. /\ FoldFn(Readers, ReadFn, BlankReader, h) \in Readers
      /\ FoldFn(Readers, ReadFn, BlankReader, Append(h, x))
           = ReadFn[<<FoldFn(Readers, ReadFn, BlankReader, h), x>>]
  BY <1>1, ReadFnType, BlankType, FoldFnAppend
<1>3. ReadFn[<<Rd(h), x>>] = ReadHtml(Rd(h), x)
  <2>1. Rd(h) \in Readers
    BY RdType
  <2> QED BY <2>1 DEF ReadFn
<1>4. Append(h, x) \in HtmlSeqs
  BY <1>1 DEF HtmlSeqs
<1> QED BY <1>2, <1>3, <1>4 DEF Rd

\* Nothing was read.
LEMMA RdEmpty == Rd(<<>>) = Blank
<1>1. PICK e \in Seq(Htmls) : e = <<>>
  <2>1. <<>> \in Seq(Htmls)
    OBVIOUS
  <2> QED BY <2>1, Zenon
<1>2. Len(e) = 0
  BY <1>1
<1>3. FoldFn(Readers, ReadFn, BlankReader, e) = BlankReader
  BY <1>2, ReadFnType, BlankType, FoldFnEmpty
<1> QED BY <1>1, <1>3 DEF Rd, BlankReader

\* ReaderOf is that fold.
LEMMA ReaderIs ==
  ASSUME NEW h \in HtmlSeqs
  PROVE  ReaderOf(h) = Rd(h)
<1> DEFINE Good(it) == it = [s \in SUBSET (DOMAIN h) |->
                               IF s = {} THEN Blank ELSE ReadHtml(it[s \ {Max(s)}], h[Max(s)])]
           it == CHOOSE it : Good(it)
<1>1. ReaderOf(h) = it[DOMAIN h]
  BY DEF ReaderOf, FoldLeft, MapThenFoldSet
<1>2. h \in Seq(Htmls)
  BY DEF HtmlSeqs
<1>3. PICK g \in Iterates(Readers, Htmls, ReadFn, BlankReader, h) : TRUE
  BY <1>2, ReadFnType, BlankType, IterateExists
<1>4. Good(g)
  BY <1>3 DEF Iterates, ReadFn, BlankReader
<1>5. Good(it)
  BY <1>4
<1> HIDE DEF it
<1>6. Iterated(Readers, ReadFn, BlankReader, h, it)
  <2> SUFFICES ASSUME NEW r \in SUBSET (DOMAIN h)
               PROVE  /\ r = {} => it[r] = BlankReader
                      /\ r # {} /\ it[r \ {Max(r)}] \in Readers
                           => it[r] = ReadFn[<<it[r \ {Max(r)}], h[Max(r)]>>]
    BY DEF Iterated
  <2>1. it[r] = IF r = {} THEN Blank ELSE ReadHtml(it[r \ {Max(r)}], h[Max(r)])
    BY <1>5
  <2>2. r # {} => h[Max(r)] \in Htmls
    BY <1>3 DEF Iterates
  <2> QED BY <2>1, <2>2 DEF ReadFn, BlankReader
<1>7. it[DOMAIN h] = FoldFn(Readers, ReadFn, BlankReader, h)
  BY <1>2, <1>6, ReadFnType, BlankType, IteratedIsFold
<1> QED BY <1>1, <1>7 DEF Rd

\* The glyphs of bytes, seen with a look and a link.
GlyphsOf(b, look, link) == {[where |-> b[n].where, look |-> look, link |-> link] : n \in 1 .. Len(b)}

\* Bytes are read as they are.
LEMMA RdByte ==
  ASSUME NEW h \in HtmlSeqs, NEW x \in ByteSet
  PROVE  /\ Append(h, x) \in HtmlSeqs
         /\ Rd(Append(h, x)).open = Rd(h).open
         /\ Rd(Append(h, x)).look = Rd(h).look
         /\ Rd(Append(h, x)).link = Rd(h).link
         /\ Rd(Append(h, x)).links = Rd(h).links
         /\ Rd(Append(h, x)).text = Append(Rd(h).text, x)
         /\ Rd(Append(h, x)).seen
              = Rd(h).seen \cup {[where |-> x.where, look |-> Rd(h).look, link |-> Rd(h).link]}
<1>1. x \in Htmls /\ x.tag = "byte"
  BY DEF Htmls, ByteSet
<1>2. Append(h, x) \in HtmlSeqs /\ Rd(Append(h, x)) = ReadHtml(Rd(h), x)
  BY <1>1, RdAppend
<1>3. PICK r : r = Rd(h)
  OBVIOUS
<1>4. /\ ReadHtml(r, x).open = r.open /\ ReadHtml(r, x).look = r.look /\ ReadHtml(r, x).link = r.link
      /\ ReadHtml(r, x).links = r.links /\ ReadHtml(r, x).text = Append(r.text, x)
      /\ ReadHtml(r, x).seen = r.seen \cup {[where |-> x.where, look |-> r.look, link |-> r.link]}
  BY <1>1 DEF ReadHtml, Nest
<1> QED BY <1>2, <1>3, <1>4

\* r is q, and has read the bytes b.
ReadOn(r, q, b) ==
  /\ r.open = q.open /\ r.look = q.look /\ r.link = q.link /\ r.links = q.links
  /\ r.text = q.text \o b
  /\ r.seen = q.seen \cup GlyphsOf(b, q.look, q.link)

\* Bytes add to the text and to what is seen, in the look and the link that
\* are open.
LEMMA RdBytes ==
  ASSUME NEW h \in HtmlSeqs, NEW b \in Seq(ByteSet)
  PROVE  h \o b \in HtmlSeqs /\ ReadOn(Rd(h \o b), Rd(h), b)
<1> DEFINE L == Len(b)
           P(n) == SubSeq(b, 1, n)
           S == {n \in 0 .. L : h \o P(n) \in HtmlSeqs /\ ReadOn(Rd(h \o P(n)), Rd(h), P(n))}
<1>0. L \in Nat
  OBVIOUS
<1>1. 0 \in S
  <2>1. PICK e \in Seq(ByteSet) : e = P(0)
    <3>1. P(0) \in Seq(ByteSet)
      OBVIOUS
    <3> QED BY <3>1, Zenon
  <2>2. Len(e) = 0
    BY <2>1
  <2>3. h \o e = h
    BY <2>2 DEF HtmlSeqs
  <2>4. Rd(h).text \in Seq(ByteSet)
    BY RdType DEF Readers, ByteSeqs
  <2>5. Rd(h).text \o e = Rd(h).text
    BY <2>2, <2>4
  <2>6. GlyphsOf(e, Rd(h).look, Rd(h).link) = {}
    BY <2>2 DEF GlyphsOf
  <2>7. ReadOn(Rd(h), Rd(h), e)
    BY <2>5, <2>6 DEF ReadOn
  <2> HIDE DEF P
  <2>8. h \o P(0) \in HtmlSeqs /\ ReadOn(Rd(h \o P(0)), Rd(h), P(0))
    BY <2>1, <2>3, <2>7
  <2>9. 0 \in 0 .. L
    BY <1>0
  <2> QED BY <2>8, <2>9
<1>2. ASSUME NEW n \in 1 .. L, n - 1 \in S PROVE n \in S
  <2>1. PICK q \in Seq(ByteSet) : q = P(n - 1)
    <3>1. P(n - 1) \in Seq(ByteSet)
      OBVIOUS
    <3> QED BY <3>1, Zenon
  <2>2. PICK x \in ByteSet : x = b[n]
    OBVIOUS
  <2>3. P(n) = Append(q, x)
    BY <2>1, <2>2
  <2> HIDE DEF P
  <2>4. PICK g \in HtmlSeqs : g = h \o q
    BY <1>2, <2>1
  <2>5. ReadOn(Rd(g), Rd(h), q)
    BY <1>2, <2>1, <2>4
  <2>6. h \o P(n) = Append(g, x)
    <3>1. h \in Seq(Htmls) /\ q \in Seq(Htmls) /\ x \in Htmls
      BY DEF HtmlSeqs, Htmls
    <3> QED BY <2>3, <2>4, <3>1, ConcatAppend
  <2>7. /\ Append(g, x) \in HtmlSeqs
        /\ Rd(Append(g, x)).open = Rd(g).open
        /\ Rd(Append(g, x)).look = Rd(g).look
        /\ Rd(Append(g, x)).link = Rd(g).link
        /\ Rd(Append(g, x)).links = Rd(g).links
        /\ Rd(Append(g, x)).text = Append(Rd(g).text, x)
        /\ Rd(Append(g, x)).seen
              = Rd(g).seen \cup {[where |-> x.where, look |-> Rd(g).look, link |-> Rd(g).link]}
    BY RdByte
  <2>8. Append(Rd(h).text \o q, x) = Rd(h).text \o Append(q, x)
    <3>1. PICK t \in Seq(ByteSet) : t = Rd(h).text
      BY RdType DEF Readers, ByteSeqs
    <3>2. t \o Append(q, x) = Append(t \o q, x)
      BY ConcatAppend
    <3> QED BY <3>1, <3>2
  <2>9. GlyphsOf(Append(q, x), Rd(h).look, Rd(h).link)
          = GlyphsOf(q, Rd(h).look, Rd(h).link) \cup {[where |-> x.where, look |-> Rd(h).look, link |-> Rd(h).link]}
    <3> DEFINE y == Append(q, x)
               G(z) == [where |-> z.where, look |-> Rd(h).look, link |-> Rd(h).link]
    <3>1. Len(y) = Len(q) + 1 /\ Len(q) \in Nat /\ y[Len(q) + 1] = x /\ \A m \in 1 .. Len(q) : y[m] = q[m]
      OBVIOUS
    <3> HIDE DEF y
    <3>2. {G(y[m]) : m \in 1 .. Len(y)} = {G(q[m]) : m \in 1 .. Len(q)} \cup {G(x)}
      <4>1. \A m \in 1 .. Len(y) : m \in 1 .. Len(q) \/ m = Len(q) + 1
        BY <3>1
      <4>2. 1 .. Len(q) \subseteq 1 .. Len(y) /\ Len(q) + 1 \in 1 .. Len(y)
        BY <3>1
      <4> HIDE DEF G
      <4> QED BY <3>1, <4>1, <4>2
    <3> QED BY <3>2 DEF GlyphsOf, y
  <2>10. ReadOn(Rd(Append(g, x)), Rd(h), Append(q, x))
    BY <2>5, <2>7, <2>8, <2>9 DEF ReadOn
  <2>11. h \o P(n) \in HtmlSeqs /\ ReadOn(Rd(h \o P(n)), Rd(h), P(n))
    BY <2>3, <2>6, <2>7, <2>10
  <2>12. n \in 0 .. L
    BY <1>0
  <2> QED BY <2>11, <2>12
<1>3. 0 .. L \subseteq S
  <2> HIDE DEF S, L
  <2> QED BY <1>0, <1>1, <1>2, IntervalInduction
<1>4. L \in S /\ P(L) = b
  BY <1>0, <1>3
<1> QED BY <1>4

-----------------------------------------------------------------------------
(* Walks over the segments of a line *)

\* The segments as they are put out: a push's may be cut.
ReadySegs == {s \in SegmentSet : s.len <= Len(s.bytes)}
\* Where the output of a line is.
Walks == [i : Nat, off : Nat, closed : BOOLEAN, out : HtmlSeqs]

\* Their fields.
LEMMA SegFields ==
  ASSUME NEW segs \in Seq(ReadySegs), NEW i \in 1 .. Len(segs)
  PROVE  /\ segs[i] \in ReadySegs /\ segs[i].bytes \in Seq(ByteSet) /\ segs[i].len \in Nat
         /\ segs[i].look \in Looks /\ segs[i].len <= Len(segs[i].bytes)
<1>1. segs[i] \in ReadySegs
  OBVIOUS
<1> QED BY <1>1 DEF ReadySegs, SegmentSet

\* Tags.
LEMMA TagType ==
  /\ \A t \in TagNames : Plain(t) \in Htmls
  /\ \A look \in Looks : Html("span", <<0, 0>>, look) \in Htmls
  /\ \A a \in Nat, b \in Nat : Html("a", <<a, b>>, NoLook) \in Htmls
<1>1. \A t \in TagNames, w \in Nat \X Nat, look \in Looks : Html(t, w, look) \in Htmls
  BY DEF Html, Htmls, TagSet
<1>2. "span" \in TagNames /\ "a" \in TagNames
  BY DEF TagNames
<1>3. \A a \in Nat, b \in Nat : <<a, b>> \in Nat \X Nat
  OBVIOUS
<1> HIDE DEF TagNames
<1> QED BY <1>1, <1>2, <1>3, NoLookType DEF Plain

\* A walk by its fields.
LEMMA WalkFields ==
  ASSUME NEW w \in Walks
  PROVE  w.i \in Nat /\ w.off \in Nat /\ w.closed \in BOOLEAN /\ w.out \in HtmlSeqs
  BY DEF Walks

\* Walks, changed in a field.
WithOut(w, o) == [w EXCEPT !.out = o]
\* The steps of a walk, one field at a time.
WithClosed(w, b) == [w EXCEPT !.closed = b]
WithOff(w, n) == [w EXCEPT !.off = n]
AtNext(w) == [w EXCEPT !.i = @ + 1, !.off = 0]

\* What is put out is a field of its own.
LEMMA SetOut ==
  ASSUME NEW w \in Walks, NEW o \in HtmlSeqs
  PROVE  /\ WithOut(w, o) \in Walks /\ WithOut(w, o).out = o
         /\ WithOut(w, o).i = w.i /\ WithOut(w, o).off = w.off /\ WithOut(w, o).closed = w.closed
  BY DEF Walks, WithOut

\* So is closed,
LEMMA SetClosed ==
  ASSUME NEW w \in Walks, NEW b \in BOOLEAN
  PROVE  /\ WithClosed(w, b) \in Walks /\ WithClosed(w, b).out = w.out
         /\ WithClosed(w, b).i = w.i /\ WithClosed(w, b).off = w.off /\ WithClosed(w, b).closed = b
  BY DEF Walks, WithClosed

\* the offset,
LEMMA SetOff ==
  ASSUME NEW w \in Walks, NEW n \in Nat
  PROVE  /\ WithOff(w, n) \in Walks /\ WithOff(w, n).out = w.out
         /\ WithOff(w, n).i = w.i /\ WithOff(w, n).off = n /\ WithOff(w, n).closed = w.closed
  BY DEF Walks, WithOff

\* and the segment.
LEMMA SetNext ==
  ASSUME NEW w \in Walks
  PROVE  /\ AtNext(w) \in Walks /\ AtNext(w).out = w.out
         /\ AtNext(w).i = w.i + 1 /\ AtNext(w).off = 0 /\ AtNext(w).closed = w.closed
<1>1. w.i + 1 \in Nat /\ 0 \in Nat
  BY DEF Walks
<1>2. PICK n \in Nat : n = w.i + 1
  BY <1>1
<1>3. PICK u : u = [w EXCEPT !.i = n]
  OBVIOUS
<1>4. u \in Walks /\ u.out = w.out /\ u.i = n /\ u.off = w.off /\ u.closed = w.closed
  BY <1>3 DEF Walks
<1>5. PICK z \in Nat : z = 0
  OBVIOUS
<1>6. AtNext(w) = WithOff(u, z)
  BY <1>2, <1>3, <1>5 DEF Walks, AtNext, WithOff
<1>7. /\ WithOff(u, z) \in Walks /\ WithOff(u, z).out = u.out
      /\ WithOff(u, z).i = u.i /\ WithOff(u, z).off = z /\ WithOff(u, z).closed = u.closed
  BY <1>4, SetOff
<1> QED BY <1>2, <1>4, <1>5, <1>6, <1>7

\* Emit changes what is put out.
LEMMA EmitType ==
  ASSUME NEW w \in Walks, NEW h \in Htmls
  PROVE  /\ Emit(w, h) \in Walks
         /\ Emit(w, h).out = Append(w.out, h) /\ Emit(w, h).i = w.i
         /\ Emit(w, h).off = w.off /\ Emit(w, h).closed = w.closed
<1>1. Emit(w, h) = WithOut(w, Append(w.out, h))
  BY DEF Emit, Walks, WithOut
<1>2. PICK o \in HtmlSeqs : o = Append(w.out, h)
  BY WalkFields, RdAppend
<1>3. Emit(w, h) = WithOut(w, o)
  BY <1>1, <1>2
<1>4. /\ WithOut(w, o) \in Walks /\ WithOut(w, o).out = o
      /\ WithOut(w, o).i = w.i /\ WithOut(w, o).off = w.off /\ WithOut(w, o).closed = w.closed
  BY SetOut
<1> QED BY <1>2, <1>3, <1>4

\* Panic ends up in what is put out.
LEMMA PanicType ==
  ASSUME NEW w \in Walks
  PROVE  Panic(w) \in Walks /\ Panic(w).i = w.i /\ Panic(w).closed = w.closed
<1>1. Plain("panic") \in Htmls
  BY TagType DEF TagNames
<1> QED BY <1>1, EmitType DEF Panic

\* Where a walk is does not change when a tag is opened or closed.
LEMMA OpenType ==
  ASSUME NEW segs \in Seq(ReadySegs), NEW w \in Walks
  PROVE  MaybeOpen(segs, w) \in Walks /\ MaybeOpen(segs, w).i = w.i
<1>1. CASE ~w.closed
  BY <1>1 DEF MaybeOpen
<1>2. CASE w.closed /\ PastEnd(segs, w)
  BY <1>2, PanicType DEF MaybeOpen
<1>3. CASE w.closed /\ ~PastEnd(segs, w)
  <2>1. w.i + 1 \in 1 .. Len(segs)
    BY <1>3, WalkFields DEF PastEnd
  <2>2. PICK look \in Looks : look = segs[w.i + 1].look
    BY <2>1, SegFields
  <2>3. PICK h \in Htmls : h = Html("span", <<0, 0>>, look)
    BY TagType
  <2>4. MaybeOpen(segs, w) = WithClosed(IF Styled(look) THEN Emit(w, h) ELSE w, FALSE)
    BY <1>3, <2>2, <2>3 DEF MaybeOpen, WithClosed
  <2>5. PICK v \in Walks : v = IF Styled(look) THEN Emit(w, h) ELSE w
    BY EmitType
  <2>6. v.i = w.i
    BY <2>5, EmitType
  <2> QED BY <2>3, <2>4, <2>5, <2>6, SetClosed
<1> QED BY <1>1, <1>2, <1>3, WalkFields

\* MaybeClose remains in its segment.
LEMMA CloseType ==
  ASSUME NEW segs \in Seq(ReadySegs), NEW w \in Walks
  PROVE  MaybeClose(segs, w) \in Walks /\ MaybeClose(segs, w).i = w.i
<1>1. PICK h \in Htmls : h = Plain("/span")
  BY TagType DEF TagNames
<1>2. PICK v \in Walks : v = (IF ~w.closed /\ Styled(segs[w.i + 1].look) THEN Emit(w, h) ELSE w) /\ v.i = w.i
  BY EmitType
<1>3. MaybeClose(segs, w) = WithClosed(v, TRUE)
  BY <1>1, <1>2 DEF MaybeClose, WithClosed
<1> QED BY <1>2, <1>3, SetClosed

\* WriteUpTo, too.
LEMMA WriteType ==
  ASSUME NEW segs \in Seq(ReadySegs), NEW w \in Walks, NEW to, to \in Nat \/ PastEnd(segs, w)
  PROVE  WriteUpTo(segs, w, to) \in Walks /\ WriteUpTo(segs, w, to).i = w.i
<1>1. CASE PastEnd(segs, w) \/ to < w.off \/ to > Len(segs[w.i + 1].bytes)
  BY <1>1, PanicType DEF WriteUpTo
<1>2. CASE ~(PastEnd(segs, w) \/ to < w.off \/ to > Len(segs[w.i + 1].bytes))
  <2>1. w.i + 1 \in 1 .. Len(segs)
    BY <1>2, WalkFields DEF PastEnd
  <2>2. PICK b \in Seq(ByteSet) : b = segs[w.i + 1].bytes
    BY <2>1, SegFields
  <2>3. SubSeq(b, w.off + 1, to) \in Seq(ByteSet)
    BY <1>2, <2>2, WalkFields
  <2>4. PICK s \in Seq(ByteSet) : s = SubSeq(b, w.off + 1, to)
    BY <2>3, Zenon
  <2>5. w.out \o s \in HtmlSeqs
    BY WalkFields, RdBytes
  <2>6. WriteUpTo(segs, w, to) = WithOut(w, w.out \o s)
    BY <1>2, <2>2, <2>4 DEF WriteUpTo, Walks, WithOut
  <2>7. PICK o \in HtmlSeqs : o = w.out \o s
    BY <2>5
  <2> QED BY <2>6, <2>7, SetOut
<1> QED BY <1>1, <1>2

\* The walk past a segment is a walk.
LEMMA WholeType ==
  ASSUME NEW segs \in Seq(ReadySegs), NEW w \in Walks
  PROVE  Whole(segs, w) \in Walks
<1>1. PICK u \in Walks : u = MaybeOpen(segs, w) /\ u.i = w.i
  BY OpenType
<1>2. PICK to : to = segs[w.i + 1].len
  OBVIOUS
<1>3. to \in Nat \/ PastEnd(segs, u)
  <2>1. CASE w.i + 1 \in 1 .. Len(segs)
    BY <1>2, <2>1, SegFields
  <2>2. CASE ~(w.i + 1 \in 1 .. Len(segs))
    BY <1>1, <2>2, WalkFields DEF PastEnd
  <2> QED BY <2>1, <2>2
<1>4. PICK v \in Walks : v = WriteUpTo(segs, u, to)
  BY <1>3, WriteType
<1>5. PICK x \in Walks : x = MaybeClose(segs, v)
  BY CloseType
<1>6. Whole(segs, w) = AtNext(x)
  BY <1>1, <1>2, <1>4, <1>5 DEF Whole, AtNext
<1> QED BY <1>6, SetNext

\* The steps past whole segments, as a typed fold.
WholeFn(segs) == [x \in Walks \X Lengths |-> Whole(segs, x[1])]
\* As many steps as n, and n segments written whole.
Steps(n) == [j \in 1 .. n |-> j]
WalkOn(segs, w, n) == FoldFn(Walks, WholeFn(segs), w, Steps(n))

\* Whole is a step on walks.
LEMMA WholeFnType ==
  ASSUME NEW segs \in Seq(ReadySegs)
  PROVE  IsOp(Walks, Lengths, WholeFn(segs))
<1>1. \A x \in Walks \X Lengths : Whole(segs, x[1]) \in Walks
  BY WholeType
<1> QED BY <1>1 DEF IsOp, WholeFn

\* The numbers up to n.
LEMMA StepsLen ==
  ASSUME NEW n \in Lengths
  PROVE  Steps(n) \in Seq(Lengths) /\ Len(Steps(n)) = n
  BY DEF Steps, Lengths

\* The first of them.
LEMMA StepsCut ==
  ASSUME NEW n \in Lengths, NEW m \in 0 .. n
  PROVE  SubSeq(Steps(n), 1, m) = Steps(m)
  BY DEF Steps, Lengths

\* No steps to a place before.
LEMMA StepsNone ==
  ASSUME NEW n \in Int, n <= 0
  PROVE  Steps(n) \in Seq(Lengths) /\ Len(Steps(n)) = 0
<1>1. 1 .. n = 1 .. 0
  OBVIOUS
<1>2. Steps(n) = Steps(0)
  BY <1>1 DEF Steps
<1>3. PICK z \in Lengths : z = 0
  BY DEF Lengths
<1>4. Steps(z) \in Seq(Lengths) /\ Len(Steps(z)) = z
  BY StepsLen
<1> QED BY <1>2, <1>3, <1>4

\* Steps are numbers.
LEMMA CountType ==
  ASSUME NEW n \in Int
  PROVE  Steps(n) \in Seq(Lengths)
<1>1. n \in Lengths => Steps(n) \in Seq(Lengths)
  BY StepsLen, Zenon
<1>2. n <= 0 => Steps(n) \in Seq(Lengths)
  BY StepsNone, Zenon
<1>3. n \in Lengths \/ n <= 0
  BY DEF Lengths
<1> QED BY <1>1, <1>2, <1>3

\* The walk over whole segments is a typed fold.
LEMMA FoldWholeIs ==
  ASSUME NEW segs \in Seq(ReadySegs), NEW w \in Walks, NEW n \in Int
  PROVE  /\ FoldLeft(LAMBDA u, j : Whole(segs, u), w, [j \in 1 .. n |-> j]) = WalkOn(segs, w, n)
         /\ WalkOn(segs, w, n) \in Walks
<1>1. PICK s \in Seq(Lengths) : s = Steps(n)
  <2>1. Steps(n) \in Seq(Lengths)
    BY CountType, Zenon
  <2> QED BY <2>1, CountType, Zenon
<1>2. PICK op : op = WholeFn(segs)
  OBVIOUS
<1>3. IsOp(Walks, Lengths, op)
  BY <1>2, WholeFnType
<1> DEFINE Good(it) == it = [r \in SUBSET (DOMAIN s) |->
                               IF r = {} THEN w ELSE Whole(segs, it[r \ {Max(r)}])]
           it == CHOOSE it : Good(it)
<1>4. FoldLeft(LAMBDA u, j : Whole(segs, u), w, s) = it[DOMAIN s]
  BY DEF FoldLeft, MapThenFoldSet
<1>5. PICK g \in Iterates(Walks, Lengths, op, w, s) : TRUE
  BY <1>3, IterateExists
<1>6. Good(g)
  BY <1>2, <1>5 DEF Iterates, WholeFn
<1>7. Good(it)
  BY <1>6
<1> HIDE DEF it
<1>8. Iterated(Walks, op, w, s, it)
  <2> SUFFICES ASSUME NEW r \in SUBSET (DOMAIN s)
               PROVE  /\ r = {} => it[r] = w
                      /\ r # {} /\ it[r \ {Max(r)}] \in Walks
                           => it[r] = op[<<it[r \ {Max(r)}], s[Max(r)]>>]
    BY DEF Iterated
  <2>1. it[r] = IF r = {} THEN w ELSE Whole(segs, it[r \ {Max(r)}])
    BY <1>7
  <2>2. r # {} => s[Max(r)] \in Lengths
    BY <1>5 DEF Iterates
  <2> QED BY <1>2, <2>1, <2>2 DEF WholeFn
<1>9. it[DOMAIN s] = FoldFn(Walks, op, w, s) /\ FoldFn(Walks, op, w, s) \in Walks
  BY <1>3, <1>8, IteratedIsFold
<1> QED BY <1>1, <1>2, <1>4, <1>9 DEF WalkOn, Steps

\* One more segment.
LEMMA WalkOnStep ==
  ASSUME NEW segs \in Seq(ReadySegs), NEW w \in Walks, NEW n \in Nat \ {0}
  PROVE  /\ WalkOn(segs, w, n - 1) \in Walks
         /\ WalkOn(segs, w, n) = Whole(segs, WalkOn(segs, w, n - 1))
<1>1. PICK s \in Seq(Lengths) : s = Steps(n)
  <2>1. n \in Int => Steps(n) \in Seq(Lengths)
    BY CountType, Zenon
  <2>2. n \in Int
    OBVIOUS
  <2> QED BY <2>1, <2>2, Zenon
<1>2. Len(s) = n /\ SubSeq(s, 1, n - 1) = Steps(n - 1) /\ SubSeq(s, 1, n) = Steps(n)
  <2>1. n \in Lengths /\ n - 1 \in 0 .. n /\ n \in 0 .. n
    BY DEF Lengths
  <2> QED BY <1>1, <2>1, StepsLen, StepsCut
<1>3. PICK op : op = WholeFn(segs)
  OBVIOUS
<1>4. IsOp(Walks, Lengths, op) /\ n \in 1 .. Len(s)
  BY <1>2, <1>3, WholeFnType
<1>5. /\ FoldFn(Walks, op, w, SubSeq(s, 1, n - 1)) \in Walks
      /\ FoldFn(Walks, op, w, SubSeq(s, 1, n)) = op[<<FoldFn(Walks, op, w, SubSeq(s, 1, n - 1)), s[n]>>]
  BY <1>4, FoldFnPrefix
<1>6. s[n] \in Lengths
  BY <1>2
<1>7. WalkOn(segs, w, n - 1) \in Walks /\ WalkOn(segs, w, n) = op[<<WalkOn(segs, w, n - 1), s[n]>>]
  BY <1>2, <1>3, <1>5 DEF WalkOn
<1> QED BY <1>3, <1>6, <1>7 DEF WholeFn

\* None.
LEMMA WalkOnZero ==
  ASSUME NEW segs \in Seq(ReadySegs), NEW w \in Walks, NEW n \in Int, n <= 0
  PROVE  WalkOn(segs, w, n) = w
<1>1. PICK s \in Seq(Lengths) : s = Steps(n) /\ Len(s) = 0
  <2>1. Steps(n) \in Seq(Lengths)
    BY CountType, Zenon
  <2> QED BY <2>1, StepsNone, Zenon
<1>2. PICK op : op = WholeFn(segs)
  OBVIOUS
<1>3. IsOp(Walks, Lengths, op)
  BY <1>2, WholeFnType
<1>4. FoldFn(Walks, op, w, s) = w
  BY <1>1, <1>3, FoldFnEmpty
<1> QED BY <1>1, <1>2, <1>4 DEF WalkOn

\* OutputTo, as a fold of a function.
LEMMA OutputIs ==
  ASSUME NEW segs \in Seq(ReadySegs), NEW w \in Walks, NEW i \in Nat, NEW off \in Nat
  PROVE  /\ OutputTo(segs, w, i, off)
              = IF off > 0
                THEN WithOff(WriteUpTo(segs, MaybeOpen(segs, WalkOn(segs, w, i - w.i)), off), off)
                ELSE WalkOn(segs, w, i - w.i)
         /\ OutputTo(segs, w, i, off) \in Walks
<1>1. PICK n \in Int : n = i - w.i
  BY WalkFields
<1>2. PICK v \in Walks : v = WalkOn(segs, w, n)
  BY FoldWholeIs
<1>3. v = FoldLeft(LAMBDA u, j : Whole(segs, u), w, [j \in 1 .. n |-> j])
  BY <1>2, FoldWholeIs
<1>4. OutputTo(segs, w, i, off)
        = IF off > 0 THEN WithOff(WriteUpTo(segs, MaybeOpen(segs, v), off), off) ELSE v
  BY <1>1, <1>3 DEF OutputTo, WithOff
<1>5. PICK x \in Walks : x = WriteUpTo(segs, MaybeOpen(segs, v), off)
  BY OpenType, WriteType
<1>6. WithOff(x, off) \in Walks
  BY SetOff
<1> QED BY <1>1, <1>2, <1>4, <1>5, <1>6

-----------------------------------------------------------------------------
(* The text of a line up to a place in its segments *)

\* The bytes of the first n segments, and of those up to a place in one.
JoinFn == [x \in ByteSeqs \X ReadySegs |-> x[1] \o SubSeq(x[2].bytes, 1, x[2].len)]
\* The text of the first n segments, and the text up to a place.
Joined(segs, n) == FoldFn(ByteSeqs, JoinFn, NoBytes, SubSeq(segs, 1, n))
TextUpTo(segs, i, off) ==
  IF i < Len(segs) THEN Joined(segs, i) \o SubSeq(segs[i + 1].bytes, 1, off) ELSE Joined(segs, i)

\* Two texts make one.
LEMMA ConcatType ==
  ASSUME NEW a \in Seq(ByteSet), NEW b \in Seq(ByteSet)
  PROVE  a \o b \in Seq(ByteSet)
  OBVIOUS

\* A part of a text.
LEMMA PartOf ==
  ASSUME NEW b \in Seq(ByteSet), NEW m \in 0 .. Len(b), NEW n \in m .. Len(b)
  PROVE  /\ SubSeq(b, m + 1, n) \in Seq(ByteSet)
         /\ SubSeq(b, 1, m) \in Seq(ByteSet)
         /\ SubSeq(b, 1, m) \o SubSeq(b, m + 1, n) = SubSeq(b, 1, n)
         /\ Len(SubSeq(b, m + 1, n)) = n - m
         /\ \A j \in 1 .. n - m : SubSeq(b, m + 1, n)[j] = b[m + j]
<1>1. PICK u : u = SubSeq(b, 1, m) \o SubSeq(b, m + 1, n)
  OBVIOUS
<1>2. PICK v : v = SubSeq(b, 1, n)
  OBVIOUS
<1>3. SubSeq(b, m + 1, n) \in Seq(ByteSet) /\ SubSeq(b, 1, m) \in Seq(ByteSet)
  OBVIOUS
<1>4. Len(SubSeq(b, m + 1, n)) = n - m /\ \A j \in 1 .. n - m : SubSeq(b, m + 1, n)[j] = b[m + j]
  OBVIOUS
<1>5. Len(SubSeq(b, 1, m)) = m /\ \A j \in 1 .. m : SubSeq(b, 1, m)[j] = b[j]
  OBVIOUS
<1>6. Len(u) = n /\ Len(v) = n /\ u \in Seq(ByteSet) /\ v \in Seq(ByteSet)
  BY <1>1, <1>2, <1>3, <1>4, <1>5
<1>7. ASSUME NEW j \in 1 .. n PROVE u[j] = v[j]
  <2>0. v[j] = b[j]
    BY <1>2
  <2>1. CASE j \in 1 .. m
    <3>1. u[j] = SubSeq(b, 1, m)[j]
      BY <1>1, <1>3, <1>5, <2>1
    <3> QED BY <1>5, <2>0, <2>1, <3>1
  <2>2. CASE j \in m + 1 .. n
    <3>0. PICK y \in Seq(ByteSet) : y = SubSeq(b, m + 1, n) /\ Len(y) = n - m
      <4>1. SubSeq(b, m + 1, n) \in Seq(ByteSet) /\ Len(SubSeq(b, m + 1, n)) = n - m
        BY <1>3, <1>4
      <4> QED BY <4>1, Zenon
    <3>a. PICK x \in Seq(ByteSet) : x = SubSeq(b, 1, m) /\ Len(x) = m
      <4>1. SubSeq(b, 1, m) \in Seq(ByteSet) /\ Len(SubSeq(b, 1, m)) = m
        BY <1>3, <1>5
      <4> QED BY <4>1, Zenon
    <3>b. (x \o y)[j] = y[j - m]
      <4>1. j \in 1 .. Len(x) + Len(y) /\ j > Len(x)
        BY <2>2, <3>0, <3>a
      <4>2. (x \o y)[j] = y[j - Len(x)]
        BY <4>1
      <4> QED BY <4>2, <3>a
    <3>1. u[j] = SubSeq(b, m + 1, n)[j - m]
      BY <1>1, <3>0, <3>a, <3>b
    <3>2. j - m \in 1 .. n - m /\ m + (j - m) = j
      BY <2>2
    <3> QED BY <1>4, <2>0, <3>1, <3>2
  <2> QED BY <2>1, <2>2
<1>8. u = v
  BY <1>6, <1>7, SeqEqual
<1> QED BY <1>1, <1>2, <1>3, <1>4, <1>8

\* Joining is a step on texts.
LEMMA JoinFnType == IsOp(ByteSeqs, ReadySegs, JoinFn) /\ NoBytes \in ByteSeqs
<1>1. ASSUME NEW b \in Seq(ByteSet), NEW s \in ReadySegs
      PROVE  b \o SubSeq(s.bytes, 1, s.len) \in Seq(ByteSet)
  <2>1. s.bytes \in Seq(ByteSet) /\ s.len \in 0 .. Len(s.bytes)
    BY DEF ReadySegs, SegmentSet
  <2>2. SubSeq(s.bytes, 1, s.len) \in Seq(ByteSet)
    BY <2>1, PrefixOf
  <2> QED BY <2>2, ConcatType
<1> QED BY <1>1 DEF IsOp, JoinFn, ByteSeqs, NoBytes

\* One more segment,
LEMMA JoinedStep ==
  ASSUME NEW segs \in Seq(ReadySegs), NEW n \in 1 .. Len(segs)
  PROVE  /\ Joined(segs, n - 1) \in Seq(ByteSet)
         /\ Joined(segs, n) = Joined(segs, n - 1) \o SubSeq(segs[n].bytes, 1, segs[n].len)
<1>1. /\ FoldFn(ByteSeqs, JoinFn, NoBytes, SubSeq(segs, 1, n - 1)) \in ByteSeqs
      /\ FoldFn(ByteSeqs, JoinFn, NoBytes, SubSeq(segs, 1, n))
           = JoinFn[<<FoldFn(ByteSeqs, JoinFn, NoBytes, SubSeq(segs, 1, n - 1)), segs[n]>>]
  BY JoinFnType, FoldFnPrefix
<1>2. Joined(segs, n - 1) \in ByteSeqs /\ Joined(segs, n) = JoinFn[<<Joined(segs, n - 1), segs[n]>>]
  BY <1>1 DEF Joined
<1>3. segs[n] \in ReadySegs
  OBVIOUS
<1>4. JoinFn[<<Joined(segs, n - 1), segs[n]>>] = Joined(segs, n - 1) \o SubSeq(segs[n].bytes, 1, segs[n].len)
  BY <1>2, <1>3 DEF JoinFn
<1>5. Joined(segs, n - 1) \in Seq(ByteSet)
  BY <1>2 DEF ByteSeqs
<1> QED BY <1>2, <1>4, <1>5

\* and none.
LEMMA JoinedZero ==
  ASSUME NEW segs \in Seq(ReadySegs)
  PROVE  Joined(segs, 0) = <<>>
<1>1. PICK e \in Seq(ReadySegs) : e = SubSeq(segs, 1, 0)
  <2>1. SubSeq(segs, 1, 0) \in Seq(ReadySegs)
    OBVIOUS
  <2> QED BY <2>1, Zenon
<1>2. Len(e) = 0
  BY <1>1
<1>3. FoldFn(ByteSeqs, JoinFn, NoBytes, e) = NoBytes
  BY <1>2, JoinFnType, FoldFnEmpty
<1> QED BY <1>1, <1>3 DEF Joined, NoBytes

\* Joined segments are a text.
LEMMA JoinedType ==
  ASSUME NEW segs \in Seq(ReadySegs), NEW n \in 0 .. Len(segs)
  PROVE  Joined(segs, n) \in Seq(ByteSet)
<1>1. PICK q \in Seq(ReadySegs) : q = SubSeq(segs, 1, n)
  <2>1. SubSeq(segs, 1, n) \in Seq(ReadySegs)
    OBVIOUS
  <2> QED BY <2>1, Zenon
<1>2. FoldFn(ByteSeqs, JoinFn, NoBytes, q) \in ByteSeqs
  BY JoinFnType, FoldFnType
<1> QED BY <1>1, <1>2 DEF Joined, ByteSeqs

\* Four texts, one after the other.
JoinsUp(s, j, p, q) == (s \o (j \o p)) \o q = s \o (j \o (p \o q))

\* However they are put together.
LEMMA FourParts ==
  ASSUME NEW s \in Seq(ByteSet), NEW j \in Seq(ByteSet), NEW p \in Seq(ByteSet), NEW q \in Seq(ByteSet)
  PROVE  JoinsUp(s, j, p, q)
<1>1. PICK jp \in Seq(ByteSet) : jp = j \o p
  BY ConcatType
<1>2. (j \o p) \o q = j \o (p \o q)
  BY BytesAssoc, ZenonT(60)
<1>3. ASSUME NEW u \in Seq(ByteSet) PROVE (s \o u) \o q = s \o (u \o q)
  BY BytesAssoc, SMTT(40)
<1> QED BY <1>1, <1>2, <1>3 DEF JoinsUp

\* Writing on, within a segment, and to its end.
LEMMA TextWithin ==
  ASSUME NEW segs \in Seq(ReadySegs), NEW i \in Nat, i < Len(segs), NEW pre \in Seq(ByteSet),
         NEW off \in Nat, NEW to \in off .. segs[i + 1].len
  PROVE  /\ SubSeq(segs[i + 1].bytes, off + 1, to) \in Seq(ByteSet)
         /\ (pre \o TextUpTo(segs, i, off)) \o SubSeq(segs[i + 1].bytes, off + 1, to) = pre \o TextUpTo(segs, i, to)
<1>1. i + 1 \in 1 .. Len(segs) /\ i \in 0 .. Len(segs)
  OBVIOUS
<1>2. PICK b \in Seq(ByteSet) : b = segs[i + 1].bytes
  BY <1>1, SegFields
<1>3. to \in off .. Len(b) /\ off \in 0 .. Len(b)
  <2>1. segs[i + 1].len \in Nat /\ segs[i + 1].len <= Len(b) /\ Len(b) \in Nat
    BY <1>1, <1>2, SegFields
  <2> QED BY <2>1
<1>4. PICK p \in Seq(ByteSet) : p = SubSeq(b, 1, off)
  <2>1. SubSeq(b, 1, off) \in Seq(ByteSet)
    BY <1>3, PartOf
  <2> QED BY <2>1, Zenon
<1>5. PICK q \in Seq(ByteSet) : q = SubSeq(b, off + 1, to)
  <2>1. SubSeq(b, off + 1, to) \in Seq(ByteSet)
    BY <1>3, PartOf
  <2> QED BY <2>1, Zenon
<1>6. p \o q = SubSeq(b, 1, to)
  BY <1>3, <1>4, <1>5, PartOf
<1>7. PICK j \in Seq(ByteSet) : j = Joined(segs, i)
  <2>1. Joined(segs, i) \in Seq(ByteSet)
    BY <1>1, JoinedType
  <2> QED BY <2>1, Zenon
<1>8. PICK r \in Seq(ByteSet) : r = pre
  OBVIOUS
<1>9. JoinsUp(r, j, p, q)
  BY FourParts
<1>11. TextUpTo(segs, i, off) = j \o p /\ TextUpTo(segs, i, to) = j \o (p \o q)
  BY <1>2, <1>4, <1>6, <1>7 DEF TextUpTo
<1> QED BY <1>2, <1>5, <1>8, <1>9, <1>11 DEF JoinsUp

\* The end of a segment is the begin of the next.
LEMMA TextAtEnd ==
  ASSUME NEW segs \in Seq(ReadySegs), NEW i \in Nat, i < Len(segs)
  PROVE  TextUpTo(segs, i, segs[i + 1].len) = TextUpTo(segs, i + 1, 0)
<1>1. PICK n \in 1 .. Len(segs) : n = i + 1 /\ n - 1 = i
  OBVIOUS
<1>2. Joined(segs, n) = Joined(segs, n - 1) \o SubSeq(segs[n].bytes, 1, segs[n].len)
  BY JoinedStep
<1>3. TextUpTo(segs, i, segs[i + 1].len) = Joined(segs, n)
  BY <1>1, <1>2 DEF TextUpTo
<1>4. TextUpTo(segs, n, 0) = Joined(segs, n)
  <2>1. CASE n < Len(segs)
    <3>1. PICK b \in Seq(ByteSet) : b = segs[n + 1].bytes
      <4>1. n + 1 \in 1 .. Len(segs)
        BY <2>1
      <4> QED BY <4>1, SegFields
    <3>2. PICK j \in Seq(ByteSet) : j = Joined(segs, n)
      <4>1. n \in 0 .. Len(segs)
        OBVIOUS
      <4>2. Joined(segs, n) \in Seq(ByteSet)
        BY <4>1, JoinedType
      <4> QED BY <4>2, Zenon
    <3>3. j \o SubSeq(b, 1, 0) = j
      OBVIOUS
    <3> QED BY <2>1, <3>1, <3>2, <3>3 DEF TextUpTo
  <2>2. CASE ~(n < Len(segs))
    BY <2>2 DEF TextUpTo
  <2> QED BY <2>1, <2>2
<1> QED BY <1>1, <1>3, <1>4

-----------------------------------------------------------------------------
(* Reading tags *)

\* A span is opened,
LEMMA RdSpan ==
  ASSUME NEW h \in HtmlSeqs, NEW look \in Looks, NEW r, r = Rd(Append(h, Html("span", <<0, 0>>, look)))
  PROVE  /\ r.open = Append(Rd(h).open, "span") /\ r.look = look /\ r.link = Rd(h).link
         /\ r.links = Rd(h).links /\ r.text = Rd(h).text /\ r.seen = Rd(h).seen
<1>1. PICK x \in Htmls : x = Html("span", <<0, 0>>, look)
  BY TagType
<1>2. r = ReadHtml(Rd(h), x)
  BY <1>1, RdAppend
<1>3. x.tag = "span" /\ x.look = look
  BY <1>1 DEF Html
<1>4. PICK q : q = Rd(h)
  OBVIOUS
<1>5. Nest(q.open, x) = Append(q.open, "span")
  BY <1>3 DEF Nest
<1>6. r = ReadHtml(q, x)
  BY <1>2, <1>4
<1>7. /\ r.open = Append(q.open, "span") /\ r.look = look /\ r.link = q.link
      /\ r.links = q.links /\ r.text = q.text /\ r.seen = q.seen
  BY <1>3, <1>5, <1>6 DEF ReadHtml
<1> QED BY <1>4, <1>7

\* and closed;
LEMMA RdEndSpan ==
  ASSUME NEW h \in HtmlSeqs, NEW base \in Stacks, Rd(h).open = Append(base, "span"),
         NEW r, r = Rd(Append(h, Plain("/span")))
  PROVE  /\ r.open = base /\ r.look = NoLook /\ r.link = Rd(h).link
         /\ r.links = Rd(h).links /\ r.text = Rd(h).text /\ r.seen = Rd(h).seen
<1>1. PICK x \in Htmls : x = Plain("/span")
  BY TagType DEF TagNames
<1>2. r = ReadHtml(Rd(h), x)
  BY <1>1, RdAppend
<1>3. x.tag = "/span"
  BY <1>1 DEF Plain, Html
<1>4. PICK s : s = Append(base, "span")
  OBVIOUS
<1>5. s # <<>> /\ Last(s) = "span" /\ Front(s) = base
  BY <1>4 DEF Last, Front, Stacks
<1>6. Nest(s, x) = base
  BY <1>3, <1>5 DEF Nest, CloserOf
<1> QED BY <1>2, <1>3, <1>4, <1>6 DEF ReadHtml

\* a link is opened where there is none,
LEMMA RdLink ==
  ASSUME NEW h \in HtmlSeqs, NEW a \in Nat, NEW b \in Nat, ~Contains(Rd(h).open, "a"),
         NEW r, r = Rd(Append(h, Html("a", <<a, b>>, NoLook)))
  PROVE  /\ r.open = Append(Rd(h).open, "a") /\ r.look = Rd(h).look /\ r.link = <<a, b>>
         /\ r.links = Rd(h).links \cup {<<a, b>>} /\ r.text = Rd(h).text /\ r.seen = Rd(h).seen
<1>1. PICK x \in Htmls : x = Html("a", <<a, b>>, NoLook)
  BY TagType
<1>2. r = ReadHtml(Rd(h), x)
  BY <1>1, RdAppend
<1>3. x.tag = "a" /\ x.where = <<a, b>>
  BY <1>1 DEF Html
<1>4. PICK q : q = Rd(h)
  OBVIOUS
<1>5. Nest(q.open, x) = Append(q.open, "a")
  BY <1>3, <1>4 DEF Nest
<1>6. r = ReadHtml(q, x)
  BY <1>2, <1>4
<1>7. /\ r.open = Append(q.open, "a") /\ r.look = q.look /\ r.link = <<a, b>>
      /\ r.links = q.links \cup {<<a, b>>} /\ r.text = q.text /\ r.seen = q.seen
  BY <1>3, <1>5, <1>6 DEF ReadHtml
<1> QED BY <1>4, <1>7

\* and closed.
LEMMA RdEndLink ==
  ASSUME NEW h \in HtmlSeqs, NEW base \in Stacks, Rd(h).open = Append(base, "a"),
         NEW r, r = Rd(Append(h, Plain("/a")))
  PROVE  /\ r.open = base /\ r.look = Rd(h).look /\ r.link = <<0, 0>>
         /\ r.links = Rd(h).links /\ r.text = Rd(h).text /\ r.seen = Rd(h).seen
<1>1. PICK x \in Htmls : x = Plain("/a")
  BY TagType DEF TagNames
<1>2. r = ReadHtml(Rd(h), x)
  BY <1>1, RdAppend
<1>3. x.tag = "/a"
  BY <1>1 DEF Plain, Html
<1>4. PICK s : s = Append(base, "a")
  OBVIOUS
<1>5. s # <<>> /\ Last(s) = "a" /\ Front(s) = base
  BY <1>4 DEF Last, Front, Stacks
<1>6. Nest(s, x) = base
  BY <1>3, <1>5 DEF Nest, CloserOf
<1> QED BY <1>2, <1>3, <1>4, <1>6 DEF ReadHtml

-----------------------------------------------------------------------------
(* What a walk has shown *)

\* A scene: the tags and the link around a walk, the links before it, the text
\* before the line, and the glyphs that may be seen.
Scenes == [base : Stacks, link : Nat \X Nat, links : SUBSET (Nat \X Nat),
           text : ByteSeqs, right : SUBSET Glyphs]

\* The walk is in a span.
InSpan(segs, w) == ~w.closed /\ Styled(segs[w.i + 1].look)

\* What was put out on the walk reads as the scene, and the text so far.
SeenAs(segs, w, z) ==
  /\ Rd(w.out).open = IF InSpan(segs, w) THEN Append(z.base, "span") ELSE z.base
  /\ Rd(w.out).look = IF InSpan(segs, w) THEN segs[w.i + 1].look ELSE NoLook
  /\ Rd(w.out).link = z.link /\ Rd(w.out).links = z.links
  /\ Rd(w.out).text = z.text \o TextUpTo(segs, w.i, w.off)
  /\ Rd(w.out).seen \subseteq z.right

\* The walk is at a place in the segments, and shows what it should.
Walked(segs, w, z) ==
  /\ w \in Walks /\ w.i <= Len(segs)
  /\ w.i = Len(segs) => w.closed /\ w.off = 0
  /\ w.i < Len(segs) => w.off <= segs[w.i + 1].len
  /\ SeenAs(segs, w, z)

\* The look of a segment on the screen, and its glyphs between two bytes.
ShownLook(look) == IF Styled(look) THEN look ELSE NoLook
\* The bytes of seg from m to n are right to be shown as they are.
Right(seg, m, n, z) ==
  \A k \in m + 1 .. n :
    [where |-> seg.bytes[k].where, look |-> ShownLook(seg.look), link |-> z.link] \in z.right

\* MaybeOpen opens a span if the segment has a look, and only once.
LEMMA OpenStep ==
  ASSUME NEW segs \in Seq(ReadySegs), NEW z, z \in Scenes, NEW w, Walked(segs, w, z), w.i < Len(segs)
  PROVE  /\ Walked(segs, MaybeOpen(segs, w), z)
         /\ MaybeOpen(segs, w).i = w.i /\ MaybeOpen(segs, w).off = w.off
         /\ MaybeOpen(segs, w).closed = FALSE
<1>1. w \in Walks /\ w.off <= segs[w.i + 1].len /\ SeenAs(segs, w, z)
  BY DEF Walked
<1>2. CASE ~w.closed
  <2>1. MaybeOpen(segs, w) = w /\ w.closed = FALSE
    BY <1>1, <1>2, WalkFields DEF MaybeOpen
  <2> QED BY <2>1
<1>3. CASE w.closed
  <2>1. w.i + 1 \in 1 .. Len(segs) /\ w.i \in Nat /\ w.out \in HtmlSeqs
    BY <1>1, WalkFields
  <2>2. PICK look \in Looks : look = segs[w.i + 1].look
    BY <2>1, SegFields
  <2>3. ~PastEnd(segs, w)
    BY <2>1 DEF PastEnd
  <2>4. PICK h \in Htmls : h = Html("span", <<0, 0>>, look)
    BY TagType
  <2>5. MaybeOpen(segs, w) = WithClosed(IF Styled(look) THEN Emit(w, h) ELSE w, FALSE)
    BY <1>3, <2>2, <2>3, <2>4 DEF MaybeOpen, WithClosed
  <2>6. ~InSpan(segs, w)
    BY <1>3 DEF InSpan
  <2>7. CASE Styled(look)
    <3>1. PICK u \in Walks : /\ u = Emit(w, h) /\ u.out = Append(w.out, h)
                             /\ u.i = w.i /\ u.off = w.off /\ u.closed = w.closed
      BY <1>1, EmitType
    <3>2. PICK v \in Walks : /\ v = WithClosed(u, FALSE) /\ v.out = u.out
                             /\ v.i = u.i /\ v.off = u.off /\ v.closed = FALSE
      BY SetClosed
    <3>3. MaybeOpen(segs, w) = v
      BY <2>5, <2>7, <3>1, <3>2
    <3>4. PICK r : r = Rd(v.out)
      OBVIOUS
    <3>5. /\ r.open = Append(Rd(w.out).open, "span") /\ r.look = look /\ r.link = Rd(w.out).link
          /\ r.links = Rd(w.out).links /\ r.text = Rd(w.out).text /\ r.seen = Rd(w.out).seen
      <4>1. r = Rd(Append(w.out, Html("span", <<0, 0>>, look)))
        BY <2>4, <3>1, <3>2, <3>4
      <4> QED BY <2>1, <4>1, RdSpan
    <3>6. InSpan(segs, v)
      BY <2>2, <2>7, <3>1, <3>2 DEF InSpan
    <3>7. SeenAs(segs, v, z)
      BY <1>1, <2>2, <2>6, <3>1, <3>2, <3>4, <3>5, <3>6 DEF SeenAs
    <3>8. v.i # Len(segs) /\ v.i <= Len(segs) /\ v.off <= segs[v.i + 1].len
      <4>1. v.i = w.i /\ v.off = w.off
        BY <3>1, <3>2
      <4>2. w.i # Len(segs) /\ w.i <= Len(segs)
        BY <2>1
      <4> QED BY <1>1, <4>1, <4>2
    <3>9. Walked(segs, v, z)
      BY <3>7, <3>8 DEF Walked
    <3> QED BY <3>1, <3>2, <3>3, <3>9
  <2>8. CASE ~Styled(look)
    <3>1. PICK v \in Walks : /\ v = WithClosed(w, FALSE) /\ v.out = w.out
                             /\ v.i = w.i /\ v.off = w.off /\ v.closed = FALSE
      BY <1>1, SetClosed
    <3>2. MaybeOpen(segs, w) = v
      BY <2>5, <2>8, <3>1
    <3>3. ~InSpan(segs, v)
      BY <2>2, <2>8, <3>1 DEF InSpan
    <3>4. SeenAs(segs, v, z)
      BY <1>1, <2>6, <3>1, <3>3 DEF SeenAs
    <3>5. v.i # Len(segs) /\ v.i <= Len(segs) /\ v.off <= segs[v.i + 1].len
      <4>1. v.i = w.i /\ v.off = w.off
        BY <3>1
      <4>2. w.i # Len(segs) /\ w.i <= Len(segs)
        BY <2>1
      <4> QED BY <1>1, <4>1, <4>2
    <3>6. Walked(segs, v, z)
      BY <3>4, <3>5 DEF Walked
    <3> QED BY <3>1, <3>2, <3>6
  <2> QED BY <2>7, <2>8
<1> QED BY <1>1, <1>2, <1>3, WalkFields

\* MaybeClose closes it, only if it is open.
LEMMA CloseStep ==
  ASSUME NEW segs \in Seq(ReadySegs), NEW z, z \in Scenes, NEW w, Walked(segs, w, z)
  PROVE  /\ Walked(segs, MaybeClose(segs, w), z)
         /\ MaybeClose(segs, w).i = w.i /\ MaybeClose(segs, w).off = w.off
         /\ MaybeClose(segs, w).closed = TRUE
<1>1. w \in Walks /\ SeenAs(segs, w, z) /\ w.out \in HtmlSeqs
  BY WalkFields DEF Walked
<1>2. PICK h \in Htmls : h = Plain("/span")
  BY TagType DEF TagNames
<1>3. MaybeClose(segs, w) = WithClosed(IF InSpan(segs, w) THEN Emit(w, h) ELSE w, TRUE)
  BY <1>2 DEF MaybeClose, WithClosed, InSpan
<1>4. CASE InSpan(segs, w)
  <2>1. PICK u \in Walks : /\ u = Emit(w, h) /\ u.out = Append(w.out, h)
                           /\ u.i = w.i /\ u.off = w.off /\ u.closed = w.closed
    BY <1>1, EmitType
  <2>2. PICK v \in Walks : /\ v = WithClosed(u, TRUE) /\ v.out = u.out
                           /\ v.i = u.i /\ v.off = u.off /\ v.closed = TRUE
    BY SetClosed
  <2>3. MaybeClose(segs, w) = v
    BY <1>3, <1>4, <2>1, <2>2
  <2>4. PICK base \in Stacks : base = z.base
    BY DEF Scenes
  <2>5. PICK r : r = Rd(v.out)
    OBVIOUS
  <2>6. /\ r.open = base /\ r.look = NoLook /\ r.link = Rd(w.out).link
        /\ r.links = Rd(w.out).links /\ r.text = Rd(w.out).text /\ r.seen = Rd(w.out).seen
    <3>1. r = Rd(Append(w.out, Plain("/span")))
      BY <1>2, <2>1, <2>2, <2>5
    <3>2. Rd(w.out).open = Append(base, "span")
      BY <1>1, <1>4, <2>4 DEF SeenAs
    <3> QED BY <1>1, <3>1, <3>2, RdEndSpan
  <2>7. ~InSpan(segs, v)
    BY <2>2 DEF InSpan
  <2>8. SeenAs(segs, v, z)
    BY <1>1, <2>1, <2>2, <2>4, <2>5, <2>6, <2>7 DEF SeenAs
  <2> QED BY <2>1, <2>2, <2>3, <2>8 DEF Walked
<1>5. CASE ~InSpan(segs, w)
  <2>1. PICK v \in Walks : /\ v = WithClosed(w, TRUE) /\ v.out = w.out
                           /\ v.i = w.i /\ v.off = w.off /\ v.closed = TRUE
    BY <1>1, SetClosed
  <2>2. MaybeClose(segs, w) = v
    BY <1>3, <1>5, <2>1
  <2>3. ~InSpan(segs, v)
    BY <2>1 DEF InSpan
  <2>4. SeenAs(segs, v, z)
    BY <1>1, <1>5, <2>1, <2>3 DEF SeenAs
  <2> QED BY <2>1, <2>2, <2>4 DEF Walked
<1> QED BY <1>4, <1>5

\* The bytes from where a walk is up to another place of the segment.
LEMMA WriteStep ==
  ASSUME NEW segs \in Seq(ReadySegs), NEW z, z \in Scenes, NEW w, Walked(segs, w, z), w.i < Len(segs),
         w.closed = FALSE, NEW to \in w.off .. segs[w.i + 1].len,
         Right(segs[w.i + 1], w.off, to, z)
  PROVE  /\ WriteUpTo(segs, w, to) \in Walks
         /\ WriteUpTo(segs, w, to).i = w.i /\ WriteUpTo(segs, w, to).off = w.off
         /\ WriteUpTo(segs, w, to).closed = FALSE
         /\ Walked(segs, WithOff(WriteUpTo(segs, w, to), to), z)
<1>1. w \in Walks /\ SeenAs(segs, w, z) /\ w.out \in HtmlSeqs /\ w.i \in Nat /\ w.off \in Nat
  BY WalkFields DEF Walked
<1>2. w.i + 1 \in 1 .. Len(segs)
  BY <1>1
<1>3. PICK b \in Seq(ByteSet) : b = segs[w.i + 1].bytes
  BY <1>2, SegFields
<1>4. segs[w.i + 1].len \in Nat /\ segs[w.i + 1].len <= Len(b)
  BY <1>2, <1>3, SegFields
<1>5. to \in Nat /\ w.off <= to /\ to <= Len(b) /\ Len(b) \in Nat
  BY <1>1, <1>4
<1>6. PICK s \in Seq(ByteSet) : s = SubSeq(b, w.off + 1, to)
  <2>1. SubSeq(b, w.off + 1, to) \in Seq(ByteSet)
    BY <1>1, <1>5
  <2> QED BY <2>1, Zenon
<1>7. PICK o \in HtmlSeqs : o = w.out \o s /\ ReadOn(Rd(o), Rd(w.out), s)
  BY <1>1, RdBytes
<1>8. WriteUpTo(segs, w, to) = WithOut(w, o)
  <2>1. ~(PastEnd(segs, w) \/ to < w.off \/ to > Len(segs[w.i + 1].bytes))
    BY <1>1, <1>3, <1>5 DEF PastEnd
  <2> QED BY <1>1, <1>3, <1>6, <1>7, <2>1 DEF WriteUpTo, WithOut, Walks
<1>9. PICK u \in Walks : /\ u = WithOut(w, o) /\ u.out = o
                         /\ u.i = w.i /\ u.off = w.off /\ u.closed = w.closed
  BY <1>1, SetOut
<1>10. PICK v \in Walks : /\ v = WithOff(u, to) /\ v.out = u.out
                          /\ v.i = u.i /\ v.off = to /\ v.closed = u.closed
  BY <1>5, SetOff
<1>11. InSpan(segs, v) <=> InSpan(segs, w)
  BY <1>9, <1>10 DEF InSpan
<1>12. Rd(w.out).look = ShownLook(segs[w.i + 1].look)
  BY <1>1 DEF SeenAs, InSpan, ShownLook
<1>13. GlyphsOf(s, Rd(w.out).look, Rd(w.out).link) \subseteq z.right
  <2>1. Rd(w.out).link = z.link
    BY <1>1 DEF SeenAs
  <2>2. Len(s) = to - w.off /\ \A k \in 1 .. to - w.off : s[k] = b[w.off + k]
    <3>1. w.off \in 0 .. Len(b) /\ to \in w.off .. Len(b)
      BY <1>1, <1>5
    <3> QED BY <1>6, <3>1, PartOf
  <2>3. ASSUME NEW k \in 1 .. Len(s)
        PROVE  [where |-> s[k].where, look |-> Rd(w.out).look, link |-> Rd(w.out).link] \in z.right
    <3>1. w.off + k \in w.off + 1 .. to /\ s[k] = b[w.off + k]
      BY <1>1, <1>5, <2>2, SMTT(40)
    <3> QED BY <1>3, <1>12, <2>1, <3>1 DEF Right
  <2> QED BY <2>3 DEF GlyphsOf
<1>14. Rd(o).text = z.text \o TextUpTo(segs, w.i, to)
  <2>1. PICK pre \in Seq(ByteSet) : pre = z.text
    BY DEF Scenes, ByteSeqs
  <2>2. (pre \o TextUpTo(segs, w.i, w.off)) \o SubSeq(segs[w.i + 1].bytes, w.off + 1, to)
          = pre \o TextUpTo(segs, w.i, to)
    BY <1>1, TextWithin
  <2> QED BY <1>1, <1>3, <1>6, <1>7, <2>1, <2>2, ZenonT(60) DEF SeenAs, ReadOn
<1>15. SeenAs(segs, v, z)
  BY <1>1, <1>7, <1>9, <1>10, <1>11, <1>13, <1>14, ZenonT(60) DEF SeenAs, ReadOn
<1>16. Walked(segs, v, z)
  <2>1. v.i # Len(segs) /\ v.off <= segs[v.i + 1].len /\ v.i <= Len(segs)
    BY <1>1, <1>2, <1>4, <1>9, <1>10
  <2> QED BY <1>15, <2>1 DEF Walked
<1> QED BY <1>8, <1>9, <1>10, <1>16

\* The rest of a segment.
LEMMA WholeStep ==
  ASSUME NEW segs \in Seq(ReadySegs), NEW z, z \in Scenes, NEW w, Walked(segs, w, z), w.i < Len(segs),
         Right(segs[w.i + 1], w.off, segs[w.i + 1].len, z)
  PROVE  /\ Walked(segs, Whole(segs, w), z)
         /\ Whole(segs, w).i = w.i + 1 /\ Whole(segs, w).off = 0 /\ Whole(segs, w).closed = TRUE
<1>1. w \in Walks /\ w.i \in Nat /\ w.off \in Nat /\ w.off <= segs[w.i + 1].len
  BY WalkFields DEF Walked
<1>2. PICK u : u = MaybeOpen(segs, w)
  OBVIOUS
<1>3. Walked(segs, u, z) /\ u.i = w.i /\ u.off = w.off /\ u.closed = FALSE
  BY <1>2, OpenStep
<1>4. PICK to : to = segs[w.i + 1].len
  OBVIOUS
<1>5. to \in Nat /\ w.i + 1 \in 1 .. Len(segs)
  BY <1>1, <1>4, SegFields
<1>6. PICK v : v = WriteUpTo(segs, u, to)
  OBVIOUS
<1>7. v \in Walks /\ v.i = w.i /\ v.closed = FALSE /\ Walked(segs, WithOff(v, to), z)
  <2>1. to \in u.off .. segs[u.i + 1].len /\ Right(segs[u.i + 1], u.off, to, z) /\ u.i < Len(segs)
    BY <1>1, <1>3, <1>4, <1>5
  <2> QED BY <1>3, <1>6, <2>1, WriteStep
<1>8. PICK x \in Walks : /\ x = WithOff(v, to) /\ x.out = v.out /\ x.i = v.i /\ x.off = to
                         /\ x.closed = v.closed
  BY <1>5, <1>7, SetOff
<1>9. PICK y : y = MaybeClose(segs, x)
  OBVIOUS
<1>10. Walked(segs, y, z) /\ y.i = w.i /\ y.off = to /\ y.closed = TRUE
  <2>1. Walked(segs, x, z)
    BY <1>7, <1>8
  <2>2. Walked(segs, y, z) /\ y.i = x.i /\ y.off = x.off /\ y.closed = TRUE
    BY <1>9, <2>1, CloseStep
  <2> QED BY <1>7, <1>8, <2>2
<1>11. PICK q : q = AtNext(MaybeClose(segs, v))
  OBVIOUS
<1>12. Whole(segs, w) = q
  BY <1>2, <1>4, <1>6, <1>11 DEF Whole, AtNext
<1>13. MaybeClose(segs, v).out = y.out /\ MaybeClose(segs, v) \in Walks
       /\ MaybeClose(segs, v).i = w.i /\ MaybeClose(segs, v).closed = TRUE
  <2>1. PICK h \in Htmls : h = Plain("/span")
    BY TagType DEF TagNames
  <2>2. \A a \in Walks : a.i = w.i /\ a.closed = FALSE =>
          MaybeClose(segs, a) = WithClosed(IF Styled(segs[w.i + 1].look) THEN Emit(a, h) ELSE a, TRUE)
    BY <2>1 DEF MaybeClose, WithClosed
  <2>3. PICK a \in Walks : a = Emit(v, h) /\ a.out = Append(v.out, h) /\ a.i = v.i
    BY <1>7, EmitType
  <2>4. PICK c \in Walks : c = Emit(x, h) /\ c.out = Append(x.out, h) /\ c.i = x.i
    BY EmitType
  <2>5. \A d \in Walks : WithClosed(d, TRUE) \in Walks /\ WithClosed(d, TRUE).out = d.out
                         /\ WithClosed(d, TRUE).i = d.i /\ WithClosed(d, TRUE).closed = TRUE
    BY SetClosed
  <2>6. CASE Styled(segs[w.i + 1].look)
    <3>1. MaybeClose(segs, v) = WithClosed(a, TRUE) /\ MaybeClose(segs, x) = WithClosed(c, TRUE)
      BY <1>7, <1>8, <2>2, <2>3, <2>4, <2>6
    <3>2. /\ WithClosed(a, TRUE) \in Walks /\ WithClosed(a, TRUE).out = a.out
          /\ WithClosed(a, TRUE).i = a.i /\ WithClosed(a, TRUE).closed = TRUE
      BY <2>5
    <3>3. WithClosed(c, TRUE).out = c.out
      BY <2>5
    <3>4. a.out = c.out
      BY <1>8, <2>3, <2>4
    <3> QED BY <1>7, <1>9, <2>3, <3>1, <3>2, <3>3, <3>4
  <2>7. CASE ~Styled(segs[w.i + 1].look)
    <3>1. MaybeClose(segs, v) = WithClosed(v, TRUE) /\ MaybeClose(segs, x) = WithClosed(x, TRUE)
      BY <1>7, <1>8, <2>2, <2>7
    <3> QED BY <1>7, <1>8, <1>9, <2>5, <3>1
  <2> QED BY <2>6, <2>7
<1>14. q \in Walks /\ q.out = y.out /\ q.i = w.i + 1 /\ q.off = 0 /\ q.closed = TRUE
  BY <1>11, <1>13, SetNext
<1>15. SeenAs(segs, q, z)
  <2>1. SeenAs(segs, y, z) /\ ~InSpan(segs, y) /\ ~InSpan(segs, q)
    BY <1>10, <1>14 DEF Walked, InSpan
  <2>2. TextUpTo(segs, y.i, y.off) = TextUpTo(segs, q.i, q.off)
    BY <1>1, <1>4, <1>10, <1>14, TextAtEnd
  <2> QED BY <1>14, <2>1, <2>2 DEF SeenAs
<1>16. Walked(segs, q, z)
  <2>1. q.i <= Len(segs)
    BY <1>1, <1>14
  <2>2. q.i < Len(segs) => 0 <= segs[q.i + 1].len
    <3> SUFFICES ASSUME q.i < Len(segs) PROVE 0 <= segs[q.i + 1].len
      OBVIOUS
    <3>1. q.i + 1 \in 1 .. Len(segs)
      BY <1>1, <1>14
    <3>2. segs[q.i + 1].len \in Nat
      BY <3>1, SegFields
    <3> QED BY <3>2
  <2> QED BY <1>14, <1>15, <2>1, <2>2 DEF Walked
<1> QED BY <1>12, <1>14, <1>16

-----------------------------------------------------------------------------
(* Output to a place *)

\* A place in the segments, its own end or beginning included.
Place(segs, i, off) ==
  /\ i \in 0 .. Len(segs) /\ off \in Nat
  /\ i = Len(segs) => off = 0
  /\ i < Len(segs) => off <= segs[i + 1].len

\* The bytes between two places may be seen.
RightTo(segs, i, off, j, to, z) ==
  \A m \in i .. j : m < Len(segs) =>
    Right(segs[m + 1], IF m = i THEN off ELSE 0, IF m = j THEN to ELSE segs[m + 1].len, z)

\* Whole segments from w on.
WalkedOn(segs, w, z, n) ==
  /\ Walked(segs, WalkOn(segs, w, n), z)
  /\ WalkOn(segs, w, n).i = w.i + n
  /\ WalkOn(segs, w, n).off = IF n = 0 THEN w.off ELSE 0

\* The walk past several segments shows what it should.
LEMMA WholeSteps ==
  ASSUME NEW segs \in Seq(ReadySegs), NEW z, z \in Scenes, NEW w, Walked(segs, w, z),
         NEW j \in Nat, NEW to, Place(segs, j, to), w.i <= j,
         RightTo(segs, w.i, w.off, j, to, z)
  PROVE  \A n \in 0 .. j - w.i : WalkedOn(segs, w, z, n)
<1>1. w \in Walks /\ w.i \in Nat /\ w.off \in Nat
  BY WalkFields DEF Walked
<1>2. PICK L \in Nat : L = j - w.i
  BY <1>1
<1> DEFINE S == {n \in 0 .. L : WalkedOn(segs, w, z, n)}
<1>3. 0 \in S
  <2>1. WalkOn(segs, w, 0) = w
    BY <1>1, WalkOnZero
  <2>2. WalkedOn(segs, w, z, 0)
    BY <1>1, <2>1 DEF WalkedOn
  <2>3. 0 \in 0 .. L
    BY <1>2
  <2> QED BY <2>2, <2>3
<1>4. ASSUME NEW n \in 1 .. L, n - 1 \in S
      PROVE  n \in S
  <2>1. PICK v : v = WalkOn(segs, w, n - 1)
    OBVIOUS
  <2>2. PICK m \in Nat : m = n - 1
    BY <1>2
  <2>3. Walked(segs, v, z) /\ v.i = w.i + m /\ v.off = IF m = 0 THEN w.off ELSE 0
    BY <1>4, <2>1, <2>2 DEF WalkedOn
  <2>4. v.i < Len(segs) /\ v.i \in w.i .. j /\ v.i # j
    <3>1. j <= Len(segs)
      BY DEF Place
    <3> QED BY <1>1, <1>2, <2>2, <2>3, <3>1
  <2>5. Right(segs[v.i + 1], v.off, segs[v.i + 1].len, z)
    <3>1. Right(segs[v.i + 1], IF v.i = w.i THEN w.off ELSE 0, IF v.i = j THEN to ELSE segs[v.i + 1].len, z)
      BY <2>4 DEF RightTo
    <3>2. v.i = w.i <=> m = 0
      BY <1>1, <2>2, <2>3
    <3> QED BY <2>3, <2>4, <3>1, <3>2
  <2>6. /\ Walked(segs, Whole(segs, v), z)
        /\ Whole(segs, v).i = v.i + 1 /\ Whole(segs, v).off = 0
    BY <2>3, <2>4, <2>5, WholeStep
  <2>7. WalkOn(segs, w, n) = Whole(segs, v)
    <3>1. n \in Nat \ {0}
      BY <1>2
    <3> QED BY <1>1, <2>1, <3>1, WalkOnStep
  <2>8. WalkedOn(segs, w, z, n)
    <3>1. v.i + 1 = w.i + n /\ n # 0
      BY <1>1, <2>2, <2>3
    <3> QED BY <2>6, <2>7, <3>1 DEF WalkedOn
  <2>9. n \in 0 .. L
    BY <1>2
  <2> QED BY <2>8, <2>9
<1>5. 0 .. L \subseteq S
  <2> HIDE DEF S
  <2> QED BY <1>3, <1>4, IntervalInduction
<1> QED BY <1>2, <1>5

\* So does the walk to any place that is not behind it.
LEMMA OutputStep ==
  ASSUME NEW segs \in Seq(ReadySegs), NEW z, z \in Scenes, NEW w, Walked(segs, w, z),
         NEW j \in Nat, NEW to \in Nat, Place(segs, j, to), w.i <= j, w.i = j => w.off <= to,
         RightTo(segs, w.i, w.off, j, to, z)
  PROVE  /\ Walked(segs, OutputTo(segs, w, j, to), z)
         /\ OutputTo(segs, w, j, to).i = j /\ OutputTo(segs, w, j, to).off = to
<1>1. w \in Walks /\ w.i \in Nat /\ w.off \in Nat
  BY WalkFields DEF Walked
<1>2. PICK n \in Nat : n = j - w.i
  BY <1>1
<1>3. WalkedOn(segs, w, z, n)
  <2>1. n \in 0 .. j - w.i
    BY <1>2
  <2> QED BY <2>1, WholeSteps
<1>4. PICK v : v = WalkOn(segs, w, n)
  OBVIOUS
<1>5. Walked(segs, v, z) /\ v.i = j /\ v.off = IF n = 0 THEN w.off ELSE 0
  BY <1>1, <1>2, <1>3, <1>4 DEF WalkedOn
<1>6. v.off <= to /\ (v.i = w.i <=> n = 0) /\ v.off \in Nat
  BY <1>1, <1>2, <1>5
<1>7. OutputTo(segs, w, j, to) = IF to > 0 THEN WithOff(WriteUpTo(segs, MaybeOpen(segs, v), to), to) ELSE v
  BY <1>1, <1>2, <1>4, OutputIs
<1>8. CASE to = 0
  BY <1>5, <1>6, <1>7, <1>8
<1>9. CASE to > 0
  <2>1. v.i < Len(segs) /\ j \in 0 .. Len(segs) /\ to <= segs[v.i + 1].len
    BY <1>5, <1>9 DEF Place
  <2>2. PICK u : u = MaybeOpen(segs, v)
    OBVIOUS
  <2>3. Walked(segs, u, z) /\ u.i = v.i /\ u.off = v.off /\ u.closed = FALSE
    BY <1>5, <2>1, <2>2, OpenStep
  <2>4. segs[v.i + 1].len \in Nat
    <3>1. v.i + 1 \in 1 .. Len(segs)
      BY <1>5, <2>1
    <3> QED BY <3>1, SegFields
  <2>5. to \in u.off .. segs[u.i + 1].len
    BY <1>6, <2>1, <2>3, <2>4
  <2>6. Right(segs[u.i + 1], u.off, to, z)
    <3>1. j \in w.i .. j
      BY <1>1
    <3>2. Right(segs[j + 1], IF j = w.i THEN w.off ELSE 0, IF j = j THEN to ELSE segs[j + 1].len, z)
      BY <1>5, <2>1, <3>1 DEF RightTo
    <3> QED BY <1>5, <1>6, <2>3, <3>2
  <2>7. PICK q : q = WriteUpTo(segs, u, to)
    OBVIOUS
  <2>8. q \in Walks /\ q.i = u.i /\ Walked(segs, WithOff(q, to), z)
    BY <2>1, <2>3, <2>5, <2>6, <2>7, WriteStep
  <2>9. WithOff(q, to).i = q.i /\ WithOff(q, to).off = to
    BY <2>8, SetOff
  <2>10. OutputTo(segs, w, j, to) = WithOff(q, to)
    BY <1>7, <1>9, <2>2, <2>7
  <2> QED BY <1>5, <2>3, <2>8, <2>9, <2>10
<1> QED BY <1>8, <1>9

-----------------------------------------------------------------------------
(* Links *)

\* No link is open.
NoLink(z) == ~Contains(z.base, "a") /\ z.link = <<0, 0>>
\* The positions of links.
Pairs == Nat \X Nat

\* The scene inside of a link, and after it.
InLink(z, p) ==
  [base |-> Append(z.base, "a"), link |-> p, links |-> z.links \cup {p}, text |-> z.text, right |-> z.right]
\* The scene after a link, which the reader has now seen.
AfterLink(z, p) ==
  [base |-> z.base, link |-> <<0, 0>>, links |-> z.links \cup {p}, text |-> z.text, right |-> z.right]

\* The fields of scenes.
LEMMA SceneFields ==
  ASSUME NEW z, z \in Scenes
  PROVE  /\ z.base \in Stacks /\ z.link \in Pairs /\ z.links \in SUBSET Pairs
         /\ z.text \in ByteSeqs /\ z.right \in SUBSET Glyphs
  BY DEF Scenes, Pairs

\* In a link and after it are scenes.
LEMMA LinkScenes ==
  ASSUME NEW z, z \in Scenes, NoLink(z), NEW p \in Pairs
  PROVE  /\ InLink(z, p) \in Scenes /\ AfterLink(z, p) \in Scenes /\ NoLink(AfterLink(z, p))
<1>1. PICK b \in Stacks : b = Append(z.base, "a")
  <2>1. Append(z.base, "a") \in Stacks
    <3>1. z.base \in Stacks
      BY SceneFields
    <3>2. "a" \in OpenTags
      BY DEF OpenTags
    <3> QED BY <3>1, <3>2 DEF Stacks
  <2> QED BY <2>1, Zenon
<1>2. PICK ls \in SUBSET Pairs : ls = z.links \cup {p}
  BY SceneFields
<1>3. InLink(z, p) = [base |-> b, link |-> p, links |-> ls, text |-> z.text, right |-> z.right]
  BY <1>1, <1>2 DEF InLink
<1>4. AfterLink(z, p) = [base |-> z.base, link |-> <<0, 0>>, links |-> ls, text |-> z.text, right |-> z.right]
  BY <1>2 DEF AfterLink
<1>5. Scenes = [base : Stacks, link : Pairs, links : SUBSET Pairs, text : ByteSeqs, right : SUBSET Glyphs]
  BY DEF Scenes, Pairs
<1>6. <<0, 0>> \in Pairs
  BY DEF Pairs
<1>7. AfterLink(z, p).base = z.base /\ AfterLink(z, p).link = <<0, 0>>
  BY <1>4
<1> HIDE DEF Pairs
<1>8. InLink(z, p) \in Scenes
  BY <1>3, <1>5, SceneFields
<1>9. AfterLink(z, p) \in Scenes
  BY <1>4, <1>5, <1>6, SceneFields
<1> QED BY <1>7, <1>8, <1>9 DEF NoLink

\* A link is opened, of a pair.
LEMMA RdPair ==
  ASSUME NEW h \in HtmlSeqs, NEW p \in Pairs, ~Contains(Rd(h).open, "a"),
         NEW r, r = Rd(Append(h, Html("a", p, NoLook)))
  PROVE  /\ r.open = Append(Rd(h).open, "a") /\ r.look = Rd(h).look /\ r.link = p
         /\ r.links = Rd(h).links \cup {p} /\ r.text = Rd(h).text /\ r.seen = Rd(h).seen
         /\ Html("a", p, NoLook) \in Htmls
<1>1. PICK a \in Nat, b \in Nat : p = <<a, b>>
  BY DEF Pairs
<1>2. r = Rd(Append(h, Html("a", <<a, b>>, NoLook)))
  BY <1>1
<1>3. /\ r.open = Append(Rd(h).open, "a") /\ r.look = Rd(h).look /\ r.link = <<a, b>>
      /\ r.links = Rd(h).links \cup {<<a, b>>} /\ r.text = Rd(h).text /\ r.seen = Rd(h).seen
  BY <1>2, RdLink
<1> QED BY <1>1, <1>3, TagType

\* Its tag is HTML.
LEMMA LinkTag ==
  ASSUME NEW p \in Pairs
  PROVE  Html("a", p, NoLook) \in Htmls
<1>1. PICK a \in Nat, b \in Nat : p = <<a, b>>
  BY DEF Pairs
<1> QED BY <1>1, TagType

\* The walk goes into the link,
LEMMA BeginLink ==
  ASSUME NEW segs \in Seq(ReadySegs), NEW z, z \in Scenes, NoLink(z), NEW w, Walked(segs, w, z),
         w.closed = TRUE, NEW p \in Pairs, NEW v, v = Emit(w, Html("a", p, NoLook))
  PROVE  /\ Walked(segs, v, InLink(z, p))
         /\ v.i = w.i /\ v.off = w.off /\ v.closed = TRUE
<1>1. w \in Walks /\ w.out \in HtmlSeqs /\ SeenAs(segs, w, z) /\ ~InSpan(segs, w)
  BY WalkFields DEF Walked, InSpan
<1>2. PICK h \in Htmls : h = Html("a", p, NoLook)
  BY LinkTag
<1>3. v \in Walks /\ v.out = Append(w.out, h) /\ v.i = w.i /\ v.off = w.off /\ v.closed = TRUE
  BY <1>1, <1>2, EmitType
<1>4. Rd(w.out).open = z.base /\ Rd(w.out).look = NoLook
  BY <1>1 DEF SeenAs
<1>5. PICK r : r = Rd(v.out)
  OBVIOUS
<1>6. /\ r.open = Append(z.base, "a") /\ r.look = NoLook /\ r.link = p
      /\ r.links = Rd(w.out).links \cup {p} /\ r.text = Rd(w.out).text /\ r.seen = Rd(w.out).seen
  <2>1. r = Rd(Append(w.out, Html("a", p, NoLook))) /\ ~Contains(Rd(w.out).open, "a")
    BY <1>2, <1>3, <1>4, <1>5 DEF NoLink
  <2> QED BY <1>1, <1>4, <2>1, RdPair
<1>7. ~InSpan(segs, v)
  BY <1>3 DEF InSpan
<1>8. PICK y : y = InLink(z, p)
  OBVIOUS
<1>9. /\ y.base = Append(z.base, "a") /\ y.link = p /\ y.links = z.links \cup {p}
      /\ y.text = z.text /\ y.right = z.right
  BY <1>8 DEF InLink
<1>10. SeenAs(segs, v, y)
  BY <1>1, <1>3, <1>5, <1>6, <1>7, <1>9 DEF SeenAs
<1>11. Walked(segs, v, y)
  BY <1>3, <1>10 DEF Walked
<1> QED BY <1>3, <1>8, <1>11

\* and out of it.
LEMMA EndLink ==
  ASSUME NEW segs \in Seq(ReadySegs), NEW z, z \in Scenes, NoLink(z), NEW p \in Pairs,
         NEW w, Walked(segs, w, InLink(z, p)), w.closed = TRUE, NEW v, v = Emit(w, Plain("/a"))
  PROVE  /\ Walked(segs, v, AfterLink(z, p))
         /\ v.i = w.i /\ v.off = w.off /\ v.closed = TRUE
<1>1. w \in Walks /\ w.out \in HtmlSeqs /\ SeenAs(segs, w, InLink(z, p)) /\ ~InSpan(segs, w)
  BY WalkFields DEF Walked, InSpan
<1>2. PICK h \in Htmls : h = Plain("/a")
  BY TagType DEF TagNames
<1>3. v \in Walks /\ v.out = Append(w.out, h) /\ v.i = w.i /\ v.off = w.off /\ v.closed = TRUE
  BY <1>1, <1>2, EmitType
<1>4. PICK base \in Stacks : base = z.base
  BY SceneFields
<1>5. /\ Rd(w.out).open = Append(base, "a") /\ Rd(w.out).look = NoLook
      /\ Rd(w.out).links = z.links \cup {p} /\ Rd(w.out).seen \subseteq z.right
      /\ Rd(w.out).text = z.text \o TextUpTo(segs, w.i, w.off)
  BY <1>1, <1>4 DEF SeenAs, InLink
<1>6. PICK r : r = Rd(v.out)
  OBVIOUS
<1>7. /\ r.open = base /\ r.look = Rd(w.out).look /\ r.link = <<0, 0>>
      /\ r.links = Rd(w.out).links /\ r.text = Rd(w.out).text /\ r.seen = Rd(w.out).seen
  <2>1. r = Rd(Append(w.out, Plain("/a")))
    BY <1>2, <1>3, <1>6
  <2>2. Rd(w.out).open = Append(base, "a") /\ w.out \in HtmlSeqs
    BY <1>1, <1>5
  <2> QED BY <2>1, <2>2, RdEndLink
<1>8. ~InSpan(segs, v)
  BY <1>3 DEF InSpan
<1>9. PICK y : y = AfterLink(z, p)
  OBVIOUS
<1>10. /\ y.base = z.base /\ y.link = <<0, 0>> /\ y.links = z.links \cup {p}
       /\ y.text = z.text /\ y.right = z.right
  BY <1>9 DEF AfterLink
<1>11. SeenAs(segs, v, y)
  BY <1>3, <1>4, <1>5, <1>6, <1>7, <1>8, <1>10 DEF SeenAs
<1>12. Walked(segs, v, y)
  <2>1. w.i <= Len(segs) /\ (w.i = Len(segs) => w.closed /\ w.off = 0)
        /\ (w.i < Len(segs) => w.off <= segs[w.i + 1].len)
    BY DEF Walked
  <2> QED BY <1>3, <1>11, <2>1 DEF Walked
<1> QED BY <1>3, <1>9, <1>12

\* Link, with the places and the range that it finds.
LinkTo(segs, w, begin, end, p) ==
  LET v == OutputTo(segs, w, begin[1], begin[2])
      a == Html("a", p, NoLook)
  IN IF begin[1] = end[1]
     THEN Emit(OutputTo(segs, Emit(MaybeOpen(segs, v), a), end[1], end[2]), Plain("/a"))
     ELSE Emit(MaybeClose(segs, OutputTo(segs, Emit(MaybeClose(segs, v), a), end[1], end[2])), Plain("/a"))

\* A link over more than one segment: the spans are closed before it and in
\* it.
LEMMA CrossLink ==
  ASSUME NEW segs \in Seq(ReadySegs), NEW z, z \in Scenes, NoLink(z), NEW v, Walked(segs, v, z),
         NEW j \in Nat, NEW to \in Nat, Place(segs, j, to), v.i < j, NEW p \in Pairs,
         RightTo(segs, v.i, v.off, j, to, InLink(z, p)),
         NEW e, e = Emit(MaybeClose(segs, OutputTo(segs, Emit(MaybeClose(segs, v), Html("a", p, NoLook)), j, to)),
                         Plain("/a"))
  PROVE  /\ Walked(segs, e, AfterLink(z, p))
         /\ e.i = j /\ e.off = to
<1>1. PICK y : y = InLink(z, p)
  OBVIOUS
<1>3. y \in Scenes
  BY <1>1, LinkScenes
<1>4. PICK c : c = MaybeClose(segs, v)
  OBVIOUS
<1>5. Walked(segs, c, z) /\ c.i = v.i /\ c.off = v.off /\ c.closed = TRUE
  BY <1>4, CloseStep
<1>6. PICK x : x = Emit(c, Html("a", p, NoLook))
  OBVIOUS
<1>7. Walked(segs, x, y) /\ x.i = v.i /\ x.off = v.off
  <2>1. /\ Walked(segs, x, InLink(z, p))
        /\ x.i = c.i /\ x.off = c.off /\ x.closed = TRUE
    <3>1. Walked(segs, c, z)
      BY <1>5
    <3>2. c.closed = TRUE
      BY <1>5
    <3>3. Walked(segs, x, InLink(z, p))
      BY <1>6, <3>1, <3>2, BeginLink
    <3>4. PICK h \in Htmls : h = Html("a", p, NoLook)
      BY LinkTag
    <3>5. c \in Walks
      BY <3>1 DEF Walked
    <3>6. x.i = c.i /\ x.off = c.off /\ x.closed = c.closed
      BY <1>6, <3>4, <3>5, EmitType
    <3> QED BY <3>2, <3>3, <3>6
  <2> QED BY <1>1, <1>5, <2>1
<1>8. PICK o : o = OutputTo(segs, x, j, to)
  OBVIOUS
<1>9. v.i \in Nat
  BY WalkFields DEF Walked
<1>10. Walked(segs, o, y) /\ o.i = j /\ o.off = to
  <2>1. x.i <= j /\ x.i # j /\ RightTo(segs, x.i, x.off, j, to, y)
    BY <1>1, <1>7, <1>9
  <2> QED BY <1>3, <1>7, <1>8, <2>1, OutputStep
<1>11. PICK d : d = MaybeClose(segs, o)
  OBVIOUS
<1>12. Walked(segs, d, y) /\ d.i = j /\ d.off = to /\ d.closed = TRUE
  <2>1. Walked(segs, d, y) /\ d.i = o.i /\ d.off = o.off /\ d.closed = TRUE
    BY <1>3, <1>10, <1>11, CloseStep
  <2> QED BY <1>10, <2>1
<1>13. e = Emit(d, Plain("/a"))
  BY <1>4, <1>6, <1>8, <1>11
<1>14. Walked(segs, e, AfterLink(z, p)) /\ e.i = d.i /\ e.off = d.off
  <2>1. Walked(segs, d, InLink(z, p))
    BY <1>1, <1>12
  <2>2. d.closed = TRUE
    BY <1>12
  <2>3. /\ Walked(segs, e, AfterLink(z, p))
        /\ e.i = d.i /\ e.off = d.off /\ e.closed = TRUE
    BY <1>13, <2>1, <2>2, EndLink
  <2> QED BY <2>3
<1> QED BY <1>12, <1>14

\* Writing on inside of a link that is embedded in a segment.
LEMMA EmbedLink ==
  ASSUME NEW segs \in Seq(ReadySegs), NEW z, z \in Scenes, NoLink(z), NEW v, Walked(segs, v, z),
         NEW to \in Nat, v.i < Len(segs), v.off < to, to <= segs[v.i + 1].len, NEW p \in Pairs,
         Right(segs[v.i + 1], v.off, to, InLink(z, p)),
         NEW e, e = Emit(OutputTo(segs, Emit(MaybeOpen(segs, v), Html("a", p, NoLook)), v.i, to),
                         Plain("/a"))
  PROVE  /\ Walked(segs, e, AfterLink(z, p))
         /\ e.i = v.i /\ e.off = to
<1>1. PICK u : u = MaybeOpen(segs, v)
  OBVIOUS
<1>2. Walked(segs, u, z) /\ u.i = v.i /\ u.off = v.off /\ u.closed = FALSE
  BY <1>1, OpenStep
<1>3. u \in Walks /\ u.out \in HtmlSeqs /\ u.i \in Nat /\ u.off \in Nat /\ SeenAs(segs, u, z)
  BY <1>2, WalkFields DEF Walked
<1>4. PICK i \in Nat : i = v.i
  BY <1>2, <1>3
<1>5. i + 1 \in 1 .. Len(segs)
  BY <1>4
<1>6. PICK b \in Seq(ByteSet) : b = segs[i + 1].bytes
  BY <1>5, SegFields
<1>7. segs[i + 1].len \in Nat /\ segs[i + 1].len <= Len(b) /\ segs[i + 1].look \in Looks
  BY <1>5, <1>6, SegFields
<1>8. PICK m \in Nat : m = v.off
  BY <1>2, <1>3
<1>9. m < to /\ to <= Len(b) /\ Len(b) \in Nat
  BY <1>4, <1>7, <1>8
<1>10. PICK O \in Stacks : O = IF InSpan(segs, u) THEN Append(z.base, "span") ELSE z.base
  <2>1. PICK h \in Stacks : h = Rd(u.out).open
    BY <1>3, RdType DEF Readers
  <2> QED BY <1>3, <2>1 DEF SeenAs
<1>11. ~Contains(O, "a")
  <2>1. PICK base \in Stacks : base = z.base
    BY SceneFields
  <2>2. base \in Seq(OpenTags) /\ ~\E k \in 1 .. Len(base) : base[k] = "a"
    BY <2>1 DEF NoLink, Contains, Stacks
  <2>3. CASE O = base
    BY <2>2, <2>3 DEF Contains
  <2>4. CASE O = Append(base, "span")
    <3>1. Len(O) = Len(base) + 1 /\ \A k \in 1 .. Len(O) : O[k] = IF k = Len(O) THEN "span" ELSE base[k]
      BY <2>2, <2>4
    <3>2. \A k \in 1 .. Len(O) : O[k] # "a"
      <4>1. \A k \in 1 .. Len(O) : k = Len(O) \/ k \in 1 .. Len(base)
        BY <2>2, <3>1
      <4> QED BY <2>2, <3>1, <4>1
    <3> QED BY <3>2 DEF Contains
  <2> QED BY <1>10, <2>1, <2>3, <2>4
<1>12. Rd(u.out).look = ShownLook(segs[i + 1].look) /\ Rd(u.out).open = O
  BY <1>2, <1>3, <1>4, <1>10 DEF SeenAs, InSpan, ShownLook
<1>13. PICK h \in Htmls : h = Html("a", p, NoLook)
  BY LinkTag
<1>14. PICK x \in Walks : /\ x = Emit(u, h) /\ x.out = Append(u.out, h)
                          /\ x.i = i /\ x.off = m /\ x.closed = FALSE
  BY <1>2, <1>3, <1>4, <1>8, EmitType
<1>15. PICK r : r = Rd(x.out)
  OBVIOUS
<1>16. /\ r.open = Append(O, "a") /\ r.look = Rd(u.out).look /\ r.link = p
       /\ r.links = Rd(u.out).links \cup {p} /\ r.text = Rd(u.out).text /\ r.seen = Rd(u.out).seen
  <2>1. r = Rd(Append(u.out, Html("a", p, NoLook))) /\ ~Contains(Rd(u.out).open, "a")
    BY <1>11, <1>12, <1>13, <1>14, <1>15
  <2>2. /\ r.open = Append(Rd(u.out).open, "a") /\ r.look = Rd(u.out).look /\ r.link = p
        /\ r.links = Rd(u.out).links \cup {p} /\ r.text = Rd(u.out).text /\ r.seen = Rd(u.out).seen
    BY <1>3, <2>1, RdPair
  <2> QED BY <1>12, <2>2
<1>17. PICK s \in Seq(ByteSet) : s = SubSeq(b, m + 1, to)
  <2>1. SubSeq(b, m + 1, to) \in Seq(ByteSet)
    BY <1>9
  <2> QED BY <2>1, Zenon
<1>18. x.out \in HtmlSeqs
  BY WalkFields
<1>19. PICK o \in HtmlSeqs : o = x.out \o s /\ ReadOn(Rd(o), r, s)
  BY <1>15, <1>18, RdBytes
<1>20. WriteUpTo(segs, x, to) = WithOut(x, o)
  <2>1. ~(PastEnd(segs, x) \/ to < x.off \/ to > Len(segs[x.i + 1].bytes))
    BY <1>4, <1>6, <1>8, <1>9, <1>14 DEF PastEnd
  <2> QED BY <1>6, <1>14, <1>17, <1>19, <2>1 DEF WriteUpTo, WithOut, Walks
<1>21. OutputTo(segs, x, v.i, to) = WithOff(WithOut(x, o), to)
  <2>1. WalkOn(segs, x, 0) = x
    BY WalkOnZero
  <2>2. MaybeOpen(segs, x) = x
    BY <1>14 DEF MaybeOpen
  <2>3. to > 0 /\ i - x.i = 0
    BY <1>9, <1>14
  <2>4. OutputTo(segs, x, i, to)
          = IF to > 0
            THEN WithOff(WriteUpTo(segs, MaybeOpen(segs, WalkOn(segs, x, i - x.i)), to), to)
            ELSE WalkOn(segs, x, i - x.i)
    BY OutputIs
  <2> QED BY <1>4, <1>20, <2>1, <2>2, <2>3, <2>4
<1>22. PICK y \in Walks : /\ y = WithOut(x, o) /\ y.out = o /\ y.i = i /\ y.off = m /\ y.closed = FALSE
  BY <1>14, SetOut
<1>23. PICK g \in Walks : /\ g = WithOff(y, to) /\ g.out = o /\ g.i = i /\ g.off = to /\ g.closed = FALSE
  <2>1. /\ WithOff(y, to) \in Walks /\ WithOff(y, to).out = y.out
        /\ WithOff(y, to).i = y.i /\ WithOff(y, to).off = to /\ WithOff(y, to).closed = y.closed
    BY SetOff
  <2> QED BY <1>22, <2>1
<1>24. PICK k \in Htmls : k = Plain("/a")
  BY TagType DEF TagNames
<1>25. e = Emit(g, k) /\ e \in Walks /\ e.out = Append(o, k) /\ e.i = i /\ e.off = to /\ e.closed = FALSE
  <2>1. e = Emit(g, k)
    BY <1>1, <1>13, <1>14, <1>21, <1>22, <1>23, <1>24
  <2>2. /\ Emit(g, k) \in Walks /\ Emit(g, k).out = Append(g.out, k) /\ Emit(g, k).i = g.i
        /\ Emit(g, k).off = g.off /\ Emit(g, k).closed = g.closed
    BY EmitType
  <2> QED BY <1>23, <2>1, <2>2
<1>26. PICK f : f = Rd(e.out)
  OBVIOUS
<1>27. /\ f.open = O /\ f.look = Rd(o).look /\ f.link = <<0, 0>>
       /\ f.links = Rd(o).links /\ f.text = Rd(o).text /\ f.seen = Rd(o).seen
  <2>1. f = Rd(Append(o, Plain("/a")))
    BY <1>24, <1>25, <1>26
  <2>2. Rd(o).open = Append(O, "a")
    BY <1>16, <1>19 DEF ReadOn
  <2> QED BY <2>1, <2>2, RdEndLink
<1>28. InSpan(segs, e) <=> InSpan(segs, u)
  BY <1>2, <1>4, <1>25 DEF InSpan
<1>29. GlyphsOf(s, r.look, r.link) \subseteq z.right
  <2>1. r.link = InLink(z, p).link /\ InLink(z, p).right = z.right
    BY <1>16 DEF InLink
  <2>2. r.look = ShownLook(segs[i + 1].look)
    BY <1>12, <1>16
  <2>3. Len(s) = to - m /\ \A n \in 1 .. to - m : s[n] = b[m + n]
    <3>1. m \in 0 .. Len(b) /\ to \in m .. Len(b)
      BY <1>9
    <3> QED BY <1>17, <3>1, PartOf
  <2>4. ASSUME NEW n \in 1 .. Len(s)
        PROVE  [where |-> s[n].where, look |-> r.look, link |-> r.link] \in z.right
    <3>1. m + n \in m + 1 .. to /\ s[n] = b[m + n]
      <4>1. n \in 1 .. to - m
        BY <1>9, <2>3
      <4>2. m + n \in m + 1 .. to
        BY <1>9, <4>1, SMTT(40)
      <4> QED BY <2>3, <4>1, <4>2
    <3> QED BY <1>4, <1>6, <1>8, <2>1, <2>2, <3>1 DEF Right
  <2> QED BY <2>4 DEF GlyphsOf
<1>30. Rd(o).text = z.text \o TextUpTo(segs, i, to)
  <2>1. PICK pre \in Seq(ByteSet) : pre = z.text
    BY SceneFields DEF ByteSeqs
  <2>2. (pre \o TextUpTo(segs, i, m)) \o SubSeq(segs[i + 1].bytes, m + 1, to)
          = pre \o TextUpTo(segs, i, to)
    <3>1. to \in m .. segs[i + 1].len /\ i < Len(segs)
      BY <1>4, <1>7, <1>9
    <3> QED BY <3>1, TextWithin
  <2>3. Rd(u.out).text = pre \o TextUpTo(segs, i, m)
    BY <1>2, <1>3, <1>4, <1>8, <2>1 DEF SeenAs
  <2> QED BY <1>6, <1>16, <1>17, <1>19, <2>1, <2>2, <2>3 DEF ReadOn
<1>31. PICK a : a = AfterLink(z, p)
  OBVIOUS
<1>32. /\ a.base = z.base /\ a.link = <<0, 0>> /\ a.links = z.links \cup {p}
       /\ a.text = z.text /\ a.right = z.right
  BY <1>31 DEF AfterLink
<1>33. f.open = IF InSpan(segs, e) THEN Append(a.base, "span") ELSE a.base
  BY <1>10, <1>27, <1>28, <1>32
<1>34. f.look = IF InSpan(segs, e) THEN segs[e.i + 1].look ELSE NoLook
  BY <1>3, <1>2, <1>4, <1>16, <1>19, <1>25, <1>27, <1>28 DEF SeenAs, ReadOn
<1>35. f.links = a.links /\ f.text = a.text \o TextUpTo(segs, e.i, e.off) /\ f.seen \subseteq a.right
  <2>1. f.links = Rd(u.out).links \cup {p} /\ Rd(u.out).links = z.links
    BY <1>3, <1>16, <1>19, <1>27 DEF SeenAs, ReadOn
  <2>2. f.seen = Rd(u.out).seen \cup GlyphsOf(s, r.look, r.link) /\ Rd(u.out).seen \subseteq z.right
    BY <1>3, <1>16, <1>19, <1>27, SMTT(40) DEF SeenAs, ReadOn
  <2> QED BY <1>25, <1>27, <1>29, <1>30, <1>32, <2>1, <2>2
<1>36. SeenAs(segs, e, a)
  BY <1>26, <1>27, <1>32, <1>33, <1>34, <1>35 DEF SeenAs
<1>37. Walked(segs, e, a)
  <2>1. e.i # Len(segs) /\ e.i <= Len(segs) /\ e.off <= segs[e.i + 1].len
    BY <1>4, <1>25
  <2> QED BY <1>25, <1>36, <2>1 DEF Walked
<1> QED BY <1>4, <1>25, <1>31, <1>37

\* link puts out all up to the link, the link, and what is in it.
LEMMA LinkStep ==
  ASSUME NEW segs \in Seq(ReadySegs), NEW z, z \in Scenes, NoLink(z), NEW w, Walked(segs, w, z),
         NEW i \in Nat, NEW off \in Nat, Place(segs, i, off), w.i <= i, w.i = i => w.off <= off,
         NEW j \in Nat, NEW to \in Nat, Place(segs, j, to), i < Len(segs),
         i <= j, i = j => off < to, NEW p \in Pairs,
         RightTo(segs, w.i, w.off, i, off, z), RightTo(segs, i, off, j, to, InLink(z, p)),
         NEW begin, begin = <<i, off>>, NEW end, end = <<j, to>>
  PROVE  /\ Walked(segs, LinkTo(segs, w, begin, end, p), AfterLink(z, p))
         /\ LinkTo(segs, w, begin, end, p).i = j /\ LinkTo(segs, w, begin, end, p).off = to
<1>1. PICK v : v = OutputTo(segs, w, i, off)
  OBVIOUS
<1>2. Walked(segs, v, z) /\ v.i = i /\ v.off = off
  BY <1>1, OutputStep
<1>3. PICK e : e = LinkTo(segs, w, begin, end, p)
  OBVIOUS
<1>4. begin[1] = i /\ begin[2] = off /\ end[1] = j /\ end[2] = to
  OBVIOUS
<1>5. CASE i = j
  <2>1. e = Emit(OutputTo(segs, Emit(MaybeOpen(segs, v), Html("a", p, NoLook)), v.i, to), Plain("/a"))
    BY <1>1, <1>2, <1>3, <1>4, <1>5 DEF LinkTo
  <2>2. v.i < Len(segs) /\ v.off < to /\ to <= segs[v.i + 1].len
    BY <1>2, <1>5 DEF Place
  <2>3. Right(segs[v.i + 1], v.off, to, InLink(z, p))
    <3>1. i \in i .. j
      BY <1>5
    <3>2. Right(segs[i + 1], IF i = i THEN off ELSE 0, IF i = j THEN to ELSE segs[i + 1].len, InLink(z, p))
      BY <3>1 DEF RightTo
    <3> QED BY <1>2, <1>5, <3>2
  <2>4. /\ Walked(segs, e, AfterLink(z, p))
        /\ e.i = v.i /\ e.off = to
    BY <1>2, <2>1, <2>2, <2>3, EmbedLink
  <2> QED BY <1>2, <1>3, <1>5, <2>4
<1>6. CASE i # j
  <2>1. e = Emit(MaybeClose(segs, OutputTo(segs, Emit(MaybeClose(segs, v), Html("a", p, NoLook)), j, to)),
                 Plain("/a"))
    BY <1>1, <1>3, <1>4, <1>6 DEF LinkTo
  <2>2. v.i < j /\ RightTo(segs, v.i, v.off, j, to, InLink(z, p))
    BY <1>2, <1>6
  <2>3. /\ Walked(segs, e, AfterLink(z, p))
        /\ e.i = j /\ e.off = to
    BY <1>2, <2>1, <2>2, CrossLink
  <2> QED BY <1>3, <2>3
<1> QED BY <1>5, <1>6

-----------------------------------------------------------------------------
(* Where the runes of a line are *)

\* What is put out: the segments as they were read, which may have lost spaces
\* at their ends.
Ready(c, segs, ready) ==
  /\ ready \in Seq(ReadySegs) /\ Len(ready) = Len(segs)
  /\ \A i \in 1 .. Len(segs) :
       /\ ready[i].bytes = segs[i].bytes
       /\ \A n \in 1 .. Len(segs[i].bytes) :
            c[segs[i].bytes[n].where[1]].class # "space" => n <= ready[i].len

\* Rune k of the line, or the end of it, is in segment i, or at the end of them.
SitsAt(c, line, N, f, k, i, off) ==
  /\ i \in 0 .. N /\ f[i + 1] <= k /\ (i < N => k < f[i + 2])
  /\ off = Len(HtmlFrom(c, line, f[i + 1], k))

\* The segments are in the order of the line.
LEMMA DivisionAscends ==
  ASSUME NEW c, NEW line, NEW segs, Len(segs) \in Nat, Len(line) \in Nat, NEW map, NEW f, Divided(c, line, segs, map, f)
  PROVE  \A j \in 1 .. Len(segs) + 1 : \A i \in 1 .. j : f[i] <= f[j]
<1> DEFINE N == Len(segs)
           S == {n \in 0 .. N : \A i \in 1 .. n + 1 : f[i] <= f[n + 1]}
<1>1. /\ N \in Nat /\ \A i \in 1 .. N + 1 : f[i] \in 1 .. Len(line) + 1 /\ f[i] \in Nat
      /\ \A i \in 1 .. N : f[i] <= f[i + 1]
  BY DEF Divided
<1> HIDE DEF N
<1>2. 0 \in S
  <2>1. f[1] \in Nat /\ 0 \in 0 .. N
    BY <1>1
  <2>2. \A i \in 1 .. 0 + 1 : i = 1
    OBVIOUS
  <2> QED BY <2>1, <2>2
<1>3. ASSUME NEW n \in 1 .. N, n - 1 \in S
      PROVE  n \in S
  <2>1. \A i \in 1 .. n : f[i] <= f[n]
    BY <1>3
  <2>2. f[n] <= f[n + 1] /\ n \in 0 .. N
    BY <1>1
  <2>3. ASSUME NEW i \in 1 .. n + 1
        PROVE  f[i] <= f[n + 1]
    <3>1. f[i] \in Nat /\ f[n] \in Nat /\ f[n + 1] \in Nat
      BY <1>1
    <3>2. i = n + 1 \/ i \in 1 .. n
      OBVIOUS
    <3> QED BY <2>1, <2>2, <3>1, <3>2
  <2> QED BY <2>2, <2>3
<1>4. 0 .. N \subseteq S
  <2> HIDE DEF S
  <2> QED BY <1>1, <1>2, <1>3, IntervalInduction
<1>5. ASSUME NEW j \in 1 .. N + 1, NEW i \in 1 .. j
      PROVE  f[i] <= f[j]
  <2>1. j - 1 \in 0 .. N /\ i \in 1 .. (j - 1) + 1 /\ (j - 1) + 1 = j
    BY <1>1
  <2>2. j - 1 \in S
    BY <1>4, <2>1
  <2> QED BY <2>1, <2>2
<1> QED BY <1>5 DEF N

\* They begin at runes of it, or at its end.
LEMMA DivisionType ==
  ASSUME NEW c, NEW line, NEW segs, Len(segs) \in Nat, Len(line) \in Nat, NEW map, NEW f,
         Divided(c, line, segs, map, f), NEW i \in 1 .. Len(segs) + 1
  PROVE  f[i] \in 1 .. Len(line) + 1 /\ f[i] \in Nat
<1>1. f[i] \in 1 .. Len(line) + 1
  BY DEF Divided
<1>2. PICK x \in 1 .. Len(line) + 1 : x = f[i]
  BY <1>1
<1>3. x \in Nat
  OBVIOUS
<1> QED BY <1>2, <1>3

\* The mapper knows it, with the end of the line.
LEMMA Sits ==
  ASSUME NEW c \in Seq(Tokens), NEW line \in Seq(RunesOf(c)), NEW segs \in Seq(SegmentSet), NEW map, NEW f,
         Divided(c, line, segs, map, f), DOMAIN map = 0 .. 3 * Len(c), TLen(c, line) \in DOMAIN map,
         NEW full, full = [map EXCEPT ![TLen(c, line)] = <<Len(segs), 0>>],
         NEW k \in 1 .. Len(line) + 1
  PROVE  \E i \in 0 .. Len(segs) : \E off \in Nat :
           full[TextOf(c, line, k)] = <<i, off>> /\ SitsAt(c, line, Len(segs), f, k, i, off)
<1>1. Len(line) \in Nat /\ Len(segs) \in Nat /\ f[Len(segs) + 1] = Len(line) + 1
  BY DEF Divided
<1>2. CASE k = Len(line) + 1
  <2>1. SubSeq(line, 1, k - 1) = line
    BY <1>1, <1>2
  <2>2. TextOf(c, line, k) = TLen(c, line)
    BY <2>1 DEF TextOf
  <2>3. full[TextOf(c, line, k)] = <<Len(segs), 0>>
    BY <2>2
  <2>4. HtmlFrom(c, line, f[Len(segs) + 1], k) = <<>>
    <3>1. k \in 1 .. Len(line) + 1 /\ k <= k
      BY <1>1
    <3>2. HtmlFrom(c, line, k, k) = <<>>
      BY <3>1, HtmlFromType
    <3> QED BY <1>1, <1>2, <3>2
  <2>5. SitsAt(c, line, Len(segs), f, k, Len(segs), 0)
    BY <1>1, <1>2, <2>4 DEF SitsAt
  <2>6. Len(segs) \in 0 .. Len(segs) /\ 0 \in Nat
    BY <1>1
  <2> QED BY <2>3, <2>5, <2>6
<1>3. CASE k # Len(line) + 1
  <2>1. k \in 1 .. Len(line)
    BY <1>1, <1>3
  <2>2. PICK m \in 1 .. Len(segs) : f[m] <= k /\ k < f[m + 1]
    BY <2>1, RuneIsSomewhere
  <2>3. k \in f[m] .. f[m + 1] - 1 /\ f[m] \in 1 .. Len(line) + 1 /\ f[m + 1] \in 1 .. Len(line) + 1
    <3>1. m \in 1 .. Len(segs) + 1 /\ m + 1 \in 1 .. Len(segs) + 1
      BY <1>1
    <3>2. f[m] \in 1 .. Len(line) + 1 /\ f[m + 1] \in 1 .. Len(line) + 1
      BY <3>1 DEF Divided
    <3>3. f[m] \in Nat /\ f[m + 1] \in Nat
      BY <1>1, <3>2
    <3> QED BY <2>2, <3>2, <3>3
  <2>4. map[TextOf(c, line, k)] = <<m - 1, Len(HtmlFrom(c, line, f[m], k))>>
    BY <2>3 DEF Divided
  <2>5. /\ TextOf(c, line, k) \in Nat /\ TextOf(c, line, k) # TLen(c, line)
        /\ TextOf(c, line, k) \in DOMAIN map
    <3>1. k - 1 \in 0 .. Len(line) /\ Len(line) \in 0 .. Len(line) /\ k - 1 \in 0 .. Len(line) - 1
      BY <1>1, <2>1
    <3>2. PICK x : x = TLen(c, SubSeq(line, 1, k - 1))
      OBVIOUS
    <3>3. x \in 0 .. 2 * (k - 1)
      BY <3>1, <3>2, TLenMonotone
    <3>4. TLen(c, SubSeq(line, 1, k - 1)) < TLen(c, SubSeq(line, 1, Len(line)))
      BY <3>1, TLenMonotone
    <3>5. SubSeq(line, 1, Len(line)) = line
      BY <1>1
    <3>6. PICK y \in 0 .. 3 * Len(c) : y = TLen(c, line)
      OBVIOUS
    <3>7. x < y
      BY <3>2, <3>4, <3>5, <3>6
    <3>8. x \in Nat /\ x # y /\ x \in 0 .. 3 * Len(c)
      BY <3>3, <3>6, <3>7
    <3> QED BY <3>2, <3>6, <3>8 DEF TextOf
  <2>6. full[TextOf(c, line, k)] = map[TextOf(c, line, k)]
    BY <2>5
  <2>7. PICK off \in Nat : off = Len(HtmlFrom(c, line, f[m], k))
    <3>1. PICK h \in Seq(ByteSet) : h = HtmlFrom(c, line, f[m], k)
      BY <2>1, <2>3, HtmlFromType
    <3>2. Len(h) \in Nat
      OBVIOUS
    <3> QED BY <3>1, <3>2
  <2>8. SitsAt(c, line, Len(segs), f, k, m - 1, off)
    <3>1. m - 1 \in 0 .. Len(segs) /\ (m - 1) + 1 = m /\ (m - 1) + 2 = m + 1
      BY <1>1
    <3> QED BY <2>2, <2>7, <3>1 DEF SitsAt
  <2>9. m - 1 \in 0 .. Len(segs)
    BY <1>1
  <2> QED BY <2>4, <2>6, <2>7, <2>8, <2>9
<1> QED BY <1>2, <1>3

\* More runes are more bytes.
LEMMA HtmlGrows ==
  ASSUME NEW c \in Seq(Tokens), NEW line \in Seq(RunesOf(c)),
         NEW a \in 1 .. Len(line) + 1, NEW k \in a .. Len(line) + 1, NEW e \in k .. Len(line) + 1
  PROVE  /\ Len(HtmlFrom(c, line, a, k)) <= Len(HtmlFrom(c, line, a, e))
         /\ k < e => Len(HtmlFrom(c, line, a, k)) < Len(HtmlFrom(c, line, a, e))
<1>1. /\ a \in 1 .. Len(line) + 1 /\ k \in 1 .. Len(line) + 1 /\ e \in 1 .. Len(line) + 1 /\ Len(line) \in Nat
      /\ k \in Nat /\ e \in Nat
  OBVIOUS
<1>2. PICK p \in Seq(ByteSet) : p = HtmlFrom(c, line, a, k)
  BY <1>1, HtmlFromType
<1>3. PICK q \in Seq(ByteSet) : q = HtmlFrom(c, line, k, e)
  BY <1>1, HtmlFromType
<1>4. HtmlFrom(c, line, a, e) = p \o q
  BY <1>2, <1>3, HtmlFromCut
<1>5. Len(p \o q) = Len(p) + Len(q) /\ Len(p) \in Nat /\ Len(q) \in Nat
  OBVIOUS
<1>6. ASSUME k < e
      PROVE  Len(q) >= 1
  <2>1. k \in 1 .. Len(line) /\ k + 1 \in k .. Len(line) + 1 /\ e \in k + 1 .. Len(line) + 1
        /\ k + 1 \in 1 .. Len(line) + 1
    BY <1>1, <1>6
  <2>2. PICK r \in Seq(ByteSet) : r = HtmlFrom(c, line, k, k + 1)
    BY <1>1, <2>1, HtmlFromType
  <2>3. PICK s \in Seq(ByteSet) : s = HtmlFrom(c, line, k + 1, e)
    BY <1>1, <2>1, HtmlFromType
  <2>4. q = r \o s
    BY <1>1, <1>3, <2>1, <2>2, <2>3, HtmlFromCut
  <2>5. line[k] \in RunesOf(c)
    BY <2>1
  <2>6. Len(r) \in 1 .. 3
    BY <2>1, <2>2, <2>5, HtmlFromOne, RuneBytesType
  <2>7. Len(r \o s) = Len(r) + Len(s) /\ Len(s) \in Nat /\ Len(r) \in Nat
    OBVIOUS
  <2>8. Len(r) >= 1
    <3>1. PICK x \in 1 .. 3 : x = Len(r)
      BY <2>6
    <3> QED BY <3>1
  <2>9. Len(q) = Len(r) + Len(s)
    BY <2>4, <2>7
  <2> QED BY <2>7, <2>8, <2>9
<1> QED BY <1>2, <1>4, <1>5, <1>6

\* A later rune sits at a later place.
LEMMA SitsInOrder ==
  ASSUME NEW c \in Seq(Tokens), NEW line \in Seq(RunesOf(c)), NEW segs \in Seq(SegmentSet), NEW map, NEW f,
         Divided(c, line, segs, map, f),
         NEW k \in 1 .. Len(line) + 1, NEW e \in k .. Len(line) + 1,
         NEW i \in Nat, NEW off, SitsAt(c, line, Len(segs), f, k, i, off),
         NEW j \in Nat, NEW to, SitsAt(c, line, Len(segs), f, e, j, to)
  PROVE  i <= j /\ (i = j => off <= to) /\ (i = j /\ k < e => off < to)
<1>1. Len(line) \in Nat /\ Len(segs) \in Nat /\ k \in Nat /\ e \in Nat /\ k <= e
  OBVIOUS
<1>2. /\ i \in 0 .. Len(segs) /\ j \in 0 .. Len(segs) /\ f[i + 1] <= k /\ f[j + 1] <= e
      /\ (j < Len(segs) => e < f[j + 2])
      /\ off = Len(HtmlFrom(c, line, f[i + 1], k)) /\ to = Len(HtmlFrom(c, line, f[j + 1], e))
  BY DEF SitsAt
<1>3. i + 1 \in 1 .. Len(segs) + 1 /\ j + 1 \in 1 .. Len(segs) + 1
  BY <1>1, <1>2
<1>4. f[i + 1] \in 1 .. Len(line) + 1 /\ f[i + 1] \in Nat
  BY <1>1, <1>3, DivisionType
<1>5. i <= j
  <2> SUFFICES ASSUME j < i PROVE FALSE
    BY <1>1
  <2>1. j + 2 \in 1 .. i + 1 /\ j < Len(segs) /\ j + 2 \in 1 .. Len(segs) + 1
    BY <1>1, <1>2
  <2>2. f[j + 2] <= f[i + 1]
    BY <1>1, <1>3, <2>1, DivisionAscends
  <2>3. f[j + 2] \in 1 .. Len(line) + 1
    BY <2>1 DEF Divided
  <2>4. PICK x \in Nat : x = f[j + 2]
    BY <2>3
  <2> QED BY <1>1, <1>2, <1>4, <2>1, <2>2, <2>4, SMTT(40)
<1>6. ASSUME i = j
      PROVE  off <= to /\ (k < e => off < to)
  <2>1. PICK a \in 1 .. Len(line) + 1 : a = f[i + 1]
    BY <1>4
  <2>2. k \in a .. Len(line) + 1 /\ e \in k .. Len(line) + 1
    BY <1>1, <1>2, <2>1
  <2>3. off = Len(HtmlFrom(c, line, a, k)) /\ to = Len(HtmlFrom(c, line, a, e))
    BY <1>2, <1>6, <2>1
  <2> QED BY <2>2, <2>3, HtmlGrows
<1> QED BY <1>5, <1>6

\* A place in the segments is before another one.
Precedes(i, off, j, to) == i <= j /\ (i = j => off < to)

\* The places of runes are in the order of the line, strictly.
LEMMA SitsBefore ==
  ASSUME NEW c \in Seq(Tokens), NEW line \in Seq(RunesOf(c)), NEW segs \in Seq(SegmentSet), NEW map, NEW f,
         Divided(c, line, segs, map, f),
         NEW k \in 1 .. Len(line) + 1, NEW e \in k .. Len(line) + 1, k < e,
         NEW i \in Nat, NEW off, SitsAt(c, line, Len(segs), f, k, i, off),
         NEW j \in Nat, NEW to, SitsAt(c, line, Len(segs), f, e, j, to)
  PROVE  Precedes(i, off, j, to)
<1>1. i <= j /\ (i = j => off <= to) /\ (i = j /\ k < e => off < to)
  BY SitsInOrder
<1> QED BY <1>1 DEF Precedes

\* RendererNext to a rune that is visible it is within what is put out.
LEMMA SitsInPlace ==
  ASSUME NEW c \in Seq(Tokens), NEW line \in Seq(RunesOf(c)), NEW segs \in Seq(SegmentSet), NEW map, NEW f,
         Divided(c, line, segs, map, f), NEW ready, Ready(c, segs, ready),
         NEW k \in 1 .. Len(line), NEW i \in Nat, NEW off \in Nat, SitsAt(c, line, Len(segs), f, k, i, off),
         c[line[k]].class # "space"
  PROVE  /\ Place(ready, i, off) /\ i < Len(ready)
         /\ \A j \in Nat : \A to \in Nat :
              SitsAt(c, line, Len(segs), f, k + 1, j, to) => Place(ready, j, to)
<1>1. Len(line) \in Nat /\ Len(segs) \in Nat /\ k \in Nat /\ Len(ready) = Len(segs)
  BY DEF Ready
<1>2. i \in 0 .. Len(segs) /\ f[i + 1] <= k /\ (i < Len(segs) => k < f[i + 2])
      /\ off = Len(HtmlFrom(c, line, f[i + 1], k))
  BY DEF SitsAt
<1>3. i < Len(segs)
  <2>1. f[Len(segs) + 1] = Len(line) + 1
    BY DEF Divided
  <2> QED BY <1>1, <1>2, <2>1
<1>4. PICK m \in 1 .. Len(segs) : m = i + 1
  BY <1>1, <1>3
<1>5. f[m] <= k /\ k < f[m + 1] /\ m + 1 = i + 2
  BY <1>1, <1>2, <1>3, <1>4
<1>6. Holds(c, line, segs[m], map, m, f[m + 1], k, Len(HtmlFrom(c, line, f[m], k)))
  BY <1>5, RuneIsHeld
<1>7. PICK r \in Seq(ByteSet) : r = RuneBytes(c, line[k])
  <2>1. line[k] \in RunesOf(c)
    OBVIOUS
  <2> QED BY <2>1, RuneBytesType
<1>8. Len(r) \in 1 .. 3 /\ \A n \in 1 .. Len(r) : r[n] = Byte(line[k], n)
  <2>1. line[k] \in RunesOf(c)
    OBVIOUS
  <2> QED BY <1>7, <2>1, RuneBytesType
<1>9. /\ off + Len(r) <= Len(segs[m].bytes)
      /\ \A n \in 1 .. Len(r) : segs[m].bytes[off + n] = r[n]
  BY <1>2, <1>4, <1>6, <1>7 DEF Holds
<1>10. segs[m].bytes \in Seq(ByteSet) /\ Len(segs[m].bytes) \in Nat
  <2>1. segs[m] \in SegmentSet
    OBVIOUS
  <2>2. PICK b \in Seq(ByteSet) : b = segs[m].bytes
    BY <2>1 DEF SegmentSet
  <2>3. Len(b) \in Nat
    OBVIOUS
  <2> QED BY <2>2, <2>3
<1>11. ready[m].len \in Nat /\ \A n \in 1 .. Len(r) : off + n <= ready[m].len
  <2>1. m \in 1 .. Len(ready) /\ ready \in Seq(ReadySegs)
    BY <1>1 DEF Ready
  <2>2. ready[m].len \in Nat
    BY <2>1, SegFields
  <2>3. ASSUME NEW n \in 1 .. Len(r)
        PROVE  off + n <= ready[m].len
    <3>1. off + n \in 1 .. Len(segs[m].bytes)
      BY <1>8, <1>9, <1>10
    <3>2. segs[m].bytes[off + n].where[1] = line[k]
      <4>1. segs[m].bytes[off + n] = Byte(line[k], n)
        BY <1>8, <1>9
      <4> QED BY <4>1 DEF Byte, Html
    <3> QED BY <3>1, <3>2 DEF Ready
  <2> QED BY <2>2, <2>3
<1>12. Place(ready, i, off)
  <2>1. off + 1 <= ready[m].len
    <3>1. 1 \in 1 .. Len(r)
      <4>1. PICK x \in 1 .. 3 : x = Len(r)
        BY <1>8
      <4> QED BY <4>1
    <3> QED BY <1>11, <3>1
  <2> QED BY <1>1, <1>2, <1>3, <1>4, <1>11, <2>1 DEF Place
<1>13. ASSUME NEW j \in Nat, NEW to \in Nat, SitsAt(c, line, Len(segs), f, k + 1, j, to)
       PROVE  Place(ready, j, to)
  <2>1. j \in 0 .. Len(segs) /\ f[j + 1] <= k + 1 /\ (j < Len(segs) => k + 1 < f[j + 2])
        /\ to = Len(HtmlFrom(c, line, f[j + 1], k + 1))
    BY <1>13 DEF SitsAt
  <2>2. j + 1 \in 1 .. Len(segs) + 1 /\ k + 1 \in 1 .. Len(line) + 1 /\ k + 1 \in k .. Len(line) + 1
        /\ k \in 1 .. Len(line) + 1 /\ m + 1 \in 1 .. Len(segs) + 1
    BY <1>1, <2>1
  <2>3. f[j + 1] \in 1 .. Len(line) + 1 /\ f[j + 1] \in Nat /\ f[m + 1] \in Nat /\ f[m] \in 1 .. Len(line) + 1
    <3>1. m \in 1 .. Len(segs) + 1
      BY <1>1
    <3> QED BY <1>1, <1>4, <2>2, <3>1, DivisionType
  <2>4. i <= j
    BY <1>13, <2>2, SitsInOrder
  <2>5. CASE i = j
    <3>1. HtmlFrom(c, line, f[m], k + 1) = HtmlFrom(c, line, f[m], k) \o HtmlFrom(c, line, k, k + 1)
      <4>1. k \in f[m] .. Len(line) + 1
        BY <1>1, <1>5, <2>3
      <4> QED BY <2>2, <2>3, <4>1, HtmlFromCut
    <3>2. HtmlFrom(c, line, k, k + 1) = r
      BY <1>7, HtmlFromOne
    <3>3. PICK h \in Seq(ByteSet) : h = HtmlFrom(c, line, f[m], k)
      BY <2>2, <2>3, HtmlFromType
    <3>4. Len(h \o r) = Len(h) + Len(r) /\ Len(r) \in Nat /\ Len(h) \in Nat
      OBVIOUS
    <3>5. to = off + Len(r)
      BY <1>2, <1>4, <2>1, <2>5, <3>1, <3>2, <3>3, <3>4
    <3>6. Len(r) \in 1 .. Len(r)
      <4>1. PICK x \in 1 .. 3 : x = Len(r)
        BY <1>8
      <4> QED BY <4>1
    <3>7. to <= ready[m].len
      BY <1>11, <3>5, <3>6
    <3> QED BY <1>1, <1>3, <1>4, <2>1, <2>5, <3>7 DEF Place
  <2>6. CASE i # j
    <3>1. m + 1 \in 1 .. j + 1
      BY <1>4, <2>4, <2>6
    <3>2. f[m + 1] <= f[j + 1]
      BY <1>1, <2>2, <3>1, DivisionAscends
    <3>3. f[j + 1] = k + 1
      BY <1>1, <1>5, <2>1, <2>3, <3>2, SMTT(40)
    <3>4. HtmlFrom(c, line, k + 1, k + 1) = <<>>
      <4>1. PICK y \in 1 .. Len(line) + 1 : y = k + 1
        BY <2>2
      <4>2. HtmlFrom(c, line, y, y) = <<>>
        BY HtmlFromNone
      <4> QED BY <4>1, <4>2
    <3>5. to = 0
      BY <2>1, <3>3, <3>4
    <3>6. j < Len(ready) => ready[j + 1].len \in Nat
      <4>1. ready \in Seq(ReadySegs)
        BY DEF Ready
      <4>2. j < Len(ready) => j + 1 \in 1 .. Len(ready)
        BY <1>1
      <4> QED BY <4>1, <4>2, SegFields
    <3> QED BY <1>1, <2>1, <3>5, <3>6 DEF Place
  <2> QED BY <2>5, <2>6
<1> QED BY <1>1, <1>3, <1>12, <1>13

-----------------------------------------------------------------------------
(* Whose the bytes between two places are *)

\* Every byte of rune x may be seen.
RuneRight(line, ready, f, x, z) ==
  \A i \in 1 .. Len(ready) : f[i] <= x /\ x < f[i + 1] =>
    \A b \in Nat : [where |-> <<line[x], b>>, look |-> ShownLook(ready[i].look), link |-> z.link] \in z.right

\* A byte of the line is that of a rune.
LEMMA ByteOfRune ==
  ASSUME NEW c \in Seq(Tokens), NEW line \in Seq(RunesOf(c)), NEW a \in 1 .. Len(line) + 1,
         NEW k \in a .. Len(line) + 1, NEW e \in k .. Len(line) + 1, NEW g \in e .. Len(line) + 1,
         NEW n \in Nat, Len(HtmlFrom(c, line, a, k)) < n, n <= Len(HtmlFrom(c, line, a, e))
  PROVE  \E x \in k .. e - 1 : \E b \in Nat : HtmlFrom(c, line, a, g)[n].where = <<line[x], b>>
<1>1. /\ a \in 1 .. Len(line) + 1 /\ k \in 1 .. Len(line) + 1 /\ e \in 1 .. Len(line) + 1
      /\ g \in 1 .. Len(line) + 1 /\ Len(line) \in Nat /\ k \in Nat /\ e \in Nat /\ a <= k /\ k <= e /\ e <= g
  OBVIOUS
<1>2. PICK p \in Seq(ByteSet) : p = HtmlFrom(c, line, a, k)
  BY <1>1, HtmlFromType
<1>3. PICK q \in Seq(ByteSet) : q = HtmlFrom(c, line, k, e)
  BY <1>1, HtmlFromType
<1>4. PICK r \in Seq(ByteSet) : r = HtmlFrom(c, line, e, g)
  BY <1>1, HtmlFromType
<1>5. HtmlFrom(c, line, a, e) = p \o q
  BY <1>2, <1>3, HtmlFromCut
<1>6. HtmlFrom(c, line, a, g) = (p \o q) \o r
  <2>1. e \in a .. Len(line) + 1
    BY <1>1
  <2>2. HtmlFrom(c, line, a, g) = HtmlFrom(c, line, a, e) \o HtmlFrom(c, line, e, g)
    BY <2>1, HtmlFromCut
  <2> QED BY <1>4, <1>5, <2>2
<1>7. Len(p \o q) = Len(p) + Len(q) /\ Len(p) \in Nat /\ Len(q) \in Nat
      /\ \A j \in 1 .. Len(q) : ((p \o q) \o r)[Len(p) + j] = q[j]
  <2>1. Len(p) \in Nat /\ Len(q) \in Nat
    OBVIOUS
  <2> QED BY <2>1, ThreeParts
<1>8. PICK j \in 1 .. Len(q) : n = Len(p) + j
  <2>1. n - Len(p) \in 1 .. Len(q) /\ n = Len(p) + (n - Len(p))
    BY <1>2, <1>5, <1>7
  <2> QED BY <2>1
<1>9. HtmlFrom(c, line, a, g)[n] = q[j]
  BY <1>6, <1>7, <1>8
<1>10. PICK s \in Seq(RunesOf(c)) : s = SubSeq(line, k, e - 1)
  <2>1. SubSeq(line, k, e - 1) \in Seq(RunesOf(c))
    <3>1. e - 1 \in 0 .. Len(line)
      BY <1>1
    <3> QED BY <1>1, <3>1, SubSeqType
  <2> QED BY <2>1, Zenon
<1>11. q = HBytes(c, s)
  BY <1>3, <1>10 DEF HtmlFrom
<1>12. PICK m \in 1 .. Len(s) : q[j].where[1] = s[m]
  BY <1>8, <1>11, BytesOfRunes
<1>13. PICK x \in k .. e - 1 : s[m] = line[x]
  <2>1. Len(s) = IF k <= e - 1 THEN e - k ELSE 0
    BY <1>1, <1>10
  <2>2. Len(s) \in Nat /\ m \in 1 .. Len(s)
    OBVIOUS
  <2>3. k <= e - 1 /\ m <= e - k
    BY <1>1, <2>1, <2>2
  <2>4. s[m] = line[k + m - 1] /\ k + m - 1 \in k .. e - 1
    BY <1>1, <1>10, <2>2, <2>3
  <2> QED BY <2>4
<1>14. q[j] \in ByteSet
  OBVIOUS
<1>15. PICK u \in Nat, b \in Nat : q[j].where = <<u, b>>
  <2>1. q[j].where \in Nat \X Nat
    BY <1>14 DEF ByteSet
  <2>2. PICK y \in Nat \X Nat : y = q[j].where
    BY <2>1
  <2>3. y = <<y[1], y[2]>> /\ y[1] \in Nat /\ y[2] \in Nat
    OBVIOUS
  <2> QED BY <2>2, <2>3
<1>16. q[j].where = <<line[x], b>>
  BY <1>12, <1>13, <1>15
<1> QED BY <1>9, <1>13, <1>15, <1>16

\* What is between two places is right when it is for every rune in between.
LEMMA RegionRight ==
  ASSUME NEW c \in Seq(Tokens), NEW line \in Seq(RunesOf(c)), NEW segs \in Seq(SegmentSet), NEW map, NEW f,
         Divided(c, line, segs, map, f), NEW ready, Ready(c, segs, ready), NEW z, z \in Scenes,
         NEW k \in 1 .. Len(line) + 1, NEW e \in k .. Len(line) + 1,
         \A x \in k .. e - 1 : RuneRight(line, ready, f, x, z),
         NEW i \in Nat, NEW off, SitsAt(c, line, Len(segs), f, k, i, off),
         NEW j \in Nat, NEW to, SitsAt(c, line, Len(segs), f, e, j, to)
  PROVE  RightTo(ready, i, off, j, to, z)
<1>1. /\ Len(line) \in Nat /\ Len(segs) \in Nat /\ k \in Nat /\ e \in Nat /\ k <= e
      /\ Len(ready) = Len(segs) /\ ready \in Seq(ReadySegs)
  BY DEF Ready
<1>2. /\ i \in 0 .. Len(segs) /\ j \in 0 .. Len(segs) /\ f[i + 1] <= k /\ f[j + 1] <= e
      /\ (i < Len(segs) => k < f[i + 2])
      /\ (j < Len(segs) => e < f[j + 2])
      /\ off = Len(HtmlFrom(c, line, f[i + 1], k)) /\ to = Len(HtmlFrom(c, line, f[j + 1], e))
  BY DEF SitsAt
<1> SUFFICES ASSUME NEW m \in i .. j, m < Len(ready),
                    NEW n \in (IF m = i THEN off ELSE 0) + 1 .. (IF m = j THEN to ELSE ready[m + 1].len)
             PROVE  [where |-> ready[m + 1].bytes[n].where, look |-> ShownLook(ready[m + 1].look),
                     link |-> z.link] \in z.right
  BY DEF RightTo, Right
<1>3. m \in Nat /\ i <= m /\ m <= j /\ m + 1 \in 1 .. Len(segs)
      /\ m + 1 \in 1 .. Len(segs) + 1 /\ m + 2 \in 1 .. Len(segs) + 1
      /\ i + 1 \in 1 .. m + 1 /\ m + 1 \in 1 .. j + 1 /\ i + 1 \in 1 .. Len(segs) + 1
      /\ j + 1 \in 1 .. Len(segs) + 1
  BY <1>1, <1>2, SMTT(40)
<1>4. PICK a \in 1 .. Len(line) + 1 : a = f[m + 1]
  BY <1>1, <1>3, DivisionType
<1>5. PICK g \in 1 .. Len(line) + 1 : g = f[m + 2]
  BY <1>1, <1>3, DivisionType
<1>6. a <= g
  <2>1. m + 1 \in 1 .. m + 2
    <3>1. m \in Nat
      BY <1>3
    <3> QED BY <3>1, SMTT(40)
  <2> QED BY <1>1, <1>3, <1>4, <1>5, <2>1, DivisionAscends
<1>7. /\ ready[m + 1].bytes = HtmlFrom(c, line, a, g)
      /\ ready[m + 1].len \in Nat /\ ready[m + 1].len <= Len(HtmlFrom(c, line, a, g))
  <2>1. segs[m + 1].bytes = HtmlFrom(c, line, f[m + 1], f[(m + 1) + 1])
    BY <1>3 DEF Divided
  <2>2. (m + 1) + 1 = m + 2
    OBVIOUS
  <2>3. ready[m + 1].bytes = segs[m + 1].bytes
    BY <1>3 DEF Ready
  <2>4. m + 1 \in 1 .. Len(ready)
    BY <1>1, <1>3
  <2>5. ready[m + 1].len \in Nat /\ ready[m + 1].len <= Len(ready[m + 1].bytes)
    BY <1>1, <2>4, SegFields
  <2> QED BY <1>4, <1>5, <2>1, <2>2, <2>3, <2>5
\* The part of the segment between the two runes.
<1>8. PICK u \in a .. Len(line) + 1 :
        /\ k <= u /\ (u <= g) /\ (IF m = i THEN off ELSE 0) = Len(HtmlFrom(c, line, a, u))
  <2>1. CASE m = i
    <3>1. k \in a .. Len(line) + 1 /\ k <= k /\ k <= g
      BY <1>1, <1>2, <1>3, <1>4, <1>5, <2>1, SMTT(40)
    <3>2. off = Len(HtmlFrom(c, line, a, k))
      BY <1>2, <1>4, <2>1
    <3> QED BY <2>1, <3>1, <3>2
  <2>2. CASE m # i
    <3>1. i + 2 \in 1 .. m + 1 /\ i < Len(segs) /\ i + 2 \in 1 .. Len(segs) + 1
      <4>1. i < m /\ m < Len(segs)
        BY <1>1, <1>3, <2>2
      <4>2. i + 2 <= m + 1 /\ m + 1 <= Len(segs) + 1
        BY <1>1, <1>3, <4>1
      <4> QED BY <1>1, <1>3, <4>1, <4>2
    <3>2. f[i + 2] <= a /\ f[i + 2] \in Nat
      BY <1>1, <1>3, <1>4, <3>1, DivisionAscends, DivisionType
    <3>3. k <= a
      <4>1. k < f[i + 2]
        BY <1>2, <3>1
      <4> QED BY <1>1, <3>2, <4>1
    <3>4. HtmlFrom(c, line, a, a) = <<>> /\ a \in a .. Len(line) + 1
      BY <1>1, HtmlFromType
    <3>5. 0 = Len(HtmlFrom(c, line, a, a))
      BY <3>4
    <3> QED BY <1>6, <2>2, <3>3, <3>4, <3>5
  <2> QED BY <2>1, <2>2
<1>9. PICK v \in a .. g :
        /\ v <= e /\ (IF m = j THEN to ELSE ready[m + 1].len) <= Len(HtmlFrom(c, line, a, v))
        /\ (IF m = j THEN to ELSE ready[m + 1].len) \in Nat
  <2>1. CASE m = j
    <3>1. e \in a .. g
      BY <1>1, <1>2, <1>3, <1>4, <1>5, <2>1, SMTT(40)
    <3>2. to = Len(HtmlFrom(c, line, a, e))
      BY <1>2, <1>4, <2>1
    <3>3. PICK h \in Seq(ByteSet) : h = HtmlFrom(c, line, a, e)
      BY <1>1, HtmlFromType
    <3>4. Len(h) \in Nat
      OBVIOUS
    <3> QED BY <1>1, <2>1, <3>1, <3>2, <3>3, <3>4
  <2>2. CASE m # j
    <3>1. m + 2 \in 1 .. j + 1
      BY <1>3, <2>2
    <3>2. g <= f[j + 1] /\ f[j + 1] \in Nat
      BY <1>1, <1>3, <1>5, <3>1, DivisionAscends, DivisionType
    <3>3. g <= e /\ g \in a .. g
      BY <1>1, <1>2, <1>6, <3>2, SMTT(40)
    <3> QED BY <1>7, <2>2, <3>3
  <2> QED BY <2>1, <2>2
<1>10. n \in Nat /\ Len(HtmlFrom(c, line, a, u)) < n /\ n <= Len(HtmlFrom(c, line, a, v))
  <2>1. PICK h \in Seq(ByteSet) : h = HtmlFrom(c, line, a, u)
    BY <1>1, HtmlFromType
  <2>2. Len(h) \in Nat
    OBVIOUS
  <2>3. PICK h2 \in Seq(ByteSet) : h2 = HtmlFrom(c, line, a, v)
    <3>1. v \in 1 .. Len(line) + 1
      BY <1>1
    <3> QED BY <3>1, HtmlFromType
  <2>4. Len(h2) \in Nat
    OBVIOUS
  <2>5. PICK lo \in Nat : lo = IF m = i THEN off ELSE 0
    BY <1>8, <2>1, <2>2
  <2>6. PICK hi \in Nat : hi = IF m = j THEN to ELSE ready[m + 1].len
    BY <1>9
  <2>7. n \in lo + 1 .. hi
    BY <2>5, <2>6
  <2>8. lo = Len(HtmlFrom(c, line, a, u)) /\ hi <= Len(HtmlFrom(c, line, a, v))
    BY <1>8, <1>9, <2>5, <2>6
  <2>9. PICK top \in Nat : top = Len(HtmlFrom(c, line, a, v))
    BY <2>3, <2>4
  <2>10. n \in Nat /\ lo < n /\ n <= top
    <3>1. n \in Nat /\ lo < n /\ n <= hi
      BY <2>7, SMTT(40)
    <3> QED BY <2>8, <2>9, <3>1
  <2> QED BY <2>8, <2>9, <2>10
<1>11. u < v
  <2> SUFFICES ASSUME v <= u PROVE FALSE
    BY <1>1
  <2>1. v \in a .. Len(line) + 1 /\ u \in v .. Len(line) + 1
    BY <1>1
  <2>2. Len(HtmlFrom(c, line, a, v)) <= Len(HtmlFrom(c, line, a, u))
    BY <2>1, HtmlGrows
  <2>3. PICK h \in Seq(ByteSet) : h = HtmlFrom(c, line, a, u)
    BY <1>1, HtmlFromType
  <2>4. PICK h2 \in Seq(ByteSet) : h2 = HtmlFrom(c, line, a, v)
    <3>1. v \in 1 .. Len(line) + 1
      BY <1>1
    <3> QED BY <3>1, HtmlFromType
  <2>5. Len(h) \in Nat /\ Len(h2) \in Nat
    OBVIOUS
  <2> QED BY <1>10, <2>2, <2>3, <2>4, <2>5
<1>12. PICK x \in u .. v - 1 : \E b \in Nat : HtmlFrom(c, line, a, g)[n].where = <<line[x], b>>
  <2>1. v \in u .. Len(line) + 1 /\ g \in v .. Len(line) + 1
    BY <1>1, <1>11
  <2> QED BY <1>10, <2>1, ByteOfRune
<1>13. PICK b \in Nat : HtmlFrom(c, line, a, g)[n].where = <<line[x], b>>
  BY <1>12
<1>14. RuneRight(line, ready, f, x, z)
  <2>1. x \in k .. e - 1
    BY <1>1, <1>8, <1>9, SMTT(40)
  <2> QED BY <2>1
<1>15. [where |-> <<line[x], b>>, look |-> ShownLook(ready[m + 1].look), link |-> z.link] \in z.right
  <2>1. m + 1 \in 1 .. Len(ready)
    BY <1>1, <1>3
  <2>2. f[m + 1] <= x /\ x < f[(m + 1) + 1]
    <3>1. (m + 1) + 1 = m + 2
      OBVIOUS
    <3>2. a <= x /\ x < g
      BY <1>8, <1>9
    <3> QED BY <1>4, <1>5, <3>1, <3>2
  <2> QED BY <1>14, <2>1, <2>2 DEF RuneRight
<1> QED BY <1>7, <1>13, <1>15

-----------------------------------------------------------------------------
(* What Find leaves of its finds *)

\* Ranges in order, which do not overlap.
Apart(s) == \A n \in 1 .. Len(s) : \A m \in 1 .. n - 1 : s[m][2] < s[n][1]
\* What Find keeps does not overlap.
Kept(R) == {s \in Seq(R) : Apart(s)}
\* Find's choice, as a typed fold.
KeepFn(R) ==
  [x \in Kept(R) \X R |-> IF x[1] = <<>> \/ Last(x[1])[2] < x[2][1] THEN Append(x[1], x[2]) ELSE x[1]]
\* Finds in a line of length L.
RangesIn(L) == {r \in Nat \X Nat : 1 <= r[1] /\ r[1] <= r[2] /\ r[2] <= L}
\* No links.
NoRanges == <<>>

\* The choice keeps them apart.
LEMMA KeepFnType ==
  ASSUME NEW L \in Nat, NEW R, R \subseteq RangesIn(L)
  PROVE  IsOp(Kept(R), R, KeepFn(R)) /\ NoRanges \in Kept(R)
<1>1. NoRanges \in Kept(R)
  <2>1. <<>> \in Seq(R) /\ Len(<<>>) = 0
    OBVIOUS
  <2> QED BY <2>1 DEF Kept, Apart, NoRanges
<1>2. ASSUME NEW s \in Kept(R), NEW r \in R, s = <<>> \/ Last(s)[2] < r[1]
      PROVE  Append(s, r) \in Kept(R)
  <2>1. s \in Seq(R) /\ Apart(s) /\ Append(s, r) \in Seq(R)
    BY DEF Kept
  <2>2. Len(Append(s, r)) = Len(s) + 1 /\ Len(s) \in Nat /\ Append(s, r)[Len(s) + 1] = r
        /\ \A k \in 1 .. Len(s) : Append(s, r)[k] = s[k]
    BY <2>1
  <2>3. \A k \in 1 .. Len(s) : s[k] \in R
    BY <2>1
  <2>4. ASSUME NEW n \in 1 .. Len(s) + 1, NEW m \in 1 .. n - 1
        PROVE  Append(s, r)[m][2] < Append(s, r)[n][1]
    <3>1. m \in 1 .. Len(s) /\ Append(s, r)[m] = s[m]
      BY <2>2
    <3>2. CASE n \in 1 .. Len(s)
      BY <2>1, <2>2, <3>1, <3>2 DEF Apart
    <3>3. CASE n = Len(s) + 1
      <4>1. s # <<>> /\ Last(s) = s[Len(s)] /\ Len(s) \in 1 .. Len(s)
        BY <2>2, <3>1 DEF Last
      <4>2. s[Len(s)][2] < r[1]
        BY <1>2, <4>1
      <4>3. CASE m = Len(s)
        BY <2>2, <3>1, <3>3, <4>2, <4>3
      <4>4. CASE m # Len(s)
        <5>1. m \in 1 .. Len(s) - 1
          BY <2>2, <3>1, <4>4
        <5>2. s[m][2] < s[Len(s)][1]
          BY <2>1, <4>1, <5>1 DEF Apart
        <5>3. s[m][2] \in Nat /\ s[Len(s)][1] \in Nat /\ s[Len(s)][2] \in Nat /\ r[1] \in Nat
              /\ s[Len(s)][1] <= s[Len(s)][2]
          BY <2>3, <3>1, <4>1 DEF RangesIn
        <5>4. s[m][2] < r[1]
          BY <4>2, <5>2, <5>3, SMTT(40)
        <5> QED BY <2>2, <3>1, <3>3, <5>4
      <4> QED BY <4>3, <4>4
    <3>4. n \in 1 .. Len(s) \/ n = Len(s) + 1
      BY <2>2
    <3> QED BY <3>2, <3>3, <3>4
  <2> QED BY <2>1, <2>2, <2>4 DEF Kept, Apart
<1>3. ASSUME NEW x \in Kept(R) \X R
      PROVE  (IF x[1] = <<>> \/ Last(x[1])[2] < x[2][1] THEN Append(x[1], x[2]) ELSE x[1]) \in Kept(R)
  <2>1. x[1] \in Kept(R) /\ x[2] \in R
    OBVIOUS
  <2> QED BY <1>2, <2>1
<1> QED BY <1>1, <1>3 DEF IsOp, KeepFn

\* Before is a strict order of the finds, and of any two of them one is first.
LEMMA BeforeOrder ==
  ASSUME NEW L \in Nat
  PROVE  /\ \A q, r \in RangesIn(L) : q = r \/ Before(q, r) \/ Before(r, q)
         /\ \A q, r \in RangesIn(L) : Before(q, r) => q # r /\ ~Before(r, q)
         /\ \A p, q, r \in RangesIn(L) : Before(p, q) /\ Before(q, r) => Before(p, r)
<1>1. \A r \in RangesIn(L) : r[1] \in Nat /\ r[2] \in Nat /\ r = <<r[1], r[2]>>
  BY DEF RangesIn
<1>2. ASSUME NEW q \in RangesIn(L), NEW r \in RangesIn(L), q # r
      PROVE  Before(q, r) \/ Before(r, q)
  <2>1. q[1] # r[1] \/ q[2] # r[2]
    BY <1>1, <1>2
  <2> QED BY <1>1, <2>1 DEF Before
<1>3. \A q, r \in RangesIn(L) : Before(q, r) => q # r /\ ~Before(r, q)
  BY <1>1 DEF Before
<1>4. ASSUME NEW p \in RangesIn(L), NEW q \in RangesIn(L), NEW r \in RangesIn(L), Before(p, q), Before(q, r)
      PROVE  Before(p, r)
  <2>1. /\ p[1] \in Nat /\ q[1] \in Nat /\ r[1] \in Nat /\ p[2] \in Nat /\ q[2] \in Nat /\ r[2] \in Nat
    BY <1>1
  <2> QED BY <1>4, <2>1 DEF Before
<1> QED BY <1>2, <1>3, <1>4

\* A line has a finite number of finds.
LEMMA FindsAreFinite ==
  ASSUME NEW L \in Nat, NEW finds, finds \subseteq RangesIn(L)
  PROVE  IsFiniteSet(finds)
<1>1. IsFiniteSet(1 .. L)
  BY FS_Interval
<1>2. IsFiniteSet((1 .. L) \X (1 .. L))
  BY <1>1, FS_Product
<1>3. finds \subseteq (1 .. L) \X (1 .. L)
  BY DEF RangesIn
<1> QED BY <1>2, <1>3, FS_Subset

\* The finds before r, by whose number they are put in order.
Earlier(finds, r) == {q \in finds : Before(q, r)}
\* How many of the finds are before each.
Ranking(finds) == [r \in finds |-> Cardinality(Earlier(finds, r))]

\* Fewer are before what comes before.
LEMMA RankGrows ==
  ASSUME NEW L \in Nat, NEW finds, finds \subseteq RangesIn(L), NEW q \in finds, NEW r \in finds, Before(q, r)
  PROVE  /\ Cardinality(Earlier(finds, q)) \in Nat /\ Cardinality(Earlier(finds, r)) \in Nat
         /\ Cardinality(Earlier(finds, q)) < Cardinality(Earlier(finds, r))
<1>1. IsFiniteSet(finds)
  BY FindsAreFinite
<1>2. IsFiniteSet(Earlier(finds, q)) /\ IsFiniteSet(Earlier(finds, r))
  BY <1>1, FS_Subset DEF Earlier
<1>3. Earlier(finds, q) \subseteq Earlier(finds, r)
  BY BeforeOrder DEF Earlier
<1>4. Earlier(finds, q) # Earlier(finds, r)
  BY BeforeOrder DEF Earlier
<1>5. Cardinality(Earlier(finds, q)) \in Nat /\ Cardinality(Earlier(finds, r)) \in Nat
  BY <1>2, FS_CardinalityType
<1>6. Cardinality(Earlier(finds, q)) <= Cardinality(Earlier(finds, r))
  BY <1>2, <1>3, FS_Subset
<1>7. Cardinality(Earlier(finds, q)) # Cardinality(Earlier(finds, r))
  BY <1>2, <1>3, <1>4, FS_Subset
<1> QED BY <1>5, <1>6, <1>7

\* The numbers from 0 are each that of one of the finds.
LEMMA RanksAreAll ==
  ASSUME NEW L \in Nat, NEW finds, finds \subseteq RangesIn(L)
  PROVE  /\ Cardinality(finds) \in Nat
         /\ Ranking(finds) \in [finds -> 0 .. Cardinality(finds) - 1]
         /\ \A n \in 0 .. Cardinality(finds) - 1 : \E r \in finds : Ranking(finds)[r] = n
<1>1. IsFiniteSet(finds)
  BY FindsAreFinite
<1>2. PICK N \in Nat : N = Cardinality(finds)
  BY <1>1, FS_CardinalityType
<1>3. ASSUME NEW r \in finds PROVE Cardinality(Earlier(finds, r)) \in 0 .. N - 1
  <2>1. IsFiniteSet(Earlier(finds, r)) /\ Cardinality(Earlier(finds, r)) <= N /\ Earlier(finds, r) # finds
    BY <1>1, <1>2, FS_Subset, BeforeOrder DEF Earlier
  <2>2. Cardinality(Earlier(finds, r)) \in Nat
    BY <2>1, FS_CardinalityType
  <2>3. Earlier(finds, r) \in SUBSET finds
    BY DEF Earlier
  <2>4. Cardinality(Earlier(finds, r)) # N
    BY <1>1, <1>2, <2>1, <2>3, FS_Subset
  <2> QED BY <2>1, <2>2, <2>4
<1>4. Ranking(finds) \in [finds -> 0 .. N - 1]
  BY <1>3 DEF Ranking
<1>5. ASSUME NEW q \in finds, NEW r \in finds, q # r PROVE Ranking(finds)[q] # Ranking(finds)[r]
  <2>1. Before(q, r) \/ Before(r, q)
    BY <1>5, BeforeOrder
  <2>2. CASE Before(q, r)
    BY <2>2, RankGrows DEF Ranking
  <2>3. CASE Before(r, q)
    BY <2>3, RankGrows DEF Ranking
  <2> QED BY <2>1, <2>2, <2>3
<1>6. Ranking(finds) \in Injection(finds, 0 .. N - 1)
  BY <1>4, <1>5 DEF Injection, IsInjective
<1>7. IsFiniteSet(0 .. N - 1) /\ Cardinality(0 .. N - 1) = N
  BY FS_Interval
<1>8. Ranking(finds) \in Surjection(finds, 0 .. N - 1)
  BY <1>2, <1>6, <1>7, FS_Injection
<1> QED BY <1>2, <1>4, <1>8 DEF Surjection

\* s has all of the finds, the first of them first.
Orders(s, finds) ==
  /\ s \in Seq(finds)
  /\ \A r \in finds : \E n \in 1 .. Len(s) : s[n] = r
  /\ \A n \in 1 .. Len(s) : \A m \in 1 .. n - 1 : Before(s[m], s[n])

\* InOrder puts them in order, whatever they are.
LEMMA InOrderIs ==
  ASSUME NEW L \in Nat, NEW finds, finds \subseteq RangesIn(L)
  PROVE  Orders(InOrder(finds), finds)
<1>1. PICK N \in Nat : N = Cardinality(finds)
  BY RanksAreAll
<1>2. PICK s : s = InOrder(finds)
  OBVIOUS
<1>3. ASSUME NEW n \in 1 .. N PROVE s[n] \in finds /\ Ranking(finds)[s[n]] = n - 1
  <2>1. n - 1 \in 0 .. N - 1
    OBVIOUS
  <2>2. PICK r \in finds : Ranking(finds)[r] = n - 1
    BY <1>1, <2>1, RanksAreAll
  <2>3. Cardinality({q \in finds : Before(q, r)}) = n - 1
    BY <2>2 DEF Ranking, Earlier
  <2>4. s[n] = CHOOSE x \in finds : Cardinality({q \in finds : Before(q, x)}) = n - 1
    BY <1>1, <1>2 DEF InOrder
  <2>5. s[n] \in finds /\ Cardinality({q \in finds : Before(q, s[n])}) = n - 1
    BY <2>3, <2>4
  <2> QED BY <2>5 DEF Ranking, Earlier
<1>4. s \in Seq(finds) /\ Len(s) = N
  <2> DEFINE Nth(n) == CHOOSE r \in finds : Cardinality({q \in finds : Before(q, r)}) = n - 1
  <2>1. s = [n \in 1 .. N |-> Nth(n)]
    BY <1>1, <1>2 DEF InOrder
  <2> HIDE DEF Nth
  <2>2. \A n \in 1 .. N : Nth(n) \in finds
    BY <1>3, <2>1
  <2> QED BY <2>1, <2>2
<1>5. ASSUME NEW r \in finds PROVE \E n \in 1 .. N : s[n] = r
  <2>1. Ranking(finds)[r] \in 0 .. N - 1
    BY <1>1, RanksAreAll
  <2>2. PICK n \in 1 .. N : Ranking(finds)[r] = n - 1
    <3>1. PICK k \in 0 .. N - 1 : k = Ranking(finds)[r]
      BY <2>1
    <3>2. k + 1 \in 1 .. N /\ k = (k + 1) - 1
      BY <3>1
    <3> QED BY <3>1, <3>2
  <2>3. s[n] \in finds /\ Ranking(finds)[s[n]] = Ranking(finds)[r]
    BY <1>3, <2>2
  <2>4. ~Before(s[n], r)
    <3> SUFFICES ASSUME Before(s[n], r) PROVE FALSE
      OBVIOUS
    <3>1. Cardinality(Earlier(finds, s[n])) < Cardinality(Earlier(finds, r)) /\ Cardinality(Earlier(finds, r)) \in Nat
      BY <2>3, RankGrows
    <3> QED BY <2>3, <3>1 DEF Ranking
  <2>5. ~Before(r, s[n])
    <3> SUFFICES ASSUME Before(r, s[n]) PROVE FALSE
      OBVIOUS
    <3>1. Cardinality(Earlier(finds, r)) < Cardinality(Earlier(finds, s[n])) /\ Cardinality(Earlier(finds, r)) \in Nat
      BY <2>3, RankGrows
    <3> QED BY <2>3, <3>1 DEF Ranking
  <2> QED BY <2>3, <2>4, <2>5, BeforeOrder
<1>6. ASSUME NEW n \in 1 .. N, NEW m \in 1 .. n - 1 PROVE Before(s[m], s[n])
  <2>1. m \in 1 .. N /\ m - 1 < n - 1 /\ n \in Nat /\ m \in Nat
    OBVIOUS
  <2>2. s[m] \in finds /\ s[n] \in finds /\ Ranking(finds)[s[m]] = m - 1 /\ Ranking(finds)[s[n]] = n - 1
    BY <1>3, <2>1
  <2>3. s[m] # s[n]
    BY <2>1, <2>2
  <2>4. ~Before(s[n], s[m])
    <3> SUFFICES ASSUME Before(s[n], s[m]) PROVE FALSE
      OBVIOUS
    <3>1. Cardinality(Earlier(finds, s[n])) < Cardinality(Earlier(finds, s[m]))
      BY <2>2, RankGrows
    <3>2. n - 1 < m - 1
      BY <2>2, <3>1 DEF Ranking
    <3> QED BY <2>1, <3>2
  <2> QED BY <2>2, <2>3, <2>4, BeforeOrder
<1> QED BY <1>2, <1>4, <1>5, <1>6 DEF Orders
\* Filtered is a fold over the finds in order.
LEMMA FilteredIs ==
  ASSUME NEW L \in Nat, NEW finds, finds \subseteq RangesIn(L)
  PROVE  /\ Filtered(finds) = FoldFn(Kept(finds), KeepFn(finds), NoRanges, InOrder(finds))
         /\ Filtered(finds) \in Kept(finds)
<1>1. PICK s \in Seq(finds) : s = InOrder(finds)
  BY InOrderIs DEF Orders
<1>2. PICK T : T = Kept(finds)
  OBVIOUS
<1>3. PICK op : op = KeepFn(finds)
  OBVIOUS
<1>4. PICK b \in T : b = <<>>
  BY <1>2, KeepFnType DEF NoRanges
<1>5. IsOp(T, finds, op)
  BY <1>2, <1>3, KeepFnType
<1> DEFINE Keep(kept, r) == IF kept = <<>> \/ Last(kept)[2] < r[1] THEN Append(kept, r) ELSE kept
           Good(it) == it = [r \in SUBSET (DOMAIN s) |->
                               IF r = {} THEN b ELSE Keep(it[r \ {Max(r)}], s[Max(r)])]
           it == CHOOSE it : Good(it)
<1>6. Filtered(finds) = it[DOMAIN s]
  BY <1>1, <1>4 DEF Filtered, FoldLeft, MapThenFoldSet
<1>7. PICK g \in Iterates(T, finds, op, b, s) : TRUE
  BY <1>5, IterateExists
<1>8. Good(g)
  BY <1>2, <1>3, <1>7, ZenonT(60) DEF Iterates, KeepFn
<1>9. Good(it)
  BY <1>8, ZenonT(60)
<1> HIDE DEF it
<1>10. Iterated(T, op, b, s, it)
  <2> SUFFICES ASSUME NEW r \in SUBSET (DOMAIN s)
               PROVE  /\ r = {} => it[r] = b
                      /\ r # {} /\ it[r \ {Max(r)}] \in T
                           => it[r] = op[<<it[r \ {Max(r)}], s[Max(r)]>>]
    BY DEF Iterated
  <2>1. it[r] = IF r = {} THEN b ELSE Keep(it[r \ {Max(r)}], s[Max(r)])
    BY <1>9
  <2>2. r # {} => s[Max(r)] \in finds
    BY <1>7 DEF Iterates
  <2> QED BY <1>2, <1>3, <2>1, <2>2 DEF KeepFn
<1>11. it[DOMAIN s] = FoldFn(T, op, b, s) /\ FoldFn(T, op, b, s) \in T
  BY <1>5, <1>10, IteratedIsFold
<1> QED BY <1>1, <1>2, <1>3, <1>4, <1>6, <1>11 DEF NoRanges

\* r is kept, or overlaps one that is kept and comes before it.
Decides(kept, r) ==
  \E j \in 1 .. Len(kept) : kept[j] = r \/ (Before(kept[j], r) /\ r[1] <= kept[j][2])

\* What was decided remains so.
LEMMA DecidesMore ==
  ASSUME NEW R, NEW k \in Seq(R), NEW r \in R, NEW x, Decides(k, x)
  PROVE  Decides(Append(k, r), x)
<1>1. PICK j \in 1 .. Len(k) : k[j] = x \/ (Before(k[j], x) /\ x[1] <= k[j][2])
  BY DEF Decides
<1>2. j \in 1 .. Len(Append(k, r)) /\ Append(k, r)[j] = k[j]
  OBVIOUS
<1> QED BY <1>1, <1>2 DEF Decides

\* The first n finds are decided.
DecidedFirst(kept, s, n) ==
  /\ \A m \in 1 .. n : Decides(kept, s[m])
  /\ \A j \in 1 .. Len(kept) : \E m \in 1 .. n : kept[j] = s[m]

\* One more find: it is kept, or overlaps the last that was.
LEMMA DecidesNext ==
  ASSUME NEW L \in Nat, NEW finds, finds \subseteq RangesIn(L), NEW s, Orders(s, finds),
         NEW n \in 1 .. Len(s), NEW k \in Kept(finds), DecidedFirst(k, s, n - 1),
         NEW e, e = KeepFn(finds)[<<k, s[n]>>]
  PROVE  DecidedFirst(e, s, n)
<1>1. /\ s \in Seq(finds) /\ s[n] \in finds /\ Len(s) \in Nat /\ n \in Nat
      /\ k \in Seq(finds) /\ Len(k) \in Nat
  BY SMTT(40) DEF Orders, Kept
<1>2. PICK r \in finds : r = s[n]
  BY <1>1
<1>3. e = IF k = <<>> \/ Last(k)[2] < r[1] THEN Append(k, r) ELSE k
  <2>1. <<k, r>> \in Kept(finds) \X finds /\ <<k, r>>[1] = k /\ <<k, r>>[2] = r
    OBVIOUS
  <2> QED BY <1>2, <2>1 DEF KeepFn
<1>4. \A m \in 1 .. n : m \in 1 .. n - 1 \/ m = n
  BY <1>1
<1>5. \A m \in 1 .. n - 1 : m \in 1 .. n
  BY <1>1
<1>6. CASE k = <<>> \/ Last(k)[2] < r[1]
  <2>1. e = Append(k, r) /\ Len(e) = Len(k) + 1 /\ e[Len(k) + 1] = r /\ \A j \in 1 .. Len(k) : e[j] = k[j]
    BY <1>1, <1>3, <1>6
  <2>2. Decides(e, r)
    <3>1. Len(k) + 1 \in 1 .. Len(e)
      BY <1>1, <2>1
    <3> QED BY <2>1, <3>1 DEF Decides
  <2>3. \A m \in 1 .. n - 1 : Decides(e, s[m])
    BY <1>1, <2>1, DecidesMore DEF DecidedFirst
  <2>4. ASSUME NEW j \in 1 .. Len(e) PROVE \E m \in 1 .. n : e[j] = s[m]
    <3>1. j \in 1 .. Len(k) \/ j = Len(k) + 1
      BY <1>1, <2>1
    <3>2. CASE j \in 1 .. Len(k)
      BY <1>5, <2>1, <3>2 DEF DecidedFirst
    <3>3. CASE j = Len(k) + 1
      BY <1>1, <1>2, <2>1, <3>3
    <3> QED BY <3>1, <3>2, <3>3
  <2> QED BY <1>2, <1>4, <2>2, <2>3, <2>4 DEF DecidedFirst
<1>7. CASE ~(k = <<>> \/ Last(k)[2] < r[1])
  <2>1. e = k /\ k # <<>>
    BY <1>3, <1>7
  <2>2. Len(k) \in 1 .. Len(k) /\ Last(k) = k[Len(k)]
    BY <1>1, <2>1 DEF Last
  <2>3. PICK m \in 1 .. n - 1 : k[Len(k)] = s[m]
    BY <2>2 DEF DecidedFirst
  <2>4. Before(k[Len(k)], r)
    BY <1>2, <2>3 DEF Orders
  <2>5. r[1] <= k[Len(k)][2]
    <3>1. k[Len(k)] \in finds
      BY <1>1, <2>2
    <3>2. k[Len(k)][2] \in Nat /\ r[1] \in Nat
      BY <3>1 DEF RangesIn
    <3> QED BY <1>7, <2>2, <3>2
  <2>6. Decides(e, r)
    BY <2>1, <2>2, <2>4, <2>5 DEF Decides
  <2> QED BY <1>2, <1>4, <1>5, <2>1, <2>6 DEF DecidedFirst
<1> QED BY <1>6, <1>7

\* What Find drops overlaps what it keeps, and begins after it or is shorter.
LEMMA FilteredDecides ==
  ASSUME NEW L \in Nat, NEW finds, finds \subseteq RangesIn(L)
  PROVE  \A r \in finds : Decides(Filtered(finds), r)
<1>1. PICK s \in Seq(finds) : s = InOrder(finds) /\ Orders(s, finds)
  BY InOrderIs DEF Orders
<1>2. PICK N \in Nat : N = Len(s)
  BY <1>1
<1> DEFINE F(n) == FoldFn(Kept(finds), KeepFn(finds), NoRanges, SubSeq(s, 1, n))
           S == {n \in 0 .. N : F(n) \in Kept(finds) /\ DecidedFirst(F(n), s, n)}
<1>3. IsOp(Kept(finds), finds, KeepFn(finds)) /\ NoRanges \in Kept(finds)
  BY KeepFnType
<1>4. 0 \in S
  <2>1. SubSeq(s, 1, 0) \in Seq(finds) /\ Len(SubSeq(s, 1, 0)) = 0
    BY <1>1
  <2>2. F(0) = NoRanges
    BY <1>3, <2>1, FoldFnEmpty
  <2>3. DecidedFirst(NoRanges, s, 0)
    BY DEF DecidedFirst, NoRanges
  <2> QED BY <1>2, <1>3, <2>2, <2>3
<1>5. ASSUME NEW n \in 1 .. N, n - 1 \in S PROVE n \in S
  <2>1. n \in 1 .. Len(s) /\ n \in 0 .. N
    BY <1>2
  <2>2. F(n) = KeepFn(finds)[<<F(n - 1), s[n]>>]
    BY <1>1, <1>3, <2>1, FoldFnPrefix, SMTT(40)
  <2>3. F(n) \in Kept(finds)
    <3>1. F(n - 1) \in Kept(finds) /\ s[n] \in finds
      BY <1>1, <1>5, <2>1
    <3>2. <<F(n - 1), s[n]>> \in Kept(finds) \X finds
      BY <3>1
    <3> QED BY <1>3, <2>2, <3>2 DEF IsOp
  <2>4. DecidedFirst(F(n), s, n)
    BY <1>1, <1>5, <2>1, <2>2, DecidesNext
  <2> QED BY <2>1, <2>3, <2>4
<1> HIDE DEF S
<1>6. N \in S
  <2>1. \A n \in 1 .. N : n - 1 \in S => n \in S
    BY <1>5
  <2>2. 0 .. N \subseteq S
    BY <1>2, <1>4, <2>1, IntervalInduction
  <2> QED BY <1>2, <2>2
<1> USE DEF S
<1>7. SubSeq(s, 1, N) = s
  BY <1>1, <1>2
<1>8. DecidedFirst(Filtered(finds), s, N)
  BY <1>1, <1>6, <1>7, FilteredIs
<1> QED BY <1>1, <1>2, <1>8 DEF DecidedFirst, Orders

-----------------------------------------------------------------------------
(* The links of a line, one after the other *)

\* Outside of links: base is open, and the links ls and the text are there.
Scene(base, ls, text, G) == [base |-> base, link |-> <<0, 0>>, links |-> ls, text |-> text, right |-> G]
\* The link of a find: the places of its first and last rune.
LinkOf(line, r) == <<line[r[1]], line[r[2]]>>
\* The links of the first n finds.
NewLinks(line, links, n) == {LinkOf(line, links[m]) : m \in 1 .. n}

\* Bases have no link.
Bases == {s \in Stacks : ~Contains(s, "a")}

\* What may be seen of rune x, in its link or in none.
AsLinked(line, links, x, link) ==
  \/ link = <<0, 0>> /\ \A m \in 1 .. Len(links) : x < links[m][1] \/ links[m][2] < x
  \/ \E m \in 1 .. Len(links) : links[m][1] <= x /\ x <= links[m][2] /\ link = LinkOf(line, links[m])
\* Every rune of the line may be shown in the look of its segment and in its
\* link.
AllRight(line, ready, f, links, G) ==
  \A x \in 1 .. Len(line) : \A z \in Scenes :
    z.right = G /\ AsLinked(line, links, x, z.link) => RuneRight(line, ready, f, x, z)

\* A line that is to be put out, with its links, and the mapper full of it.
VisibleRanges(c, line) ==
  {r \in RangesIn(Len(line)) : c[line[r[1]]].class # "space" /\ c[line[r[2]]].class # "space"}
\* A line, its segments as they are read and as they are put out, and its
\* links.
LineWith(c, line, segs, map, f, ready, links, full) ==
  /\ c \in Seq(Tokens) /\ line \in Seq(RunesOf(c)) /\ segs \in Seq(SegmentSet)
  /\ Divided(c, line, segs, map, f) /\ Ready(c, segs, ready)
  /\ DOMAIN map = 0 .. 3 * Len(c) /\ TLen(c, line) \in DOMAIN map
  /\ full = [map EXCEPT ![TLen(c, line)] = <<Len(segs), 0>>]
  /\ Len(segs) > 0 /\ f[2] > 1
  /\ links \in Kept(VisibleRanges(c, line))

\* Where a rune is, by the mapper.
PlaceOf(c, line, full, k) == full[TextOf(c, line, k)]
\* What link does for the find r.
Linked(c, line, ready, full, w, r) ==
  LinkTo(ready, w, PlaceOf(c, line, full, r[1]), PlaceOf(c, line, full, r[2] + 1), LinkOf(line, r))

\* These are scenes.
LEMMA SceneType ==
  ASSUME NEW base \in Bases, NEW ls \in SUBSET Pairs, NEW text \in ByteSeqs, NEW G \in SUBSET Glyphs
  PROVE  Scene(base, ls, text, G) \in Scenes /\ NoLink(Scene(base, ls, text, G))
<1>1. PICK z : z = Scene(base, ls, text, G)
  OBVIOUS
<1>2. z.base = base /\ z.link = <<0, 0>>
  BY <1>1 DEF Scene
<1>3. NoLink(z)
  BY <1>2 DEF NoLink, Bases
<1>4. <<0, 0>> \in Pairs
  BY DEF Pairs
<1>5. Scenes = [base : Stacks, link : Pairs, links : SUBSET Pairs, text : ByteSeqs, right : SUBSET Glyphs]
  BY DEF Scenes, Pairs
<1>6. z \in Scenes
  <2> HIDE DEF Pairs
  <2>1. base \in Stacks
    BY DEF Bases
  <2> QED BY <1>1, <1>4, <1>5, <2>1 DEF Scene
<1> QED BY <1>1, <1>3, <1>6

\* Those of a link and after it.
LEMMA SceneLinked ==
  ASSUME NEW base, NEW ls, NEW text, NEW G, NEW p
  PROVE  /\ AfterLink(Scene(base, ls, text, G), p) = Scene(base, ls \cup {p}, text, G)
         /\ InLink(Scene(base, ls, text, G), p).link = p
         /\ InLink(Scene(base, ls, text, G), p).right = G
         /\ Scene(base, ls, text, G).link = <<0, 0>> /\ Scene(base, ls, text, G).right = G
  BY DEF Scene, AfterLink, InLink

\* The end of link n, or the beginning of the line.
EndOf(links, n) == IF n = 0 THEN 1 ELSE links[n][2] + 1

\* The ends of a find are visible runes.
LEMMA RangeFields ==
  ASSUME NEW c, NEW line, Len(line) \in Nat, NEW links \in Kept(VisibleRanges(c, line)), NEW n \in 1 .. Len(links)
  PROVE  /\ links[n][1] \in 1 .. Len(line) /\ links[n][2] \in 1 .. Len(line) /\ links[n][1] <= links[n][2]
         /\ links[n][1] \in Nat /\ links[n][2] \in Nat
         /\ c[line[links[n][1]]].class # "space" /\ c[line[links[n][2]]].class # "space"
         /\ links[n] \in VisibleRanges(c, line)
<1>1. links[n] \in VisibleRanges(c, line)
  BY DEF Kept
<1>2. PICK r : r = links[n]
  OBVIOUS
<1>3. r \in Nat \X Nat /\ 1 <= r[1] /\ r[1] <= r[2] /\ r[2] <= Len(line)
      /\ c[line[r[1]]].class # "space" /\ c[line[r[2]]].class # "space"
  BY <1>1, <1>2 DEF VisibleRanges, RangesIn
<1>4. r[1] \in Nat /\ r[2] \in Nat
  BY <1>3
<1>5. r[1] \in 1 .. Len(line) /\ r[2] \in 1 .. Len(line)
  BY <1>3, <1>4
<1> QED BY <1>1, <1>2, <1>3, <1>4, <1>5

\* Between two of them, no rune is in a link.
LEMMA LinksAscend ==
  ASSUME NEW c, NEW line, Len(line) \in Nat, NEW links \in Kept(VisibleRanges(c, line)), NEW n \in 1 .. Len(links)
  PROVE  /\ EndOf(links, n - 1) \in 1 .. links[n][1]
         /\ \A x \in EndOf(links, n - 1) .. links[n][1] - 1 :
              \A m \in 1 .. Len(links) : x < links[m][1] \/ links[m][2] < x
<1>1. Apart(links) /\ Len(links) \in Nat
  BY DEF Kept
<1>2. \A m \in 1 .. Len(links) : /\ links[m][1] \in 1 .. Len(line) /\ links[m][2] \in 1 .. Len(line)
                                 /\ links[m][1] <= links[m][2]
                                 /\ links[m][1] \in Nat /\ links[m][2] \in Nat
  BY RangeFields
<1>3. \A m \in 1 .. Len(links) : m < n => links[m][2] < links[n][1]
  <2> SUFFICES ASSUME NEW m \in 1 .. Len(links), m < n PROVE links[m][2] < links[n][1]
    OBVIOUS
  <2>1. m \in 1 .. n - 1
    BY <1>1
  <2> QED BY <1>1, <2>1 DEF Apart
<1>4. \A m \in 1 .. Len(links) : n < m => links[n][2] < links[m][1]
  <2> SUFFICES ASSUME NEW m \in 1 .. Len(links), n < m PROVE links[n][2] < links[m][1]
    OBVIOUS
  <2>1. n \in 1 .. m - 1
    BY <1>1
  <2> QED BY <1>1, <2>1 DEF Apart
<1>5. CASE n = 1
  <2>1. EndOf(links, n - 1) = 1 /\ 1 \in 1 .. links[n][1]
    BY <1>2, <1>5 DEF EndOf
  <2>2. ASSUME NEW x \in 1 .. links[n][1] - 1, NEW m \in 1 .. Len(links)
        PROVE  x < links[m][1]
    <3>1. m = n \/ n < m
      BY <1>1, <1>5
    <3>2. links[n][1] <= links[m][1]
      BY <1>2, <1>4, <3>1
    <3> QED BY <1>2, <3>2
  <2> QED BY <2>1, <2>2
<1>6. CASE n # 1
  <2>1. n - 1 \in 1 .. Len(links) /\ n - 1 < n /\ n - 1 # 0
    BY <1>1, <1>6
  <2>2. PICK e \in Nat : e = links[n - 1][2]
    BY <1>2, <2>1
  <2>3. PICK s \in Nat : s = links[n][1]
    BY <1>2
  <2>4. e < s
    BY <1>3, <2>1, <2>2, <2>3
  <2>5. EndOf(links, n - 1) = e + 1 /\ e + 1 \in 1 .. s
    BY <2>1, <2>2, <2>4 DEF EndOf
  <2>6. ASSUME NEW x \in e + 1 .. s - 1, NEW m \in 1 .. Len(links)
        PROVE  x < links[m][1] \/ links[m][2] < x
    <3>1. CASE m = n
      BY <2>3, <3>1
    <3>2. CASE n < m
      <4>1. links[n][2] < links[m][1]
        BY <1>4, <3>2
      <4> QED BY <1>2, <2>3, <4>1
    <3>3. CASE m = n - 1
      BY <2>2, <3>3
    <3>4. CASE m < n - 1
      <4>1. m \in 1 .. (n - 1) - 1
        BY <1>1, <3>4
      <4>2. links[m][2] < links[n - 1][1]
        BY <1>1, <2>1, <4>1 DEF Apart
      <4>3. links[n - 1][1] <= e /\ links[n - 1][1] \in Nat /\ links[m][2] \in Nat
        BY <1>2, <2>1, <2>2
      <4> QED BY <4>2, <4>3, SMTT(40)
    <3> QED BY <1>1, <3>1, <3>2, <3>3, <3>4
  <2> QED BY <2>3, <2>5, <2>6
<1> QED BY <1>5, <1>6

\* The walk through a link is a walk.
LEMMA LinkToType ==
  ASSUME NEW ready \in Seq(ReadySegs), NEW w \in Walks, NEW i \in Nat, NEW off \in Nat,
         NEW j \in Nat, NEW to \in Nat, NEW p \in Pairs, NEW begin, begin = <<i, off>>, NEW end, end = <<j, to>>
  PROVE  LinkTo(ready, w, begin, end, p) \in Walks
<1>1. begin[1] = i /\ begin[2] = off /\ end[1] = j /\ end[2] = to
  OBVIOUS
<1>2. PICK a \in Htmls : a = Html("a", p, NoLook)
  BY LinkTag
<1>3. PICK b \in Htmls : b = Plain("/a")
  BY TagType DEF TagNames
<1>4. PICK v \in Walks : v = OutputTo(ready, w, i, off)
  BY OutputIs
<1>5. CASE i = j
  <2>1. PICK u \in Walks : u = MaybeOpen(ready, v)
    BY OpenType
  <2>2. PICK x \in Walks : x = Emit(u, a)
    BY EmitType
  <2>3. PICK y \in Walks : y = OutputTo(ready, x, j, to)
    BY OutputIs
  <2>4. Emit(y, b) \in Walks
    BY EmitType
  <2>5. LinkTo(ready, w, begin, end, p) = Emit(y, b)
    BY <1>1, <1>2, <1>3, <1>4, <1>5, <2>1, <2>2, <2>3 DEF LinkTo
  <2> QED BY <2>4, <2>5
<1>6. CASE i # j
  <2>1. PICK u \in Walks : u = MaybeClose(ready, v)
    BY CloseType
  <2>2. PICK x \in Walks : x = Emit(u, a)
    BY EmitType
  <2>3. PICK y \in Walks : y = OutputTo(ready, x, j, to)
    BY OutputIs
  <2>4. PICK o \in Walks : o = MaybeClose(ready, y)
    BY CloseType
  <2>5. Emit(o, b) \in Walks
    BY EmitType
  <2>6. LinkTo(ready, w, begin, end, p) = Emit(o, b)
    BY <1>1, <1>2, <1>3, <1>4, <1>6, <2>1, <2>2, <2>3, <2>4 DEF LinkTo
  <2> QED BY <2>5, <2>6
<1> QED BY <1>5, <1>6

\* The parts of LineWith.
LEMMA LineFields ==
  ASSUME NEW c, NEW line, NEW segs, NEW map, NEW f, NEW ready, NEW links, NEW full,
         LineWith(c, line, segs, map, f, ready, links, full)
  PROVE  /\ c \in Seq(Tokens) /\ line \in Seq(RunesOf(c)) /\ segs \in Seq(SegmentSet)
         /\ Divided(c, line, segs, map, f) /\ Ready(c, segs, ready)
         /\ DOMAIN map = 0 .. 3 * Len(c) /\ TLen(c, line) \in DOMAIN map
         /\ full = [map EXCEPT ![TLen(c, line)] = <<Len(segs), 0>>]
         /\ Len(segs) > 0 /\ f[2] > 1
         /\ links \in Kept(VisibleRanges(c, line))
         /\ Len(line) \in Nat /\ Len(segs) \in Nat /\ ready \in Seq(ReadySegs) /\ Len(ready) = Len(segs)
         /\ Len(links) \in Nat /\ links \in Seq(VisibleRanges(c, line)) /\ Len(links) \in Lengths
<1>1. c \in Seq(Tokens) /\ line \in Seq(RunesOf(c)) /\ segs \in Seq(SegmentSet) /\ Ready(c, segs, ready)
      /\ links \in Kept(VisibleRanges(c, line))
  BY DEF LineWith
<1>2. Len(line) \in Nat /\ Len(segs) \in Nat
  BY <1>1
<1>3. links \in Seq(VisibleRanges(c, line)) /\ Len(links) \in Nat
  BY <1>1 DEF Kept
<1> QED BY <1>1, <1>2, <1>3 DEF LineWith, Ready, Lengths

\* Each rune and the end have a place.
LEMMA PlaceSits ==
  ASSUME NEW c, NEW line, NEW segs, NEW map, NEW f, NEW ready, NEW links, NEW full,
         LineWith(c, line, segs, map, f, ready, links, full), NEW k \in 1 .. Len(line) + 1
  PROVE  \E i \in Nat : \E off \in Nat :
           /\ PlaceOf(c, line, full, k) = <<i, off>> /\ SitsAt(c, line, Len(segs), f, k, i, off)
<1>1. PICK i \in 0 .. Len(segs) : \E off \in Nat :
        full[TextOf(c, line, k)] = <<i, off>> /\ SitsAt(c, line, Len(segs), f, k, i, off)
  <2>1. /\ c \in Seq(Tokens) /\ line \in Seq(RunesOf(c)) /\ segs \in Seq(SegmentSet)
        /\ Divided(c, line, segs, map, f) /\ DOMAIN map = 0 .. 3 * Len(c) /\ TLen(c, line) \in DOMAIN map
    BY LineFields
  <2>2. full = [map EXCEPT ![TLen(c, line)] = <<Len(segs), 0>>]
    BY LineFields
  <2> QED BY <2>1, <2>2, Sits
<1>2. i \in Nat
  BY LineFields
<1> QED BY <1>1, <1>2 DEF PlaceOf

\* Links have two places.
LEMMA LinkOfType ==
  ASSUME NEW c, NEW line, line \in Seq(RunesOf(c)), c \in Seq(Tokens), NEW links \in Kept(VisibleRanges(c, line)),
         NEW n \in 1 .. Len(links)
  PROVE  LinkOf(line, links[n]) \in Pairs
<1>1. links[n][1] \in 1 .. Len(line) /\ links[n][2] \in 1 .. Len(line)
  BY RangeFields
<1>2. line[links[n][1]] \in RunesOf(c) /\ line[links[n][2]] \in RunesOf(c)
  BY <1>1
<1>3. line[links[n][1]] \in Nat /\ line[links[n][2]] \in Nat
  BY <1>2, RuneType
<1> QED BY <1>3 DEF LinkOf, Pairs

\* The walk through a link, for the folds.
LinkFn(c, line, ready, full, R) == [x \in Walks \X R |-> Linked(c, line, ready, full, x[1], x[2])]

\* It is a step on walks.
LEMMA LinkFnType ==
  ASSUME NEW c, NEW line, NEW segs, NEW map, NEW f, NEW ready, NEW links, NEW full,
         LineWith(c, line, segs, map, f, ready, links, full)
  PROVE  IsOp(Walks, VisibleRanges(c, line), LinkFn(c, line, ready, full, VisibleRanges(c, line)))
<1> SUFFICES ASSUME NEW w \in Walks, NEW r \in VisibleRanges(c, line)
             PROVE  Linked(c, line, ready, full, w, r) \in Walks
  BY DEF IsOp, LinkFn
<1>1. /\ r[1] \in 1 .. Len(line) + 1 /\ r[2] + 1 \in 1 .. Len(line) + 1
      /\ r[1] \in 1 .. Len(line) /\ r[2] \in 1 .. Len(line)
  <2>1. r \in Nat \X Nat /\ 1 <= r[1] /\ r[1] <= r[2] /\ r[2] <= Len(line) /\ Len(line) \in Nat
    BY LineFields DEF VisibleRanges, RangesIn
  <2>2. r[1] \in Nat /\ r[2] \in Nat
    BY <2>1
  <2> QED BY <2>1, <2>2
<1>2. PICK i \in Nat, off \in Nat : PlaceOf(c, line, full, r[1]) = <<i, off>>
  BY <1>1, PlaceSits
<1>3. PICK j \in Nat, to \in Nat : PlaceOf(c, line, full, r[2] + 1) = <<j, to>>
  BY <1>1, PlaceSits
<1>4. LinkOf(line, r) \in Pairs
  <2>1. line \in Seq(RunesOf(c)) /\ c \in Seq(Tokens)
    BY LineFields
  <2>2. line[r[1]] \in RunesOf(c) /\ line[r[2]] \in RunesOf(c)
    BY <1>1, <2>1
  <2>3. line[r[1]] \in Nat /\ line[r[2]] \in Nat
    BY <2>1, <2>2, RuneType
  <2> QED BY <2>3 DEF LinkOf, Pairs
<1>5. ready \in Seq(ReadySegs)
  BY LineFields
<1> QED BY <1>2, <1>3, <1>4, <1>5, LinkToType DEF Linked

\* The walk through the first n links.
WalkTo(c, line, ready, full, links, begin, n) ==
  FoldFn(Walks, LinkFn(c, line, ready, full, VisibleRanges(c, line)), begin, SubSeq(links, 1, n))

\* One more.
LEMMA WalkToStep ==
  ASSUME NEW c, NEW line, NEW segs, NEW map, NEW f, NEW ready, NEW links, NEW full,
         LineWith(c, line, segs, map, f, ready, links, full), NEW begin \in Walks
  PROVE  /\ WalkTo(c, line, ready, full, links, begin, 0) = begin
         /\ \A n \in 1 .. Len(links) :
              WalkTo(c, line, ready, full, links, begin, n)
                = Linked(c, line, ready, full, WalkTo(c, line, ready, full, links, begin, n - 1), links[n])
<1>1. PICK R : R = VisibleRanges(c, line)
  OBVIOUS
<1>2. PICK op : op = LinkFn(c, line, ready, full, R)
  OBVIOUS
<1>3. IsOp(Walks, R, op)
  BY <1>1, <1>2, LinkFnType
<1>4. links \in Seq(R)
  BY <1>1, LineFields
<1>5. WalkTo(c, line, ready, full, links, begin, 0) = begin
  <2>1. PICK s \in Seq(R) : s = SubSeq(links, 1, 0) /\ Len(s) = 0
    <3>1. Len(links) \in Nat
      BY <1>4
    <3>2. 0 \in 0 .. Len(links)
      BY <3>1
    <3>3. SubSeq(links, 1, 0) \in Seq(R) /\ Len(SubSeq(links, 1, 0)) = 0
      BY <1>4, <3>2, PrefixOf
    <3> QED BY <3>3, Zenon
  <2>2. FoldFn(Walks, op, begin, s) = begin
    BY <1>3, <2>1, FoldFnEmpty
  <2> QED BY <1>1, <1>2, <2>1, <2>2 DEF WalkTo
<1>6. ASSUME NEW n \in 1 .. Len(links)
      PROVE  WalkTo(c, line, ready, full, links, begin, n)
                = Linked(c, line, ready, full, WalkTo(c, line, ready, full, links, begin, n - 1), links[n])
  <2>1. /\ FoldFn(Walks, op, begin, SubSeq(links, 1, n - 1)) \in Walks
        /\ FoldFn(Walks, op, begin, SubSeq(links, 1, n))
             = op[<<FoldFn(Walks, op, begin, SubSeq(links, 1, n - 1)), links[n]>>]
    BY <1>3, <1>4, FoldFnPrefix
  <2>2. links[n] \in R
    BY <1>4
  <2>3. \A w \in Walks : op[<<w, links[n]>>] = Linked(c, line, ready, full, w, links[n])
    BY <1>2, <2>2 DEF LinkFn
  <2> QED BY <1>1, <1>2, <2>1, <2>3 DEF WalkTo
<1> QED BY <1>5, <1>6

\* The walk is at the k-th rune.
Reached(c, line, segs, f, ready, z, w, k) ==
  Walked(ready, w, z) /\ SitsAt(c, line, Len(segs), f, k, w.i, w.off)

\* One more link.
LEMMA NextLink ==
  ASSUME NEW c, NEW line, NEW segs, NEW map, NEW f, NEW ready, NEW links, NEW full,
         LineWith(c, line, segs, map, f, ready, links, full),
         NEW base \in Bases, NEW ls \in SUBSET Pairs, NEW text \in ByteSeqs, NEW G \in SUBSET Glyphs,
         AllRight(line, ready, f, links, G), NEW n \in 1 .. Len(links),
         NEW w, Walked(ready, w, Scene(base, ls, text, G)),
         SitsAt(c, line, Len(segs), f, EndOf(links, n - 1), w.i, w.off),
         NEW v, v = Linked(c, line, ready, full, w, links[n])
  PROVE  Reached(c, line, segs, f, ready, Scene(base, ls \cup {LinkOf(line, links[n])}, text, G),
                 v, EndOf(links, n))
<1>1. /\ c \in Seq(Tokens) /\ line \in Seq(RunesOf(c)) /\ segs \in Seq(SegmentSet)
      /\ Divided(c, line, segs, map, f) /\ Ready(c, segs, ready)
      /\ Len(line) \in Nat /\ Len(segs) \in Nat /\ ready \in Seq(ReadySegs) /\ Len(ready) = Len(segs)
      /\ links \in Kept(VisibleRanges(c, line)) /\ Len(links) \in Nat
  BY LineFields
<1>2. PICK a \in 1 .. Len(line) : a = links[n][1] /\ c[line[a]].class # "space"
  BY <1>1, RangeFields, ZenonT(60)
<1>3. PICK e \in 1 .. Len(line) : e = links[n][2] /\ c[line[e]].class # "space" /\ a <= e
  BY <1>1, <1>2, RangeFields
<1>4. PICK s \in 1 .. a : s = EndOf(links, n - 1)
  BY <1>1, <1>2, LinksAscend
<1>5. \A x \in s .. a - 1 : \A m \in 1 .. Len(links) : x < links[m][1] \/ links[m][2] < x
  BY <1>1, <1>2, <1>4, LinksAscend
<1>6. /\ s \in 1 .. Len(line) + 1 /\ a \in s .. Len(line) + 1 /\ e + 1 \in a .. Len(line) + 1
      /\ a \in 1 .. Len(line) + 1 /\ e + 1 \in 1 .. Len(line) + 1 /\ a < e + 1
  <2>1. Len(line) \in Nat /\ a \in Nat /\ e \in Nat /\ s \in Nat /\ s <= a
    BY <1>1
  <2>2. a <= e /\ a <= Len(line) /\ e <= Len(line) /\ 1 <= s
    BY <1>1, <1>3
  <2> QED BY <2>1, <2>2
<1>7. w \in Walks /\ w.i \in Nat /\ w.off \in Nat
  BY WalkFields DEF Walked
<1>8. PICK i \in Nat, off \in Nat :
        PlaceOf(c, line, full, a) = <<i, off>> /\ SitsAt(c, line, Len(segs), f, a, i, off)
  BY <1>6, PlaceSits
<1>9. PICK j \in Nat, to \in Nat :
        PlaceOf(c, line, full, e + 1) = <<j, to>> /\ SitsAt(c, line, Len(segs), f, e + 1, j, to)
  <2>1. e + 1 \in 1 .. Len(line) + 1
    BY <1>6
  <2> QED BY <2>1, PlaceSits, ZenonT(60)
<1>10. PICK p \in Pairs : p = LinkOf(line, links[n])
  BY <1>1, LinkOfType
<1>11. PICK z : z = Scene(base, ls, text, G)
  OBVIOUS
<1>12. z \in Scenes /\ NoLink(z)
  BY <1>11, SceneType
<1>13. SitsAt(c, line, Len(segs), f, s, w.i, w.off)
  BY <1>4
<1>14. Place(ready, i, off) /\ i < Len(ready)
  BY <1>1, <1>2, <1>8, SitsInPlace
<1>15. Place(ready, j, to)
  <2>1. PICK i2 \in Nat, off2 \in Nat :
          PlaceOf(c, line, full, e) = <<i2, off2>> /\ SitsAt(c, line, Len(segs), f, e, i2, off2)
    <3>1. e \in 1 .. Len(line) + 1
      BY <1>1
    <3> QED BY <3>1, PlaceSits
  <2> QED BY <1>1, <1>3, <1>9, <2>1, SitsInPlace
<1>16. w.i <= i /\ (w.i = i => w.off <= off)
  BY <1>1, <1>6, <1>7, <1>8, <1>13, SitsInOrder, SMTT(40)
<1>17. i <= j /\ (i = j => off < to)
  <2>1. PICK g \in a .. Len(line) + 1 : g = e + 1
    BY <1>6
  <2>2. a < g /\ a \in 1 .. Len(line) + 1
    BY <1>6, <2>1
  <2>3. SitsAt(c, line, Len(segs), f, g, j, to)
    BY <1>9, <2>1
  <2>4. Precedes(i, off, j, to)
    BY <1>1, <1>8, <2>2, <2>3, SitsBefore
  <2> QED BY <2>4 DEF Precedes
<1>18. RightTo(ready, w.i, w.off, i, off, z)
  <2>1. z.link = <<0, 0>> /\ z.right = G
    BY <1>11 DEF Scene
  <2>2. ASSUME NEW x \in s .. a - 1
        PROVE  RuneRight(line, ready, f, x, z)
    <3>1. x \in 1 .. Len(line)
      BY <1>1
    <3>2. AsLinked(line, links, x, z.link)
      BY <1>5, <2>1 DEF AsLinked
    <3> QED BY <1>12, <2>1, <3>1, <3>2 DEF AllRight
  <2> QED BY <1>1, <1>6, <1>7, <1>8, <1>12, <1>13, <2>2, RegionRight
<1>19. RightTo(ready, i, off, j, to, InLink(z, p))
  <2>1. PICK y : y = InLink(z, p)
    OBVIOUS
  <2>2. y \in Scenes /\ y.link = p /\ y.right = G
    <3>1. y \in Scenes
      BY <1>12, <2>1, LinkScenes
    <3>2. z.right = G
      BY <1>11 DEF Scene
    <3> QED BY <2>1, <3>1, <3>2 DEF InLink
  <2>3. ASSUME NEW x \in a .. (e + 1) - 1
        PROVE  RuneRight(line, ready, f, x, y)
    <3>1. x \in 1 .. Len(line) /\ a <= x /\ x <= e
      BY <1>1
    <3>2. AsLinked(line, links, x, y.link)
      BY <1>2, <1>3, <1>10, <2>2, <3>1 DEF AsLinked
    <3> QED BY <2>2, <3>1, <3>2 DEF AllRight
  <2>4. RightTo(ready, i, off, j, to, y)
    BY <1>1, <1>6, <1>8, <1>9, <2>2, <2>3, RegionRight
  <2> QED BY <2>1, <2>4
<1>20. PICK begin : begin = PlaceOf(c, line, full, a)
  OBVIOUS
<1>21. PICK end : end = PlaceOf(c, line, full, e + 1)
  OBVIOUS
<1>22. v = LinkTo(ready, w, begin, end, p)
  BY <1>2, <1>3, <1>10, <1>20, <1>21 DEF Linked
<1>23. Walked(ready, v, AfterLink(z, p)) /\ v.i = j /\ v.off = to
  <2>1. Walked(ready, w, z) /\ begin = <<i, off>> /\ end = <<j, to>>
    BY <1>8, <1>9, <1>11, <1>20, <1>21
  <2>2. /\ Walked(ready, LinkTo(ready, w, begin, end, p), AfterLink(z, p))
        /\ LinkTo(ready, w, begin, end, p).i = j /\ LinkTo(ready, w, begin, end, p).off = to
    BY <1>1, <1>12, <1>14, <1>15, <1>16, <1>17, <1>18, <1>19, <2>1, LinkStep
  <2> QED BY <1>22, <2>2
<1>24. EndOf(links, n) = e + 1
  BY <1>3 DEF EndOf
<1>25. AfterLink(z, p) = Scene(base, ls \cup {p}, text, G)
  BY <1>11, SceneLinked
<1> QED BY <1>9, <1>10, <1>23, <1>24, <1>25 DEF Reached

=============================================================================
