----------------------------- MODULE Recursion -----------------------------
(***************************************************************************)
(* A definition f[v \in S] == Body(v, f) defines a function if Body uses f *)
(* only at elements of S of a lower rank.  Definition, set and rank are    *)
(* constants of this module, p a parameter they may depend on, so the      *)
(* theorem is cited through an INSTANCE for each recursive definition.     *)
(***************************************************************************)
EXTENDS Integers, TLAPS, WellFoundedInduction

CONSTANTS S(_), Rank(_, _), Body(_, _, _)

\* Body at v does not depend on what g is at elements not below v.
Local(p) ==
    \A v \in S(p) : \A g, h :
        (\A u \in S(p) : Rank(p, u) < Rank(p, v) => g[u] = h[u])
            => Body(p, v, g) = Body(p, v, h)

\* A set of natural numbers that is not empty has a least element; this is what
\* the inductions of all proofs come down to.
LEMMA LeastNumber ==
    ASSUME NEW N \in SUBSET Nat, N # {}
    PROVE  \E x \in N : \A y \in N : x <= y
  <1>1. \E x \in N : \A y \in N : ~ (<<y, x>> \in OpToRel(<, Nat))
    BY NatLessThanWellFounded, WFMin
  <1>2. PICK x \in N : \A y \in N : ~ (<<y, x>> \in OpToRel(<, Nat))
    BY <1>1
  <1>3. \A y \in N : ~ (y < x)
    BY <1>2 DEF OpToRel
  <1> QED BY <1>3

\* What a local recursive definition defines exists.
THEOREM FunctionExists ==
    ASSUME NEW p, Local(p), \A v \in S(p) : Rank(p, v) \in Nat
    PROVE  \E f : f = [v \in S(p) |-> Body(p, v, f)]
  <1> DEFINE Below(n) == {v \in S(p) : Rank(p, v) < n}
             Partial(g, n) == g = [v \in Below(n) |-> Body(p, v, g)]
  \* Two partial functions agree where both are defined.
  <1>1. ASSUME NEW m \in Nat, NEW n \in Nat, NEW g, NEW h,
               Partial(g, m), Partial(h, n)
        PROVE  \A v \in Below(m) \cap Below(n) : g[v] = h[v]
    <2> DEFINE Bad == {v \in Below(m) \cap Below(n) : g[v] # h[v]}
               Ranks == {Rank(p, v) : v \in Bad}
    <2> SUFFICES ASSUME Bad # {} PROVE FALSE
      OBVIOUS
    <2>1. Ranks \in SUBSET Nat /\ Ranks # {}
      OBVIOUS
    <2>2. PICK x \in Ranks : \A y \in Ranks : x <= y
      BY <2>1, LeastNumber
    <2>3. PICK v \in Bad : x = Rank(p, v)
      BY <2>2
    <2>4. ASSUME NEW u \in S(p), Rank(p, u) < Rank(p, v)
          PROVE  g[u] = h[u]
      <3>1. u \notin Bad
        BY <2>2, <2>3, <2>4
      <3>2. u \in Below(m) \cap Below(n)
        BY <2>3, <2>4
      <3> QED BY <3>1, <3>2
    <2>5. Body(p, v, g) = Body(p, v, h)
      BY <2>3, <2>4 DEF Local
    <2>6. g[v] = Body(p, v, g) /\ h[v] = Body(p, v, h)
      BY <1>1, <2>3
    <2> QED BY <2>3, <2>5, <2>6
  \* There is a partial function for every bound on the rank.
  <1>2. ASSUME NEW n \in Nat
        PROVE  \E g : Partial(g, n)
    <2> DEFINE Bad == {m \in Nat : ~ \E g : Partial(g, m)}
    <2> SUFFICES ASSUME Bad # {} PROVE FALSE
      OBVIOUS
    <2>1. PICK m \in Bad : \A y \in Bad : m <= y
      BY LeastNumber
    <2>2. m # 0
      <3> DEFINE e == [v \in Below(0) |-> 0]
      <3>1. Below(0) = {}
        OBVIOUS
      <3>2. Partial(e, 0)
        BY <3>1
      <3> QED BY <3>2
    <2>3. PICK g : Partial(g, m - 1)
      <3>1. m \in Nat /\ \A y \in Bad : m <= y
        BY <2>1
      <3>2. m - 1 \in Nat /\ m - 1 \notin Bad
        <4> HIDE DEF Bad
        <4> QED BY <2>2, <3>1
      <3> QED BY <3>2
    <2> DEFINE h == [v \in Below(m) |-> Body(p, v, g)]
    <2>4. ASSUME NEW v \in Below(m)
          PROVE  Body(p, v, g) = Body(p, v, h)
      <3>1. ASSUME NEW u \in S(p), Rank(p, u) < Rank(p, v)
            PROVE  g[u] = h[u]
        <4>1. u \in Below(m) /\ u \in Below(m - 1)
          BY <3>1
        <4>2. g[u] = Body(p, u, g)
          BY <2>3, <4>1
        <4> QED BY <4>1, <4>2
      <3> QED BY <3>1 DEF Local
    <2>5. Partial(h, m)
      BY <2>4
    <2> QED BY <2>5
  <1> DEFINE G(n) == CHOOSE g : Partial(g, n)
             F == [v \in S(p) |-> Body(p, v, G(Rank(p, v)))]
  <1>3. \A n \in Nat : Partial(G(n), n)
    BY <1>2
  <1>4. ASSUME NEW v \in S(p)
        PROVE  Body(p, v, G(Rank(p, v))) = Body(p, v, F)
    <2>1. ASSUME NEW u \in S(p), Rank(p, u) < Rank(p, v)
          PROVE  G(Rank(p, v))[u] = F[u]
      <3> DEFINE g == G(Rank(p, v))
                 h == G(Rank(p, u))
      <3>1. Partial(g, Rank(p, v)) /\ Partial(h, Rank(p, u))
        BY <1>3
      <3>2. g[u] = Body(p, u, g)
        BY <2>1, <3>1
      <3>3. \A w \in S(p) : Rank(p, w) < Rank(p, u) => g[w] = h[w]
        <4>1. \A w \in Below(Rank(p, v)) \cap Below(Rank(p, u)) : g[w] = h[w]
          <5> HIDE DEF Below, Partial, g, h
          <5> QED BY <1>1, <3>1
        <4>2. \A w \in S(p) : Rank(p, w) < Rank(p, u)
                  => w \in Below(Rank(p, v)) \cap Below(Rank(p, u))
          BY <2>1
        <4> QED BY <4>1, <4>2
      <3>4. Body(p, u, g) = Body(p, u, h)
        BY <3>3 DEF Local
      <3> QED BY <3>2, <3>4
    <2> QED BY <2>1 DEF Local
  <1>5. F = [v \in S(p) |-> Body(p, v, F)]
    BY <1>4
  <1> QED BY <1>5
=============================================================================
