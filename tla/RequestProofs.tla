--------------------------- MODULE RequestProofs ---------------------------
(***************************************************************************)
(* Theorems about Request, and about the JSON writer it answers with.      *)
(***************************************************************************)
EXTENDS Request, FiniteSetTheorems, TLAPS

-----------------------------------------------------------------------------
(***************************************************************************)
(* The recursive definitions of JsonWriter define functions                *)
(***************************************************************************)

AllValues(p) == Values
HeightOf(p, value) == Height(value)
WriteBody(p, value, inner) == WriteValue(value, inner)
JsonBody(p, value, inner) == JsonValue(value, inner)
HasJsonBody(p, value, inner) == HasJson(value, inner)

WriteRec == INSTANCE Recursion
            WITH S <- AllValues, Rank <- HeightOf, Body <- WriteBody
JsonRec == INSTANCE Recursion
           WITH S <- AllValues, Rank <- HeightOf, Body <- JsonBody
HasJsonRec == INSTANCE Recursion
              WITH S <- AllValues, Rank <- HeightOf, Body <- HasJsonBody

\* The type of a value tells its shape.
LEMMA ValueShape ==
    ASSUME NEW value \in Values
    PROVE  /\ Height(value) \in Nat
           /\ value.type \in {"None", "other", "bool"} <=> IsConstant(value)
           /\ value.type \in {"int", "float"} <=> IsNumber(value)
           /\ value.type = "str" <=> IsString(value)
           /\ value.type \in {"list", "tuple"} <=> IsSequence(value)
           /\ value.type = "dict" <=> IsMapping(value)
  <1>1. IsConstant(value) => value.type \in {"None", "other", "bool"}
    BY DEF IsConstant, Scalar
  <1>2. IsNumber(value) => value.type \in {"int", "float"}
    BY DEF IsNumber
  <1>3. IsString(value) => value.type = "str"
    BY DEF IsString, Scalar
  <1>4. IsSequence(value) => value.type \in {"list", "tuple"}
    BY DEF IsSequence
  <1>5. IsMapping(value) => value.type = "dict"
    BY DEF IsMapping, Container
  <1> QED BY <1>1, <1>2, <1>3, <1>4, <1>5, ValuesAssumption

\* write_json does what it does with a value, given what it does with the
\* values inside.
LEMMA WriteJsonDef ==
    write_json = [value \in Values |-> WriteValue(value, write_json)]
  <1>1. WriteRec!Local(0)
    <2> SUFFICES ASSUME NEW v \in Values, NEW g, NEW h,
                        \A u \in Values : Height(u) < Height(v) => g[u] = h[u]
                 PROVE  WriteValue(v, g) = WriteValue(v, h)
      BY DEF WriteRec!Local, AllValues, HeightOf, WriteBody
    <2>1. CASE IsSequence(v)
      <3>1. [k \in DOMAIN v.items |-> g[v.items[k]]]
                = [k \in DOMAIN v.items |-> h[v.items[k]]]
        BY <2>1 DEF IsSequence
      <3> QED BY <2>1, <3>1, ValueShape DEF WriteValue, CastsTo
    <2>2. CASE IsMapping(v)
      <3>1. [k \in DOMAIN v.items |->
                 WriteEntry(v.items[k].key, g[v.items[k].value])]
                = [k \in DOMAIN v.items |->
                       WriteEntry(v.items[k].key, h[v.items[k].value])]
        BY <2>2 DEF IsMapping
      <3> QED BY <2>2, <3>1, ValueShape DEF WriteValue, CastsTo
    <2>3. CASE ~IsSequence(v) /\ ~IsMapping(v)
      BY <2>3, ValueShape DEF WriteValue, CastsTo
    <2> QED BY <2>1, <2>2, <2>3
  <1>2. \A v \in AllValues(0) : HeightOf(0, v) \in Nat
    BY ValueShape DEF AllValues, HeightOf
  <1>3. \E f : f = [v \in AllValues(0) |-> WriteBody(0, v, f)]
    BY <1>1, <1>2, WriteRec!FunctionExists
  <1>4. \E f : f = [value \in Values |-> WriteValue(value, f)]
    BY <1>3 DEF AllValues, WriteBody
  <1> QED BY <1>4 DEF write_json

\* Likewise the JSON value of a value.
LEMMA JsonDef == Json = [value \in Values |-> JsonValue(value, Json)]
  <1>1. JsonRec!Local(0)
    <2> SUFFICES ASSUME NEW v \in Values, NEW g, NEW h,
                        \A u \in Values : Height(u) < Height(v) => g[u] = h[u]
                 PROVE  JsonValue(v, g) = JsonValue(v, h)
      BY DEF JsonRec!Local, AllValues, HeightOf, JsonBody
    <2>1. CASE IsSequence(v)
      <3>1. [k \in DOMAIN v.items |-> g[v.items[k]]]
                = [k \in DOMAIN v.items |-> h[v.items[k]]]
        BY <2>1 DEF IsSequence
      <3> QED BY <2>1, <3>1, ValueShape DEF JsonValue
    <2>2. CASE IsMapping(v)
      <3>1. [k \in DOMAIN v.items |->
                 Entry(v.items[k].key.text, g[v.items[k].value])]
                = [k \in DOMAIN v.items |->
                       Entry(v.items[k].key.text, h[v.items[k].value])]
        BY <2>2 DEF IsMapping
      <3> QED BY <2>2, <3>1, ValueShape DEF JsonValue
    <2>3. CASE ~IsSequence(v) /\ ~IsMapping(v)
      BY <2>3, ValueShape DEF JsonValue
    <2> QED BY <2>1, <2>2, <2>3
  <1>2. \A v \in AllValues(0) : HeightOf(0, v) \in Nat
    BY ValueShape DEF AllValues, HeightOf
  <1>3. \E f : f = [v \in AllValues(0) |-> JsonBody(0, v, f)]
    BY <1>1, <1>2, JsonRec!FunctionExists
  <1>4. \E f : f = [value \in Values |-> JsonValue(value, f)]
    BY <1>3 DEF AllValues, JsonBody
  <1> QED BY <1>4 DEF Json

\* Likewise whether a value has one.
LEMMA SerializableDef ==
    Serializable = [value \in Values |-> HasJson(value, Serializable)]
  <1>1. HasJsonRec!Local(0)
    <2> SUFFICES ASSUME NEW v \in Values, NEW g, NEW h,
                        \A u \in Values : Height(u) < Height(v) => g[u] = h[u]
                 PROVE  HasJson(v, g) = HasJson(v, h)
      BY DEF HasJsonRec!Local, AllValues, HeightOf, HasJsonBody
    <2>1. CASE IsSequence(v)
      <3>1. \A k \in DOMAIN v.items : g[v.items[k]] = h[v.items[k]]
        BY <2>1 DEF IsSequence
      <3> QED BY <2>1, <3>1, ValueShape DEF HasJson
    <2>2. CASE IsMapping(v)
      <3>1. \A k \in DOMAIN v.items :
                g[v.items[k].value] = h[v.items[k].value]
        BY <2>2 DEF IsMapping
      <3> QED BY <2>2, <3>1, ValueShape, ZenonT(30) DEF HasJson
    <2>3. CASE IsConstant(v)
      <3>1. v.items = <<>> /\ v.type \in {"None", "other", "bool"}
        BY <2>3 DEF IsConstant, Scalar
      <3>2. DOMAIN v.items = {}
        BY <3>1
      <3> QED BY <3>1, <3>2 DEF HasJson
    <2>4. CASE IsNumber(v) \/ IsString(v)
      <3>1. v.type \in {"int", "float", "str"}
        BY <2>4 DEF IsNumber, IsString, Scalar
      <3> QED BY <3>1 DEF HasJson
    <2> QED BY <2>1, <2>2, <2>3, <2>4, ValuesAssumption
  <1>2. \A v \in AllValues(0) : HeightOf(0, v) \in Nat
    BY ValueShape DEF AllValues, HeightOf
  <1>3. \E f : f = [v \in AllValues(0) |-> HasJsonBody(0, v, f)]
    BY <1>1, <1>2, HasJsonRec!FunctionExists
  <1>4. \E f : f = [value \in Values |-> HasJson(value, f)]
    BY <1>3 DEF AllValues, HasJsonBody
  <1> QED BY <1>4 DEF Serializable

Positions(seqs) == 1..Len(seqs)
Place(seqs, i) == i
FlattenBody(seqs, i, flatten) ==
    IF i = 1 THEN seqs[i] ELSE flatten[i - 1] \o seqs[i]
FlattenRec == INSTANCE Recursion
              WITH S <- Positions, Rank <- Place, Body <- FlattenBody

\* The flattening of sequences is the last of growing prefixes.
LEMMA FlattenDef ==
    ASSUME NEW T, NEW seqs \in Seq(Seq(T)), seqs # <<>>
    PROVE  \E f : /\ f[1] = seqs[1]
                  /\ \A i \in 1..Len(seqs) :
                         i # 1 => f[i] = f[i - 1] \o seqs[i]
                  /\ FlattenSeq(seqs) = f[Len(seqs)]
  <1>1. FlattenRec!Local(seqs)
    BY DEF FlattenRec!Local, Positions, Place, FlattenBody
  <1>2. \A i \in Positions(seqs) : Place(seqs, i) \in Nat
    BY DEF Positions, Place
  <1>3. \E f : f = [i \in Positions(seqs) |-> FlattenBody(seqs, i, f)]
    BY <1>1, <1>2, FlattenRec!FunctionExists
  <1> DEFINE IsFlatten(f) ==
                 f = [i \in 1..Len(seqs) |->
                         IF i = 1 THEN seqs[i] ELSE f[i - 1] \o seqs[i]]
  <1>4. \E f : IsFlatten(f)
    BY <1>3 DEF Positions, FlattenBody
  <1>5. IsFlatten(CHOOSE f : IsFlatten(f))
    BY <1>4
  <1>6. FlattenSeq(seqs) = (CHOOSE f : IsFlatten(f))[Len(seqs)]
    BY DEF FlattenSeq
  <1>7. ASSUME NEW f, IsFlatten(f)
        PROVE  \A i \in 1..Len(seqs) :
                   f[i] = IF i = 1 THEN seqs[i] ELSE f[i - 1] \o seqs[i]
    BY <1>7
  <1> DEFINE flatten == CHOOSE f : IsFlatten(f)
  <1>8. 1 \in 1..Len(seqs)
    OBVIOUS
  <1>9. /\ \A i \in 1..Len(seqs) :
               flatten[i] = IF i = 1 THEN seqs[i]
                            ELSE flatten[i - 1] \o seqs[i]
        /\ FlattenSeq(seqs) = flatten[Len(seqs)]
    <2> HIDE DEF IsFlatten
    <2> QED BY <1>5, <1>6, <1>7
  <1> HIDE DEF flatten
  <1> QED BY <1>8, <1>9

-----------------------------------------------------------------------------
(***************************************************************************)
(* Pieces of a text                                                        *)
(***************************************************************************)

\* The least of some natural numbers is one of them.
LEMMA MinIsLeast ==
    ASSUME NEW N \in SUBSET Nat, N # {}
    PROVE  Min(N) \in N /\ \A y \in N : Min(N) <= y
  BY FlattenRec!LeastNumber DEF Min

\* The piece stands in out from position i on.
Holds(out, i, piece) ==
    /\ i \in Nat \ {0}
    /\ i + Len(piece) <= Len(out) + 1
    /\ \A j \in 1..Len(piece) : out[i + j - 1] = piece[j]

\* A text stands in itself.
LEMMA HoldsSelf ==
    ASSUME NEW T, NEW out \in Seq(T)
    PROVE  Holds(out, 1, out)
  BY DEF Holds

\* A concatenation stands where its parts stand one after the other.
LEMMA HoldsConcat ==
    ASSUME NEW T, NEW out \in Seq(T), NEW i \in Nat,
           NEW u \in Seq(T), NEW w \in Seq(T), Holds(out, i, u \o w)
    PROVE  Holds(out, i, u) /\ Holds(out, i + Len(u), w)
  <1>1. /\ Len(u \o w) = Len(u) + Len(w)
        /\ Len(u) \in Nat /\ Len(w) \in Nat /\ Len(out) \in Nat
    OBVIOUS
  <1>2. ASSUME NEW j \in 1..Len(u) PROVE out[i + j - 1] = u[j]
    <2>1. j \in 1..Len(u \o w) /\ (u \o w)[j] = u[j]
      BY <1>1
    <2> QED BY <2>1 DEF Holds
  <1>3. ASSUME NEW j \in 1..Len(w) PROVE out[i + Len(u) + j - 1] = w[j]
    <2>1. Len(u) + j \in 1..Len(u \o w) /\ (u \o w)[Len(u) + j] = w[j]
      BY <1>1
    <2>2. out[i + (Len(u) + j) - 1] = w[j]
      BY <2>1 DEF Holds
    <2> QED BY <1>1, <2>2
  <1> QED BY <1>1, <1>2, <1>3 DEF Holds

\* What stands in a piece stands in the text the piece stands in.
LEMMA HoldsInside ==
    ASSUME NEW T, NEW out \in Seq(T), NEW i \in Nat, NEW j \in Nat,
           NEW mid \in Seq(T), NEW piece \in Seq(T),
           Holds(out, i, mid), Holds(mid, j, piece)
    PROVE  Holds(out, i + j - 1, piece)
  <1>1. Len(mid) \in Nat /\ Len(piece) \in Nat /\ Len(out) \in Nat
    OBVIOUS
  <1>2. ASSUME NEW k \in 1..Len(piece)
        PROVE  out[i + j - 1 + k - 1] = piece[k]
    <2>1. j + k - 1 \in 1..Len(mid) /\ mid[j + k - 1] = piece[k]
      BY <1>1, SMTT(30) DEF Holds
    <2>2. out[i + (j + k - 1) - 1] = mid[j + k - 1]
      BY <2>1 DEF Holds
    <2> QED BY <1>1, <2>1, <2>2
  <1> QED BY <1>1, <1>2 DEF Holds

\* The pieces of a flattened sequence stand in it one after the other.
LEMMA FlattenPieces ==
    ASSUME NEW T, NEW seqs \in Seq(Seq(T))
    PROVE  /\ FlattenSeq(seqs) \in Seq(T)
           /\ \E at \in [1..(Len(seqs) + 1) -> Nat \ {0}] :
                  /\ at[1] = 1
                  /\ at[Len(seqs) + 1] = Len(FlattenSeq(seqs)) + 1
                  /\ \A k \in 1..Len(seqs) :
                         /\ at[k + 1] = at[k] + Len(seqs[k])
                         /\ Holds(FlattenSeq(seqs), at[k], seqs[k])
  <1>1. CASE seqs = <<>>
    <2>1. FlattenSeq(seqs) = <<>>
      BY <1>1 DEF FlattenSeq
    <2> DEFINE at == [k \in 1..1 |-> 1]
    <2>2. Len(seqs) = 0 /\ 1..Len(seqs) = {} /\ 1..(Len(seqs) + 1) = 1..1
      BY <1>1
    <2>3. /\ at \in [1..(Len(seqs) + 1) -> Nat \ {0}]
          /\ at[1] = 1
          /\ at[Len(seqs) + 1] = Len(FlattenSeq(seqs)) + 1
      BY <2>1, <2>2
    <2> HIDE DEF at
    <2> QED BY <2>1, <2>2, <2>3
  <1>2. CASE seqs # <<>>
    <2> DEFINE n == Len(seqs)
    <2>1. n \in Nat \ {0} /\ \A k \in 1..n : seqs[k] \in Seq(T)
      BY <1>2
    <2>2. PICK f : /\ f[1] = seqs[1]
                   /\ \A k \in 1..n : k # 1 => f[k] = f[k - 1] \o seqs[k]
                   /\ FlattenSeq(seqs) = f[n]
      BY <1>2, FlattenDef
    <2> HIDE DEF n
    <2>4. \A k \in 1..n : f[k] \in Seq(T)
      <3> DEFINE Bad == {k \in 1..n : f[k] \notin Seq(T)}
      <3> SUFFICES ASSUME Bad # {} PROVE FALSE
        OBVIOUS
      <3>1. Bad \in SUBSET Nat
        BY <2>1
      <3>2. Min(Bad) \in Bad /\ \A y \in Bad : Min(Bad) <= y
        BY <3>1, MinIsLeast
      <3>3. PICK k \in 1..n : f[k] \notin Seq(T) /\ \A y \in Bad : k <= y
        BY <3>2
      <3>4. k # 1
        BY <2>1, <2>2, <3>3
      <3>5. k - 1 \in 1..n /\ k - 1 \notin Bad
        BY <2>1, <3>3, <3>4
      <3>6. f[k] = f[k - 1] \o seqs[k] /\ f[k - 1] \in Seq(T)
        BY <2>2, <3>4, <3>5
      <3> QED BY <2>1, <3>3, <3>6
    \* A prefix stays a prefix.
    <2>5. \A k \in 1..n : \A m \in 1..n :
              k <= m => Holds(f[m], 1, f[k])
      <3> SUFFICES ASSUME NEW k \in 1..n,
                          {m \in 1..n : k <= m /\ ~Holds(f[m], 1, f[k])} # {}
                   PROVE  FALSE
        OBVIOUS
      <3> DEFINE Bad == {m \in 1..n : k <= m /\ ~Holds(f[m], 1, f[k])}
      <3>1. Bad \in SUBSET Nat
        BY <2>1
      <3>2. Min(Bad) \in Bad /\ \A y \in Bad : Min(Bad) <= y
        BY <3>1, MinIsLeast
      <3>3. PICK m \in 1..n : /\ k <= m /\ ~Holds(f[m], 1, f[k])
                              /\ \A y \in Bad : m <= y
        BY <3>2
      <3>4. m # k
        BY <2>4, <3>3 DEF Holds
      <3>5. m # 1 /\ m - 1 \in 1..n /\ m - 1 \notin Bad
        BY <2>1, <3>3, <3>4
      <3>6. Holds(f[m - 1], 1, f[k])
        BY <2>1, <3>3, <3>4, <3>5
      <3>7. f[m] = f[m - 1] \o seqs[m] /\ f[m - 1] \in Seq(T)
            /\ f[k] \in Seq(T) /\ seqs[m] \in Seq(T) /\ f[m] \in Seq(T)
        BY <2>1, <2>2, <2>4, <3>5
      <3>8. Holds(f[m], 1, f[m - 1])
        <4>1. Holds(f[m], 1, f[m - 1] \o seqs[m])
          BY <3>7, HoldsSelf
        <4> QED BY <3>7, <4>1, HoldsConcat
      <3>9. Holds(f[m], 1 + 1 - 1, f[k])
        BY <3>6, <3>7, <3>8, HoldsInside
      <3> QED BY <3>3, <3>9
    <2> DEFINE at == [k \in 1..(n + 1) |->
                         IF k = 1 THEN 1 ELSE Len(f[k - 1]) + 1]
    <2>6. at \in [1..(n + 1) -> Nat \ {0}]
      <3> SUFFICES ASSUME NEW k \in 1..(n + 1), k # 1
                   PROVE  Len(f[k - 1]) + 1 \in Nat \ {0}
        OBVIOUS
      <3>1. k - 1 \in 1..n
        BY <2>1
      <3> QED BY <2>4, <3>1
    <2>7. at[1] = 1 /\ at[n + 1] = Len(f[n]) + 1
      BY <2>1
    <2>8. ASSUME NEW k \in 1..n
          PROVE  /\ at[k + 1] = at[k] + Len(seqs[k])
                 /\ Holds(f[n], at[k], seqs[k])
      <3>1. at[k + 1] = Len(f[k]) + 1
        BY <2>1
      <3>2. /\ f[k] \in Seq(T) /\ seqs[k] \in Seq(T) /\ f[n] \in Seq(T)
            /\ Holds(f[n], 1, f[k])
        BY <2>1, <2>4, <2>5
      <3>3. /\ at[k + 1] = at[k] + Len(seqs[k])
            /\ Holds(f[k], at[k], seqs[k])
            /\ at[k] \in Nat
        <4>1. CASE k = 1
          <5>1. at[k] = 1 /\ f[k] = seqs[k]
            BY <2>1, <2>2, <4>1
          <5>2. Holds(f[k], 1, seqs[k])
            BY <3>2, <5>1, HoldsSelf
          <5>3. at[k + 1] = at[k] + Len(seqs[k])
            <6> HIDE DEF at
            <6> QED BY <3>1, <3>2, <5>1
          <5> HIDE DEF at
          <5> QED BY <5>1, <5>2, <5>3
        <4>2. CASE k # 1
          <5>1. f[k] = f[k - 1] \o seqs[k] /\ f[k - 1] \in Seq(T)
            <6>1. k - 1 \in 1..n
              BY <2>1, <4>2
            <6> QED BY <2>2, <2>4, <4>2, <6>1
          <5>2. at[k] = 1 + Len(f[k - 1])
            BY <2>1, <2>4, <4>2
          <5>3. Holds(f[k], 1, f[k - 1] \o seqs[k])
            BY <3>2, <5>1, HoldsSelf
          <5>4. Holds(f[k], 1 + Len(f[k - 1]), seqs[k])
            BY <3>2, <5>1, <5>3, HoldsConcat
          <5>5. Len(f[k]) = Len(f[k - 1]) + Len(seqs[k])
            BY <3>2, <5>1
          <5>6. Len(f[k - 1]) \in Nat /\ Len(seqs[k]) \in Nat
            BY <3>2, <5>1
          <5>7. at[k + 1] = at[k] + Len(seqs[k]) /\ at[k] \in Nat
            <6>1. at[k + 1] = (Len(f[k - 1]) + Len(seqs[k])) + 1
              BY <3>1, <5>5
            <6>2. \A a, b \in Nat : (a + b) + 1 = (1 + a) + b
              OBVIOUS
            <6>3. 1 + Len(f[k - 1]) \in Nat
              BY <5>6
            <6> HIDE DEF at
            <6> QED BY <5>2, <5>6, <6>1, <6>2, <6>3
          <5> HIDE DEF at
          <5> QED BY <5>2, <5>4, <5>7
        <4> QED BY <4>1, <4>2
      <3>4. Holds(f[n], 1 + at[k] - 1, seqs[k])
        BY <3>2, <3>3, HoldsInside
      <3> QED BY <3>3, <3>4
    <2>9. at \in [1..(Len(seqs) + 1) -> Nat \ {0}]
      BY <2>6 DEF n
    <2>10. FlattenSeq(seqs) \in Seq(T)
      BY <2>1, <2>2, <2>4
    <2>11. /\ at[1] = 1
           /\ at[Len(seqs) + 1] = Len(FlattenSeq(seqs)) + 1
           /\ \A k \in 1..Len(seqs) :
                  /\ at[k + 1] = at[k] + Len(seqs[k])
                  /\ Holds(FlattenSeq(seqs), at[k], seqs[k])
      BY <2>2, <2>7, <2>8 DEF n
    <2> HIDE DEF at
    <2> QED BY <2>9, <2>10, <2>11
  <1> QED BY <1>1, <1>2

-----------------------------------------------------------------------------
(***************************************************************************)
(* What is written                                                         *)
(***************************************************************************)

\* What a text consists of.  All of it is STRING; the provers have to be told
\* which words are.
Tokens == STRING \cup Marks \cup
          {"backslash", "n", "r", "t", "u0001", "7", "0", "1"}
Result == [ok : BOOLEAN, out : Seq(Tokens)]

\* A sequence over a part of a set is one over the set.
LEMMA SeqWider ==
    ASSUME NEW S, NEW T, S \subseteq T
    PROVE  Seq(S) \subseteq Seq(T)
  <1> SUFFICES ASSUME NEW s \in Seq(S) PROVE s \in Seq(T)
    OBVIOUS
  <1>1. \A k \in 1..Len(s) : s[k] \in T
    OBVIOUS
  <1> QED BY <1>1

\* A function on the first n numbers is a sequence.
LEMMA SeqOfFunction ==
    ASSUME NEW T, NEW n \in Nat, NEW f \in [1..n -> T]
    PROVE  f \in Seq(T) /\ Len(f) = n
  OBVIOUS

\* Sequences of one and two, and what is made of them.
LEMMA ShortSeqs ==
    ASSUME NEW T
    PROVE  /\ <<>> \in Seq(T)
           /\ \A x \in T : <<x>> \in Seq(T)
           /\ \A x, y \in T : <<x, y>> \in Seq(T)
           /\ \A s, t \in Seq(T) : s \o t \in Seq(T)
  OBVIOUS

\* The length of a concatenation.
LEMMA ConcatLen ==
    ASSUME NEW s \in Seq(Tokens), NEW t \in Seq(Tokens)
    PROVE  /\ s \o t \in Seq(Tokens) /\ Len(s \o t) = Len(s) + Len(t)
           /\ Len(s) \in Nat /\ Len(t) \in Nat
  OBVIOUS

\* The words write_json writes are tokens.
LEMMA KnownTokens ==
    /\ \A x \in {"null", "true", "false", "quote", "lbracket", "rbracket",
                 "lbrace", "rbrace", "comma", "colon",
                 "backslash", "n", "r", "t", "u0001", "7"} : x \in Tokens
    /\ STRING \subseteq Tokens
    /\ Seq(STRING) \subseteq Seq(Tokens)
  <1>1. STRING \subseteq Tokens
    BY DEF Tokens
  <1>2. Seq(STRING) \subseteq Seq(Tokens)
    BY <1>1, SeqWider
  <1>3. \A x \in {"null", "true", "false", "quote", "lbracket", "rbracket",
                 "lbrace", "rbrace", "comma", "colon",
                  "backslash", "n", "r", "t", "u0001", "7"} : x \in Tokens
    BY DEF Tokens, Marks
  <1> QED BY <1>1, <1>2, <1>3

\* The text of a string is text.
LEMMA StringWritten ==
    ASSUME NEW text \in Seq(Tokens)
    PROVE  /\ [k \in DOMAIN text |-> Escape(text[k])] \in Seq(Seq(Tokens))
           /\ write_json_string(text) \in Seq(Tokens)
  <1>1. \A c \in Tokens : Escape(c) \in Seq(Tokens)
    <2> SUFFICES ASSUME NEW c \in Tokens PROVE Escape(c) \in Seq(Tokens)
      OBVIOUS
    <2> QED BY KnownTokens DEF Escape
  <1> DEFINE pieces == [k \in 1..Len(text) |-> Escape(text[k])]
  <1>2. pieces \in Seq(Seq(Tokens))
    BY <1>1
  <1>3. pieces = [k \in DOMAIN text |-> Escape(text[k])]
    OBVIOUS
  <1>4. FlattenSeq(pieces) \in Seq(Tokens)
    <2> HIDE DEF pieces
    <2> QED BY <1>2, FlattenPieces
  <1> HIDE DEF pieces
  <1>5. <<"quote">> \in Seq(Tokens)
    BY KnownTokens, ShortSeqs
  <1> QED BY <1>2, <1>3, <1>4, <1>5, ShortSeqs DEF write_json_string

\* A container is written to its end exactly if all of it is.
LEMMA EachWritten ==
    ASSUME NEW open \in Tokens, NEW close \in Tokens,
           NEW written \in Seq(Result)
    PROVE  /\ WriteEach(open, written, close) \in Result
           /\ WriteEach(open, written, close).ok
                <=> \A k \in DOMAIN written : written[k].ok
  <1> DEFINE failed == {k \in DOMAIN written : ~written[k].ok}
             last == IF failed = {} THEN Len(written) ELSE Min(failed)
             items == [k \in 1..last |-> IF k = 1 THEN written[k].out
                                         ELSE <<"comma">> \o written[k].out]
  <1>1. last \in Nat /\ last <= Len(written)
    <2>1. failed \in SUBSET Nat /\ \A k \in failed : k <= Len(written)
      OBVIOUS
    <2>2. failed # {} => Min(failed) \in failed
      <3> HIDE DEF failed
      <3> QED BY <2>1, MinIsLeast
    <2>3. Len(written) \in Nat
      OBVIOUS
    <2> HIDE DEF failed
    <2>4. CASE failed = {}
      BY <2>3, <2>4
    <2>5. CASE failed # {}
      BY <2>1, <2>2, <2>5
    <2> QED BY <2>4, <2>5
  <1>2. items \in Seq(Seq(Tokens))
    <2> HIDE DEF last
    <2>1. ASSUME NEW k \in 1..last
          PROVE  (IF k = 1 THEN written[k].out
                  ELSE <<"comma">> \o written[k].out)
                     \in Seq(Tokens)
      <3>1. k \in 1..Len(written)
        BY <1>1
      <3>2. written[k] \in Result
        BY <3>1
      <3>3. written[k].out \in Seq(Tokens) /\ <<"comma">> \in Seq(Tokens)
        BY <3>2, KnownTokens DEF Result
      <3> QED BY <3>3
    <2> QED BY <1>1, <2>1
  <1>3. FlattenSeq(items) \in Seq(Tokens)
    <2> HIDE DEF items
    <2> QED BY <1>2, FlattenPieces
  <1>4. WriteEach(open, written, close)
          = IF failed = {} THEN Ok(<<open>> \o FlattenSeq(items) \o <<close>>)
            ELSE Err(<<open>> \o FlattenSeq(items))
    BY DEF WriteEach
  <1>5. failed = {} <=> \A k \in DOMAIN written : written[k].ok
    OBVIOUS
  <1> HIDE DEF failed, items
  <1> QED BY <1>3, <1>4, <1>5 DEF Ok, Err, Result

\* A value with a property and none below it that has the property.
LEMMA Lowest ==
    ASSUME NEW Bad \in SUBSET Values, Bad # {}
    PROVE  \E v \in Bad :
               \A u \in Values : Height(u) < Height(v) => u \notin Bad
  <1> DEFINE Heights == {Height(v) : v \in Bad}
  <1>1. Heights \in SUBSET Nat /\ Heights # {}
    BY ValueShape
  <1>2. PICK x \in Heights : \A y \in Heights : x <= y
    BY <1>1, FlattenRec!LeastNumber
  <1>3. PICK v \in Bad : x = Height(v)
    BY <1>2
  <1>4. ASSUME NEW u \in Bad PROVE ~(Height(u) < Height(v))
    BY <1>1, <1>2, <1>3
  <1> QED BY <1>3, <1>4

\* write_json succeeds exactly on the values that have a JSON text.
THEOREM WriteSucceeds ==
    \A v \in Values : /\ write_json[v] \in Result
                      /\ write_json[v].ok <=> Serializable[v]
  <1> DEFINE Good(v) == /\ write_json[v] \in Result
                        /\ write_json[v].ok <=> Serializable[v]
             Bad == {v \in Values : ~Good(v)}
  <1> SUFFICES ASSUME Bad # {} PROVE FALSE
    OBVIOUS
  <1>1. PICK v \in Bad :
            \A u \in Values : Height(u) < Height(v) => u \notin Bad
    <2> HIDE DEF Bad
    <2>1. Bad \in SUBSET Values
      BY DEF Bad
    <2> QED BY <2>1, Lowest
  <1>2. v \in Values /\ ~Good(v)
    BY <1>1
  <1>3. \A u \in Values : Height(u) < Height(v) => Good(u)
    BY <1>1
  <1>4. write_json[v] = WriteValue(v, write_json)
    BY <1>2, WriteJsonDef
  <1>5. Serializable[v] = HasJson(v, Serializable)
    BY <1>2, SerializableDef
  <1> HIDE DEF Bad
  <1>6. CASE IsConstant(v)
    <2>1. v.items = <<>> /\ DOMAIN v.items = {}
      BY <1>6 DEF IsConstant, Scalar
    <2>2. CASE v.type = "None"
      BY <1>2, <1>4, <1>5, <2>1, <2>2, KnownTokens
      DEF WriteValue, HasJson, Ok, Result
    <2>3. CASE v.type = "bool"
      <3>1. v.text[1] \in Tokens
        BY <1>6, <2>3, KnownTokens DEF IsConstant, Scalar
      <3> QED BY <1>2, <1>4, <1>5, <2>1, <2>3, <3>1
              DEF WriteValue, CastsTo, HasJson, Ok, Result
    <2>4. CASE v.type = "other"
      BY <1>2, <1>4, <1>5, <2>4 DEF WriteValue, CastsTo, HasJson, Err, Result
    <2> QED BY <1>2, <1>6, <2>2, <2>3, <2>4, ValueShape
  <1>7. CASE IsNumber(v)
    <2>1. v.text[1] \in Tokens
      BY <1>7, KnownTokens DEF IsNumber
    <2>2. CASE v.type = "int"
      <3>1. write_json[v] = IF v.text[1] \in OutOfRange THEN Err(<<>>)
                            ELSE Ok(<<v.text[1]>>)
        BY <1>4, <2>2 DEF WriteValue, CastsTo, WriteInt, IntWord
      <3>2. Serializable[v] <=> v.text[1] \notin OutOfRange
        BY <1>5, <2>2 DEF HasJson
      <3>3. CASE v.text[1] \in OutOfRange
        BY <1>2, <3>1, <3>2, <3>3 DEF Err, Result
      <3>4. CASE v.text[1] \notin OutOfRange
        BY <1>2, <2>1, <3>1, <3>2, <3>4 DEF Ok, Result
      <3> QED BY <3>3, <3>4
    <2>3. CASE v.type = "float"
      <3>1. write_json[v] = IF v.text[1] \in NonFinite THEN Err(<<>>)
                            ELSE Ok(<<FloatWord(v)>>)
        BY <1>4, <2>3 DEF WriteValue, CastsTo, WriteFloat
      <3>2. Serializable[v] <=> v.text[1] \notin NonFinite
        BY <1>5, <2>3 DEF HasJson
      <3>3. FloatWord(v) \in Tokens
        BY <2>1, KnownTokens DEF FloatWord
      <3>4. CASE v.text[1] \in NonFinite
        BY <1>2, <3>1, <3>2, <3>4 DEF Err, Result
      <3>5. CASE v.text[1] \notin NonFinite
        BY <1>2, <3>1, <3>2, <3>3, <3>5 DEF Ok, Result
      <3> QED BY <3>4, <3>5
    <2> QED BY <1>2, <1>7, <2>2, <2>3, ValueShape
  <1>8. CASE IsString(v)
    <2>1. v.text \in Seq(Tokens) /\ v.type = "str"
      BY <1>8, KnownTokens DEF IsString, Scalar
    <2>2. write_json_string(v.text) \in Seq(Tokens)
      BY <2>1, StringWritten
    <2> QED BY <1>2, <1>4, <1>5, <2>1, <2>2
            DEF WriteValue, CastsTo, HasJson, Ok, Err, Result
  <1>9. CASE IsSequence(v)
    <2> DEFINE written == [k \in DOMAIN v.items |-> write_json[v.items[k]]]
    <2>1. v.type \in {"list", "tuple"} /\ v.items \in Seq(Values)
      BY <1>9 DEF IsSequence
    <2>2. \A k \in DOMAIN v.items : Good(v.items[k])
      BY <1>3, <1>9 DEF IsSequence
    <2>3. written \in Seq(Result)
      BY <2>1, <2>2
    <2>4. \A k \in DOMAIN v.items : written[k].ok <=> Serializable[v.items[k]]
      BY <2>2
    <2>5. DOMAIN written = DOMAIN v.items
      OBVIOUS
    <2>6. write_json[v] = WriteEach("lbracket", written, "rbracket")
      BY <1>4, <2>1 DEF WriteValue, CastsTo
    <2>7. Serializable[v] = \A k \in DOMAIN v.items : Serializable[v.items[k]]
      BY <1>5, <2>1 DEF HasJson
    <2> HIDE DEF written
    <2>8. /\ WriteEach("lbracket", written, "rbracket") \in Result
          /\ WriteEach("lbracket", written, "rbracket").ok
                <=> \A k \in DOMAIN written : written[k].ok
      BY <2>3, EachWritten, KnownTokens
    <2> QED BY <1>2, <2>4, <2>5, <2>6, <2>7, <2>8
  <1>10. CASE IsMapping(v)
    <2> DEFINE written == [k \in DOMAIN v.items |->
                              WriteEntry(v.items[k].key,
                                         write_json[v.items[k].value])]
               Fits(k) == /\ v.items[k].key.type = "str"
                          /\ Encodable(v.items[k].key.text)
                          /\ Serializable[v.items[k].value]
    <2>1. v.type = "dict" /\ v.items \in Seq(Range(v.items))
      BY <1>10 DEF IsMapping, Container
    <2>2. ASSUME NEW k \in DOMAIN v.items
          PROVE  /\ written[k] \in Result
                 /\ written[k].ok <=> Fits(k)
      <3> DEFINE key == v.items[k].key
                 inner == write_json[v.items[k].value]
      <3>1. inner \in Result /\ (inner.ok <=> Serializable[v.items[k].value])
        BY <1>3, <1>10 DEF IsMapping
      <3>2. key.type = "str" => write_json_string(key.text) \in Seq(Tokens)
        BY <1>10, StringWritten, KnownTokens DEF IsMapping
      <3>3. written[k] = WriteEntry(key, inner)
        OBVIOUS
      <3> HIDE DEF written, key, inner
      <3>4. CASE key.type = "str" /\ Encodable(key.text)
        <4>1. WriteEntry(key, inner)
                = [inner EXCEPT !.out = write_json_string(key.text)
                                            \o <<"colon">> \o @]
          BY <3>4 DEF WriteEntry, CastsTo
        <4>2. inner.out \in Seq(Tokens) /\ inner.ok \in BOOLEAN
          BY <3>1 DEF Result
        <4>3. write_json_string(key.text) \o <<"colon">> \o inner.out
                  \in Seq(Tokens)
          BY <3>2, <3>4, <4>2, KnownTokens
        <4>4. written[k] \in Result /\ written[k].ok = inner.ok
          BY <3>1, <3>3, <4>1, <4>3 DEF Result
        <4> QED BY <3>1, <3>4, <4>4 DEF key
      <3>5. CASE ~(key.type = "str" /\ Encodable(key.text))
        <4>1. WriteEntry(key, inner) = Err(<<>>)
          BY <3>5 DEF WriteEntry, CastsTo
        <4> QED BY <3>3, <3>5, <4>1 DEF Err, Result, key
      <3> QED BY <3>4, <3>5
    <2>3. written \in Seq(Result)
      <3>1. DOMAIN written = 1..Len(v.items) /\ Len(v.items) \in Nat
        BY <2>1
      <3>2. written = [k \in 1..Len(v.items) |-> written[k]]
        BY <2>1
      <3>3. \A k \in 1..Len(v.items) : written[k] \in Result
        <4> HIDE DEF written
        <4> QED BY <2>1, <2>2
      <3>4. written \in [1..Len(v.items) -> Result]
        <4> HIDE DEF written
        <4> QED BY <3>2, <3>3, Zenon
      <3> HIDE DEF written
      <3> QED BY <3>1, <3>4, SeqOfFunction
    <2>5. DOMAIN written = DOMAIN v.items
      OBVIOUS
    <2>6. write_json[v] = WriteEach("lbrace", written, "rbrace")
      BY <1>4, <2>1 DEF WriteValue, CastsTo
    <2>7. Serializable[v] = \A k \in DOMAIN v.items : Fits(k)
      BY <1>5, <2>1 DEF HasJson
    <2> HIDE DEF written, Fits
    <2>8. /\ WriteEach("lbrace", written, "rbrace") \in Result
          /\ WriteEach("lbrace", written, "rbrace").ok
                <=> \A k \in DOMAIN written : written[k].ok
      BY <2>3, EachWritten, KnownTokens
    <2> QED BY <1>2, <2>2, <2>5, <2>6, <2>7, <2>8
  <1> QED BY <1>2, <1>6, <1>7, <1>8, <1>9, <1>10, ValuesAssumption

-----------------------------------------------------------------------------
(***************************************************************************)
(* What is read                                                            *)
(***************************************************************************)

\* Induction from n + 1 down to 1.
LEMMA Downward ==
    ASSUME NEW n \in Nat, NEW Good, n + 1 \in Good,
           \A k \in 1..n : k + 1 \in Good => k \in Good
    PROVE  \A k \in 1..(n + 1) : k \in Good
  <1> DEFINE Bad == {k \in 1..(n + 1) : k \notin Good}
             Depths == {n + 1 - k : k \in Bad}
  <1> SUFFICES ASSUME Bad # {} PROVE FALSE
    OBVIOUS
  <1>1. Depths \in SUBSET Nat /\ Depths # {}
    OBVIOUS
  <1>2. PICK x \in Depths : \A y \in Depths : x <= y
    BY <1>1, FlattenRec!LeastNumber
  <1>3. PICK k \in 1..(n + 1) : k \notin Good /\ x = n + 1 - k
    BY <1>2
  <1>4. k # n + 1 /\ k \in 1..n /\ k + 1 \in 1..(n + 1)
    BY <1>3
  <1>5. k + 1 \in Bad
    BY <1>3, <1>4
  <1>6. n + 1 - (k + 1) \in Depths
    BY <1>5
  <1>7. x <= n + 1 - (k + 1)
    <2> HIDE DEF Depths
    <2> QED BY <1>2, <1>6
  <1> QED BY <1>3, <1>4, <1>7

\* The end of a sequence from its k-th element on.
LEMMA Tails ==
    ASSUME NEW T, NEW s \in Seq(T)
    PROVE  /\ SubSeq(s, 1, Len(s)) = s
           /\ SubSeq(s, Len(s) + 1, Len(s)) = <<>>
           /\ s # <<>> => SubSeq(s, Len(s), Len(s)) = <<s[Len(s)]>>
           /\ \A k \in 1..Len(s) :
                  SubSeq(s, k, Len(s))
                      = <<s[k]>> \o SubSeq(s, k + 1, Len(s))
  <1>1. SubSeq(s, 1, Len(s)) = s
    OBVIOUS
  <1>2. SubSeq(s, Len(s) + 1, Len(s)) = <<>>
    OBVIOUS
  <1>3. ASSUME NEW k \in 1..Len(s)
        PROVE  SubSeq(s, k, Len(s)) = <<s[k]>> \o SubSeq(s, k + 1, Len(s))
    OBVIOUS
  <1>4. s # <<>> => SubSeq(s, Len(s), Len(s)) = <<s[Len(s)]>>
    <2> SUFFICES ASSUME s # <<>>
                 PROVE  SubSeq(s, Len(s), Len(s)) = <<s[Len(s)]>>
      OBVIOUS
    <2>1. Len(s) \in 1..Len(s)
      OBVIOUS
    <2>2. SubSeq(s, Len(s), Len(s))
            = <<s[Len(s)]>> \o SubSeq(s, Len(s) + 1, Len(s))
      BY <1>3, <2>1
    <2>3. <<s[Len(s)]>> \o <<>> = <<s[Len(s)]>>
      OBVIOUS
    <2> QED BY <1>2, <2>2, <2>3
  <1> QED BY <1>1, <1>2, <1>3, <1>4

CharPositions(out) == 1..(Len(out) + 2)
CharRank(out, i) == Len(out) + 2 - i
CharBody(out, i, later) == ReadChars(out, i, later)
CharsRec == INSTANCE Recursion
            WITH S <- CharPositions, Rank <- CharRank, Body <- CharBody

\* The reader of strings reads a character, given what it reads further on.
LEMMA ReadStringDef ==
    ASSUME NEW T, NEW out \in Seq(T), NEW i \in 1..(Len(out) + 2)
    PROVE  ReadString(out)[i] = ReadChars(out, i, ReadString(out))
  <1>1. CharsRec!Local(out)
    <2> SUFFICES ASSUME NEW j \in 1..(Len(out) + 2), NEW g, NEW h,
                        \A l \in 1..(Len(out) + 2) :
                            Len(out) + 2 - l < Len(out) + 2 - j => g[l] = h[l]
                 PROVE  ReadChars(out, j, g) = ReadChars(out, j, h)
      BY DEF CharsRec!Local, CharPositions, CharRank, CharBody
    <2>1. j <= Len(out) => g[j + 1] = h[j + 1]
      OBVIOUS
    <2>2. j < Len(out) => g[j + 2] = h[j + 2]
      OBVIOUS
    <2> QED BY <2>1, <2>2 DEF ReadChars
  <1>2. \A j \in CharPositions(out) : CharRank(out, j) \in Nat
    BY DEF CharPositions, CharRank
  <1>3. \E f : f = [j \in CharPositions(out) |-> CharBody(out, j, f)]
    BY <1>1, <1>2, CharsRec!FunctionExists
  <1>4. \E f : f = [j \in 1..(Len(out) + 2) |-> ReadChars(out, j, f)]
    BY <1>3 DEF CharPositions, CharBody
  <1>5. ReadString(out)
          = [j \in 1..(Len(out) + 2) |-> ReadChars(out, j, ReadString(out))]
    BY <1>4 DEF ReadString
  <1> QED BY <1>5

\* One more before what was read.
LEMMA PrecededAs ==
    ASSUME NEW x, NEW rest, NEW next \in Nat \ {0}
    PROVE  Preceded(x, ReadAs(rest, next)) = ReadAs(<<x>> \o rest, next)
  <1>1. ReadAs(rest, next).next # 0 /\ ReadAs(rest, next).value = rest
        /\ ReadAs(rest, next).next = next
    BY DEF ReadAs
  <1> QED BY <1>1 DEF Preceded

\* A character is read back from its escape, whatever it is.
LEMMA CharReads ==
    ASSUME NEW out \in Seq(Tokens), NEW i \in Nat, NEW c \in Tokens,
           Holds(out, i, Escape(c)), NEW rest, NEW next \in Nat \ {0},
           ReadString(out)[i + Len(Escape(c))] = ReadAs(rest, next)
    PROVE  ReadString(out)[i] = ReadAs(<<c>> \o rest, next)
  <1>1. Len(out) \in Nat
    OBVIOUS
  <1>2. CASE Escape(c) = <<c>>
             /\ c \notin {"quote", "backslash", "newline", "return", "tab",
                          "control"}
    <2>1. Len(Escape(c)) = 1 /\ Escape(c)[1] = c
      BY <1>2
    <2>2. i \in 1..Len(out) /\ out[i] = c
      BY <1>1, <2>1 DEF Holds
    <2>3. ReadString(out)[i] = ReadChars(out, i, ReadString(out))
      BY <1>1, <2>2, ReadStringDef
    <2>4. ReadChars(out, i, ReadString(out))
            = Preceded(c, ReadString(out)[i + 1])
      BY <1>1, <1>2, <2>2 DEF ReadChars
    <2>5. ReadString(out)[i + 1] = ReadAs(rest, next)
      BY <2>1
    <2> QED BY <2>3, <2>4, <2>5, PrecededAs
  <1>3. ASSUME NEW e \in DOMAIN Unescaped, Unescaped[e] = c,
               Escape(c) = <<"backslash", e>>
        PROVE  ReadString(out)[i] = ReadAs(<<c>> \o rest, next)
    <2>1. /\ Len(Escape(c)) = 2
          /\ Escape(c)[1] = "backslash" /\ Escape(c)[2] = e
      BY <1>3
    <2>2. /\ i \in 1..Len(out) /\ i < Len(out)
          /\ out[i] = "backslash" /\ out[i + 1] = e
      <3>1. i \in Nat \ {0} /\ i + 2 <= Len(out) + 1
        BY <2>1 DEF Holds
      <3>2. out[i + 1 - 1] = "backslash" /\ out[i + 2 - 1] = e
        BY <2>1 DEF Holds
      <3> QED BY <1>1, <3>1, <3>2
    <2>3. ReadString(out)[i] = ReadChars(out, i, ReadString(out))
      BY <1>1, <2>2, ReadStringDef
    <2>4. ReadChars(out, i, ReadString(out))
            = Preceded(c, ReadString(out)[i + 2])
      BY <1>1, <1>3, <2>2 DEF ReadChars
    <2>5. ReadString(out)[i + 2] = ReadAs(rest, next)
      BY <2>1
    <2> QED BY <2>3, <2>4, <2>5, PrecededAs
  <1>4. CASE c = "quote"
    BY <1>3, <1>4 DEF Escape, Unescaped
  <1>5. CASE c = "backslash"
    BY <1>3, <1>5 DEF Escape, Unescaped
  <1>6. CASE c = "newline"
    BY <1>3, <1>6 DEF Escape, Unescaped
  <1>7. CASE c = "return"
    BY <1>3, <1>7 DEF Escape, Unescaped
  <1>8. CASE c = "tab"
    BY <1>3, <1>8 DEF Escape, Unescaped
  <1>9. CASE c = "control"
    BY <1>3, <1>9 DEF Escape, Unescaped
  <1>10. CASE c \notin {"quote", "backslash", "newline", "return", "tab",
                        "control"}
    BY <1>2, <1>10 DEF Escape
  <1> QED BY <1>4, <1>5, <1>6, <1>7, <1>8, <1>9, <1>10

\* A string is read back from what write_json_string writes.
LEMMA StringReads ==
    ASSUME NEW out \in Seq(Tokens), NEW i \in Nat, NEW text \in Seq(Tokens),
           Holds(out, i, write_json_string(text))
    PROVE  /\ i \in 1..Len(out) /\ out[i] = "quote"
           /\ ReadString(out)[i + 1]
                 = ReadAs(text, i + Len(write_json_string(text)))
  <1> DEFINE n == Len(text)
             pieces == [k \in DOMAIN text |-> Escape(text[k])]
             flat == FlattenSeq(pieces)
             end == i + Len(flat) + 2
  <1>1. pieces \in Seq(Seq(Tokens)) /\ Len(pieces) = n /\ n \in Nat
    BY StringWritten
  <1>2. \A k \in 1..n : pieces[k] = Escape(text[k]) /\ text[k] \in Tokens
    OBVIOUS
  <1>3. write_json_string(text) = <<"quote">> \o flat \o <<"quote">>
    BY DEF write_json_string
  <1> HIDE DEF pieces, n
  <1>4. PICK at \in [1..(n + 1) -> Nat \ {0}] :
            /\ at[1] = 1
            /\ at[n + 1] = Len(flat) + 1
            /\ \A k \in 1..n : /\ at[k + 1] = at[k] + Len(pieces[k])
                               /\ Holds(flat, at[k], pieces[k])
    BY <1>1, FlattenPieces
  <1>5. flat \in Seq(Tokens) /\ Len(flat) \in Nat
    BY <1>1, FlattenPieces
  <1>6. /\ Holds(out, i, <<"quote">>) /\ Holds(out, i + 1, flat)
        /\ Holds(out, i + 1 + Len(flat), <<"quote">>)
        /\ Len(write_json_string(text)) = Len(flat) + 2
    <2> HIDE DEF flat
    <2>1. <<"quote">> \in Seq(Tokens) /\ Len(<<"quote">>) = 1
      BY KnownTokens
    <2>2. <<"quote">> \o flat \in Seq(Tokens)
          /\ Len(<<"quote">> \o flat) = Len(flat) + 1
      BY <1>5, <2>1
    <2>3. /\ Holds(out, i, <<"quote">> \o flat)
          /\ Holds(out, i + (Len(flat) + 1), <<"quote">>)
      BY <1>3, <2>1, <2>2, HoldsConcat, ZenonT(30)
    <2>4. Holds(out, i, <<"quote">>) /\ Holds(out, i + 1, flat)
      BY <1>5, <2>1, <2>3, HoldsConcat
    <2>5. Len(write_json_string(text)) = Len(flat) + 2
      BY <1>3, <1>5, <2>1, <2>2
    <2>6. i + (Len(flat) + 1) = i + 1 + Len(flat)
      BY <1>5
    <2> QED BY <2>3, <2>4, <2>5, <2>6
  <1>7. Len(out) \in Nat /\ end \in Nat \ {0}
    BY <1>5
  <1>8. i \in 1..Len(out) /\ out[i] = "quote"
    <2>1. Len(<<"quote">>) = 1 /\ <<"quote">>[1] = "quote"
      OBVIOUS
    <2> QED BY <1>6, <1>7, <2>1 DEF Holds
  <1> DEFINE Good == {k \in 1..(n + 1) : ReadString(out)[i + at[k]]
                                           = ReadAs(SubSeq(text, k, n), end)}
  <1>9. n + 1 \in Good
    <2>1. i + at[n + 1] = i + 1 + Len(flat)
      BY <1>4, <1>5
    <2>2. /\ i + 1 + Len(flat) \in 1..Len(out)
          /\ out[i + 1 + Len(flat)] = "quote"
      <3>1. Len(<<"quote">>) = 1 /\ <<"quote">>[1] = "quote"
        OBVIOUS
      <3> QED BY <1>5, <1>6, <1>7, <3>1 DEF Holds
    <2>3. ReadString(out)[i + 1 + Len(flat)]
            = ReadChars(out, i + 1 + Len(flat), ReadString(out))
      BY <1>7, <2>2, ReadStringDef
    <2>4. ReadChars(out, i + 1 + Len(flat), ReadString(out))
            = ReadAs(<<>>, i + 1 + Len(flat) + 1)
      BY <1>7, <2>2 DEF ReadChars
    <2>5. end = i + 1 + Len(flat) + 1
      BY <1>5
    <2>6. SubSeq(text, n + 1, n) = <<>>
      BY Tails DEF n
    <2>7. n + 1 \in 1..(n + 1)
      BY <1>1
    <2> QED BY <2>1, <2>3, <2>4, <2>5, <2>6, <2>7
  <1>10. ASSUME NEW k \in 1..n, k + 1 \in Good PROVE k \in Good
    <2>1. /\ pieces[k] = Escape(text[k]) /\ text[k] \in Tokens
          /\ pieces[k] \in Seq(Tokens) /\ Len(pieces[k]) \in Nat
      BY <1>1, <1>2
    <2>2. at[k] \in Nat /\ at[k + 1] = at[k] + Len(pieces[k])
      BY <1>1, <1>4
    <2>3. Holds(flat, at[k], pieces[k])
      BY <1>4
    <2>4. Holds(out, i + 1 + at[k] - 1, pieces[k])
      <3> HIDE DEF flat
      <3> QED BY <1>5, <1>6, <2>1, <2>2, <2>3, HoldsInside
    <2>5. Holds(out, i + at[k], Escape(text[k]))
      <3>1. \A a, b \in Nat : a + 1 + b - 1 = a + b
        OBVIOUS
      <3> QED BY <2>1, <2>2, <2>4, <3>1
    <2>6. i + at[k + 1] = (i + at[k]) + Len(Escape(text[k]))
      BY <2>1, <2>2
    <2>7. ReadString(out)[(i + at[k]) + Len(Escape(text[k]))]
            = ReadAs(SubSeq(text, k + 1, n), end)
      BY <1>10, <2>6
    <2>8. ReadString(out)[i + at[k]]
            = ReadAs(<<text[k]>> \o SubSeq(text, k + 1, n), end)
      <3> DEFINE here == i + at[k]
                 rest == SubSeq(text, k + 1, n)
                 c == text[k]
      <3>1. here \in Nat /\ Holds(out, here, Escape(c)) /\ c \in Tokens
        BY <2>1, <2>2, <2>5
      <3>2. ReadString(out)[here + Len(Escape(c))] = ReadAs(rest, end)
        BY <2>7
      <3> HIDE DEF end, here, rest, c
      <3>3. ReadString(out)[here] = ReadAs(<<c>> \o rest, end)
        BY <1>7, <3>1, <3>2, CharReads
      <3> QED BY <3>3 DEF here, rest, c
    <2>9. SubSeq(text, k, n) = <<text[k]>> \o SubSeq(text, k + 1, n)
      BY Tails DEF n
    <2>10. k \in 1..(n + 1)
      BY <1>1
    <2> QED BY <2>8, <2>9, <2>10
  <1>11. 1 \in Good
    <2> HIDE DEF Good
    <2>1. \A k \in 1..(n + 1) : k \in Good
      BY <1>1, <1>9, <1>10, Downward
    <2> QED BY <1>1, <2>1
  <1>12. SubSeq(text, 1, n) = text
    BY Tails DEF n
  <1>13. end = i + Len(write_json_string(text))
    BY <1>5, <1>6
  <1> QED BY <1>4, <1>8, <1>11, <1>12, <1>13

ReadPositions(out) == 1..(Len(out) + 1)
ReadRank(out, i) == Len(out) + 1 - i
ReadBody(out, i, later) == ReadFrom(out, i, later)
ReadRec == INSTANCE Recursion
           WITH S <- ReadPositions, Rank <- ReadRank, Body <- ReadBody

\* The reader reads a value, given what it reads further on.
LEMMA ReadDef ==
    ASSUME NEW T, NEW out \in Seq(T), NEW i \in 1..(Len(out) + 1)
    PROVE  Read(out)[i] = ReadFrom(out, i, Read(out))
  <1>1. ReadRec!Local(out)
    <2> SUFFICES ASSUME NEW j \in 1..(Len(out) + 1), NEW g, NEW h,
                        \A l \in 1..(Len(out) + 1) :
                            Len(out) + 1 - l < Len(out) + 1 - j => g[l] = h[l]
                 PROVE  ReadFrom(out, j, g) = ReadFrom(out, j, h)
      BY DEF ReadRec!Local, ReadPositions, ReadRank, ReadBody
    <2>1. Len(out) \in Nat
      OBVIOUS
    <2>2. \A l \in j..Len(out) : g[l + 1] = h[l + 1]
      BY <2>1
    <2>3. ASSUME j <= Len(out), NEW type, NEW mode, NEW bracket
          PROVE  ReadContainer(out, j, type, mode, bracket, g)
                     = ReadContainer(out, j, type, mode, bracket, h)
      BY <2>1, <2>2, <2>3 DEF ReadContainer
    <2>4. ReadValue(out, j, g) = ReadValue(out, j, h)
      BY <2>1, <2>3 DEF ReadValue
    <2>5. ReadEntry(out, j, g) = ReadEntry(out, j, h)
      BY <2>2 DEF ReadEntry
    <2>6. ASSUME NEW one, NEW mode, NEW bracket
          PROVE  ReadMembers(out, j, one, mode, bracket, g)
                     = ReadMembers(out, j, one, mode, bracket, h)
      BY <2>2 DEF ReadMembers
    <2> QED BY <2>4, <2>5, <2>6 DEF ReadFrom
  <1>2. \A j \in ReadPositions(out) : ReadRank(out, j) \in Nat
    BY DEF ReadPositions, ReadRank
  <1>3. \E f : f = [j \in ReadPositions(out) |-> ReadBody(out, j, f)]
    BY <1>1, <1>2, ReadRec!FunctionExists
  <1>4. \E f : f = [j \in 1..(Len(out) + 1) |-> ReadFrom(out, j, f)]
    BY <1>3 DEF ReadPositions, ReadBody
  <1>5. Read(out)
          = [j \in 1..(Len(out) + 1) |-> ReadFrom(out, j, Read(out))]
    BY <1>4 DEF Read
  <1> QED BY <1>5

\* What is read in each of the reader's modes.
LEMMA ReadModes ==
    ASSUME NEW T, NEW out \in Seq(T), NEW i \in 1..(Len(out) + 1)
    PROVE  /\ Read(out)[i]["value"] = ReadValue(out, i, Read(out))
           /\ Read(out)[i]["elements"]
                 = ReadMembers(out, i, Read(out)[i]["value"], "elements",
                               "rbracket", Read(out))
           /\ Read(out)[i]["entries"]
                 = ReadMembers(out, i, ReadEntry(out, i, Read(out)),
                               "entries", "rbrace", Read(out))
  <1>1. Read(out)[i] = ReadFrom(out, i, Read(out))
    BY ReadDef
  <1>2. /\ ReadFrom(out, i, Read(out))["value"] = ReadValue(out, i, Read(out))
        /\ ReadFrom(out, i, Read(out))["elements"]
              = ReadMembers(out, i, ReadValue(out, i, Read(out)), "elements",
                            "rbracket", Read(out))
        /\ ReadFrom(out, i, Read(out))["entries"]
              = ReadMembers(out, i, ReadEntry(out, i, Read(out)),
                            "entries", "rbrace", Read(out))
    BY DEF ReadFrom
  <1> QED BY <1>1, <1>2

\* A piece of one token is that token.
LEMMA HoldsToken ==
    ASSUME NEW out \in Seq(Tokens), NEW i \in Nat, NEW u \in Seq(Tokens),
           Len(u) = 1, Holds(out, i, u)
    PROVE  i \in 1..Len(out) /\ out[i] = u[1]
  BY DEF Holds

\* Where the members of a container written to its end stand: the first
\* behind the opening bracket, the others behind commas, the closing bracket
\* behind the last.
LaidOut(out, i, open, written, close, from) ==
    /\ from[1] = i + 1
    /\ from[Len(written) + 1] = i + Len(WriteEach(open, written, close).out)
    /\ i \in 1..Len(out) /\ out[i] = open
    /\ \A k \in 1..Len(written) :
           /\ Holds(out, from[k], written[k].out)
           /\ from[k + 1] = from[k] + Len(written[k].out) + 1
           /\ from[k] + Len(written[k].out) \in 1..Len(out)
           /\ out[from[k] + Len(written[k].out)]
                 = IF k = Len(written) THEN close ELSE "comma"

\* They do stand there.
LEMMA EachPlaces ==
    ASSUME NEW out \in Seq(Tokens), NEW i \in Nat,
           NEW open \in Tokens, NEW close \in Tokens,
           NEW written \in Seq(Result), written # <<>>,
           \A k \in 1..Len(written) : written[k].ok,
           Holds(out, i, WriteEach(open, written, close).out)
    PROVE  \E from \in [1..(Len(written) + 1) -> Nat \ {0}] :
               LaidOut(out, i, open, written, close, from)
  <1> DEFINE n == Len(written)
             items == [k \in 1..n |-> IF k = 1 THEN written[k].out
                                      ELSE <<"comma">> \o written[k].out]
             flat == FlattenSeq(items)
             text == WriteEach(open, written, close).out
  <1>1. n \in Nat \ {0} /\ Len(out) \in Nat
    OBVIOUS
  <1>2. \A k \in 1..n : /\ written[k].out \in Seq(Tokens)
                         /\ Len(written[k].out) \in Nat
    <2>1. \A k \in 1..n : written[k] \in Result
      OBVIOUS
    <2>2. \A k \in 1..n : written[k].out \in Seq(Tokens)
      BY <2>1 DEF Result
    <2> QED BY <2>2
  <1>3. <<"comma">> \in Seq(Tokens) /\ Len(<<"comma">>) = 1
    BY KnownTokens
  <1>4. text = <<open>> \o flat \o <<close>>
    <2>1. {k \in DOMAIN written : ~written[k].ok} = {}
      OBVIOUS
    <2>2. WriteEach(open, written, close)
            = Ok(<<open>> \o flat \o <<close>>)
      BY <2>1 DEF WriteEach
    <2> QED BY <2>2 DEF Ok
  <1>5. \A k \in 1..n : /\ items[k] \in Seq(Tokens)
                         /\ items[k] = IF k = 1 THEN written[k].out
                                       ELSE <<"comma">> \o written[k].out
    <2> SUFFICES ASSUME NEW k \in 1..n
                 PROVE  (IF k = 1 THEN written[k].out
                         ELSE <<"comma">> \o written[k].out) \in Seq(Tokens)
      OBVIOUS
    <2>1. written[k].out \in Seq(Tokens)
      BY <1>2
    <2> QED BY <1>3, <2>1
  <1>6. items \in Seq(Seq(Tokens)) /\ Len(items) = n
    <2>1. items \in [1..n -> Seq(Tokens)]
      BY <1>5
    <2> HIDE DEF items
    <2> QED BY <1>1, <2>1, SeqOfFunction
  <1> HIDE DEF n, items, text
  <1>7. PICK at \in [1..(n + 1) -> Nat \ {0}] :
            /\ at[1] = 1
            /\ at[n + 1] = Len(flat) + 1
            /\ \A k \in 1..n : /\ at[k + 1] = at[k] + Len(items[k])
                               /\ Holds(flat, at[k], items[k])
    BY <1>6, FlattenPieces
  <1>8. flat \in Seq(Tokens) /\ Len(flat) \in Nat
    BY <1>6, FlattenPieces
  <1> HIDE DEF flat
  <1>9. /\ i \in 1..Len(out) /\ out[i] = open
        /\ Holds(out, i + 1, flat)
        /\ i + Len(flat) + 1 \in 1..Len(out)
        /\ out[i + Len(flat) + 1] = close
        /\ Len(text) = Len(flat) + 2
    <2> DEFINE head == <<open>>
               front == head \o flat
               last == <<close>>
    <2>1. /\ head \in Seq(Tokens) /\ Len(head) = 1 /\ head[1] = open
          /\ last \in Seq(Tokens) /\ Len(last) = 1 /\ last[1] = close
      OBVIOUS
    <2>2. text = front \o last /\ Holds(out, i, text)
      BY <1>4 DEF text
    <2> HIDE DEF head, last
    <2>3. /\ front \in Seq(Tokens) /\ Len(front) = Len(head) + Len(flat)
          /\ Len(front \o last) = Len(front) + Len(last)
      <3>1. front \in Seq(Tokens) /\ Len(front) = Len(head) + Len(flat)
        BY <1>8, <2>1, ConcatLen
      <3> HIDE DEF front
      <3>2. Len(front \o last) = Len(front) + Len(last)
        BY <2>1, <3>1, ConcatLen
      <3> QED BY <3>1, <3>2
    <2>4. Holds(out, i, front \o last)
      BY <2>2, Zenon
    <2>5. front = head \o flat
      OBVIOUS
    <2> HIDE DEF front
    <2>6. Holds(out, i, front) /\ Holds(out, i + Len(front), last)
      BY <2>1, <2>3, <2>4, HoldsConcat
    <2>7. Holds(out, i, head) /\ Holds(out, i + 1, flat)
      BY <1>8, <2>1, <2>5, <2>6, HoldsConcat
    <2>8. Len(front) = Len(flat) + 1 /\ i + Len(front) = i + Len(flat) + 1
          /\ Len(front) \in Nat
      BY <1>8, <2>1, <2>3
    <2>9. i \in 1..Len(out) /\ out[i] = open
      BY <2>1, <2>7, HoldsToken
    <2>10. i + Len(front) \in 1..Len(out) /\ out[i + Len(front)] = close
      <3>1. i + Len(front) \in Nat
        BY <2>8
      <3> QED BY <2>1, <2>6, <3>1, HoldsToken
    <2>11. Len(text) = Len(flat) + 2
      <3>1. Len(text) = Len(front) + Len(last)
        BY <2>2, <2>3, Zenon
      <3> QED BY <1>8, <2>1, <2>8, <3>1
    <2> QED BY <2>7, <2>8, <2>9, <2>10, <2>11
  \* The first member stands behind the bracket, the others behind a comma.
  <1> DEFINE from == [k \in 1..(n + 1) |-> IF k = 1 THEN i + 1
                                           ELSE i + at[k] + 1]
  <1>10. from \in [1..(n + 1) -> Nat \ {0}] /\ from[1] = i + 1
    <2>1. \A k \in 1..(n + 1) : at[k] \in Nat
      BY <1>7
    <2>2. \A k \in 1..(n + 1) : i + at[k] + 1 \in Nat \ {0}
      BY <2>1
    <2>3. i + 1 \in Nat \ {0} /\ 1 \in 1..(n + 1)
      BY <1>1
    <2> QED BY <2>2, <2>3
  <1>11. from[n + 1] = i + Len(text)
    BY <1>1, <1>7, <1>8, <1>9
  <1>12. ASSUME NEW k \in 1..n
         PROVE  /\ Holds(out, from[k], written[k].out)
                /\ from[k] + Len(written[k].out) = i + at[k + 1]
                /\ from[k + 1] = from[k] + Len(written[k].out) + 1
    <2>1. at[k] \in Nat /\ at[k + 1] \in Nat /\ k \in 1..(n + 1)
          /\ k + 1 \in 1..(n + 1) /\ k + 1 # 1
      BY <1>1, <1>7
    <2>2. Holds(flat, at[k], items[k]) /\ at[k + 1] = at[k] + Len(items[k])
      BY <1>7
    <2>3. Holds(out, i + at[k], items[k])
      <3>1. i + 1 \in Nat /\ items[k] \in Seq(Tokens)
        BY <1>5
      <3>2. Holds(out, i + 1 + at[k] - 1, items[k])
        BY <1>8, <1>9, <2>1, <2>2, <3>1, HoldsInside
      <3>3. \A a, b \in Nat : a + 1 + b - 1 = a + b
        OBVIOUS
      <3> QED BY <2>1, <3>2, <3>3
    <2>4. from[k + 1] = i + at[k + 1] + 1
      BY <2>1
    <2>5. /\ Holds(out, from[k], written[k].out)
          /\ from[k] + Len(written[k].out) = i + at[k + 1]
      <3>1. CASE k = 1
        <4>1. items[k] = written[k].out /\ from[k] = i + at[k]
          BY <1>5, <1>7, <2>1, <3>1
        <4>2. \A a, b, c \in Nat : (a + b) + c = a + (b + c)
          OBVIOUS
        <4> HIDE DEF from
        <4> QED BY <1>2, <2>1, <2>2, <2>3, <4>1, <4>2
      <3>2. CASE k # 1
        <4>1. items[k] = <<"comma">> \o written[k].out
              /\ from[k] = i + at[k] + 1
          BY <1>5, <2>1, <3>2
        <4>2. Holds(out, i + at[k] + 1, written[k].out)
          <5> DEFINE here == i + at[k]
                     member == written[k].out
          <5>1. /\ here \in Nat /\ member \in Seq(Tokens)
                /\ Holds(out, here, <<"comma">> \o member)
            BY <1>2, <2>1, <2>3, <4>1
          <5> HIDE DEF here, member
          <5>2. Holds(out, here + 1, member)
            BY <1>3, <5>1, HoldsConcat
          <5> QED BY <5>2 DEF here, member
        <4>3. Len(items[k]) = 1 + Len(written[k].out)
          BY <1>2, <1>3, <4>1
        <4>4. \A a, b, c \in Nat : (a + b + 1) + c = a + (b + (1 + c))
          OBVIOUS
        <4> HIDE DEF from
        <4> QED BY <1>2, <2>1, <2>2, <4>1, <4>2, <4>3, <4>4
      <3> QED BY <3>1, <3>2
    <2> HIDE DEF from
    <2> QED BY <2>4, <2>5
  <1>13. ASSUME NEW k \in 1..n
         PROVE  /\ i + at[k + 1] \in 1..Len(out)
                /\ out[i + at[k + 1]] = IF k = n THEN close ELSE "comma"
    <2>1. CASE k = n
      <3>1. i + at[k + 1] = i + Len(flat) + 1
        BY <1>7, <1>8, <2>1
      <3> QED BY <1>9, <2>1, <3>1
    <2>2. CASE k # n
      <3>1. k + 1 \in 1..n /\ k + 1 # 1
        BY <1>1, <2>2
      <3>2. /\ Holds(flat, at[k + 1], items[k + 1])
            /\ at[k + 1] \in Nat
        <4> DEFINE m == k + 1
        <4>1. m \in 1..n /\ m \in 1..(n + 1)
          BY <1>1, <3>1
        <4> HIDE DEF m
        <4>2. Holds(flat, at[m], items[m])
          BY <1>7, <4>1, Zenon
        <4>3. at[m] \in Nat \ {0}
          BY <1>7, <4>1, Zenon
        <4> QED BY <4>2, <4>3 DEF m
      <3>3. Holds(flat, at[k + 1], <<"comma">>)
        <4> DEFINE member == written[k + 1].out
                   here == at[k + 1]
        <4>1. /\ here \in Nat /\ member \in Seq(Tokens)
              /\ Holds(flat, here, <<"comma">> \o member)
          BY <1>2, <1>5, <3>1, <3>2
        <4> HIDE DEF member, here
        <4>2. Holds(flat, here, <<"comma">>)
          BY <1>3, <1>8, <4>1, HoldsConcat
        <4> QED BY <4>2 DEF here
      <3>4. Holds(out, i + 1 + at[k + 1] - 1, <<"comma">>)
        <4>1. i + 1 \in Nat
          OBVIOUS
        <4> QED BY <1>3, <1>8, <1>9, <3>2, <3>3, <4>1, HoldsInside
      <3>5. \A a, b \in Nat : a + 1 + b - 1 = a + b
        OBVIOUS
      <3>6. Holds(out, i + at[k + 1], <<"comma">>)
        BY <3>2, <3>4, <3>5
      <3>7. Len(<<"comma">>) = 1 /\ <<"comma">>[1] = "comma"
        OBVIOUS
      <3>8. i + at[k + 1] \in Nat
        BY <3>2
      <3> QED BY <1>1, <2>2, <3>6, <3>7, <3>8 DEF Holds
    <2> QED BY <2>1, <2>2
  <1> HIDE DEF from
  <1>14. /\ from \in [1..(Len(written) + 1) -> Nat \ {0}]
         /\ from[1] = i + 1
         /\ from[Len(written) + 1] = i + Len(text)
    BY <1>10, <1>11 DEF n
  <1>15. \A k \in 1..Len(written) :
            /\ Holds(out, from[k], written[k].out)
            /\ from[k + 1] = from[k] + Len(written[k].out) + 1
            /\ from[k] + Len(written[k].out) \in 1..Len(out)
            /\ out[from[k] + Len(written[k].out)]
                  = IF k = Len(written) THEN close ELSE "comma"
    BY <1>12, <1>13 DEF n
  <1>16. LaidOut(out, i, open, written, close, from)
    BY <1>9, <1>14, <1>15 DEF text, LaidOut
  <1> QED BY <1>14, <1>16

\* one[j] is what the reader makes of a member at j.
MembersAre(out, mode, close, one) ==
    \A j \in 1..(Len(out) + 1) :
        Read(out)[j][mode]
            = ReadMembers(out, j, one[j], mode, close, Read(out))

\* The members are read back wherever they stand.
EachReads(out, written, json, one) ==
    \A k \in 1..Len(written) : \A j \in Nat :
        Holds(out, j, written[k].out)
            => one[j] = ReadAs(json[k], j + Len(written[k].out))

\* They do not begin with the closing bracket.
NoneCloses(out, written, close) ==
    \A k \in 1..Len(written) : \A j \in Nat :
        Holds(out, j, written[k].out) => j \in 1..Len(out) /\ out[j] # close

\* The members of a container are read back when each one is.
LEMMA MembersRead ==
    ASSUME NEW out \in Seq(Tokens), NEW i \in Nat,
           NEW open \in Tokens, NEW close \in Tokens, close # "comma",
           NEW written \in Seq(Result), written # <<>>,
           \A k \in 1..Len(written) : written[k].ok,
           Holds(out, i, WriteEach(open, written, close).out),
           NEW T, NEW json \in Seq(T), Len(json) = Len(written),
           NEW mode, NEW one,
           MembersAre(out, mode, close, one),
           EachReads(out, written, json, one)
    PROVE  Read(out)[i + 1][mode]
               = ReadAs(json, i + Len(WriteEach(open, written, close).out))
  <1> DEFINE n == Len(written)
             end == i + Len(WriteEach(open, written, close).out)
  <1>0. PICK from \in [1..(Len(written) + 1) -> Nat \ {0}] :
            LaidOut(out, i, open, written, close, from)
    BY EachPlaces
  <1>1. /\ from \in [1..(n + 1) -> Nat \ {0}]
        /\ from[1] = i + 1
        /\ from[n + 1] = end
        /\ \A k \in 1..n :
               /\ Holds(out, from[k], written[k].out)
               /\ from[k + 1] = from[k] + Len(written[k].out) + 1
               /\ from[k] + Len(written[k].out) \in 1..Len(out)
               /\ out[from[k] + Len(written[k].out)]
                     = IF k = n THEN close ELSE "comma"
    BY <1>0 DEF LaidOut
  <1>2. n \in Nat \ {0} /\ Len(out) \in Nat
    OBVIOUS
  <1>3. end \in Nat \ {0}
    BY <1>1, <1>2, SMTT(30)
  <1>4. \A k \in 1..n : Len(written[k].out) \in Nat
    <2>1. \A k \in 1..n : written[k] \in Result
      OBVIOUS
    <2>2. \A k \in 1..n : written[k].out \in Seq(Tokens)
      BY <2>1 DEF Result
    <2> QED BY <2>2
  <1> HIDE DEF n, end
  <1> DEFINE stop(k) == from[k] + Len(written[k].out)
  \* What is read from the k-th member on.
  <1>5. ASSUME NEW k \in 1..n
        PROVE  /\ from[k] \in 1..(Len(out) + 1)
               /\ stop(k) \in from[k]..Len(out)
               /\ from[k + 1] = stop(k) + 1
               /\ out[stop(k)] = IF k = n THEN close ELSE "comma"
               /\ Read(out)[from[k]][mode]
                     = ReadMembers(out, from[k], ReadAs(json[k], stop(k)),
                                   mode, close, Read(out))
    <2>1. /\ from[k] \in Nat \ {0} /\ Len(written[k].out) \in Nat
          /\ stop(k) \in 1..Len(out)
      BY <1>1, <1>2, <1>4, SMTT(30)
    <2>2. from[k] \in 1..(Len(out) + 1) /\ stop(k) \in from[k]..Len(out)
      BY <1>2, <2>1
    <2>3. one[from[k]] = ReadAs(json[k], stop(k))
      BY <1>1, <2>1 DEF n, EachReads
    <2>4. Read(out)[from[k]][mode]
            = ReadMembers(out, from[k], ReadAs(json[k], stop(k)), mode, close,
                          Read(out))
      BY <2>2, <2>3 DEF MembersAre
    <2> HIDE DEF stop
    <2>5. /\ from[k + 1] = stop(k) + 1
          /\ out[stop(k)] = IF k = n THEN close ELSE "comma"
      BY <1>1 DEF stop
    <2> QED BY <2>2, <2>4, <2>5
  <1> HIDE DEF stop
  <1> DEFINE Good == {k \in 1..n : Read(out)[from[k]][mode]
                                     = ReadAs(SubSeq(json, k, n), end)}
  <1>6. n \in Good
    <2>1. n \in 1..n
      BY <1>2
    <2>2. /\ stop(n) \in from[n]..Len(out) /\ from[n + 1] = stop(n) + 1
          /\ out[stop(n)] = close
          /\ Read(out)[from[n]][mode]
                = ReadMembers(out, from[n], ReadAs(json[n], stop(n)),
                              mode, close, Read(out))
      BY <1>5, <2>1
    <2>3. ReadMembers(out, from[n], ReadAs(json[n], stop(n)), mode, close,
                      Read(out))
            = ReadAs(<<json[n]>>, stop(n) + 1)
      BY <2>2 DEF ReadMembers, ReadAs
    <2>4. SubSeq(json, n, n) = <<json[n]>>
      <3>1. json # <<>> /\ Len(json) = n
        BY <1>2 DEF n
      <3> QED BY <3>1, Tails
    <2> QED BY <1>1, <2>1, <2>2, <2>3, <2>4
  <1>7. ASSUME NEW k \in 1..(n - 1), k + 1 \in Good PROVE k \in Good
    <2>1. k \in 1..n /\ k # n /\ k + 1 \in 1..n
      BY <1>2
    <2>2. /\ stop(k) \in from[k]..Len(out) /\ from[k + 1] = stop(k) + 1
          /\ out[stop(k)] = "comma"
          /\ Read(out)[from[k]][mode]
                = ReadMembers(out, from[k], ReadAs(json[k], stop(k)),
                              mode, close, Read(out))
      BY <1>5, <2>1
    <2>3. ReadMembers(out, from[k], ReadAs(json[k], stop(k)), mode, close,
                      Read(out))
            = Preceded(json[k], Read(out)[stop(k) + 1][mode])
      BY <2>2 DEF ReadMembers, ReadAs
    <2>4. Read(out)[stop(k) + 1][mode] = ReadAs(SubSeq(json, k + 1, n), end)
      BY <1>7, <2>2
    <2>5. Preceded(json[k], ReadAs(SubSeq(json, k + 1, n), end))
            = ReadAs(<<json[k]>> \o SubSeq(json, k + 1, n), end)
      <3> DEFINE x == json[k]
                 rest == SubSeq(json, k + 1, n)
      <3> HIDE DEF x, rest
      <3>1. Preceded(x, ReadAs(rest, end)) = ReadAs(<<x>> \o rest, end)
        BY <1>3 DEF Preceded, ReadAs
      <3> QED BY <3>1 DEF x, rest
    <2>6. SubSeq(json, k, n) = <<json[k]>> \o SubSeq(json, k + 1, n)
      BY <2>1, Tails DEF n
    <2> QED BY <2>1, <2>2, <2>3, <2>4, <2>5, <2>6
  <1>8. 1 \in Good
    <2> HIDE DEF Good
    <2>1. n - 1 \in Nat /\ (n - 1) + 1 = n /\ 1 \in 1..n
      BY <1>2
    <2>2. \A k \in 1..((n - 1) + 1) : k \in Good
      BY <1>6, <1>7, <2>1, Downward, ZenonT(30)
    <2> QED BY <2>1, <2>2
  <1>9. SubSeq(json, 1, n) = json
    BY Tails DEF n
  <1> QED BY <1>1, <1>8, <1>9 DEF end

\* The text of an entry.
Keyed(key, member) == key \o <<"colon">> \o member

\* Where the parts of an entry stand.
LEMMA EntryPlaces ==
    ASSUME NEW out \in Seq(Tokens), NEW i \in Nat,
           NEW key \in Seq(Tokens), NEW member \in Seq(Tokens),
           Holds(out, i, Keyed(key, member))
    PROVE  /\ Holds(out, i, key)
           /\ i + Len(key) \in 1..Len(out) /\ out[i + Len(key)] = "colon"
           /\ Holds(out, i + Len(key) + 1, member)
           /\ i + Len(Keyed(key, member)) = i + Len(key) + 1 + Len(member)
  <1> DEFINE colon == <<"colon">>
             front == key \o colon
  <1>1. colon \in Seq(Tokens) /\ Len(colon) = 1 /\ colon[1] = "colon"
    BY KnownTokens
  <1>2. Holds(out, i, front \o member) /\ Keyed(key, member) = front \o member
    BY DEF Keyed
  <1> HIDE DEF colon
  <1>3. /\ front \in Seq(Tokens) /\ Len(front) = Len(key) + Len(colon)
        /\ Len(key) \in Nat
    BY <1>1, ConcatLen
  <1>4. front = key \o colon
    OBVIOUS
  <1> HIDE DEF front
  <1>5. Len(front \o member) = Len(front) + Len(member)
        /\ Len(member) \in Nat
    BY <1>3, ConcatLen
  <1>6. Holds(out, i, front) /\ Holds(out, i + Len(front), member)
    BY <1>2, <1>3, HoldsConcat
  <1>7. Holds(out, i, key) /\ Holds(out, i + Len(key), colon)
    BY <1>1, <1>4, <1>6, HoldsConcat
  <1>8. i + Len(front) = i + Len(key) + 1
    BY <1>1, <1>3
  <1>9. i + Len(key) \in 1..Len(out) /\ out[i + Len(key)] = "colon"
    <2>1. i + Len(key) \in Nat
      BY <1>3
    <2> QED BY <1>1, <1>7, <2>1, HoldsToken
  <1>10. i + Len(front \o member) = i + Len(key) + 1 + Len(member)
    BY <1>1, <1>3, <1>5
  <1> QED BY <1>2, <1>6, <1>7, <1>8, <1>9, <1>10

\* An empty container is its brackets.
LEMMA EachEmpty ==
    ASSUME NEW open, NEW close
    PROVE  WriteEach(open, <<>>, close) = Ok(<<open>> \o <<close>>)
  <1> DEFINE written == <<>>
             items == [k \in 1..Len(written) |->
                          IF k = 1 THEN written[k].out
                          ELSE <<"comma">> \o written[k].out]
  <1>1. {k \in DOMAIN written : ~written[k].ok} = {}
    OBVIOUS
  <1>2. items = <<>>
    OBVIOUS
  <1>3. FlattenSeq(items) = <<>>
    <2> HIDE DEF items
    <2> QED BY <1>2 DEF FlattenSeq
  <1>4. WriteEach(open, written, close)
          = Ok(<<open>> \o FlattenSeq(items) \o <<close>>)
    BY <1>1 DEF WriteEach
  <1>5. <<open>> \o <<>> = <<open>>
    OBVIOUS
  <1> QED BY <1>3, <1>4, <1>5

\* A container is read back when its members are.
LEMMA ContainerReads ==
    ASSUME NEW out \in Seq(Tokens), NEW i \in Nat, NEW type,
           NEW mode, NEW open \in Tokens, NEW close \in Tokens,
           close # "comma", NEW written \in Seq(Result),
           \A k \in 1..Len(written) : written[k].ok,
           Holds(out, i, WriteEach(open, written, close).out),
           NEW T, NEW json \in Seq(T), Len(json) = Len(written),
           NEW one,
           MembersAre(out, mode, close, one),
           EachReads(out, written, json, one),
           NoneCloses(out, written, close)
    PROVE  /\ i \in 1..Len(out) /\ out[i] = open
           /\ ReadContainer(out, i, type, mode, close, Read(out))
                 = ReadAs(Container(type, json),
                          i + Len(WriteEach(open, written, close).out))
  <1>1. CASE written = <<>>
    <2> DEFINE text == <<open>> \o <<close>>
    <2>1. WriteEach(open, written, close).out = text
      BY <1>1, EachEmpty DEF Ok
    <2>2. Len(text) = 2 /\ text[1] = open /\ text[2] = close
      OBVIOUS
    <2>3. Holds(out, i, text) /\ Len(out) \in Nat
      BY <2>1
    <2> HIDE DEF text
    <2>4. /\ i \in 1..Len(out) /\ out[i] = open
          /\ i < Len(out) /\ out[i + 1] = close
      <3>1. /\ i \in Nat \ {0} /\ i + 2 <= Len(out) + 1
            /\ out[i + 1 - 1] = open /\ out[i + 2 - 1] = close
        BY <2>2, <2>3 DEF Holds
      <3> QED BY <2>3, <3>1
    <2>5. json = <<>>
      BY <1>1
    <2> QED BY <2>1, <2>2, <2>4, <2>5 DEF ReadContainer
  <1>2. CASE written # <<>>
    <2> DEFINE end == i + Len(WriteEach(open, written, close).out)
    <2>1. Read(out)[i + 1][mode] = ReadAs(json, end)
      BY <1>2, MembersRead
    <2>2. PICK from \in [1..(Len(written) + 1) -> Nat \ {0}] :
              LaidOut(out, i, open, written, close, from)
      BY <1>2, EachPlaces
    <2>3. /\ i \in 1..Len(out) /\ out[i] = open
          /\ Holds(out, i + 1, written[1].out)
      BY <1>2, <2>2 DEF LaidOut
    <2>4. i + 1 \in 1..Len(out) /\ out[i + 1] # close
      BY <1>2, <2>3 DEF NoneCloses
    <2> HIDE DEF end
    <2>5. ReadContainer(out, i, type, mode, close, Read(out))
            = ReadAs(Container(type, json), end)
      BY <2>1, <2>4 DEF ReadContainer, ReadAs
    <2> QED BY <2>3, <2>5 DEF end
  <1> QED BY <1>1, <1>2

\* Where the JSON text of a value stands, the value is read back; it does not
\* begin like the end of a container.
ReadsBack(out, value) ==
    \A i \in Nat :
        Holds(out, i, write_json[value].out)
            => /\ i \in 1..Len(out) /\ out[i] \notin {"rbracket", "rbrace"}
               /\ Read(out)[i]["value"]
                     = ReadAs(Json[value], i + Len(write_json[value].out))

\* A value written as one token is read back if the token means it.
LEMMA TokenReads ==
    ASSUME NEW out \in Seq(Tokens), NEW value \in Values, NEW token \in Tokens,
           write_json[value].out = <<token>>,
           token \notin {"rbracket", "rbrace"},
           \A i \in 1..Len(out) :
               out[i] = token
                   => ReadValue(out, i, Read(out)) = ReadAs(Json[value], i + 1)
    PROVE  ReadsBack(out, value)
  <1> DEFINE u == <<token>>
  <1>1. u \in Seq(Tokens) /\ Len(u) = 1 /\ u[1] = token
    OBVIOUS
  <1>2. write_json[value].out = u
    OBVIOUS
  <1> HIDE DEF u
  <1> SUFFICES ASSUME NEW i \in Nat, Holds(out, i, u)
               PROVE  /\ i \in 1..Len(out)
                      /\ out[i] \notin {"rbracket", "rbrace"}
                      /\ Read(out)[i]["value"] = ReadAs(Json[value], i + 1)
    BY <1>1, <1>2 DEF ReadsBack
  <1>3. i \in 1..Len(out) /\ out[i] = token
    BY <1>1, HoldsToken
  <1>4. Read(out)[i]["value"] = ReadValue(out, i, Read(out))
    <2>1. i \in 1..(Len(out) + 1)
      BY <1>3
    <2> QED BY <2>1, ReadModes
  <1> QED BY <1>3, <1>4

\* A constant or a number with a JSON text is read back.
LEMMA ScalarReads ==
    ASSUME NEW out \in Seq(Tokens), NEW v \in Values, Serializable[v],
           IsConstant(v) \/ IsNumber(v)
    PROVE  ReadsBack(out, v)
  <1>1. write_json[v] = WriteValue(v, write_json)
    BY WriteJsonDef
  <1>2. Serializable[v] = HasJson(v, Serializable)
    BY SerializableDef
  <1>3. Json[v] = JsonValue(v, Json)
    BY JsonDef
  <1>4. CASE v = Scalar("None", <<>>)
    <2>1. v.type = "None"
      BY <1>4 DEF Scalar
    <2>2. write_json[v].out = <<"null">> /\ Json[v] = Scalar("None", <<>>)
      BY <1>1, <1>3, <1>4, <2>1 DEF WriteValue, JsonValue, Ok
    <2>3. \A i \in 1..Len(out) :
              out[i] = "null"
                  => ReadValue(out, i, Read(out)) = ReadAs(Json[v], i + 1)
      BY <2>2 DEF ReadValue, Marks
    <2> QED BY <2>2, <2>3, TokenReads, KnownTokens
  <1>5. ASSUME NEW word \in {"true", "false"}, v = Scalar("bool", <<word>>)
        PROVE  ReadsBack(out, v)
    <2>1. v.type = "bool" /\ v.text[1] = word
      BY <1>5 DEF Scalar
    <2>2. write_json[v].out = <<word>>
      BY <1>1, <2>1 DEF WriteValue, CastsTo, Ok
    <2>3. Json[v] = Scalar("bool", <<word>>)
      BY <1>3, <1>5, <2>1 DEF JsonValue
    <2>4. \A i \in 1..Len(out) :
              out[i] = word
                  => ReadValue(out, i, Read(out)) = ReadAs(Json[v], i + 1)
      BY <1>5, <2>3 DEF ReadValue, Marks
    <2>5. word \in Tokens /\ word \notin {"rbracket", "rbrace"}
      BY <1>5, KnownTokens
    <2> QED BY <2>2, <2>4, <2>5, TokenReads
  <1>6. v # Scalar("other", <<>>)
    <2> SUFFICES ASSUME v = Scalar("other", <<>>) PROVE FALSE
      OBVIOUS
    <2>1. v.type = "other"
      BY DEF Scalar
    <2> QED BY <1>2, <2>1 DEF HasJson
  <1>7. CASE IsNumber(v)
    <2>1. /\ v.type \in {"int", "float"} /\ v.text[1] \in Tokens
          /\ v.text[1] \notin Marks
      BY <1>7, KnownTokens DEF IsNumber
    <2>2. Json[v] = Scalar("number", <<Number(v.text[1])>>)
      BY <1>3, <2>1 DEF JsonValue
    <2>3. PICK word \in Tokens : /\ write_json[v].out = <<word>>
                                 /\ word \notin Marks
                                 /\ Number(word) = Number(v.text[1])
      <3>1. CASE v.type = "int"
        <4>1. v.text[1] \notin OutOfRange
          BY <1>2, <3>1 DEF HasJson
        <4>2. write_json[v] = Ok(<<v.text[1]>>)
          BY <1>1, <3>1, <4>1 DEF WriteValue, CastsTo, WriteInt, IntWord
        <4> QED BY <2>1, <4>2 DEF Ok
      <3>2. CASE v.type = "float"
        <4>1. v.text[1] \notin NonFinite
          BY <1>2, <3>2 DEF HasJson
        <4>2. write_json[v] = Ok(<<FloatWord(v)>>)
          BY <1>1, <3>2, <4>1 DEF WriteValue, CastsTo, WriteFloat
        <4>3. /\ FloatWord(v) \in Tokens /\ FloatWord(v) \notin Marks
              /\ Number(FloatWord(v)) = Number(v.text[1])
          BY <2>1, KnownTokens DEF FloatWord, Number, Marks
        <4> QED BY <4>2, <4>3 DEF Ok
      <3> QED BY <2>1, <3>1, <3>2
    <2>4. \A i \in 1..Len(out) :
              out[i] = word
                  => ReadValue(out, i, Read(out)) = ReadAs(Json[v], i + 1)
      BY <2>2, <2>3 DEF ReadValue, Marks
    <2>5. word \notin {"rbracket", "rbrace"}
      BY <2>3 DEF Marks
    <2> QED BY <2>3, <2>4, <2>5, TokenReads
  <1> QED BY <1>4, <1>5, <1>6, <1>7 DEF IsConstant

\* A string with a JSON text is read back.
LEMMA TextReads ==
    ASSUME NEW out \in Seq(Tokens), NEW v \in Values, Serializable[v],
           IsString(v)
    PROVE  ReadsBack(out, v)
  <1>1. /\ v.text \in Seq(Tokens) /\ v.type = "str"
        /\ v = Scalar("str", v.text)
    BY KnownTokens DEF IsString, Scalar
  <1>2. Encodable(v.text)
    BY <1>1, SerializableDef DEF HasJson
  <1> DEFINE text == v.text
             written == write_json_string(text)
  <1>3. write_json[v].out = written
    <2>1. write_json[v] = WriteValue(v, write_json)
      BY WriteJsonDef
    <2> QED BY <1>1, <1>2, <2>1 DEF WriteValue, CastsTo, Ok
  <1>4. Json[v] = Scalar("str", text)
    <2>1. Json[v] = JsonValue(v, Json)
      BY JsonDef
    <2> QED BY <1>1, <2>1 DEF JsonValue
  <1>5. text \in Seq(Tokens)
    BY <1>1
  <1> HIDE DEF text
  <1> SUFFICES ASSUME NEW i \in Nat, Holds(out, i, written)
               PROVE  /\ i \in 1..Len(out)
                      /\ out[i] \notin {"rbracket", "rbrace"}
                      /\ Read(out)[i]["value"]
                            = ReadAs(Json[v], i + Len(written))
    BY <1>3 DEF ReadsBack
  <1>6. /\ i \in 1..Len(out) /\ out[i] = "quote"
        /\ ReadString(out)[i + 1] = ReadAs(text, i + Len(written))
    BY <1>5, StringReads
  <1>7. Read(out)[i]["value"] = ReadValue(out, i, Read(out))
    <2>1. i \in 1..(Len(out) + 1)
      BY <1>6
    <2> QED BY <2>1, ReadModes
  <1> HIDE DEF written
  <1>8. ReadValue(out, i, Read(out))
          = ReadAs(Scalar("str", ReadString(out)[i + 1].value),
                   ReadString(out)[i + 1].next)
    BY <1>6 DEF ReadValue, Marks
  <1>9. /\ ReadString(out)[i + 1].value = text
        /\ ReadString(out)[i + 1].next = i + Len(written)
    BY <1>6 DEF ReadAs
  <1> QED BY <1>4, <1>6, <1>7, <1>8, <1>9

\* A list or tuple is read back if what is in it is.
LEMMA SequenceReads ==
    ASSUME NEW out \in Seq(Tokens), NEW v \in Values, Serializable[v],
           IsSequence(v),
           \A k \in DOMAIN v.items :
               Serializable[v.items[k]] => ReadsBack(out, v.items[k])
    PROVE  ReadsBack(out, v)
  <1> DEFINE written == [k \in DOMAIN v.items |-> write_json[v.items[k]]]
             json == [k \in DOMAIN v.items |-> Json[v.items[k]]]
             n == Len(v.items)
             T == {Json[u] : u \in Values}
  <1>1. v.type \in {"list", "tuple"} /\ v.items \in Seq(Values) /\ n \in Nat
    BY DEF IsSequence
  <1>2. \A k \in 1..n : Serializable[v.items[k]]
    <2>1. HasJson(v, Serializable)
      BY SerializableDef
    <2>2. \A k \in DOMAIN v.items : Serializable[v.items[k]]
      BY <1>1, <2>1 DEF HasJson
    <2> QED BY <1>1, <2>2
  <1>3. written \in Seq(Result) /\ Len(written) = n
    <2>1. written \in [1..n -> Result]
      BY <1>1, WriteSucceeds
    <2> HIDE DEF written, n
    <2> QED BY <1>1, <2>1, SeqOfFunction
  <1>4. \A k \in 1..n : written[k] = write_json[v.items[k]] /\ written[k].ok
    BY <1>1, <1>2, WriteSucceeds
  <1>5. json \in Seq(T) /\ Len(json) = n
    BY <1>1
  <1>6. \A k \in 1..n : json[k] = Json[v.items[k]]
    BY <1>1
  <1>7. write_json[v].out = WriteEach("lbracket", written, "rbracket").out
    <2>1. write_json[v] = WriteValue(v, write_json)
      BY WriteJsonDef
    <2> QED BY <1>1, <2>1 DEF WriteValue, CastsTo
  <1>8. Json[v] = Container("array", json)
    <2>1. Json[v] = JsonValue(v, Json)
      BY JsonDef
    <2> QED BY <1>1, <2>1 DEF JsonValue
  <1>9. \A k \in 1..n : ReadsBack(out, v.items[k])
    BY <1>1, <1>2
  <1> HIDE DEF written, json, n, T
  <1> DEFINE one == [j \in 1..(Len(out) + 1) |-> Read(out)[j]["value"]]
  <1>10. MembersAre(out, "elements", "rbracket", one)
    <2> SUFFICES ASSUME NEW j \in 1..(Len(out) + 1)
                 PROVE  Read(out)[j]["elements"]
                          = ReadMembers(out, j, Read(out)[j]["value"],
                                        "elements", "rbracket", Read(out))
      BY DEF MembersAre
    <2> QED BY ReadModes
  <1>11. ASSUME NEW k \in 1..n, NEW j \in Nat,
                Holds(out, j, written[k].out)
         PROVE  /\ one[j] = ReadAs(json[k], j + Len(written[k].out))
                /\ j \in 1..Len(out) /\ out[j] # "rbracket"
    <2>1. /\ j \in 1..Len(out) /\ out[j] # "rbracket"
          /\ Read(out)[j]["value"]
                = ReadAs(json[k], j + Len(written[k].out))
      BY <1>4, <1>6, <1>9, <1>11, ZenonT(30) DEF ReadsBack
    <2>2. one[j] = Read(out)[j]["value"]
      BY <2>1
    <2> QED BY <2>1, <2>2
  <1> HIDE DEF one
  <1>12. EachReads(out, written, json, one)
    BY <1>3, <1>11 DEF EachReads
  <1>13. "lbracket" \in Tokens /\ "rbracket" \in Tokens
         /\ "rbracket" # "comma"
    BY KnownTokens
  <1> SUFFICES ASSUME NEW i \in Nat, Holds(out, i, write_json[v].out)
               PROVE  /\ i \in 1..Len(out)
                      /\ out[i] \notin {"rbracket", "rbrace"}
                      /\ Read(out)[i]["value"]
                            = ReadAs(Json[v], i + Len(write_json[v].out))
    BY DEF ReadsBack
  <1>14. /\ i \in 1..Len(out) /\ out[i] = "lbracket"
         /\ ReadContainer(out, i, "array", "elements", "rbracket", Read(out))
               = ReadAs(Container("array", json), i + Len(write_json[v].out))
    <2>1. Holds(out, i, WriteEach("lbracket", written, "rbracket").out)
      BY <1>7
    <2>2. \A k \in 1..Len(written) : written[k].ok
      BY <1>3, <1>4
    <2>3. NoneCloses(out, written, "rbracket")
      BY <1>3, <1>11 DEF NoneCloses
    <2>4. Len(json) = Len(written)
      BY <1>3, <1>5
    <2>5. /\ i \in 1..Len(out) /\ out[i] = "lbracket"
          /\ ReadContainer(out, i, "array", "elements", "rbracket", Read(out))
                = ReadAs(Container("array", json),
                         i + Len(WriteEach("lbracket", written,
                                           "rbracket").out))
      <3> DEFINE open == "lbracket"
                 close == "rbracket"
                 mode == "elements"
                 type == "array"
      <3> HIDE DEF open, close, mode, type
      <3>1. /\ open \in Tokens /\ close \in Tokens /\ close # "comma"
            /\ Holds(out, i, WriteEach(open, written, close).out)
            /\ MembersAre(out, mode, close, one)
            /\ NoneCloses(out, written, close)
        BY <1>10, <1>13, <2>1, <2>3 DEF open, close, mode
      <3>2. /\ i \in 1..Len(out) /\ out[i] = open
            /\ ReadContainer(out, i, type, mode, close, Read(out))
                  = ReadAs(Container(type, json),
                           i + Len(WriteEach(open, written, close).out))
        BY <1>3, <1>5, <1>12, <2>2, <2>4, <3>1, ContainerReads
      <3> QED BY <3>2 DEF open, close, mode, type
    <2> QED BY <1>7, <2>5
  <1>15. Read(out)[i]["value"] = ReadValue(out, i, Read(out))
    <2>1. i \in 1..(Len(out) + 1)
      BY <1>14
    <2> QED BY <2>1, ReadModes
  <1>16. ReadValue(out, i, Read(out))
           = ReadContainer(out, i, "array", "elements", "rbracket", Read(out))
    BY <1>14 DEF ReadValue, Marks
  <1> QED BY <1>8, <1>14, <1>15, <1>16

\* An entry is read back if its value is.
LEMMA EntryReads ==
    ASSUME NEW out \in Seq(Tokens), NEW i \in Nat, NEW text \in Seq(Tokens),
           NEW value \in Values, Serializable[value], ReadsBack(out, value),
           Holds(out, i, Keyed(write_json_string(text),
                               write_json[value].out))
    PROVE  /\ i \in 1..Len(out) /\ out[i] = "quote"
           /\ ReadEntry(out, i, Read(out))
                 = ReadAs(Entry(text, Json[value]),
                          i + Len(Keyed(write_json_string(text),
                                        write_json[value].out)))
  <1> DEFINE key == write_json_string(text)
             member == write_json[value].out
             end == i + Len(Keyed(key, member))
             stop == i + Len(key)
  <1>1. key \in Seq(Tokens) /\ member \in Seq(Tokens)
    <2>1. write_json[value] \in Result
      BY WriteSucceeds
    <2> QED BY <2>1, StringWritten DEF Result
  <1>2. /\ Len(out) \in Nat /\ Len(key) \in Nat
        /\ stop \in Nat /\ stop + 1 \in Nat /\ stop \in i..(i + Len(key))
    BY <1>1
  <1>3. /\ Holds(out, i, key)
        /\ stop \in 1..Len(out) /\ out[stop] = "colon"
        /\ Holds(out, stop + 1, member)
        /\ end = stop + 1 + Len(member)
    <2>1. Holds(out, i, Keyed(key, member))
      OBVIOUS
    <2> HIDE DEF key, member
    <2> QED BY <1>1, <2>1, EntryPlaces
  <1>4. /\ i \in 1..Len(out) /\ out[i] = "quote"
        /\ ReadString(out)[i + 1] = ReadAs(text, stop)
    BY <1>3, StringReads, ZenonT(30)
  <1>5. Read(out)[stop + 1]["value"] = ReadAs(Json[value], end)
    BY <1>2, <1>3 DEF ReadsBack
  <1> HIDE DEF end, stop, key, member
  <1>6. /\ ReadString(out)[i + 1].value = text
        /\ ReadString(out)[i + 1].next = stop
    BY <1>4 DEF ReadAs
  <1>7. stop \in i..Len(out) /\ i <= Len(out)
    BY <1>2, <1>3, <1>4
  <1>8. /\ Read(out)[stop + 1]["value"].value = Json[value]
        /\ Read(out)[stop + 1]["value"].next = end
    BY <1>5 DEF ReadAs
  <1>9. ReadEntry(out, i, Read(out)) = ReadAs(Entry(text, Json[value]), end)
    BY <1>3, <1>4, <1>6, <1>7, <1>8 DEF ReadEntry
  <1> QED BY <1>4, <1>9 DEF end, key, member

\* A dict is read back if its values are.
LEMMA MappingReads ==
    ASSUME NEW out \in Seq(Tokens), NEW v \in Values, Serializable[v],
           IsMapping(v),
           \A k \in DOMAIN v.items :
               Serializable[v.items[k].value]
                   => ReadsBack(out, v.items[k].value)
    PROVE  ReadsBack(out, v)
  <1> DEFINE written == [k \in DOMAIN v.items |->
                            WriteEntry(v.items[k].key,
                                       write_json[v.items[k].value])]
             json == [k \in DOMAIN v.items |->
                         Entry(v.items[k].key.text, Json[v.items[k].value])]
             n == Len(v.items)
             T == {json[k] : k \in 1..n}
             text(k) == v.items[k].key.text
             value(k) == v.items[k].value
  <1>1. /\ v.type = "dict" /\ v.items \in Seq(Range(v.items)) /\ n \in Nat
        /\ DOMAIN v.items = 1..n
    BY DEF IsMapping, Container
  <1>2. ASSUME NEW k \in 1..n
        PROVE  /\ Serializable[value(k)] /\ v.items[k].key.type = "str"
               /\ Encodable(text(k))
    <2>1. HasJson(v, Serializable)
      BY SerializableDef
    <2> QED BY <1>1, <2>1 DEF HasJson
  <1>3. ASSUME NEW k \in 1..n
        PROVE  value(k) \in Values /\ text(k) \in Seq(Tokens)
    BY <1>1, <1>2, KnownTokens DEF IsMapping
  <1>4. ASSUME NEW k \in 1..n
        PROVE  /\ written[k].out = Keyed(write_json_string(text(k)),
                                         write_json[value(k)].out)
               /\ written[k].ok /\ written[k] \in Result
    <2> DEFINE inner == write_json[value(k)]
    <2>1. inner \in Result /\ inner.ok
      BY <1>2, <1>3, WriteSucceeds
    <2>2. written[k] = WriteEntry(v.items[k].key, inner)
      BY <1>1
    <2> HIDE DEF inner
    <2>3. written[k] = [inner EXCEPT !.out =
                           write_json_string(text(k)) \o <<"colon">> \o @]
      BY <1>2, <2>2 DEF WriteEntry, CastsTo
    <2>4. inner.out \in Seq(Tokens)
      BY <2>1 DEF Result
    <2>5. write_json_string(text(k)) \in Seq(Tokens)
          /\ <<"colon">> \in Seq(Tokens)
      <3>1. <<"colon">> \in Seq(Tokens)
        BY KnownTokens
      <3>2. text(k) \in Seq(Tokens)
        BY <1>3
      <3> HIDE DEF text
      <3> QED BY <3>1, <3>2, StringWritten
    <2>6. write_json_string(text(k)) \o <<"colon">> \o inner.out
              \in Seq(Tokens)
      BY <2>4, <2>5
    <2> HIDE DEF written
    <2> QED BY <2>1, <2>3, <2>6 DEF Result, inner, Keyed
  <1>5. json \in Seq(T) /\ Len(json) = n
    <2>1. json \in [1..n -> T]
      BY <1>1
    <2> HIDE DEF json, n, T
    <2> QED BY <1>1, <2>1, SeqOfFunction
  <1>6. ASSUME NEW k \in 1..n
        PROVE  json[k] = Entry(text(k), Json[value(k)])
    BY <1>1
  <1>7. written \in Seq(Result) /\ Len(written) = n
    <2>1. written = [k \in 1..n |-> written[k]]
      BY <1>1
    <2> HIDE DEF written, n
    <2>2. written \in [1..n -> Result]
      BY <1>4, <2>1
    <2> QED BY <1>1, <2>2, SeqOfFunction
  <1>8. write_json[v].out = WriteEach("lbrace", written, "rbrace").out
    <2>1. write_json[v] = WriteValue(v, write_json)
      BY WriteJsonDef
    <2> QED BY <1>1, <2>1 DEF WriteValue, CastsTo
  <1>9. Json[v] = Container("dict", json)
    <2>1. Json[v] = JsonValue(v, Json)
      BY JsonDef
    <2> QED BY <1>1, <2>1 DEF JsonValue
  <1>10. \A k \in 1..n : ReadsBack(out, value(k))
    BY <1>1, <1>2
  <1> HIDE DEF written, json, n, T, text, value
  <1> DEFINE one == [j \in 1..(Len(out) + 1) |-> ReadEntry(out, j, Read(out))]
  <1>11. MembersAre(out, "entries", "rbrace", one)
    <2> SUFFICES ASSUME NEW j \in 1..(Len(out) + 1)
                 PROVE  Read(out)[j]["entries"]
                          = ReadMembers(out, j, ReadEntry(out, j, Read(out)),
                                        "entries", "rbrace", Read(out))
      BY DEF MembersAre
    <2> QED BY ReadModes
  <1>12. ASSUME NEW k \in 1..n, NEW j \in Nat,
                Holds(out, j, written[k].out)
         PROVE  /\ one[j] = ReadAs(json[k], j + Len(written[k].out))
                /\ j \in 1..Len(out) /\ out[j] # "rbrace"
    <2>1. Holds(out, j, Keyed(write_json_string(text(k)),
                              write_json[value(k)].out))
      BY <1>4, <1>12
    <2>2. /\ text(k) \in Seq(Tokens) /\ value(k) \in Values
          /\ Serializable[value(k)] /\ ReadsBack(out, value(k))
      BY <1>2, <1>3, <1>10
    <2>3. /\ j \in 1..Len(out) /\ out[j] = "quote"
          /\ ReadEntry(out, j, Read(out))
                = ReadAs(Entry(text(k), Json[value(k)]),
                         j + Len(Keyed(write_json_string(text(k)),
                                       write_json[value(k)].out)))
      BY <2>1, <2>2, EntryReads
    <2>4. ReadEntry(out, j, Read(out))
            = ReadAs(json[k], j + Len(written[k].out))
      BY <1>4, <1>6, <2>3
    <2>5. one[j] = ReadEntry(out, j, Read(out))
      <3>1. j \in 1..(Len(out) + 1)
        BY <2>3
      <3> QED BY <3>1
    <2> HIDE DEF one
    <2> QED BY <2>3, <2>4, <2>5
  <1> HIDE DEF one
  <1>13. EachReads(out, written, json, one)
    BY <1>7, <1>12 DEF EachReads
  <1>14. "lbrace" \in Tokens /\ "rbrace" \in Tokens /\ "rbrace" # "comma"
    BY KnownTokens
  <1> SUFFICES ASSUME NEW i \in Nat, Holds(out, i, write_json[v].out)
               PROVE  /\ i \in 1..Len(out)
                      /\ out[i] \notin {"rbracket", "rbrace"}
                      /\ Read(out)[i]["value"]
                            = ReadAs(Json[v], i + Len(write_json[v].out))
    BY DEF ReadsBack
  <1>15. /\ i \in 1..Len(out) /\ out[i] = "lbrace"
         /\ ReadContainer(out, i, "dict", "entries", "rbrace", Read(out))
               = ReadAs(Container("dict", json), i + Len(write_json[v].out))
    <2>1. Holds(out, i, WriteEach("lbrace", written, "rbrace").out)
      BY <1>8
    <2>2. \A k \in 1..Len(written) : written[k].ok
      BY <1>4, <1>7
    <2>3. NoneCloses(out, written, "rbrace")
      BY <1>7, <1>12 DEF NoneCloses
    <2>4. Len(json) = Len(written)
      BY <1>5, <1>7
    <2>5. /\ i \in 1..Len(out) /\ out[i] = "lbrace"
          /\ ReadContainer(out, i, "dict", "entries", "rbrace", Read(out))
                = ReadAs(Container("dict", json),
                         i + Len(WriteEach("lbrace", written, "rbrace").out))
      <3> DEFINE open == "lbrace"
                 close == "rbrace"
                 mode == "entries"
                 type == "dict"
      <3> HIDE DEF open, close, mode, type
      <3>1. /\ open \in Tokens /\ close \in Tokens /\ close # "comma"
            /\ Holds(out, i, WriteEach(open, written, close).out)
            /\ MembersAre(out, mode, close, one)
            /\ NoneCloses(out, written, close)
        BY <1>11, <1>14, <2>1, <2>3 DEF open, close, mode
      <3>2. /\ i \in 1..Len(out) /\ out[i] = open
            /\ ReadContainer(out, i, type, mode, close, Read(out))
                  = ReadAs(Container(type, json),
                           i + Len(WriteEach(open, written, close).out))
        BY <1>5, <1>7, <1>13, <2>2, <2>4, <3>1, ContainerReads
      <3> QED BY <3>2 DEF open, close, mode, type
    <2> QED BY <1>8, <2>5
  <1>16. Read(out)[i]["value"] = ReadValue(out, i, Read(out))
    <2>1. i \in 1..(Len(out) + 1)
      BY <1>15
    <2> QED BY <2>1, ReadModes
  <1>17. ReadValue(out, i, Read(out))
           = ReadContainer(out, i, "dict", "entries", "rbrace", Read(out))
    BY <1>15 DEF ReadValue, Marks
  <1> QED BY <1>9, <1>15, <1>16, <1>17

\* The body write_json writes for a value means that value: the writer and a
\* reader of JSON agree, for values of any size and depth.
THEOREM RoundTrip ==
    ASSUME NEW value \in Values, write_json[value].ok
    PROVE  Means(write_json[value].out, Json[value])
  <1> DEFINE out == write_json[value].out
             Bad == {v \in Values : Serializable[v] /\ ~ReadsBack(out, v)}
  <1>1. out \in Seq(Tokens) /\ Serializable[value]
    <2>1. write_json[value] \in Result /\ Serializable[value]
      BY WriteSucceeds
    <2> QED BY <2>1 DEF Result
  <1> HIDE DEF out
  <1>2. Bad = {}
    <2> SUFFICES ASSUME Bad # {} PROVE FALSE
      OBVIOUS
    <2>1. PICK v \in Bad :
              \A u \in Values : Height(u) < Height(v) => u \notin Bad
      <3>1. Bad \in SUBSET Values
        OBVIOUS
      <3> HIDE DEF Bad
      <3> QED BY <3>1, Lowest
    <2>2. /\ v \in Values /\ Serializable[v] /\ ~ReadsBack(out, v)
          /\ \A u \in Values : Height(u) < Height(v) /\ Serializable[u]
                                   => ReadsBack(out, u)
      BY <2>1
    <2> HIDE DEF Bad
    <2>3. ~(IsConstant(v) \/ IsNumber(v))
      BY <1>1, <2>2, ScalarReads
    <2>4. ~IsString(v)
      BY <1>1, <2>2, TextReads
    <2>5. ~IsSequence(v)
      <3> SUFFICES ASSUME IsSequence(v) PROVE FALSE
        OBVIOUS
      <3>1. \A k \in DOMAIN v.items :
                Serializable[v.items[k]] => ReadsBack(out, v.items[k])
        BY <2>2 DEF IsSequence
      <3> QED BY <1>1, <2>2, <3>1, SequenceReads
    <2>6. ~IsMapping(v)
      <3> SUFFICES ASSUME IsMapping(v) PROVE FALSE
        OBVIOUS
      <3>1. \A k \in DOMAIN v.items :
                Serializable[v.items[k].value]
                    => ReadsBack(out, v.items[k].value)
        BY <2>2 DEF IsMapping
      <3> QED BY <1>1, <2>2, <3>1, MappingReads
    <2> QED BY <2>2, <2>3, <2>4, <2>5, <2>6, ValuesAssumption
  <1>3. ReadsBack(out, value)
    BY <1>1, <1>2
  <1>4. Holds(out, 1, out)
    BY <1>1, HoldsSelf
  <1>5. Read(out)[1]["value"] = ReadAs(Json[value], 1 + Len(out))
    BY <1>3, <1>4 DEF ReadsBack, out
  <1>6. 1 + Len(out) = Len(out) + 1
    BY <1>1
  <1> QED BY <1>5, <1>6 DEF Means, out

-----------------------------------------------------------------------------
(***************************************************************************)
(* The arguments of a handler                                              *)
(***************************************************************************)

\* What Places, TextOf, Wrong and FirstWrong say of a compiled route and the
\* texts of a path.
PlacesIn(path, name) ==
    {k \in DOMAIN path : path[k].kind = "param" /\ path[k].name = name}
TextIn(path, texts, name) == texts[Min(PlacesIn(path, name))]
WrongIn(entry, texts) ==
    {name \in DOMAIN entry.arguments :
        \/ PlacesIn(entry.path, name) = {}
        \/ ~Converts(entry.arguments[name], TextIn(entry.path, texts, name))}
FirstWrongIn(entry, texts) ==
    entry.path[Min({k \in DOMAIN entry.path :
                       /\ entry.path[k].kind # "literal"
                       /\ entry.path[k].name \in WrongIn(entry, texts)})].name
KwargsIn(entry, texts) ==
    {<<name, Converted(entry.arguments[name],
                       TextIn(entry.path, texts, name))>> :
        name \in DOMAIN entry.arguments}
RefusalIn(entry, texts) ==
    LET name == FirstWrongIn(entry, texts) IN
    IF PlacesIn(entry.path, name) = {} THEN InternalError
    ELSE ValidationError(name, entry.arguments[name],
                         TextIn(entry.path, texts, name))

\* The routes of declarations that were not refused.
Specs == {RouteSpec(d) : d \in {e \in Declarations : Registrable(e)}}
Entries == {RouteEntry(spec) : spec \in Specs}

\* A compiled route: its parameters are the names of the template, each with
\* the annotation of the argument of that name, and every argument is one.
LEMMA EntryShape ==
    ASSUME NEW entry \in Entries
    PROVE  \E d \in Declarations :
               /\ entry.method = d.method /\ entry.path = d.path
               /\ entry.arguments = d.arguments
               /\ entry.is_async = d.is_async
               /\ entry.params
                     = [k \in {j \in DOMAIN d.path :
                                  d.path[j].kind # "literal"}
                           |-> <<d.path[k].name,
                                 d.arguments[d.path[k].name]>>]
               /\ \A name : name \in DOMAIN d.arguments
                     <=> \E k \in DOMAIN d.path :
                            /\ d.path[k].kind # "literal"
                            /\ name = d.path[k].name
  <1>1. PICK d \in Declarations :
            Registrable(d) /\ entry = RouteEntry(RouteSpec(d))
    BY DEF Entries, Specs
  <1> DEFINE K == {j \in DOMAIN d.path : d.path[j].kind # "literal"}
             names == PathParameterNames(d.path)
             spec == RouteSpec(d)
  <1>2. \A k \in DOMAIN d.path :
            d.path[k].kind \in {"literal", "param", "escaped"}
    <2> DEFINE S == [kind : {"literal", "param", "escaped"},
                     name : STRING, literal : STRING]
    <2>1. d.path \in Seq(S)
      BY DeclarationsAssumption
    <2>2. \A s \in S : s.kind \in {"literal", "param", "escaped"}
      OBVIOUS
    <2> HIDE DEF S
    <2>3. \A k \in DOMAIN d.path : d.path[k] \in S
      BY <2>1
    <2> QED BY <2>2, <2>3
  <1>3. names = [k \in K |-> d.path[k].name]
    <2>1. {j \in DOMAIN d.path : d.path[j].kind \in {"param", "escaped"}} = K
      BY <1>2
    <2> QED BY <2>1 DEF PathParameterNames, NamesOf
  <1>4. /\ DOMAIN d.arguments = {d.path[k].name : k \in K}
        /\ \A k \in K : d.arguments[d.path[k].name]
                            \in {"str", "int", "float", "bool"}
    <2>1. Range(names) = {d.path[k].name : k \in K}
      BY <1>3 DEF Range
    <2>2. DOMAIN d.arguments = {d.path[k].name : k \in K}
      BY <1>1, <2>1 DEF Registrable
    <2>3. \A name \in DOMAIN d.arguments :
              d.arguments[name] \in DOMAIN ParamKindByAnnotation
      BY <1>1 DEF Registrable, Range
    <2> QED BY <2>2, <2>3 DEF ParamKindByAnnotation
  <1>5. /\ spec.method = d.method /\ spec.path = d.path
        /\ spec.arguments = d.arguments /\ spec.is_async = d.is_async
        /\ spec.params
              = [k \in K |-> <<d.path[k].name,
                               ParamKindByAnnotation[
                                   d.arguments[d.path[k].name]]>>]
    BY <1>3 DEF RouteSpec
  <1>6. entry.params = [k \in K |-> <<d.path[k].name,
                                      d.arguments[d.path[k].name]>>]
    <2>1. \A kind \in {"str", "int", "float", "bool"} :
              FromCode(ParamKindByAnnotation[kind]) = kind
      BY DEF FromCode, ParamKindByAnnotation
    <2>2. entry.params = [k \in K |-> <<spec.params[k][1],
                                        FromCode(spec.params[k][2])>>]
      BY <1>1, <1>5 DEF RouteEntry, RouteSpec
    <2>3. \A k \in K :
              /\ spec.params[k][1] = d.path[k].name
              /\ spec.params[k][2]
                    = ParamKindByAnnotation[d.arguments[d.path[k].name]]
      <3> HIDE DEF spec, K
      <3> QED BY <1>5
    <2> HIDE DEF spec, K
    <2> QED BY <1>4, <2>1, <2>2, <2>3
  <1>7. /\ entry.method = d.method /\ entry.path = d.path
        /\ entry.arguments = d.arguments /\ entry.is_async = d.is_async
    BY <1>1 DEF RouteEntry, RouteSpec
  <1> QED BY <1>4, <1>6, <1>7

\* build_kwargs does what the declaration says: it builds every argument, or
\* stops at the first one in the template that cannot be had.
LEMMA BuildsAsDeclared ==
    ASSUME NEW entry \in Entries, NEW texts
    PROVE  LET built == BuildKwargs(entry, PathParams(entry, texts)) IN
           /\ WrongIn(entry, texts) = {}
                 => built.ok /\ built.kwargs = KwargsIn(entry, texts)
           /\ WrongIn(entry, texts) # {}
                 => ~built.ok /\ built.reply = RefusalIn(entry, texts)
  <1> DEFINE path == entry.path
             arguments == entry.arguments
             params == entry.params
             captured == PathParams(entry, texts)
             K == {j \in DOMAIN path : path[j].kind # "literal"}
             name(k) == params[k][1]
             kind(k) == params[k][2]
             found(k) == {j \in DOMAIN captured : captured[j][1] = name(k)}
             text(k) == captured[Min(found(k))][2]
             bad == {k \in DOMAIN params :
                         found(k) = {} \/ ~Converts(kind(k), text(k))}
             first == Min(bad)
             kwargsOf == {<<name(k), Converted(kind(k), text(k))>> :
                             k \in DOMAIN params}
             reply == IF found(first) = {} THEN InternalError
                      ELSE ValidationError(name(first), kind(first),
                                           text(first))
             wrong == WrongIn(entry, texts)
  <1>1. BuildKwargs(entry, captured)
          = IF bad = {} THEN [ok |-> TRUE, kwargs |-> kwargsOf]
            ELSE [ok |-> FALSE, reply |-> reply]
    BY DEF BuildKwargs
  <1>2. /\ params = [k \in K |-> <<path[k].name, arguments[path[k].name]>>]
        /\ \A n : n \in DOMAIN arguments
                     <=> \E k \in DOMAIN path : /\ path[k].kind # "literal"
                                                /\ n = path[k].name
        /\ DOMAIN path \subseteq Nat
    <2>1. PICK d \in Declarations :
               /\ entry.path = d.path
               /\ entry.arguments = d.arguments
               /\ entry.params
                     = [k \in {j \in DOMAIN d.path :
                                  d.path[j].kind # "literal"}
                           |-> <<d.path[k].name,
                                 d.arguments[d.path[k].name]>>]
               /\ \A n : n \in DOMAIN d.arguments
                     <=> \E k \in DOMAIN d.path :
                            /\ d.path[k].kind # "literal"
                            /\ n = d.path[k].name
      BY EntryShape
    <2>2. DOMAIN d.path \subseteq Nat
      BY DeclarationsAssumption
    <2> QED BY <2>1, <2>2
  <1>3. captured = [j \in {l \in DOMAIN path : path[l].kind = "param"} |->
                       <<path[j].name, texts[j]>>]
    <2>1. CapturedNames(path)
            = [j \in {l \in DOMAIN path : path[l].kind = "param"} |->
                  path[j].name]
      BY DEF CapturedNames, NamesOf
    <2> QED BY <2>1 DEF PathParams
  <1> HIDE DEF path, arguments, params, captured
  <1>4. DOMAIN params = K
    BY <1>2
  <1>5. ASSUME NEW k \in K
        PROVE  /\ name(k) = path[k].name
               /\ name(k) \in DOMAIN arguments
               /\ kind(k) = arguments[name(k)]
               /\ found(k) = PlacesIn(path, name(k))
               /\ found(k) # {} => text(k) = TextIn(path, texts, name(k))
    <2>1. /\ name(k) = path[k].name /\ kind(k) = arguments[path[k].name]
          /\ name(k) \in DOMAIN arguments
      BY <1>2
    <2>2. found(k) = PlacesIn(path, name(k))
      BY <1>3 DEF PlacesIn
    <2>3. ASSUME found(k) # {} PROVE text(k) = TextIn(path, texts, name(k))
      <3> DEFINE N == PlacesIn(path, name(k))
      <3>1. N \in SUBSET Nat /\ N # {}
        BY <1>2, <2>2, <2>3 DEF PlacesIn
      <3>2. Min(N) \in N
        <4> HIDE DEF N
        <4> QED BY <3>1, MinIsLeast
      <3>3. captured[Min(N)][2] = texts[Min(N)]
        <4>1. Min(N) \in {l \in DOMAIN path : path[l].kind = "param"}
          BY <3>2 DEF PlacesIn
        <4> HIDE DEF N
        <4> QED BY <1>3, <4>1
      <3> HIDE DEF name, found
      <3> QED BY <2>2, <3>3 DEF TextIn
    <2> HIDE DEF name, kind, found, text
    <2> QED BY <2>1, <2>2, <2>3
  <1>6. bad = {k \in K : path[k].name \in wrong}
    <2>1. ASSUME NEW k \in K
          PROVE  (found(k) = {} \/ ~Converts(kind(k), text(k)))
                     <=> path[k].name \in wrong
      <3> HIDE DEF name, kind, found, text, K
      <3> QED BY <1>5, <2>1 DEF WrongIn, path, arguments
    <2> HIDE DEF name, kind, found, text, K, wrong
    <2> QED BY <1>4, <2>1
  <1>7. bad = {} <=> wrong = {}
    <2>1. ASSUME NEW n \in wrong PROVE \E k \in K : n = path[k].name
      <3>1. n \in DOMAIN arguments
        BY DEF WrongIn, arguments
      <3> QED BY <1>2, <3>1
    <2> HIDE DEF bad, wrong
    <2> QED BY <1>6, <2>1
  <1>8. ASSUME wrong = {} PROVE kwargsOf = KwargsIn(entry, texts)
    <2>1. \A k \in K : found(k) # {}
      <3>1. bad = {}
        <4> HIDE DEF bad, wrong
        <4> QED BY <1>7, <1>8
      <3> HIDE DEF K, found
      <3> QED BY <1>4, <3>1
    <2>2. \A k \in K : <<name(k), Converted(kind(k), text(k))>>
                         = <<path[k].name,
                             Converted(arguments[path[k].name],
                                       TextIn(path, texts, path[k].name))>>
      <3> HIDE DEF name, kind, found, text, K
      <3> QED BY <1>5, <2>1
    <2>3. kwargsOf = {<<path[k].name,
                        Converted(arguments[path[k].name],
                                  TextIn(path, texts, path[k].name))>> :
                          k \in K}
      <3> HIDE DEF name, kind, found, text, K
      <3> QED BY <1>4, <2>2
    <2>4. \A k \in K : path[k].name \in DOMAIN arguments
      BY <1>2
    <2>5. \A n \in DOMAIN arguments : \E k \in K : n = path[k].name
      BY <1>2
    <2>6. KwargsIn(entry, texts)
            = {<<n, Converted(arguments[n], TextIn(path, texts, n))>> :
                  n \in DOMAIN arguments}
      BY DEF KwargsIn, path, arguments
    <2> HIDE DEF K, kwargsOf
    <2> QED BY <2>3, <2>4, <2>5, <2>6
  <1>9. ASSUME wrong # {} PROVE reply = RefusalIn(entry, texts)
    <2>1. bad \in SUBSET Nat /\ bad # {}
      <3> HIDE DEF wrong
      <3>1. bad # {}
        <4> HIDE DEF bad
        <4> QED BY <1>7, <1>9
      <3>2. K \subseteq Nat
        BY <1>2
      <3> HIDE DEF K, bad
      <3> QED BY <1>6, <3>1, <3>2
    <2>2. first \in bad
      <3> HIDE DEF bad
      <3> QED BY <2>1, MinIsLeast
    <2>3. first \in K
      <3> HIDE DEF K, bad, first
      <3> QED BY <1>6, <2>2
    <2>4. FirstWrongIn(entry, texts) = path[first].name
      <3>1. bad = {k \in DOMAIN path : /\ path[k].kind # "literal"
                                       /\ path[k].name \in wrong}
        <4> HIDE DEF bad, wrong
        <4> QED BY <1>6
      <3> HIDE DEF bad, wrong
      <3> QED BY <3>1 DEF FirstWrongIn, path, wrong
    <2>5. /\ name(first) = path[first].name
          /\ kind(first) = arguments[name(first)]
          /\ found(first) = PlacesIn(path, name(first))
          /\ found(first) # {}
                => text(first) = TextIn(path, texts, name(first))
      <3> HIDE DEF name, kind, found, text, K, first
      <3> QED BY <1>5, <2>3
    <2> HIDE DEF name, kind, found, text, first
    <2> QED BY <2>4, <2>5 DEF RefusalIn, path, arguments
  <1> HIDE DEF bad, wrong, kwargsOf, reply
  <1>10. wrong = {} => /\ BuildKwargs(entry, captured).ok
                       /\ BuildKwargs(entry, captured).kwargs
                             = KwargsIn(entry, texts)
    BY <1>1, <1>7, <1>8
  <1>11. wrong # {} => /\ ~BuildKwargs(entry, captured).ok
                       /\ BuildKwargs(entry, captured).reply
                             = RefusalIn(entry, texts)
    BY <1>1, <1>7, <1>9
  <1> QED BY <1>10, <1>11 DEF captured, wrong

-----------------------------------------------------------------------------
(***************************************************************************)
(* Routing                                                                 *)
(***************************************************************************)

\* Of two templates of one length, one comes before the other unless their
\* parameters are at the same places.
LEMMA BeforeTotal ==
    ASSUME NEW n \in Nat, NEW p, NEW q, DOMAIN p = 1..n, DOMAIN q = 1..n,
           \E k \in 1..n : (p[k].kind = "param") # (q[k].kind = "param")
    PROVE  Before(p, q) \/ Before(q, p)
  <1> DEFINE Differ == {k \in 1..n :
                           (p[k].kind = "param") # (q[k].kind = "param")}
             m == Min(Differ)
  <1>1. Differ \in SUBSET Nat /\ Differ # {}
    OBVIOUS
  <1>2. m \in Differ /\ \A y \in Differ : m <= y
    <2> HIDE DEF Differ
    <2> QED BY <1>1, MinIsLeast
  <1>3. m \in 1..n /\ (p[m].kind = "param") # (q[m].kind = "param")
    <2> HIDE DEF m
    <2> QED BY <1>2
  <1>4. \A j \in 1..(m - 1) : (p[j].kind = "param") = (q[j].kind = "param")
    <2> SUFFICES ASSUME NEW j \in 1..(m - 1)
                 PROVE  (p[j].kind = "param") = (q[j].kind = "param")
      OBVIOUS
    <2> HIDE DEF m
    <2>1. j \in 1..n /\ ~(m <= j)
      BY <1>3
    <2>2. j \notin Differ
      <3> HIDE DEF Differ
      <3> QED BY <1>2, <2>1
    <2> QED BY <2>1, <2>2
  <1> HIDE DEF m
  <1> QED BY <1>3, <1>4 DEF Before

\* What comes before a template comes before what that comes before.
LEMMA BeforeTransitive ==
    ASSUME NEW n \in Nat, NEW p, NEW q, NEW s, DOMAIN p = 1..n,
           DOMAIN q = 1..n, DOMAIN s = 1..n, Before(p, q), Before(q, s)
    PROVE  Before(p, s)
  <1>1. PICK k \in 1..n :
            /\ p[k].kind # "param" /\ q[k].kind = "param"
            /\ \A j \in 1..(k - 1) :
                   (p[j].kind = "param") = (q[j].kind = "param")
    BY DEF Before
  <1>2. PICK l \in 1..n :
            /\ q[l].kind # "param" /\ s[l].kind = "param"
            /\ \A j \in 1..(l - 1) :
                   (q[j].kind = "param") = (s[j].kind = "param")
    BY DEF Before
  <1>3. CASE k < l
    <2>1. p[k].kind # "param" /\ s[k].kind = "param"
      BY <1>1, <1>2, <1>3
    <2>2. \A j \in 1..(k - 1) : (p[j].kind = "param") = (s[j].kind = "param")
      BY <1>1, <1>2, <1>3
    <2> QED BY <2>1, <2>2 DEF Before
  <1>4. CASE l < k
    <2>1. p[l].kind # "param" /\ s[l].kind = "param"
      BY <1>1, <1>2, <1>4
    <2>2. \A j \in 1..(l - 1) : (p[j].kind = "param") = (s[j].kind = "param")
      BY <1>1, <1>2, <1>4
    <2> QED BY <2>1, <2>2 DEF Before
  <1>5. k # l
    BY <1>1, <1>2
  <1> QED BY <1>3, <1>4, <1>5

\* A set of numbers up to n on which R is a total order has a least element.
LEMMA LeastOf ==
    ASSUME NEW n \in Nat, NEW found \in SUBSET (1..n), found # {}, NEW R,
           \A i, j \in found : i # j => <<i, j>> \in R \/ <<j, i>> \in R,
           \A i, j, k \in found :
               <<i, j>> \in R /\ <<j, k>> \in R => <<i, k>> \in R
    PROVE  \E i \in found : \A j \in found \ {i} : <<i, j>> \in R
  <1> DEFINE Least(a, m) == /\ a \in found /\ a <= m
                            /\ \A j \in found \ {a} : j <= m => <<a, j>> \in R
             Bad == {m \in 0..n : /\ \E a \in found : a <= m
                                  /\ ~ \E a : Least(a, m)}
  <1>1. Bad = {}
    <2> SUFFICES ASSUME Bad # {} PROVE FALSE
      OBVIOUS
    <2>1. Bad \in SUBSET Nat
      OBVIOUS
    <2>2. PICK m \in Bad : \A y \in Bad : m <= y
      <3> HIDE DEF Bad
      <3> QED BY <2>1, FlattenRec!LeastNumber
    <2>3. /\ m \in 0..n /\ \A a : ~Least(a, m)
      BY <2>2
    <2>4. PICK b \in found : b <= m
      BY <2>2
    <2>5. m # 0 /\ m - 1 \in 0..n /\ m - 1 \notin Bad
      <3>1. m # 0
        BY <2>4
      <3>2. m - 1 \in 0..n /\ ~(m <= m - 1)
        BY <2>3, <3>1
      <3> HIDE DEF Bad
      <3> QED BY <2>2, <3>1, <3>2
    <2>6. CASE \A a \in found : ~(a <= m - 1)
      <3>1. \A a \in found : a <= m => a = m
        BY <2>3, <2>6
      <3>2. Least(m, m)
        BY <2>3, <2>4, <3>1
      <3> QED BY <2>3, <3>2
    <2>7. CASE \E a \in found : a <= m - 1
      <3>1. PICK a : Least(a, m - 1)
        BY <2>5, <2>7
      <3>2. CASE m \notin found
        <4>1. \A j \in found : j <= m => j <= m - 1
          <5> HIDE DEF Bad
          <5>1. \A j \in 1..n : j # m /\ j <= m => j <= m - 1
            BY <2>3
          <5> QED BY <3>2, <5>1
        <4>2. Least(a, m)
          BY <2>3, <3>1, <4>1
        <4> QED BY <2>3, <4>2
      <3>3. CASE m \in found
        <4>1. a # m /\ a <= m
          BY <2>3, <3>1
        <4>2. \A j \in found : j <= m => j = m \/ j <= m - 1
          BY <2>3
        <4>3. CASE <<a, m>> \in R
          <5>1. Least(a, m)
            BY <3>1, <4>1, <4>2, <4>3
          <5> QED BY <2>3, <5>1
        <4>4. CASE <<m, a>> \in R
          <5>1. \A j \in found \ {m} : j <= m => <<m, j>> \in R
            <6> SUFFICES ASSUME NEW j \in found \ {m}, j <= m
                         PROVE  <<m, j>> \in R
              OBVIOUS
            <6>1. j = a \/ <<a, j>> \in R
              BY <3>1, <4>2
            <6> QED BY <3>1, <3>3, <4>4, <6>1
          <5>2. Least(m, m)
            BY <2>3, <3>3, <5>1
          <5> QED BY <2>3, <5>2
        <4> QED BY <3>1, <3>3, <4>1, <4>3, <4>4
      <3> QED BY <3>2, <3>3
    <2> QED BY <2>6, <2>7
  <1>2. n \in 0..n /\ \A a \in found : a <= n
    OBVIOUS
  <1>3. \E a : Least(a, n)
    BY <1>1, <1>2
  <1> QED BY <1>2, <1>3

\* The routes that match a request line.
FoundBy(rts, t) ==
    {i \in DOMAIN rts : /\ rts[i].method = t.method
                        /\ Matches(rts[i].path, t.path)}

\* Router::lookup finds one of the routes that match, if there are any: of
\* routes without a conflict, one comes before all others.
LEMMA LookupFinds ==
    ASSUME routes \in Seq(Entries), ~Conflict(routes), NEW t \in Targets
    PROVE  /\ FoundBy(routes, t) = {} => Lookup(t) = 0
           /\ FoundBy(routes, t) # {} => Lookup(t) \in FoundBy(routes, t)
  <1> DEFINE found == FoundBy(routes, t)
             path(i) == routes[i].path
             n == Len(t.path)
             R == {x \in found \X found : Before(path(x[1]), path(x[2]))}
  <1>1. Lookup(t) = IF found = {} THEN 0
                    ELSE CHOOSE i \in found :
                             \A j \in found \ {i} : Before(path(i), path(j))
    BY DEF Lookup, FoundBy
  <1>2. n \in Nat
    BY TargetsAssumption
  <1>3. ASSUME NEW i \in found
        PROVE  /\ i \in 1..Len(routes) /\ routes[i].method = t.method
               /\ DOMAIN path(i) = 1..n
               /\ \A k \in 1..n : path(i)[k].kind = "param"
                                     \/ path(i)[k].literal = t.path[k]
    <2>1. i \in DOMAIN routes /\ routes[i].method = t.method
          /\ Matches(path(i), t.path)
      BY DEF FoundBy
    <2>2. routes[i] \in Entries
      BY <2>1
    <2>3. PICK d \in Declarations : path(i) = d.path
      BY <2>2, EntryShape
    <2>4. DOMAIN path(i) = 1..Len(path(i))
      BY <2>3, DeclarationsAssumption
    <2> HIDE DEF found, path
    <2> QED BY <2>1, <2>4 DEF Matches
  <1> HIDE DEF found, n
  <1>4. ASSUME NEW i \in found, NEW j \in found, i # j
        PROVE  Before(path(i), path(j)) \/ Before(path(j), path(i))
    <2>1. \E k \in 1..n :
              (path(i)[k].kind = "param") # (path(j)[k].kind = "param")
      <3> SUFFICES ASSUME \A k \in 1..n : (path(i)[k].kind = "param")
                                             = (path(j)[k].kind = "param")
                   PROVE  FALSE
        OBVIOUS
      <3>1. /\ DOMAIN path(i) = 1..n /\ DOMAIN path(j) = 1..n
            /\ i \in DOMAIN routes /\ j \in DOMAIN routes
            /\ routes[i].method = routes[j].method
        BY <1>3
      <3>2. \A k \in 1..n :
                (IF path(i)[k].kind = "param" THEN <<>>
                 ELSE <<path(i)[k].literal>>)
                    = IF path(j)[k].kind = "param" THEN <<>>
                      ELSE <<path(j)[k].literal>>
        BY <1>3
      <3>3. Shape(path(i)) = Shape(path(j))
        <4> HIDE DEF path
        <4> QED BY <3>1, <3>2 DEF Shape
      <3>4. i < j \/ j < i
        BY <1>3, <1>4
      <3> QED BY <3>1, <3>3, <3>4 DEF Conflict
    <2>2. DOMAIN path(i) = 1..n /\ DOMAIN path(j) = 1..n
      BY <1>3
    <2> HIDE DEF path
    <2> QED BY <1>2, <2>1, <2>2, BeforeTotal
  <1>5. ASSUME NEW i \in found, NEW j \in found, NEW k \in found,
               Before(path(i), path(j)), Before(path(j), path(k))
        PROVE  Before(path(i), path(k))
    <2>1. /\ DOMAIN path(i) = 1..n /\ DOMAIN path(j) = 1..n
          /\ DOMAIN path(k) = 1..n
      BY <1>3
    <2> HIDE DEF path
    <2> QED BY <1>2, <1>5, <2>1, BeforeTransitive
  <1>6. \A i, j \in found : <<i, j>> \in R <=> Before(path(i), path(j))
    <2> HIDE DEF path
    <2> QED OBVIOUS
  <1>7. ASSUME found # {}
        PROVE  \E i \in found :
                   \A j \in found \ {i} : Before(path(i), path(j))
    <2> HIDE DEF path, R
    <2>1. found \in SUBSET (1..Len(routes)) /\ Len(routes) \in Nat
      BY <1>3
    <2>2. \A i, j \in found : i # j => <<i, j>> \in R \/ <<j, i>> \in R
      BY <1>4, <1>6
    <2>3. \A i, j, k \in found :
              <<i, j>> \in R /\ <<j, k>> \in R => <<i, k>> \in R
      BY <1>5, <1>6
    <2>4. \E i \in found : \A j \in found \ {i} : <<i, j>> \in R
      BY <1>7, <2>1, <2>2, <2>3, LeastOf
    <2> QED BY <1>6, <2>4
  <1> HIDE DEF path
  <1> QED BY <1>1, <1>7 DEF found

-----------------------------------------------------------------------------
(***************************************************************************)
(* The invariant                                                           *)
(***************************************************************************)

\* Where a request that was routed to handler i, or to none, ends: the answer
\* its request line, the declaration and the handler's return value call for.
AnswerOK(rts, t, i, ret, resp) ==
    /\ i = 0 => FoundBy(rts, t) = {} /\ resp = NotFound /\ ret = NoValue
    /\ i # 0 =>
        LET wrong == WrongIn(rts[i], t.path) IN
        /\ wrong # {} => resp = RefusalIn(rts[i], t.path) /\ ret = NoValue
        /\ wrong = {} =>
            /\ ret = NoValue => resp = InternalError
            /\ ret # NoValue => /\ ret \in Values
                                /\ resp = ResponseFromReturnValue(ret)

\* Where a request stands: until it is answered there is no answer and no
\* return value, and the handler runs only with what the declaration says.
RequestOK(rts, t, s, i, kw, ret, resp) ==
    /\ i \in 0..Len(rts)
    /\ s \in {"none", "queued", "called", "answered"}
    /\ s # "answered" => ret = NoValue /\ resp = NoReply
    /\ s \in {"queued", "called"} => i # 0
    /\ s = "called" => /\ WrongIn(rts[i], t.path) = {}
                       /\ kw = KwargsIn(rts[i], t.path)
    /\ s = "answered" => AnswerOK(rts, t, i, ret, resp)

\* The routes were registered, the compiled ones do not conflict, and there
\* are none, and no request, until the server is up.
RoutesOK ==
    /\ app_routes \in Seq(Specs)
    /\ routes \in Seq(Entries)
    /\ ~Conflict(routes)
    /\ server \in {"down", "up", "failed"}
    /\ server # "up" => routes = <<>> /\ \A r \in Requests : stage[r] = "none"

\* f is a function on the requests.
OverRequests(f) == f = [r \in Requests |-> f[r]]

RequestsOK ==
    /\ target \in [Requests -> Targets]
    /\ OverRequests(stage)
    /\ OverRequests(route)
    /\ OverRequests(kwargs)
    /\ OverRequests(returned)
    /\ OverRequests(response)
    /\ \A r \in Requests :
           RequestOK(routes, target[r], stage[r], route[r], kwargs[r],
                     returned[r], response[r])

\* The inductive invariant.  A request keeps its route, and the routes do not
\* change once the server is up, so that what was true of the declaration when
\* the handler was called is still true when it returns.
IInv == RoutesOK /\ RequestsOK

\* What the safety properties say, in the words of the invariant.
LEMMA SameWords ==
    ASSUME NEW r \in Requests
    PROVE  /\ Wrong(r) = WrongIn(routes[route[r]], target[r].path)
           /\ FirstWrong(r) = FirstWrongIn(routes[route[r]], target[r].path)
           /\ \A name : /\ Places(r, name)
                             = PlacesIn(routes[route[r]].path, name)
                        /\ TextOf(r, name)
                             = TextIn(routes[route[r]].path, target[r].path,
                                      name)
  <1>1. \A name : Places(r, name) = PlacesIn(routes[route[r]].path, name)
    BY DEF Places, PlacesIn
  <1>2. \A name : TextOf(r, name)
                    = TextIn(routes[route[r]].path, target[r].path, name)
    BY <1>1 DEF TextOf, TextIn
  <1>3. Wrong(r) = WrongIn(routes[route[r]], target[r].path)
    BY <1>1, <1>2 DEF Wrong, WrongIn, Declared
  <1>4. FirstWrong(r) = FirstWrongIn(routes[route[r]], target[r].path)
    BY <1>3 DEF FirstWrong, FirstWrongIn
  <1> QED BY <1>1, <1>2, <1>3, <1>4

\* No handler returns the mark of a handler that has not returned.
LEMMA NoValueApart == NoValue \notin Values
  <1> SUFFICES ASSUME NoValue \in Values PROVE FALSE
    OBVIOUS
  <1>1. NoValue.type = "unreturned"
    BY DEF NoValue, Scalar
  <1>2. NoValue.type \in {"None", "other", "bool", "int", "float", "str",
                          "list", "tuple", "dict"}
    BY ValueShape, ValuesAssumption
  <1> QED BY <1>1, <1>2

\* response_from_return_value: a value that has JSON is answered with 204 if
\* it is None and 200 if not, any other with 500 and nothing of it; a JSON body
\* is what write_json wrote when it succeeded.
LEMMA ValueAnswered ==
    ASSUME NEW value \in Values
    PROVE  LET resp == ResponseFromReturnValue(value) IN
           /\ Serializable[value]
                 => resp.status = IF value.type = "None" THEN 204 ELSE 200
           /\ ~Serializable[value] => resp = InternalError
           /\ resp.status \in {200, 204, 500}
           /\ resp.status = 200 /\ resp.type = "json"
                 => /\ write_json[value].ok
                    /\ resp.body = write_json[value].out
  <1>1. write_json[value].ok <=> Serializable[value]
    BY WriteSucceeds
  <1>2. Serializable[value] = HasJson(value, Serializable)
    BY SerializableDef
  <1>3. CASE value.type = "None"
    <2>1. IsConstant(value) /\ value.items = <<>>
      BY <1>3, ValueShape DEF IsConstant, Scalar
    <2>2. HasJson(value, Serializable)
      BY <1>3, <2>1 DEF HasJson
    <2> QED BY <1>2, <1>3, <2>2 DEF ResponseFromReturnValue, Reply
  <1>4. CASE value.type = "str"
    <2>1. HasJson(value, Serializable) <=> Encodable(value.text)
      BY <1>4 DEF HasJson
    <2>2. ResponseFromReturnValue(value)
            = IF Encodable(value.text) THEN Reply(200, "text", value.text)
              ELSE InternalError
      BY <1>4 DEF ResponseFromReturnValue
    <2> QED BY <1>2, <1>4, <2>1, <2>2 DEF Reply, InternalError
  <1>5. CASE value.type \notin {"None", "str"}
    <2>1. ResponseFromReturnValue(value)
            = IF write_json[value].ok
              THEN Reply(200, "json", write_json[value].out)
              ELSE InternalError
      BY <1>5 DEF ResponseFromReturnValue
    <2> QED BY <1>1, <1>5, <2>1 DEF Reply, InternalError
  <1> QED BY <1>3, <1>4, <1>5

\* The answers of build_kwargs and of a miss.
LEMMA RefusalStatus ==
    /\ \A entry, texts : RefusalIn(entry, texts).status \in {422, 500}
    /\ NotFound.status = 404 /\ InternalError.status = 500
    /\ NoReply.status = 0
  BY DEF RefusalIn, ValidationError, NotFound, InternalError, NoReply, Reply

\* Compiling the routes keeps their number, methods and templates, so that the
\* compiled routes conflict only if the registered ones do.
LEMMA CompiledRoutes ==
    ASSUME NEW specs \in Seq(Specs), ~Conflict(specs)
    PROVE  LET compiled == [i \in DOMAIN specs |-> RouteEntry(specs[i])] IN
           compiled \in Seq(Entries) /\ ~Conflict(compiled)
  <1> DEFINE compiled == [i \in DOMAIN specs |-> RouteEntry(specs[i])]
  <1>1. DOMAIN specs = 1..Len(specs) /\ Len(specs) \in Nat
        /\ \A i \in DOMAIN specs : specs[i] \in Specs
    OBVIOUS
  <1>2. compiled \in [1..Len(specs) -> Entries]
    BY <1>1 DEF Entries
  <1>3. compiled \in Seq(Entries)
    <2> HIDE DEF compiled
    <2> QED BY <1>1, <1>2, SeqOfFunction
  <1>4. \A i \in DOMAIN specs : /\ compiled[i].method = specs[i].method
                                /\ compiled[i].path = specs[i].path
    <2> SUFFICES ASSUME NEW i \in DOMAIN specs
                 PROVE  /\ RouteEntry(specs[i]).method = specs[i].method
                        /\ RouteEntry(specs[i]).path = specs[i].path
      OBVIOUS
    <2>1. PICK d : specs[i] = RouteSpec(d)
      BY <1>1 DEF Specs
    <2> QED BY <2>1 DEF RouteEntry, RouteSpec
  <1>5. DOMAIN compiled = DOMAIN specs
    OBVIOUS
  <1> HIDE DEF compiled
  <1>6. ~Conflict(compiled)
    BY <1>4, <1>5 DEF Conflict
  <1> QED BY <1>3, <1>6 DEF compiled

\* A step of request r alone.
Only(r) ==
    /\ UNCHANGED <<routes, target>>
    /\ OverRequests(stage')
    /\ OverRequests(route')
    /\ OverRequests(kwargs')
    /\ OverRequests(returned')
    /\ OverRequests(response')
    /\ \A q \in Requests \ {r} :
           /\ stage'[q] = stage[q] /\ route'[q] = route[q]
           /\ kwargs'[q] = kwargs[q] /\ returned'[q] = returned[q]
           /\ response'[q] = response[q]

\* It keeps what the invariant says of all the others.
LEMMA OthersKept ==
    ASSUME RequestsOK, NEW r \in Requests, Only(r),
           RequestOK(routes, target[r], stage'[r], route'[r], kwargs'[r],
                     returned'[r], response'[r])
    PROVE  RequestsOK'
  <1>1. ASSUME NEW q \in Requests
        PROVE  RequestOK(routes', target'[q], stage'[q], route'[q],
                         kwargs'[q], returned'[q], response'[q])
    <2>1. RequestOK(routes, target[q], stage[q], route[q], kwargs[q],
                    returned[q], response[q])
      BY DEF RequestsOK
    <2>2. routes' = routes /\ target' = target
      BY DEF Only
    <2>3. CASE q = r
      BY <2>2, <2>3
    <2>4. CASE q # r
      <3>1. /\ stage'[q] = stage[q] /\ route'[q] = route[q]
            /\ kwargs'[q] = kwargs[q] /\ returned'[q] = returned[q]
            /\ response'[q] = response[q]
        BY <2>4 DEF Only
      <3> QED BY <2>1, <2>2, <3>1
    <2> QED BY <2>3, <2>4
  <1> QED BY <1>1 DEF RequestsOK, Only

\* dispatch_async and the closure of spawn_blocking: the handler is called
\* with what the declaration says, or the refusal is the answer.
LEMMA CallsAsDeclared ==
    ASSUME RoutesOK, RequestsOK, NEW r \in Requests, NEW i \in DOMAIN routes,
           stage[r] # "answered", CallHandler(r, i), returned' = returned,
           route' = [route EXCEPT ![r] = i], UNCHANGED <<regVars, target>>
    PROVE  /\ Only(r) /\ stage'[r] # "none"
           /\ RequestOK(routes, target[r], stage'[r], route'[r], kwargs'[r],
                        returned'[r], response'[r])
  <1> DEFINE entry == routes[i]
             texts == target[r].path
             built == BuildKwargs(entry, PathParams(entry, texts))
  <1>1. /\ OverRequests(stage) /\ OverRequests(route)
        /\ OverRequests(kwargs) /\ OverRequests(returned)
        /\ OverRequests(response)
        /\ returned[r] = NoValue /\ response[r] = NoReply
    BY DEF RequestsOK, RequestOK
  <1>2. entry \in Entries /\ i \in 0..Len(routes) /\ i # 0
    BY DEF RoutesOK
  <1>3. route'[r] = i /\ returned'[r] = NoValue
    BY <1>1 DEF OverRequests
  <1>4. CASE WrongIn(entry, texts) = {}
    <2>1. built.ok /\ built.kwargs = KwargsIn(entry, texts)
      <3> HIDE DEF entry, texts
      <3> QED BY <1>2, <1>4, BuildsAsDeclared
    <2>2. /\ stage' = [stage EXCEPT ![r] = "called"]
          /\ kwargs' = [kwargs EXCEPT ![r] = built.kwargs]
          /\ response' = response
      BY <2>1 DEF CallHandler
    <2> HIDE DEF built
    <2>3. /\ stage'[r] = "called" /\ kwargs'[r] = KwargsIn(entry, texts)
          /\ response'[r] = NoReply
      BY <1>1, <2>1, <2>2 DEF OverRequests
    <2>4. Only(r)
      BY <1>1, <2>2 DEF Only, regVars, OverRequests
    <2> QED BY <1>2, <1>3, <1>4, <2>3, <2>4 DEF RequestOK
  <1>5. CASE WrongIn(entry, texts) # {}
    <2>1. ~built.ok /\ built.reply = RefusalIn(entry, texts)
      <3> HIDE DEF entry, texts
      <3> QED BY <1>2, <1>5, BuildsAsDeclared
    <2>2. /\ stage' = [stage EXCEPT ![r] = "answered"]
          /\ response' = [response EXCEPT ![r] = built.reply]
          /\ kwargs' = kwargs
      BY <2>1 DEF CallHandler, Answer
    <2> HIDE DEF built
    <2>3. stage'[r] = "answered" /\ response'[r] = RefusalIn(entry, texts)
      BY <1>1, <2>1, <2>2 DEF OverRequests
    <2>4. Only(r)
      BY <1>1, <2>2 DEF Only, regVars, OverRequests
    <2>5. AnswerOK(routes, target[r], i, NoValue, RefusalIn(entry, texts))
      BY <1>2, <1>5 DEF AnswerOK
    <2> HIDE DEF entry, texts
    <2> QED BY <1>2, <1>3, <2>3, <2>4, <2>5 DEF RequestOK
  <1> QED BY <1>4, <1>5

\* handle
LEMMA HandleKeeps ==
    ASSUME IInv, NEW r \in Requests, Handle(r)
    PROVE  IInv'
  <1> DEFINE i == Lookup(target[r])
  <1>1. /\ OverRequests(stage) /\ OverRequests(route)
        /\ OverRequests(kwargs) /\ OverRequests(returned)
        /\ OverRequests(response) /\ target[r] \in Targets
        /\ RoutesOK /\ RequestsOK
    BY DEF IInv, RequestsOK
  <1>2. /\ stage[r] = "none" /\ server = "up"
        /\ route' = [route EXCEPT ![r] = i]
        /\ UNCHANGED <<regVars, target, returned>>
    BY DEF Handle
  <1>3. returned[r] = NoValue /\ response[r] = NoReply
    BY <1>1, <1>2 DEF RequestsOK, RequestOK
  <1>4. /\ FoundBy(routes, target[r]) = {} => i = 0
        /\ FoundBy(routes, target[r]) # {}
              => i \in FoundBy(routes, target[r])
    BY <1>1, LookupFinds DEF RoutesOK
  <1>5. i # 0 => i \in DOMAIN routes /\ i \in 0..Len(routes)
    BY <1>1, <1>4 DEF FoundBy, RoutesOK
  <1>6. /\ i = 0 => FoundBy(routes, target[r]) = {}
        /\ 0 \in 0..Len(routes)
    BY <1>1, <1>4 DEF FoundBy, RoutesOK
  <1> HIDE DEF i
  <1>7. Only(r) /\ RequestOK(routes, target[r], stage'[r], route'[r],
                             kwargs'[r], returned'[r], response'[r])
    <2>1. CASE i = 0 /\ Answer(r, NotFound) /\ UNCHANGED kwargs
      <3>1. /\ stage'[r] = "answered" /\ response'[r] = NotFound
            /\ route'[r] = 0 /\ returned'[r] = NoValue
        BY <1>1, <1>2, <1>3, <2>1 DEF Answer, OverRequests
      <3>2. Only(r)
        BY <1>1, <1>2, <2>1 DEF Only, Answer, regVars, OverRequests
      <3>3. AnswerOK(routes, target[r], 0, NoValue, NotFound)
        BY <1>6, <2>1 DEF AnswerOK
      <3> QED BY <1>6, <3>1, <3>2, <3>3 DEF RequestOK
    <2>2. CASE i # 0 /\ CallHandler(r, i)
      BY <1>1, <1>2, <1>5, <2>2, CallsAsDeclared
    <2>3. CASE /\ i # 0 /\ stage' = [stage EXCEPT ![r] = "queued"]
               /\ UNCHANGED <<kwargs, response>>
      <3>1. /\ stage'[r] = "queued" /\ response'[r] = NoReply
            /\ route'[r] = i /\ returned'[r] = NoValue
        BY <1>1, <1>2, <1>3, <2>3 DEF OverRequests
      <3>2. Only(r)
        BY <1>1, <1>2, <2>3 DEF Only, regVars, OverRequests
      <3> QED BY <1>5, <2>3, <3>1, <3>2 DEF RequestOK
    <2> QED BY <2>1, <2>2, <2>3 DEF Handle, i
  <1>8. RequestsOK'
    BY <1>1, <1>7, OthersKept
  <1>9. RoutesOK'
    BY <1>1, <1>2 DEF RoutesOK, regVars
  <1> QED BY <1>8, <1>9 DEF IInv

\* The closure of spawn_blocking
LEMMA RunBlockingKeeps ==
    ASSUME IInv, NEW r \in Requests, RunBlocking(r)
    PROVE  IInv'
  <1>1. /\ RoutesOK /\ RequestsOK /\ stage[r] = "queued"
        /\ UNCHANGED <<regVars, target, route, returned>>
    BY DEF IInv, RunBlocking
  <1>2. /\ route[r] \in 0..Len(routes) /\ route[r] # 0
        /\ OverRequests(route)
    BY <1>1 DEF RequestsOK, RequestOK
  <1>3. route[r] \in DOMAIN routes
    BY <1>1, <1>2 DEF RoutesOK
  <1>4. route' = [route EXCEPT ![r] = route[r]]
    BY <1>1, <1>2 DEF OverRequests
  <1>5. CallHandler(r, route[r])
    BY DEF RunBlocking
  <1>6. Only(r) /\ RequestOK(routes, target[r], stage'[r], route'[r],
                             kwargs'[r], returned'[r], response'[r])
    BY <1>1, <1>3, <1>4, <1>5, CallsAsDeclared
  <1>7. RequestsOK'
    BY <1>1, <1>6, OthersKept
  <1>8. server = "up"
    BY <1>1 DEF RoutesOK
  <1>9. RoutesOK'
    BY <1>1, <1>8 DEF RoutesOK, regVars
  <1> QED BY <1>7, <1>9 DEF IInv

\* The end of a handler, with a return value or with an error
LEMMA EndKeeps ==
    ASSUME IInv, NEW r \in Requests,
           HandlerFails(r) \/ \E value \in Values : HandlerReturns(r, value)
    PROVE  IInv'
  <1>1. /\ RoutesOK /\ RequestsOK /\ stage[r] = "called"
        /\ UNCHANGED <<regVars, target, route, kwargs>>
    BY DEF IInv, HandlerFails, HandlerReturns
  <1>2. /\ OverRequests(stage) /\ OverRequests(route)
        /\ OverRequests(kwargs) /\ OverRequests(returned)
        /\ OverRequests(response)
        /\ route[r] \in 0..Len(routes) /\ route[r] # 0
        /\ WrongIn(routes[route[r]], target[r].path) = {}
        /\ returned[r] = NoValue
    BY <1>1 DEF RequestsOK, RequestOK
  <1>3. Only(r) /\ RequestOK(routes, target[r], stage'[r], route'[r],
                             kwargs'[r], returned'[r], response'[r])
    <2>1. CASE HandlerFails(r)
      <3>1. /\ stage'[r] = "answered" /\ response'[r] = InternalError
            /\ route'[r] = route[r] /\ returned'[r] = NoValue
        BY <1>1, <1>2, <2>1 DEF HandlerFails, Answer, OverRequests
      <3>2. Only(r)
        BY <1>1, <1>2, <2>1
           DEF Only, HandlerFails, Answer, regVars, OverRequests
      <3>3. AnswerOK(routes, target[r], route[r], NoValue, InternalError)
        BY <1>2 DEF AnswerOK
      <3> QED BY <1>2, <3>1, <3>2, <3>3 DEF RequestOK
    <2>2. ASSUME NEW value \in Values, HandlerReturns(r, value)
          PROVE  Only(r) /\ RequestOK(routes, target[r], stage'[r], route'[r],
                                      kwargs'[r], returned'[r], response'[r])
      <3>1. /\ stage'[r] = "answered"
            /\ response'[r] = ResponseFromReturnValue(value)
            /\ route'[r] = route[r] /\ returned'[r] = value
        BY <1>1, <1>2, <2>2 DEF HandlerReturns, Answer, OverRequests
      <3>2. Only(r)
        BY <1>1, <1>2, <2>2
           DEF Only, HandlerReturns, Answer, regVars, OverRequests
      <3>3. AnswerOK(routes, target[r], route[r], value,
                     ResponseFromReturnValue(value))
        BY <1>2, <2>2, NoValueApart DEF AnswerOK
      <3> QED BY <1>2, <3>1, <3>2, <3>3 DEF RequestOK
    <2> QED BY <2>1, <2>2
  <1>4. RequestsOK'
    BY <1>1, <1>3, OthersKept
  <1>5. server = "up"
    BY <1>1 DEF RoutesOK
  <1>6. RoutesOK'
    BY <1>1, <1>5 DEF RoutesOK, regVars
  <1> QED BY <1>4, <1>6 DEF IInv

\* Rayo._register
LEMMA RegisterKeeps ==
    ASSUME IInv, NEW d \in Declarations, Register(d)
    PROVE  IInv'
  <1>1. /\ RoutesOK /\ RequestsOK
        /\ UNCHANGED <<server, routes, stage, target, route, kwargs, returned,
                       response>>
    BY DEF IInv, Register, reqVars
  <1>2. app_routes' \in Seq(Specs)
    <2>1. CASE Registrable(d)
      <3>1. RouteSpec(d) \in Specs
        BY <2>1 DEF Specs
      <3>2. app_routes' = Append(app_routes, RouteSpec(d))
        BY <2>1 DEF Register
      <3> QED BY <1>1, <3>1, <3>2 DEF RoutesOK
    <2>2. CASE ~Registrable(d)
      BY <1>1, <2>2 DEF Register, RoutesOK
    <2> QED BY <2>1, <2>2
  <1>3. RoutesOK'
    BY <1>1, <1>2 DEF RoutesOK
  <1>4. RequestsOK'
    BY <1>1 DEF RequestsOK
  <1> QED BY <1>3, <1>4 DEF IInv

\* start_server: no request has come yet.
LEMMA StartServerKeeps ==
    ASSUME IInv, StartServer
    PROVE  IInv'
  <1>1. /\ RoutesOK /\ RequestsOK /\ server = "down"
        /\ UNCHANGED <<app_routes, stage, target, route, kwargs, returned,
                       response>>
    BY DEF IInv, StartServer, reqVars
  <1>2. CASE Conflict(app_routes)
    <2>1. server' = "failed" /\ routes' = routes
      BY <1>2 DEF StartServer
    <2> QED BY <1>1, <2>1 DEF IInv, RoutesOK, RequestsOK
  <1>3. CASE ~Conflict(app_routes)
    <2>1. /\ server' = "up"
          /\ routes' = [i \in DOMAIN app_routes |-> RouteEntry(app_routes[i])]
      BY <1>3 DEF StartServer
    <2>2. routes' \in Seq(Entries) /\ ~Conflict(routes')
      BY <1>1, <1>3, <2>1, CompiledRoutes DEF RoutesOK
    <2>3. RoutesOK'
      BY <1>1, <2>1, <2>2 DEF RoutesOK, Conflict
    <2>4. ASSUME NEW r \in Requests
          PROVE  RequestOK(routes', target[r], stage[r], route[r], kwargs[r],
                           returned[r], response[r])
      <3>1. /\ stage[r] = "none" /\ route[r] \in 0..Len(routes)
            /\ routes = <<>> /\ returned[r] = NoValue
            /\ response[r] = NoReply
        BY <1>1 DEF RoutesOK, RequestsOK, RequestOK
      <3>2. route[r] \in 0..Len(routes')
        BY <2>2, <3>1
      <3> QED BY <3>1, <3>2 DEF RequestOK
    <2>5. RequestsOK'
      BY <1>1, <2>4 DEF RequestsOK
    <2> QED BY <2>3, <2>5 DEF IInv
  <1> QED BY <1>2, <1>3

-----------------------------------------------------------------------------
(***************************************************************************)
(* The theorems                                                            *)
(***************************************************************************)

\* The invariant holds in every state of every application.
THEOREM Invariance == Spec => []IInv
  <1>1. ASSUME Init PROVE IInv
    <2>1. app_routes \in Seq(Specs) /\ routes \in Seq(Entries)
      BY <1>1 DEF Init
    <2>2. ~Conflict(routes)
      BY <1>1 DEF Init, Conflict
    <2>3. RoutesOK
      BY <1>1, <2>1, <2>2 DEF Init, RoutesOK
    <2>4. ASSUME NEW r \in Requests
          PROVE  RequestOK(routes, target[r], stage[r], route[r], kwargs[r],
                           returned[r], response[r])
      <3>1. /\ stage[r] = "none" /\ route[r] = 0 /\ Len(routes) = 0
            /\ returned[r] = NoValue /\ response[r] = NoReply
        BY <1>1 DEF Init
      <3> QED BY <3>1 DEF RequestOK
    <2>5. RequestsOK
      BY <1>1, <2>4 DEF Init, RequestsOK, OverRequests
    <2> QED BY <2>3, <2>5 DEF IInv
  <1>2. ASSUME IInv, [Next]_vars PROVE IInv'
    <2>1. ASSUME NEW d \in Declarations, Register(d) PROVE IInv'
      BY <1>2, <2>1, RegisterKeeps
    <2>2. ASSUME StartServer PROVE IInv'
      BY <1>2, <2>2, StartServerKeeps
    <2>3. ASSUME NEW r \in Requests, Handle(r) PROVE IInv'
      BY <1>2, <2>3, HandleKeeps
    <2>4. ASSUME NEW r \in Requests, RunBlocking(r) PROVE IInv'
      BY <1>2, <2>4, RunBlockingKeeps
    <2>5. ASSUME NEW r \in Requests, NEW value \in Values,
                 HandlerReturns(r, value)
          PROVE  IInv'
      BY <1>2, <2>5, EndKeeps
    <2>6. ASSUME NEW r \in Requests, HandlerFails(r) PROVE IInv'
      BY <1>2, <2>6, EndKeeps
    <2>7. CASE UNCHANGED vars
      <3>1. UNCHANGED <<app_routes, server, routes, stage, target, route,
                        kwargs, returned, response>>
        BY <2>7 DEF vars, regVars, reqVars
      <3> QED BY <1>2, <3>1 DEF IInv, RoutesOK, RequestsOK
    <2> QED BY <1>2, <2>1, <2>2, <2>3, <2>4, <2>5, <2>6, <2>7 DEF Next
  <1> QED BY <1>1, <1>2, PTL DEF Spec

\* A request's state is always one the code can keep, its handler_id one of the
\* compiled routes or none, and its status one that AppService::handle sends.
THEOREM TypeCorrect == Spec => []TypeOK
  <1>1. ASSUME IInv PROVE TypeOK
    <2>1. ASSUME NEW r \in Requests
          PROVE  /\ stage[r] \in {"none", "queued", "called", "answered"}
                 /\ route[r] \in 0..Len(routes)
                 /\ returned[r] \in Values \cup {NoValue}
                 /\ response[r].status \in {0, 200, 204, 404, 422, 500}
      <3>1. RequestOK(routes, target[r], stage[r], route[r], kwargs[r],
                      returned[r], response[r])
        BY <1>1 DEF IInv, RequestsOK
      <3>2. CASE stage[r] # "answered"
        BY <3>1, <3>2, RefusalStatus DEF RequestOK
      <3>3. CASE stage[r] = "answered"
        <4>1. AnswerOK(routes, target[r], route[r], returned[r], response[r])
          BY <3>1, <3>3 DEF RequestOK
        <4>2. returned[r] \in Values \cup {NoValue}
          BY <4>1 DEF AnswerOK
        <4>3. \/ response[r] \in {NotFound, InternalError}
              \/ \E entry, texts : response[r] = RefusalIn(entry, texts)
              \/ /\ returned[r] \in Values
                 /\ response[r] = ResponseFromReturnValue(returned[r])
          BY <4>1 DEF AnswerOK
        <4>4. response[r].status \in {0, 200, 204, 404, 422, 500}
          BY <4>3, RefusalStatus, ValueAnswered
        <4> QED BY <3>1, <4>2, <4>4 DEF RequestOK
      <3> QED BY <3>2, <3>3
    <2> QED BY <1>1, <2>1 DEF TypeOK, IInv, RoutesOK, RequestsOK, OverRequests
  <1> QED BY <1>1, Invariance, PTL

\* Every handler that runs was called with exactly the arguments it declares,
\* each of its annotated type and made from the text at its place in the path
\* (_build_route_spec, ParamKind::from_code, build_kwargs), for all
\* applications, request lines and numbers of requests.
THEOREM CalledRight == Spec => []CalledAsDeclared
  <1>1. ASSUME IInv PROVE CalledAsDeclared
    <2> SUFFICES ASSUME NEW r \in Requests, stage[r] = "called"
                 PROVE  /\ Wrong(r) = {}
                        /\ kwargs[r]
                             = {<<name, Converted(Declared(r)[name],
                                                  TextOf(r, name))>> :
                                   name \in DOMAIN Declared(r)}
      BY DEF CalledAsDeclared
    <2>1. /\ WrongIn(routes[route[r]], target[r].path) = {}
          /\ kwargs[r] = KwargsIn(routes[route[r]], target[r].path)
      BY <1>1 DEF IInv, RequestsOK, RequestOK
    <2> QED BY <2>1, SameWords DEF KwargsIn, Declared
  <1> QED BY <1>1, Invariance, PTL

\* Every answer is the one its request line, the declaration and what the
\* handler did call for (AppService::handle, response_from_return_value).
THEOREM AnsweredRight == Spec => []AnswerAsDeclared
  <1>1. ASSUME IInv PROVE AnswerAsDeclared
    <2> SUFFICES ASSUME NEW r \in Requests, stage[r] = "answered"
                 PROVE  IF route[r] = 0
                        THEN /\ response[r] = NotFound
                             /\ ~ \E i \in DOMAIN routes :
                                    /\ routes[i].method = target[r].method
                                    /\ Matches(routes[i].path, target[r].path)
                        ELSE IF Wrong(r) # {}
                        THEN response[r] = RefusalIn(routes[route[r]],
                                                     target[r].path)
                        ELSE IF returned[r] # NoValue
                                  /\ Serializable[returned[r]]
                        THEN response[r].status = IF returned[r].type = "None"
                                                  THEN 204 ELSE 200
                        ELSE response[r] = InternalError
      BY SameWords DEF AnswerAsDeclared, RefusalIn, Declared
    <2>1. AnswerOK(routes, target[r], route[r], returned[r], response[r])
      BY <1>1 DEF IInv, RequestsOK, RequestOK
    <2>2. CASE route[r] = 0
      BY <2>1, <2>2 DEF AnswerOK, FoundBy
    <2>3. CASE route[r] # 0 /\ Wrong(r) # {}
      BY <2>1, <2>3, SameWords DEF AnswerOK
    <2>4. CASE route[r] # 0 /\ Wrong(r) = {}
      <3>1. /\ returned[r] = NoValue => response[r] = InternalError
            /\ returned[r] # NoValue
                  => /\ returned[r] \in Values
                     /\ response[r] = ResponseFromReturnValue(returned[r])
        BY <2>1, <2>4, SameWords DEF AnswerOK
      <3> QED BY <2>4, <3>1, ValueAnswered
    <2> QED BY <2>2, <2>3, <2>4
  <1> QED BY <1>1, Invariance, PTL

\* Every JSON body a client gets reads back as the value the handler returned,
\* however deep it nests (write_json, write_json_string).
THEOREM BodyReadsBack == Spec => []BodyMeansValue
  <1>1. ASSUME IInv PROVE BodyMeansValue
    <2> SUFFICES ASSUME NEW r \in Requests, response[r].status = 200,
                        response[r].type = "json"
                 PROVE  Means(response[r].body, Json[returned[r]])
      BY DEF BodyMeansValue
    <2>1. RequestOK(routes, target[r], stage[r], route[r], kwargs[r],
                    returned[r], response[r])
      BY <1>1 DEF IInv, RequestsOK
    <2>2. stage[r] = "answered"
      BY <2>1, RefusalStatus DEF RequestOK
    <2>3. \/ response[r] \in {NotFound, InternalError}
          \/ \E entry, texts : response[r] = RefusalIn(entry, texts)
          \/ /\ returned[r] \in Values
             /\ response[r] = ResponseFromReturnValue(returned[r])
      BY <2>1, <2>2 DEF RequestOK, AnswerOK
    <2>4. /\ returned[r] \in Values
          /\ response[r] = ResponseFromReturnValue(returned[r])
      BY <2>3, RefusalStatus
    <2>5. /\ write_json[returned[r]].ok
          /\ response[r].body = write_json[returned[r]].out
      BY <2>4, ValueAnswered
    <2> QED BY <2>4, <2>5, RoundTrip
  <1> QED BY <1>1, Invariance, PTL
=============================================================================
