----------------------------- MODULE PageProofs -----------------------------
(***************************************************************************)
(* The three modules of the phone's page.  For every set of names, types   *)
(* and keys, every capacity, chunk size and number of uploads: the core    *)
(* counts exactly the bytes it holds and completes only whole assets.  For *)
(* every number of frames and messages: the host feeds each frame in order *)
(* and reports only what the frame on show has answered.  For every number *)
(* of draws, calls and lost connections: the microphone control ends up    *)
(* showing what the plugin said, and a draw leaves nothing to the next.    *)
(***************************************************************************)
EXTENDS SurfaceHost, WebView, FiniteSetTheorems, SequenceTheorems, TLAPS

-----------------------------------------------------------------------------
(* Sums over finite sets.  SumFunction adds the values of a function one   *)
(* index at a time, by a recursion over subsets of its domain; IsSum says  *)
(* that g has the sum of f over every subset of T.                         *)

Pick(s) == CHOOSE x \in s : TRUE

IsSum(f, T, g) ==
    \A s \in SUBSET T : g[s] = IF s = {} THEN 0 ELSE f[Pick(s)] + g[s \ {Pick(s)}]

Agree(f, h, T) == \A x \in T : f[x] = h[x]

\* A picked element is one.
LEMMA PickIs ==
    ASSUME NEW s, s # {}
    PROVE  Pick(s) \in s
BY DEF Pick

\* Among subsets of a finite set there is a smallest one.
LEMMA MinimalSubset ==
    ASSUME NEW S, IsFiniteSet(S), NEW P \in SUBSET (SUBSET S), P # {}
    PROVE  \E m \in P : \A s \in P : s \subseteq m => s = m
<1>1. IsWellFoundedOn(StrictSubsetOrdering(S), SUBSET S)
  BY FS_StrictSubsetOrderingWellFounded, FS_FiniteSubsetsOfFinite
<1>2. PICK m \in P : \A s \in P : ~(<<s, m>> \in StrictSubsetOrdering(S))
  BY <1>1, WFMin
<1>3. ASSUME NEW s \in P, s \subseteq m PROVE s = m
  BY <1>2, <1>3 DEF StrictSubsetOrdering
<1> QED BY <1>3

\* The sum over a set is determined by the values there.
LEMMA SumsAgree ==
    ASSUME NEW S, IsFiniteSet(S), NEW A \in SUBSET S, NEW B \in SUBSET S,
           NEW f, NEW h, NEW g, NEW k, IsSum(f, A, g), IsSum(h, B, k),
           NEW T \in SUBSET (A \cap B), Agree(f, h, T)
    PROVE  g[T] = k[T]
<1> DEFINE P == {s \in SUBSET T : g[s] # k[s]}
<1> SUFFICES ASSUME P # {} PROVE FALSE
  OBVIOUS
<1>1. P \in SUBSET (SUBSET S)
  OBVIOUS
<1>2. PICK m \in P : \A s \in P : s \subseteq m => s = m
  <2> HIDE DEF P
  <2> QED BY <1>1, MinimalSubset
<1>3. m \in SUBSET A /\ m \in SUBSET B /\ m \in SUBSET T /\ g[m] # k[m]
  OBVIOUS
<1>4. m # {}
  BY <1>3 DEF IsSum
<1>5. Pick(m) \in m
  BY <1>4, PickIs
<1> DEFINE u == m \ {Pick(m)}
<1>6. g[u] = k[u]
  <2>1. u \in SUBSET T /\ u \subseteq m /\ u # m
    BY <1>3, <1>5
  <2> QED BY <2>1, <1>2
<1>7. g[m] = f[Pick(m)] + g[u] /\ k[m] = h[Pick(m)] + k[u]
  BY <1>3, <1>4 DEF IsSum
<1> QED BY <1>3, <1>5, <1>6, <1>7 DEF Agree

\* A finite set has a sum: a smallest subset without one would have a smaller one.
LEMMA SumsExist ==
    ASSUME NEW S, IsFiniteSet(S), NEW f
    PROVE  \E g : IsSum(f, S, g)
<1> DEFINE P == {T \in SUBSET S : ~ \E g : IsSum(f, T, g)}
<1> SUFFICES ASSUME P # {} PROVE FALSE
  OBVIOUS
<1>1. P \in SUBSET (SUBSET S)
  OBVIOUS
<1>2. PICK m \in P : \A s \in P : s \subseteq m => s = m
  <2> HIDE DEF P
  <2> QED BY <1>1, MinimalSubset
<1> DEFINE H(U) == CHOOSE g : IsSum(f, U, g)
           Rest(s) == s \ {Pick(s)}
<1>3. m \in SUBSET S
  OBVIOUS
<1>4. ASSUME NEW U \in SUBSET m, U # m PROVE IsSum(f, U, H(U))
  <2>1. \E g : IsSum(f, U, g)
    BY <1>2, <1>3, <1>4
  <2> QED BY <2>1
<1> DEFINE sum == [s \in SUBSET m |-> IF s = {} THEN 0 ELSE f[Pick(s)] + H(Rest(s))[Rest(s)]]
<1>5. ASSUME NEW u \in SUBSET m, u # m PROVE sum[u] = H(u)[u]
  <2>1. IsSum(f, u, H(u))
    BY <1>4, <1>5
  <2> HIDE DEF H
  <2>2. CASE u = {}
    <3>1. H(u)[u] = 0
      BY <2>1, <2>2 DEF IsSum
    <3> QED BY <3>1, <2>2
  <2>3. CASE u # {}
    <3>1. Pick(u) \in u
      BY <2>3, PickIs
    <3>2. Rest(u) \in SUBSET u /\ Rest(u) \in SUBSET m /\ Rest(u) # m
      BY <3>1, <1>5
    <3>3. IsSum(f, Rest(u), H(Rest(u)))
      BY <3>2, <1>4 DEF H
    <3>4. H(u)[Rest(u)] = H(Rest(u))[Rest(u)]
      <4>1. u \in SUBSET S /\ Rest(u) \in SUBSET S /\ Rest(u) \in SUBSET (u \cap Rest(u))
        BY <3>2, <1>3
      <4> DEFINE v == Rest(u)
                 g == H(u)
                 k == H(v)
      <4>2. /\ u \in SUBSET S /\ v \in SUBSET S /\ v \in SUBSET (u \cap v)
            /\ IsSum(f, u, g) /\ IsSum(f, v, k) /\ Agree(f, f, v)
        BY <4>1, <2>1, <3>3 DEF Agree
      <4> HIDE DEF v, g, k
      <4>3. g[v] = k[v]
        BY <4>2, SumsAgree
      <4> QED BY <4>3 DEF v, g, k
    <3>5. H(u)[u] = f[Pick(u)] + H(u)[Rest(u)]
      BY <2>1, <2>3 DEF IsSum
    <3>6. sum[u] = f[Pick(u)] + H(Rest(u))[Rest(u)]
      BY <2>3
    <3> QED BY <3>4, <3>5, <3>6
  <2> QED BY <2>2, <2>3
<1> HIDE DEF H
<1>6. ASSUME NEW s \in SUBSET m
      PROVE  sum[s] = IF s = {} THEN 0 ELSE f[Pick(s)] + sum[s \ {Pick(s)}]
  <2>1. CASE s = {}
    BY <2>1
  <2>2. CASE s # {}
    <3>1. Rest(s) \in SUBSET m /\ Rest(s) # m
      BY <2>2, PickIs
    <3>2. sum[Rest(s)] = H(Rest(s))[Rest(s)]
      BY <3>1, <1>5
    <3> QED BY <3>2, <2>2
  <2> QED BY <2>1, <2>2
<1>7. IsSum(f, m, sum)
  <2> HIDE DEF sum
  <2> QED BY <1>6 DEF IsSum
<1> QED BY <1>7

\* SumFunction computes such a sum.
LEMMA SumFunctionIs ==
    ASSUME NEW S, IsFiniteSet(S), NEW f, DOMAIN f = S
    PROVE  \E g : IsSum(f, S, g) /\ SumFunction(f) = g[S]
<1> DEFINE Step(g, s) == IF s = {} THEN 0
                         ELSE f[CHOOSE x \in s : TRUE] + g[s \ {CHOOSE x \in s : TRUE}]
           iter == CHOOSE g : g = [s \in SUBSET S |-> Step(g, s)]
<1>1. SumFunction(f) = iter[S]
  BY DEF SumFunction, SumFunctionOnSet, FoldFunctionOnSet, MapThenFoldSet
<1>2. PICK h : IsSum(f, S, h)
  BY SumsExist
<1> DEFINE g0 == [s \in SUBSET S |-> h[s]]
<1>3. g0 = [s \in SUBSET S |-> Step(g0, s)]
  <2>1. ASSUME NEW s \in SUBSET S PROVE g0[s] = Step(g0, s)
    BY <1>2 DEF IsSum, Pick
  <2> QED BY <2>1
<1>4. iter = [s \in SUBSET S |-> Step(iter, s)]
  <2> HIDE DEF g0, Step
  <2> QED BY <1>3
<1>5. IsSum(f, S, iter)
  <2>1. ASSUME NEW s \in SUBSET S PROVE iter[s] = Step(iter, s)
    <3> HIDE DEF iter, Step
    <3> QED BY <1>4
  <2> HIDE DEF iter
  <2> QED BY <2>1 DEF IsSum, Pick
<1> HIDE DEF iter
<1> QED BY <1>1, <1>5

\* Partial sums of numbers are numbers.
LEMMA SumsAreNat ==
    ASSUME NEW S, IsFiniteSet(S), NEW f \in [S -> Nat], NEW g, IsSum(f, S, g),
           NEW T \in SUBSET S
    PROVE  g[T] \in Nat
<1> DEFINE P == {s \in SUBSET S : g[s] \notin Nat}
<1> SUFFICES ASSUME P # {} PROVE FALSE
  OBVIOUS
<1>1. P \in SUBSET (SUBSET S)
  OBVIOUS
<1>2. PICK m \in P : \A s \in P : s \subseteq m => s = m
  <2> HIDE DEF P
  <2> QED BY <1>1, MinimalSubset
<1>3. m \in SUBSET S /\ g[m] \notin Nat
  OBVIOUS
<1>4. m # {}
  <2>1. {} \in SUBSET S /\ g[{}] = 0
    BY DEF IsSum
  <2> QED BY <2>1, <1>3
<1>5. Pick(m) \in m
  BY <1>4, PickIs
<1> DEFINE u == m \ {Pick(m)}
<1>6. g[u] \in Nat
  <2>1. u \in SUBSET S /\ u \subseteq m /\ u # m
    BY <1>3, <1>5
  <2> QED BY <2>1, <1>2
<1>7. g[m] = f[Pick(m)] + g[u]
  BY <1>3, <1>4 DEF IsSum
<1>8. f[Pick(m)] \in Nat
  BY <1>3, <1>5
<1> HIDE DEF u
<1> QED BY <1>3, <1>6, <1>7, <1>8

\* The order in which the values are added does not matter: any one may come last.
LEMMA SumsLastIsAny ==
    ASSUME NEW S, IsFiniteSet(S), NEW f \in [S -> Nat], NEW g, IsSum(f, S, g),
           NEW T \in SUBSET S, NEW x \in T
    PROVE  g[T] = f[x] + g[T \ {x}]
<1> DEFINE P == {s \in SUBSET S : \E y \in s : g[s] # f[y] + g[s \ {y}]}
<1> SUFFICES ASSUME P # {} PROVE FALSE
  OBVIOUS
<1>1. P \in SUBSET (SUBSET S)
  OBVIOUS
<1>2. PICK m \in P : \A s \in P : s \subseteq m => s = m
  <2> HIDE DEF P
  <2> QED BY <1>1, MinimalSubset
<1>3. PICK y \in m : g[m] # f[y] + g[m \ {y}]
  OBVIOUS
<1>4. m \in SUBSET S /\ m # {}
  OBVIOUS
<1> DEFINE p == Pick(m)
<1>5. p \in m
  BY <1>4, PickIs
<1>6. g[m] = f[p] + g[m \ {p}]
  BY <1>4 DEF IsSum
<1> HIDE DEF p
<1>7. p # y
  BY <1>3, <1>6
<1> DEFINE both == m \ {p, y}
<1>8. \A s \in SUBSET m : s # m => \A z \in s : g[s] = f[z] + g[s \ {z}]
  BY <1>2, <1>4
<1>9. g[m \ {p}] = f[y] + g[both]
  <2>1. m \ {p} \in SUBSET m /\ m \ {p} # m /\ y \in m \ {p} /\ (m \ {p}) \ {y} = both
    BY <1>3, <1>5, <1>7
  <2> HIDE DEF P, both
  <2> QED BY <2>1, <1>8
<1>10. g[m \ {y}] = f[p] + g[both]
  <2>1. m \ {y} \in SUBSET m /\ m \ {y} # m /\ p \in m \ {y} /\ (m \ {y}) \ {p} = both
    BY <1>3, <1>5, <1>7
  <2> HIDE DEF P, both
  <2> QED BY <2>1, <1>8
<1>11. f[p] \in Nat /\ f[y] \in Nat /\ g[both] \in Nat
  <2>1. p \in S /\ y \in S /\ both \in SUBSET S
    BY <1>3, <1>4, <1>5
  <2> HIDE DEF P, both
  <2> QED BY <2>1, SumsAreNat
<1> HIDE DEF P, both
<1> QED BY <1>3, <1>6, <1>9, <1>10, <1>11

\* A sum of numbers is a number.
LEMMA SumIsNat ==
    ASSUME NEW S, IsFiniteSet(S), NEW f \in [S -> Nat]
    PROVE  SumFunction(f) \in Nat
<1>1. PICK g : IsSum(f, S, g) /\ SumFunction(f) = g[S]
  BY SumFunctionIs
<1>2. S \in SUBSET S
  OBVIOUS
<1> QED BY <1>1, <1>2, SumsAreNat

\* The empty sum.
LEMMA SumOfNothing ==
    ASSUME NEW f, DOMAIN f = {}
    PROVE  SumFunction(f) = 0
<1>1. IsFiniteSet({})
  BY FS_EmptySet
<1>2. PICK g : IsSum(f, {}, g) /\ SumFunction(f) = g[{}]
  BY <1>1, SumFunctionIs
<1> QED BY <1>2 DEF IsSum

\* One more index adds one more value.
LEMMA SumExtended ==
    ASSUME NEW S, IsFiniteSet(S), NEW x, x \notin S, NEW f \in [S -> Nat],
           NEW h \in [S \cup {x} -> Nat], Agree(h, f, S)
    PROVE  SumFunction(h) = SumFunction(f) + h[x]
<1> DEFINE X == S \cup {x}
<1>1. IsFiniteSet(X) /\ S \in SUBSET X /\ S \in SUBSET S /\ X \in SUBSET X /\ X \ {x} = S /\ x \in X
  BY FS_AddElement
<1>2. DOMAIN f = S /\ DOMAIN h = X /\ h \in [X -> Nat]
  OBVIOUS
<1> HIDE DEF X
<1>3. PICK g : IsSum(f, S, g) /\ SumFunction(f) = g[S]
  BY <1>2, SumFunctionIs
<1>4. PICK k : IsSum(h, X, k) /\ SumFunction(h) = k[X]
  BY <1>1, <1>2, SumFunctionIs
<1>5. k[X] = h[x] + k[S]
  <2>1. IsFiniteSet(X) /\ h \in [X -> Nat] /\ IsSum(h, X, k) /\ X \in SUBSET X /\ x \in X
    BY <1>1, <1>2, <1>4
  <2>2. ASSUME NEW Y, IsFiniteSet(Y), h \in [Y -> Nat], IsSum(h, Y, k), x \in Y, Y \in SUBSET Y
        PROVE  k[Y] = h[x] + k[Y \ {x}]
    BY ONLY <2>2, SumsLastIsAny
  <2>3. k[X] = h[x] + k[X \ {x}]
    BY <2>1, <2>2
  <2> QED BY <2>3, <1>1
<1>6. k[S] = g[S]
  <2>1. S \in SUBSET (X \cap S)
    BY <1>1
  <2> QED BY <2>1, <1>1, <1>3, <1>4, SumsAgree
<1>7. g[S] \in Nat /\ h[x] \in Nat
  BY <1>1, <1>2, <1>3, SumsAreNat
<1> QED BY <1>3, <1>4, <1>5, <1>6, <1>7

\* Changing the value at one index changes the sum by as much, and no value is
\* larger than the sum.
LEMMA SumChanged ==
    ASSUME NEW S, IsFiniteSet(S), NEW x \in S, NEW f \in [S -> Nat], NEW h \in [S -> Nat],
           Agree(h, f, S \ {x})
    PROVE  /\ SumFunction(h) = SumFunction(f) - f[x] + h[x]
           /\ f[x] <= SumFunction(f)
           /\ SumFunction(f) \in Nat
<1> DEFINE R == S \ {x}
           r == [y \in R |-> f[y]]
<1>1. IsFiniteSet(R) /\ x \notin R /\ S = R \cup {x} /\ r \in [R -> Nat]
  BY FS_RemoveElement
<1>2. Agree(f, r, R) /\ Agree(h, r, R)
  BY DEF Agree
<1> HIDE DEF R, r
<1>3. SumFunction(f) = SumFunction(r) + f[x]
  BY <1>1, <1>2, SumExtended
<1>4. SumFunction(h) = SumFunction(r) + h[x]
  BY <1>1, <1>2, SumExtended
<1>5. SumFunction(r) \in Nat /\ f[x] \in Nat /\ h[x] \in Nat
  BY <1>1, SumIsNat
<1> QED BY <1>3, <1>4, <1>5

-----------------------------------------------------------------------------
(* The core: its inductive invariant.                                      *)

Asset == [chunks : Seq(Chunks), size : Nat]
Upload == [chunks : Seq(Chunks), bytes : Nat, seq : Nat \cup {-1}]

\* The sizes kept beside the chunks are theirs, and an upload in flight has
\* freed the asset it replaces.
SizesCounted ==
    \A n \in Assets :
        /\ assets[n].size = SizeOf(assets[n].chunks)
        /\ pending[n].bytes = SizeOf(pending[n].chunks)
        /\ Inflight(n) => assets[n].size = 0

WholeAsset(n) ==
    /\ Consecutive(assets[n].chunks)
    /\ \A i \in DOMAIN assets[n].chunks :
          assets[n].chunks[i].last <=> i = Len(assets[n].chunks)

\* What is in flight is the beginning of one upload, and its name is not blocked.
UploadBegun(n) ==
    /\ Consecutive(pending[n].chunks)
    /\ \A i \in DOMAIN pending[n].chunks : ~pending[n].chunks[i].last
    /\ pending[n].chunks = <<>> => ~Inflight(n)
    /\ Inflight(n) => n \notin poisoned

\* A numbered upload knows its next seq, and is the one being shipped unless that
\* one has not begun to arrive.
NumberedUpload(n) ==
    Inflight(n) =>
        /\ pending[n].seq = Len(pending[n].chunks) - 1
        /\ sender[n].sent = 0 \/ pending[n].chunks[1].upload = sender[n].upload

\* An upload without numbers has received all that was shipped of it, or nothing
\* more of it is accepted.
PlainUpload(n) ==
    /\ pending[n].seq = NoSeq
    /\ Inflight(n) => /\ ~Sent(n)
                      /\ sender[n].sent = Len(pending[n].chunks)
                      /\ pending[n].chunks[1].upload = sender[n].upload
    /\ ~Inflight(n) => Sent(n) \/ sender[n].sent = 0 \/ n \in poisoned

NameOK(n) ==
    /\ WholeAsset(n)
    /\ UploadBegun(n)
    /\ n \in Numbered => NumberedUpload(n)
    /\ n \notin Numbered => PlainUpload(n)

NamesOK == \A n \in Assets : NameOK(n)

IInv == TypeOK /\ UsageIsExact /\ SizesCounted /\ NamesOK

-----------------------------------------------------------------------------
(* The bytes that are held.                                                *)

\* No chunks have no size.
LEMMA SizeOfNone == SizeOf(<<>>) = 0
<1> DEFINE f == [i \in DOMAIN <<>> |-> <<>>[i].size]
<1>1. DOMAIN f = {}
  OBVIOUS
<1> HIDE DEF f
<1>2. SumFunction(f) = 0
  BY <1>1, SumOfNothing
<1> QED BY <1>2 DEF SizeOf, f

\* One more chunk adds its size.
LEMMA SizeOfSome ==
    ASSUME NEW q \in Seq(Chunks), NEW c \in Chunks
    PROVE  /\ SizeOf(q) \in Nat
           /\ SizeOf(Append(q, c)) = SizeOf(q) + c.size
<1> DEFINE S == DOMAIN q
           r == Append(q, c)
           x == Len(q) + 1
           f == [i \in S |-> q[i].size]
           h == [i \in S \cup {x} |-> r[i].size]
<1>1. Len(q) \in Nat /\ S = 1 .. Len(q) /\ DOMAIN r = 1 .. Len(q) + 1
  OBVIOUS
<1>2. IsFiniteSet(S) /\ x \notin S /\ DOMAIN r = S \cup {x}
  <2>1. IsFiniteSet(1 .. Len(q))
    BY <1>1, FS_Interval
  <2> QED BY <1>1, <2>1
<1>3. r[x] = c /\ \A i \in S : q[i] \in Chunks /\ r[i] = q[i]
  BY <1>1
<1>4. \A e \in Chunks : e.size \in Nat
  BY SizeAssumption DEF Chunks
<1>5. f \in [S -> Nat] /\ h \in [S \cup {x} -> Nat]
  <2>1. \A i \in S \cup {x} : r[i] \in Chunks
    BY <1>3
  <2>2. \A i \in S : q[i].size \in Nat
    BY <1>3, <1>4
  <2>3. \A i \in S \cup {x} : r[i].size \in Nat
    BY <2>1, <1>4
  <2> HIDE DEF S, x, r
  <2> QED BY <2>2, <2>3
<1>6. h[x] = c.size /\ Agree(h, f, S)
  BY <1>3 DEF Agree
<1>7. SizeOf(q) = SumFunction(f) /\ SizeOf(r) = SumFunction(h)
  BY <1>2 DEF SizeOf
<1> HIDE DEF S, r, x, f, h
<1>8. SumFunction(f) \in Nat
  BY <1>2, <1>5, SumIsNat
<1>9. SumFunction(h) = SumFunction(f) + h[x]
  BY <1>2, <1>5, <1>6, SumExtended
<1> QED BY <1>6, <1>7, <1>8, <1>9 DEF r

\* No name holds more than usage.
LEMMA HeldIsCounted ==
    ASSUME TypeOK, UsageIsExact, SizesCounted, NEW n \in Assets
    PROVE  /\ assets[n].size \in Nat
           /\ pending[n].bytes \in Nat
           /\ assets[n].size + pending[n].bytes <= usage
<1> DEFINE f == [m \in Assets |-> Held(m)]
<1>1. \A m \in Assets : /\ assets[m] \in Asset
                        /\ pending[m] \in Upload
                        /\ Held(m) = assets[m].size + pending[m].bytes
  BY DEF TypeOK, SizesCounted, Held, Asset, Upload
<1>2. \A m \in Assets : /\ assets[m].size \in Nat
                        /\ pending[m].bytes \in Nat
                        /\ Held(m) = assets[m].size + pending[m].bytes
  BY <1>1 DEF Asset, Upload
<1>3. \A m \in Assets : Held(m) \in Nat
  BY <1>2
<1>4. f \in [Assets -> Nat] /\ f[n] = Held(n)
  BY <1>3
<1>5. usage = SumFunction(f)
  BY DEF UsageIsExact
<1> HIDE DEF f
<1>6. f[n] <= SumFunction(f)
  <2>1. Agree(f, f, Assets \ {n})
    BY DEF Agree
  <2> QED BY <2>1, <1>4, AssetsAssumption, SumChanged
<1> QED BY <1>2, <1>4, <1>5, <1>6

\* What an operation does to one name, if usage changes by as much, is counted.
LEMMA ChangeIsCounted ==
    ASSUME TypeOK, UsageIsExact, SizesCounted,
           NEW n \in Assets, NEW a \in Asset, NEW u \in Upload,
           a.size = SizeOf(a.chunks), u.bytes = SizeOf(u.chunks), u = NoUpload \/ a.size = 0,
           assets' = [assets EXCEPT ![n] = a], pending' = [pending EXCEPT ![n] = u],
           usage' = usage - (assets[n].size + pending[n].bytes) + (a.size + u.bytes),
           usage' <= Capacity
    PROVE  /\ usage' \in Nat
           /\ assets' \in [Assets -> Asset]
           /\ pending' \in [Assets -> Upload]
           /\ UsageIsExact'
           /\ SizesCounted'
<1> DEFINE f == [m \in Assets |-> Held(m)]
           h == [m \in Assets |-> Held(m)']
<1>1. /\ assets \in [Assets -> Asset] /\ pending \in [Assets -> Upload]
      /\ assets' \in [Assets -> Asset] /\ pending' \in [Assets -> Upload]
      /\ assets'[n] = a /\ pending'[n] = u
      /\ \A m \in Assets : m # n => assets'[m] = assets[m] /\ pending'[m] = pending[m]
  BY DEF TypeOK, Asset, Upload
<1>2. SizesCounted'
  BY <1>1 DEF SizesCounted, Inflight
<1>3. \A m \in Assets : /\ assets[m].size \in Nat /\ pending[m].bytes \in Nat
                        /\ assets'[m].size \in Nat /\ pending'[m].bytes \in Nat
  BY <1>1 DEF Asset, Upload
<1>4. \A m \in Assets : /\ Held(m) = assets[m].size + pending[m].bytes
                        /\ Held(m)' = assets'[m].size + pending'[m].bytes
  BY <1>2 DEF SizesCounted, Held
<1>5. f \in [Assets -> Nat] /\ h \in [Assets -> Nat]
  BY <1>3, <1>4
<1>6. Agree(h, f, Assets \ {n})
  BY <1>1 DEF Held, Agree
<1>7. f[n] = assets[n].size + pending[n].bytes /\ h[n] = a.size + u.bytes
  BY <1>1, <1>4
<1>8. usage = SumFunction(f)
  BY DEF UsageIsExact
<1> HIDE DEF f, h
<1>9. SumFunction(h) = SumFunction(f) - f[n] + h[n]
  BY <1>5, <1>6, AssetsAssumption, SumChanged
<1>10. SumFunction(h) \in Nat
  BY <1>5, AssetsAssumption, SumIsNat
<1>11. usage' = SumFunction(h)
  BY <1>7, <1>8, <1>9
<1>12. UsageIsExact'
  BY <1>11 DEF UsageIsExact, h
<1> QED BY <1>1, <1>2, <1>10, <1>11, <1>12

-----------------------------------------------------------------------------
(* The core: steps.                                                        *)

\* What is absent is typed and counts for nothing.
LEMMA Empties ==
    /\ NoAsset \in Asset /\ NoUpload \in Upload
    /\ NoAsset.size = 0 /\ NoAsset.chunks = <<>>
    /\ NoUpload.bytes = 0 /\ NoUpload.chunks = <<>> /\ NoUpload.seq = NoSeq
    /\ SizeOf(<<>>) = 0
BY SizeOfNone DEF NoAsset, NoUpload, NoSeq, Asset, Upload

\* TypeOK, unfolded for the store.
LEMMA StoreTyped ==
    ASSUME TypeOK
    PROVE  /\ assets \in [Assets -> Asset] /\ pending \in [Assets -> Upload]
           /\ poisoned \in SUBSET Assets /\ usage \in Nat
           /\ \A m \in Assets : sender[m].upload \in Nat /\ sender[m].length \in Nat
                                /\ sender[m].sent \in Nat
BY BoundAssumption DEF TypeOK, Asset, Upload

\* The invariant holds of the empty surface.
LEMMA CoreInit == Init => IInv
<1> SUFFICES ASSUME Init PROVE IInv
  OBVIOUS
<1>1. \A n \in Assets : /\ assets[n] = NoAsset /\ pending[n] = NoUpload
                        /\ sender[n] = [upload |-> 0, length |-> 0, sent |-> 0]
  BY DEF Init
<1>2. TypeOK
  <2>1. assets \in [Assets -> Asset] /\ pending \in [Assets -> Upload]
    BY Empties DEF Init
  <2>2. sender \in [Assets -> [upload : 0 .. MaxUploads, length : Nat, sent : Nat]]
    BY BoundAssumption DEF Init
  <2> QED BY <2>1, <2>2 DEF Init, TypeOK, Asset, Upload
<1>3. SizesCounted
  BY <1>1, Empties DEF SizesCounted, Inflight
<1>4. UsageIsExact
  <2> DEFINE f == [n \in Assets |-> Held(n)]
             z == [n \in Assets |-> 0]
  <2>1. \A n \in Assets : Held(n) = 0
    BY <1>1, Empties DEF Held
  <2>2. f = z
    BY <2>1
  <2>3. SumFunction(z) = 0
    <3>1. PICK g : IsSum(z, Assets, g) /\ SumFunction(z) = g[Assets]
      BY AssetsAssumption, SumFunctionIs
    <3>2. IsSum(z, Assets, [T \in SUBSET Assets |-> 0])
      <4>1. \A T \in SUBSET Assets : T # {} => Pick(T) \in Assets
        BY PickIs
      <4> QED BY <4>1 DEF IsSum
    <3>3. Agree(z, z, Assets) /\ Assets \in SUBSET (Assets \cap Assets)
      BY DEF Agree
    <3> DEFINE k == [T \in SUBSET Assets |-> 0]
    <3>4. IsSum(z, Assets, k) /\ k[Assets] = 0
      BY <3>2
    <3> HIDE DEF z, k
    <3>5. g[Assets] = k[Assets]
      BY <3>1, <3>3, <3>4, AssetsAssumption, SumsAgree
    <3> QED BY <3>1, <3>4, <3>5
  <2>4. usage = SumFunction(f)
    BY <2>2, <2>3 DEF Init
  <2> QED BY <2>4, SizeAssumption DEF UsageIsExact, Init
<1>5. NamesOK
  <2> SUFFICES ASSUME NEW n \in Assets PROVE NameOK(n)
    BY DEF NamesOK
  <2>1. WholeAsset(n) /\ UploadBegun(n)
    BY <1>1, Empties DEF WholeAsset, UploadBegun, Consecutive, Inflight
  <2>2. NumberedUpload(n) /\ PlainUpload(n)
    BY <1>1, Empties DEF NumberedUpload, PlainUpload, Inflight, Sent
  <2> QED BY <2>1, <2>2 DEF NameOK
<1> QED BY <1>2, <1>3, <1>4, <1>5 DEF IInv

\* The chunk that is taken is the next one of the upload in flight.
NextChunk(n, c) ==
    /\ c.upload = sender[n].upload
    /\ c.place = Len(pending[n].chunks)
    /\ pending[n].chunks # <<>> => pending[n].chunks[1].upload = c.upload

\* A chunk that is next keeps what is in flight one upload, in order.
LEMMA NextChunkExtends ==
    ASSUME NEW q \in Seq(Chunks), Consecutive(q), NEW c \in Chunks, c.place = Len(q),
           q # <<>> => q[1].upload = c.upload,
           \A i \in DOMAIN q : ~q[i].last
    PROVE  /\ Append(q, c) \in Seq(Chunks)
           /\ Len(Append(q, c)) = Len(q) + 1
           /\ Append(q, c) # <<>>
           /\ Consecutive(Append(q, c))
           /\ Append(q, c)[1].upload = c.upload
           /\ \A i \in DOMAIN Append(q, c) : Append(q, c)[i].last <=> (c.last /\ i = Len(q) + 1)
<1> DEFINE r == Append(q, c)
           x == Len(q) + 1
<1>1. /\ Len(q) \in Nat /\ x \in Nat /\ r \in Seq(Chunks) /\ Len(r) = x
      /\ DOMAIN q = 1 .. Len(q) /\ DOMAIN r = 1 .. x
  OBVIOUS
<1>2. r[x] = c /\ \A i \in 1 .. Len(q) : r[i] = q[i]
  BY <1>1
<1>3. \A i \in 1 .. x : i = x \/ i \in 1 .. Len(q)
  BY <1>1
<1>4. \A i \in 1 .. Len(q) : q[i].place = i - 1 /\ q[i].upload = q[1].upload /\ ~q[i].last
  BY <1>1 DEF Consecutive
<1>5. r[1].upload = c.upload
  <2>1. CASE q = <<>>
    BY <2>1, <1>2
  <2>2. CASE q # <<>>
    <3>1. 1 \in 1 .. Len(q)
      BY <1>1, <2>2
    <3> QED BY <3>1, <2>2, <1>2
  <2> QED BY <2>1, <2>2
<1>6. \A i \in 1 .. Len(q) : q[i].upload = c.upload
  <2>1. ASSUME NEW i \in 1 .. Len(q) PROVE q[1].upload = c.upload
    BY <1>1
  <2> QED BY <2>1, <1>4
<1>7. \A i \in 1 .. Len(q) : i # x
  BY <1>1
<1>8. c.place = x - 1
  BY <1>1
<1> HIDE DEF r, x
<1>9. Consecutive(r)
  BY <1>1, <1>2, <1>3, <1>4, <1>5, <1>6, <1>8 DEF Consecutive
<1>10. \A i \in DOMAIN r : r[i].last <=> (c.last /\ i = x)
  <2>1. \A e \in Chunks : e.last \in BOOLEAN
    BY DEF Chunks
  <2> QED BY <1>1, <1>2, <1>3, <1>4, <1>7, <2>1
<1>11. r # <<>>
  <2>1. Len(r) # 0
    BY <1>1 DEF x
  <2>2. Len(<<>>) = 0
    OBVIOUS
  <2> QED BY <2>1, <2>2
<1> QED BY <1>1, <1>5, <1>9, <1>10, <1>11 DEF r, x

\* What an operation on n does not touch stays right.
LEMMA OthersKeep ==
    ASSUME NEW m \in Assets, NameOK(m), assets'[m] = assets[m], pending'[m] = pending[m],
           sender'[m] = sender[m], (m \in poisoned') <=> (m \in poisoned)
    PROVE  NameOK(m)'
<1>1. WholeAsset(m)' <=> WholeAsset(m)
  BY DEF WholeAsset
<1>2. UploadBegun(m)' <=> UploadBegun(m)
  BY DEF UploadBegun, Inflight
<1>3. NumberedUpload(m)' <=> NumberedUpload(m)
  BY DEF NumberedUpload, Inflight
<1>4. PlainUpload(m)' <=> PlainUpload(m)
  BY DEF PlainUpload, Inflight, Sent
<1> QED BY <1>1, <1>2, <1>3, <1>4 DEF NameOK

\* What arrives is a chunk of the upload being shipped, with its seq or none.
Arriving(n, i) ==
    {c \in Chunks : /\ c.upload = sender[n].upload
                    /\ c.place = i
                    /\ c.last <=> i = sender[n].length - 1}

SeqOf(n, i) == IF n \in Numbered THEN i ELSE NoSeq

\* The place that arrives: the next to ship, or the one shipped last once more.
Placed(n, i) ==
    \/ ~Sent(n) /\ i = sender[n].sent
    \/ n \in Numbered /\ sender[n].sent > 0 /\ i = sender[n].sent - 1

\* A chunk that arrives is registered under the number it was sent with.
LEMMA ArrivesIs ==
    ASSUME TypeOK, NEW n \in Assets, NEW i, Placed(n, i), Arrives(n, i)
    PROVE  /\ i \in Nat
           /\ \E c \in Arriving(n, i) : RegisterAsset(n, c, SeqOf(n, i))
<1>1. sender[n].upload \in Nat /\ sender[n].length \in Nat /\ sender[n].sent \in Nat
  BY StoreTyped
<1>2. i \in Nat
  BY <1>1 DEF Placed
<1>3. PICK size \in Sizes :
        RegisterAsset(n,
            [upload |-> sender[n].upload, place |-> i, size |-> size,
             last |-> i = sender[n].length - 1], SeqOf(n, i))
  BY DEF Arrives, SeqOf
<1>4. [upload |-> sender[n].upload, place |-> i, size |-> size,
       last |-> i = sender[n].length - 1] \in Arriving(n, i)
  BY <1>1, <1>2 DEF Arriving, Chunks
<1> QED BY <1>2, <1>3, <1>4

\* A chunk that is accepted is the next one of its upload.
LEMMA AcceptedIsNext ==
    ASSUME TypeOK, NEW n \in Assets, NameOK(n), NEW i, Placed(n, i),
           NEW c \in Arriving(n, i),
           ~Shut(n, SeqOf(n, i)), ~Unacceptable(n, c, SeqOf(n, i))
    PROVE  /\ NextChunk(n, c)
           /\ SeqOf(n, i) # NoSeq => SeqOf(n, i) = Len(pending[n].chunks)
<1>1. /\ sender[n].upload \in Nat /\ sender[n].length \in Nat /\ sender[n].sent \in Nat
      /\ pending[n].chunks \in Seq(Chunks)
  BY StoreTyped DEF Upload
<1>2. i \in Nat
  BY <1>1 DEF Placed
<1>3. c.upload = sender[n].upload /\ c.place = i
  BY DEF Arriving
<1>4. Inflight(n) => pending[n].chunks # <<>>
  BY DEF NameOK, UploadBegun
<1>5. ~Inflight(n) => pending[n].chunks = <<>> /\ pending[n].seq = -1
  BY DEF Inflight, NoUpload
<1>6. pending[n].chunks # <<>> <=> Inflight(n)
  BY <1>4, <1>5
<1>7. Len(pending[n].chunks) \in Nat /\ (Len(pending[n].chunks) = 0 <=> ~Inflight(n))
  BY <1>1, <1>6
<1>8. CASE n \in Numbered
  <2>1. SeqOf(n, i) = i /\ i = pending[n].seq + 1
    BY <1>8, <1>2 DEF SeqOf, Unacceptable, NoSeq
  <2>2. CASE Inflight(n)
    <3>1. /\ pending[n].seq = Len(pending[n].chunks) - 1
          /\ sender[n].sent = 0 \/ pending[n].chunks[1].upload = sender[n].upload
      BY <1>8, <2>2 DEF NameOK, NumberedUpload
    <3>2. i = Len(pending[n].chunks)
      BY <1>7, <2>1, <3>1
    <3>3. sender[n].sent # 0
      BY <1>1, <1>7, <2>2, <3>2 DEF Placed
    <3> QED BY <1>3, <2>1, <3>1, <3>2, <3>3 DEF NextChunk
  <2>3. CASE ~Inflight(n)
    <3>1. i = Len(pending[n].chunks)
      BY <1>5, <1>7, <2>1, <2>3
    <3> QED BY <1>3, <1>6, <2>1, <2>3, <3>1 DEF NextChunk
  <2> QED BY <2>2, <2>3
<1>9. CASE n \notin Numbered
  <2>1. SeqOf(n, i) = NoSeq /\ ~Sent(n) /\ i = sender[n].sent
    BY <1>9 DEF SeqOf, Placed
  <2>2. n \notin poisoned
    BY <2>1 DEF Shut, NoSeq
  <2>3. PlainUpload(n)
    BY <1>9 DEF NameOK
  <2>4. CASE Inflight(n)
    BY <1>3, <2>1, <2>3, <2>4 DEF PlainUpload, NextChunk
  <2>5. CASE ~Inflight(n)
    <3>1. i = Len(pending[n].chunks)
      BY <1>7, <2>1, <2>2, <2>3, <2>5 DEF PlainUpload
    <3> QED BY <1>3, <1>6, <2>1, <2>5, <3>1 DEF NextChunk
  <2> QED BY <2>4, <2>5
<1> QED BY <1>8, <1>9

\* What register_asset may do to its name, and that it leaves the others alone.
ShutOut(n) ==
    /\ n \in poisoned
    /\ assets'[n] = assets[n] /\ pending'[n] = pending[n] /\ n \in poisoned'

Aborted(n) == assets'[n] = assets[n] /\ pending'[n] = NoUpload /\ n \in poisoned'

Accepted(n, c, seq) ==
    /\ NextChunk(n, c)
    /\ seq # NoSeq => seq = Len(pending[n].chunks)
    /\ n \notin poisoned'
    /\ \/ /\ c.last
          /\ assets'[n].chunks = Append(pending[n].chunks, c)
          /\ pending'[n] = NoUpload
       \/ /\ ~c.last
          /\ assets'[n] = NoAsset \/ assets'[n] = assets[n]
          /\ pending'[n] = Extended(n, c, seq)

OthersAlone(n) ==
    \A m \in Assets \ {n} : /\ assets'[m] = assets[m] /\ pending'[m] = pending[m]
                            /\ (m \in poisoned') <=> (m \in poisoned)

StoreKept ==
    /\ assets' \in [Assets -> Asset] /\ pending' \in [Assets -> Upload]
    /\ poisoned' \in SUBSET Assets /\ usage' \in Nat
    /\ UsageIsExact' /\ SizesCounted'

\* A step that leaves the store alone keeps what is said of it.
LEMMA UnchangedStoreKept ==
    ASSUME TypeOK, UsageIsExact, SizesCounted, UNCHANGED store
    PROVE  StoreKept
<1>1. assets' = assets /\ pending' = pending /\ poisoned' = poisoned /\ usage' = usage
  BY DEF store
<1>2. UsageIsExact'
  <2>1. \A n \in Assets : Held(n)' = Held(n)
    BY <1>1 DEF Held
  <2> DEFINE f == [n \in Assets |-> Held(n)]
             h == [n \in Assets |-> Held(n)']
  <2>2. h = f
    BY <2>1
  <2>3. usage = SumFunction(f) /\ usage <= Capacity
    BY DEF UsageIsExact
  <2>4. usage' = SumFunction(h) /\ usage' <= Capacity
    BY <1>1, <2>2, <2>3
  <2> QED BY <2>4 DEF UsageIsExact
<1>3. SizesCounted'
  BY <1>1 DEF SizesCounted, Inflight
<1> QED BY <1>1, <1>2, <1>3, StoreTyped DEF StoreKept

\* An abort gives back what the upload had counted.
LEMMA AbortIs ==
    ASSUME TypeOK, UsageIsExact, SizesCounted, NEW n \in Assets, Abort(n)
    PROVE  StoreKept /\ OthersAlone(n) /\ Aborted(n)
<1> DEFINE a == assets[n]
<1>1. a \in Asset /\ a.size = SizeOf(a.chunks) /\ assets' = [assets EXCEPT ![n] = a]
  BY StoreTyped DEF SizesCounted, Abort
<1>2. /\ NoUpload \in Upload /\ NoUpload.bytes = SizeOf(NoUpload.chunks) /\ NoUpload.bytes = 0
      /\ pending' = [pending EXCEPT ![n] = NoUpload]
  BY Empties DEF Abort
<1>3. usage \in Nat /\ a.size \in Nat /\ pending[n].bytes \in Nat
      /\ a.size + pending[n].bytes <= usage /\ usage <= Capacity /\ Capacity \in Nat
  BY HeldIsCounted, StoreTyped, SizeAssumption DEF UsageIsExact
<1>4. usage' = usage - pending[n].bytes
  BY <1>3 DEF Abort, Clamped
<1> HIDE DEF a
<1>5. /\ usage' = usage - (a.size + pending[n].bytes) + (a.size + NoUpload.bytes)
      /\ usage' <= Capacity
  BY <1>2, <1>3, <1>4
<1>6. /\ usage' \in Nat /\ assets' \in [Assets -> Asset] /\ pending' \in [Assets -> Upload]
      /\ UsageIsExact' /\ SizesCounted'
  <2>1. usage' = usage - (assets[n].size + pending[n].bytes) + (a.size + NoUpload.bytes)
    BY <1>5 DEF a
  <2> QED BY <1>1, <1>2, <1>5, <2>1, ChangeIsCounted
<1>7. OthersAlone(n) /\ Aborted(n) /\ poisoned' \in SUBSET Assets
  BY StoreTyped DEF Abort, OthersAlone, Aborted
<1> QED BY <1>6, <1>7 DEF StoreKept

\* An unregistration gives back what the asset and its upload had counted.
LEMMA UnregisterIs ==
    ASSUME TypeOK, UsageIsExact, SizesCounted, NEW n \in Assets, UnregisterAsset(n)
    PROVE  /\ StoreKept /\ OthersAlone(n)
           /\ assets'[n] = NoAsset /\ pending'[n] = NoUpload
<1>1. NoAsset \in Asset /\ NoAsset.size = SizeOf(NoAsset.chunks) /\ NoAsset.size = 0
      /\ assets' = [assets EXCEPT ![n] = NoAsset]
  BY Empties DEF UnregisterAsset
<1>2. /\ NoUpload \in Upload /\ NoUpload.bytes = SizeOf(NoUpload.chunks) /\ NoUpload.bytes = 0
      /\ pending' = [pending EXCEPT ![n] = NoUpload]
  BY Empties DEF UnregisterAsset
<1>3. usage \in Nat /\ assets[n].size \in Nat /\ pending[n].bytes \in Nat
      /\ assets[n].size + pending[n].bytes <= usage /\ usage <= Capacity /\ Capacity \in Nat
  BY HeldIsCounted, StoreTyped, SizeAssumption DEF UsageIsExact
<1>4. usage' = usage - (pending[n].bytes + assets[n].size)
  BY <1>3 DEF UnregisterAsset, Clamped
<1>5. /\ usage' = usage - (assets[n].size + pending[n].bytes) + (NoAsset.size + NoUpload.bytes)
      /\ usage' <= Capacity
  BY <1>1, <1>2, <1>3, <1>4
<1>6. /\ usage' \in Nat /\ assets' \in [Assets -> Asset] /\ pending' \in [Assets -> Upload]
      /\ UsageIsExact' /\ SizesCounted'
  BY <1>1, <1>2, <1>5, ChangeIsCounted
<1>7. /\ OthersAlone(n) /\ assets'[n] = NoAsset /\ pending'[n] = NoUpload
      /\ poisoned' \in SUBSET Assets
  BY StoreTyped DEF UnregisterAsset, OthersAlone
<1> QED BY <1>6, <1>7 DEF StoreKept

\* An accepted chunk is counted, and a complete upload takes the place of the old asset.
LEMMA AcceptIs ==
    ASSUME TypeOK, UsageIsExact, SizesCounted, NEW n \in Assets, NameOK(n),
           NEW i, Placed(n, i), i \in Nat, NEW c \in Arriving(n, i),
           ~Shut(n, SeqOf(n, i)), ~Unacceptable(n, c, SeqOf(n, i)), Accept(n, c, SeqOf(n, i))
    PROVE  StoreKept /\ OthersAlone(n) /\ Accepted(n, c, SeqOf(n, i))
<1> DEFINE seq == SeqOf(n, i)
           q == pending[n].chunks
           u == Extended(n, c, seq)
           whole == [chunks |-> u.chunks, size |-> u.bytes]
           kept == IF Replacing(n) > 0 THEN NoAsset ELSE assets[n]
<1>1. /\ c \in Chunks /\ c.size \in Nat /\ c.last \in BOOLEAN
      /\ assets[n] \in Asset /\ pending[n] \in Upload /\ q \in Seq(Chunks)
      /\ usage \in Nat /\ poisoned \in SUBSET Assets
  BY StoreTyped, SizeAssumption DEF Arriving, Chunks, Upload
<1>2. /\ assets[n].size \in Nat /\ pending[n].bytes \in Nat
      /\ assets[n].size + pending[n].bytes <= usage /\ usage <= Capacity /\ Capacity \in Nat
  BY HeldIsCounted, SizeAssumption DEF UsageIsExact
<1>3. /\ assets[n].size = SizeOf(assets[n].chunks) /\ pending[n].bytes = SizeOf(q)
      /\ Inflight(n) => assets[n].size = 0
  BY DEF SizesCounted
<1>4. seq \in Nat \cup {-1}
  BY DEF SeqOf, NoSeq
<1>5. /\ u.chunks = Append(q, c) /\ u.bytes = pending[n].bytes + c.size
      /\ u.seq \in Nat \cup {-1} /\ u.bytes \in Nat /\ u.chunks \in Seq(Chunks)
      /\ u \in Upload /\ whole \in Asset
  <2>1. /\ u.chunks = Append(q, c) /\ u.bytes = pending[n].bytes + c.size
        /\ u.seq = IF seq = NoSeq THEN pending[n].seq ELSE seq
        /\ u = [chunks |-> u.chunks, bytes |-> u.bytes, seq |-> u.seq]
    BY DEF Extended
  <2>2. u.chunks \in Seq(Chunks)
    BY <1>1, <2>1, AppendProperties
  <2>3. u.bytes \in Nat
    BY <1>1, <1>2, <2>1
  <2>4. u.seq \in Nat \cup {-1}
    BY <1>1, <1>4, <2>1 DEF Upload
  <2> HIDE DEF u
  <2> QED BY <2>1, <2>2, <2>3, <2>4 DEF Upload, Asset
<1>6. u.bytes = SizeOf(u.chunks)
  <2>1. SizeOf(Append(q, c)) = SizeOf(q) + c.size
    BY <1>1, SizeOfSome
  <2> QED BY <2>1, <1>3, <1>5
<1>7. ~Inflight(n) => pending[n].bytes = 0
  BY DEF Inflight, NoUpload
<1>8. Replacing(n) = assets[n].size
  BY <1>3 DEF Replacing
<1>9. usage' = usage - assets[n].size + c.size /\ usage' <= Capacity
  <2>1. usage' = usage - assets[n].size + c.size
    BY <1>8 DEF Accept
  <2>2. ~(usage - assets[n].size + c.size > Capacity)
    BY <1>8 DEF Unacceptable
  <2> QED BY <1>1, <1>2, <2>1, <2>2
<1>10. kept \in Asset /\ kept.size = SizeOf(kept.chunks) /\ kept.size = 0
  BY <1>1, <1>2, <1>3, <1>8, Empties
<1>11. poisoned' = poisoned \ {n}
  BY DEF Accept
<1>12. NextChunk(n, c) /\ (seq # NoSeq => seq = Len(q))
  BY AcceptedIsNext
<1>13. CASE c.last
  <2>1. assets' = [assets EXCEPT ![n] = whole] /\ pending' = [pending EXCEPT ![n] = NoUpload]
    BY <1>13 DEF Accept
  <2>2. whole.size = u.bytes /\ whole.chunks = u.chunks
    OBVIOUS
  <2>3. NoUpload \in Upload /\ NoUpload.bytes = 0 /\ NoUpload.bytes = SizeOf(NoUpload.chunks)
    BY Empties
  <2> HIDE DEF whole, u, q, kept, seq
  <2>4. usage' = usage - (assets[n].size + pending[n].bytes) + (whole.size + NoUpload.bytes)
    <3>1. /\ usage \in Int /\ assets[n].size \in Int /\ pending[n].bytes \in Int /\ c.size \in Int
          /\ usage' = usage - assets[n].size + c.size
          /\ whole.size = pending[n].bytes + c.size /\ NoUpload.bytes = 0
      BY <1>1, <1>2, <1>5, <1>9, <2>2, <2>3
    <3> QED BY ONLY <3>1
  <2>5. whole.size = SizeOf(whole.chunks)
    BY <1>6, <2>2
  <2>6. /\ usage' \in Nat /\ assets' \in [Assets -> Asset] /\ pending' \in [Assets -> Upload]
        /\ UsageIsExact' /\ SizesCounted'
    BY <1>5, <1>9, <2>1, <2>3, <2>4, <2>5, ChangeIsCounted
  <2>7. assets'[n] = whole /\ pending'[n] = NoUpload /\ OthersAlone(n)
    BY <1>11, <2>1, StoreTyped DEF OthersAlone
  <2>8. Accepted(n, c, seq)
    BY <1>5, <1>11, <1>12, <1>13, <2>2, <2>7 DEF Accepted, q
  <2> QED BY <1>1, <1>11, <2>6, <2>7, <2>8 DEF StoreKept, seq
<1>14. CASE ~c.last
  <2>1. assets' = [assets EXCEPT ![n] = kept] /\ pending' = [pending EXCEPT ![n] = u]
    BY <1>14 DEF Accept
  <2>2. kept = NoAsset \/ kept = assets[n]
    OBVIOUS
  <2> HIDE DEF whole, u, q, kept, seq
  <2>3. usage' = usage - (assets[n].size + pending[n].bytes) + (kept.size + u.bytes)
    <3>1. /\ usage \in Int /\ assets[n].size \in Int /\ pending[n].bytes \in Int /\ c.size \in Int
          /\ usage' = usage - assets[n].size + c.size
          /\ u.bytes = pending[n].bytes + c.size /\ kept.size = 0
      BY <1>1, <1>2, <1>5, <1>9, <1>10
    <3> QED BY ONLY <3>1
  <2>4. /\ usage' \in Nat /\ assets' \in [Assets -> Asset] /\ pending' \in [Assets -> Upload]
        /\ UsageIsExact' /\ SizesCounted'
    BY <1>5, <1>6, <1>9, <1>10, <2>1, <2>3, ChangeIsCounted
  <2>5. assets'[n] = kept /\ pending'[n] = u /\ OthersAlone(n)
    BY <1>11, <2>1, StoreTyped DEF OthersAlone
  <2>6. Accepted(n, c, seq)
    BY <1>11, <1>12, <1>14, <2>2, <2>5 DEF Accepted, q, u
  <2> QED BY <1>1, <1>11, <2>4, <2>5, <2>6 DEF StoreKept, seq
<1> QED BY <1>1, <1>13, <1>14

\* The sender is as it was but for how much of n's upload it has shipped.
Shipped(n, i) ==
    /\ \A m \in Assets \ {n} : sender'[m] = sender[m]
    /\ sender'[n].upload = sender[n].upload /\ sender'[n].length = sender[n].length
    /\ \/ ~Sent(n) /\ i = sender[n].sent /\ sender'[n].sent = i + 1
       \/ /\ n \in Numbered /\ sender[n].sent > 0
          /\ i = sender[n].sent - 1 /\ sender'[n].sent = sender[n].sent

\* The three outcomes of a registration: shut out, aborted, accepted.
LEMMA RegisterIs ==
    ASSUME TypeOK, UsageIsExact, SizesCounted, NEW n \in Assets, NameOK(n),
           NEW i, Placed(n, i), Arrives(n, i)
    PROVE  /\ UNCHANGED registry /\ StoreKept /\ OthersAlone(n)
           /\ \E c \in Arriving(n, i) :
                 ShutOut(n) \/ Aborted(n) \/ Accepted(n, c, SeqOf(n, i))
<1>1. i \in Nat
  BY ArrivesIs
<1>2. PICK c \in Arriving(n, i) : RegisterAsset(n, c, SeqOf(n, i))
  BY ArrivesIs
<1> DEFINE seq == SeqOf(n, i)
<1>3. UNCHANGED registry
  BY <1>2 DEF RegisterAsset
<1>4. CASE Shut(n, seq) /\ UNCHANGED store
  <2>1. StoreKept
    BY <1>4, UnchangedStoreKept
  <2>2. OthersAlone(n) /\ ShutOut(n)
    BY <1>4 DEF store, OthersAlone, ShutOut, Shut
  <2> QED BY <1>3, <2>1, <2>2
<1>5. CASE Abort(n)
  BY <1>3, <1>5, AbortIs
<1>6. CASE ~Shut(n, seq) /\ ~Unacceptable(n, c, seq) /\ Accept(n, c, seq)
  BY <1>1, <1>3, <1>6, AcceptIs
<1> QED BY <1>2, <1>4, <1>5, <1>6 DEF RegisterAsset

\* A chunk of the sender keeps what is known of its name.
LEMMA ArrivalKeepsName ==
    ASSUME TypeOK, NEW n \in Assets, NameOK(n), NEW i \in Nat, Shipped(n, i),
           NEW c \in Arriving(n, i),
           ShutOut(n) \/ Aborted(n) \/ Accepted(n, c, SeqOf(n, i))
    PROVE  NameOK(n)'
<1>1. /\ sender[n].upload \in Nat /\ sender[n].length \in Nat /\ sender[n].sent \in Nat
      /\ pending[n].chunks \in Seq(Chunks)
  BY StoreTyped DEF Upload
<1>2. WholeAsset(n) /\ UploadBegun(n)
  BY DEF NameOK
<1>3. CASE ShutOut(n)
  <2>1. ~Inflight(n) /\ n \in poisoned'
    BY <1>2, <1>3 DEF ShutOut, UploadBegun
  <2>2. assets'[n] = assets[n] /\ pending'[n] = pending[n]
    BY <1>3 DEF ShutOut
  <2>3. WholeAsset(n)'
    BY <1>2, <2>2 DEF WholeAsset
  <2>4. ~Inflight(n)' /\ UploadBegun(n)'
    BY <1>2, <2>1, <2>2 DEF UploadBegun, Inflight
  <2>5. NumberedUpload(n)'
    BY <2>4 DEF NumberedUpload
  <2>6. n \notin Numbered => PlainUpload(n)'
    BY <2>1, <2>2, <2>4 DEF NameOK, PlainUpload
  <2> QED BY <2>3, <2>4, <2>5, <2>6 DEF NameOK
<1>4. CASE Aborted(n)
  <2>1. WholeAsset(n)'
    BY <1>2, <1>4 DEF WholeAsset, Aborted
  <2>2. pending'[n] = NoUpload /\ n \in poisoned'
    BY <1>4 DEF Aborted
  <2>3. UploadBegun(n)'
    BY <2>2, Empties DEF UploadBegun, Inflight, Consecutive
  <2>4. NumberedUpload(n)' /\ PlainUpload(n)'
    BY <2>2, Empties DEF NumberedUpload, PlainUpload, Inflight
  <2> QED BY <2>1, <2>3, <2>4 DEF NameOK
<1>5. CASE Accepted(n, c, SeqOf(n, i))
  <2> DEFINE q == pending[n].chunks
             r == Append(q, c)
             seq == SeqOf(n, i)
  <2>1. /\ NextChunk(n, c) /\ n \notin poisoned'
        /\ seq # NoSeq => seq = Len(q)
    BY <1>5 DEF Accepted
  <2>2. /\ c \in Chunks /\ c.last \in BOOLEAN /\ c.upload = sender[n].upload /\ c.place = i
        /\ c.last <=> i = sender[n].length - 1
    BY DEF Arriving, Chunks
  <2>3. /\ q \in Seq(Chunks) /\ Consecutive(q) /\ c.place = Len(q)
        /\ q # <<>> => q[1].upload = c.upload
        /\ \A j \in DOMAIN q : ~q[j].last
    BY <1>1, <1>2, <2>1 DEF NextChunk, UploadBegun
  <2>4. /\ Len(r) = Len(q) + 1 /\ r # <<>>
        /\ Consecutive(r) /\ r[1].upload = c.upload
        /\ \A j \in DOMAIN r : r[j].last <=> (c.last /\ j = Len(q) + 1)
    <3> HIDE DEF q
    <3> QED BY <2>2, <2>3, NextChunkExtends
  <2> HIDE DEF q, r
  <2>5. CASE c.last
    <3>1. assets'[n].chunks = r /\ pending'[n] = NoUpload
      BY <1>5, <2>5 DEF Accepted, q, r
    <3>2. WholeAsset(n)'
      BY <2>4, <2>5, <3>1 DEF WholeAsset
    <3>3. UploadBegun(n)' /\ ~Inflight(n)'
      BY <3>1, Empties DEF UploadBegun, Inflight, Consecutive
    <3>4. NumberedUpload(n)'
      BY <3>3 DEF NumberedUpload
    <3>5. n \notin Numbered => PlainUpload(n)'
      <4>1. ASSUME n \notin Numbered PROVE Sent(n)'
        BY <1>1, <2>2, <2>5, <4>1 DEF Shipped, Sent
      <4> QED BY <3>1, <3>3, <4>1, Empties DEF PlainUpload
    <3> QED BY <3>2, <3>3, <3>4, <3>5 DEF NameOK
  <2>6. CASE ~c.last
    <3>1. /\ assets'[n] = NoAsset \/ assets'[n] = assets[n]
          /\ pending'[n] = Extended(n, c, seq)
      BY <1>5, <2>6 DEF Accepted
    <3>2. pending'[n].chunks = r
      BY <3>1 DEF Extended, q, r
    <3>3. pending'[n].seq = IF seq = NoSeq THEN pending[n].seq ELSE seq
      BY <3>1 DEF Extended
    <3>4. WholeAsset(n)'
      <4>1. CASE assets'[n] = assets[n]
        BY <1>2, <4>1 DEF WholeAsset
      <4>2. CASE assets'[n] = NoAsset
        BY <4>2, Empties DEF WholeAsset, Consecutive
      <4> QED BY <3>1, <4>1, <4>2
    <3>5. UploadBegun(n)'
      BY <2>1, <2>4, <2>6, <3>2 DEF UploadBegun
    <3>6. i = Len(q) /\ Len(q) \in Nat /\ sender'[n].upload = sender[n].upload
          /\ sender'[n].length = sender[n].length
      BY <2>2, <2>3 DEF Shipped
    <3>7. n \in Numbered => NumberedUpload(n)'
      <4>1. ASSUME n \in Numbered PROVE seq # NoSeq /\ seq = i
        BY <4>1 DEF SeqOf, NoSeq
      <4> QED BY <2>2, <2>4, <3>2, <3>3, <3>6, <4>1 DEF NumberedUpload
    <3>8. n \notin Numbered => PlainUpload(n)'
      <4> SUFFICES ASSUME n \notin Numbered PROVE PlainUpload(n)'
        OBVIOUS
      <4>1. ~Sent(n) /\ i = sender[n].sent /\ sender'[n].sent = i + 1
        BY DEF Shipped
      <4>2. pending[n].seq = NoSeq /\ seq = NoSeq
        BY DEF NameOK, PlainUpload, SeqOf
      <4>3. ~Sent(n)'
        BY <1>1, <2>2, <2>6, <3>6, <4>1 DEF Sent
      <4>4. pending'[n] # NoUpload
        BY <2>4, <3>2, Empties
      <4> QED BY <2>2, <2>4, <3>2, <3>3, <3>6, <4>1, <4>2, <4>3, <4>4 DEF PlainUpload, Inflight
    <3> QED BY <3>4, <3>5, <3>7, <3>8 DEF NameOK
  <2> QED BY <2>2, <2>5, <2>6
<1> QED BY <1>3, <1>4, <1>5

\* A chunk that arrives keeps the invariant.
LEMMA ArrivalKeeps ==
    ASSUME IInv, NEW n \in Assets, NEW i, Shipped(n, i), Arrives(n, i),
           sender' \in [Assets -> [upload : 0 .. MaxUploads, length : Nat, sent : Nat]]
    PROVE  IInv'
<1>1. TypeOK /\ UsageIsExact /\ SizesCounted /\ \A m \in Assets : NameOK(m)
  BY DEF IInv, NamesOK
<1>2. Placed(n, i)
  BY DEF Shipped, Placed
<1>3. i \in Nat
  BY <1>1, <1>2, ArrivesIs
<1>4. UNCHANGED registry /\ StoreKept /\ OthersAlone(n)
  BY <1>1, <1>2, RegisterIs
<1>5. PICK c \in Arriving(n, i) : ShutOut(n) \/ Aborted(n) \/ Accepted(n, c, SeqOf(n, i))
  BY <1>1, <1>2, RegisterIs
<1>6. NameOK(n)'
  BY <1>1, <1>3, <1>5, ArrivalKeepsName
<1>7. ASSUME NEW m \in Assets \ {n} PROVE NameOK(m)'
  <2>1. /\ NameOK(m) /\ assets'[m] = assets[m] /\ pending'[m] = pending[m]
        /\ sender'[m] = sender[m] /\ ((m \in poisoned') <=> (m \in poisoned))
    BY <1>1, <1>4 DEF OthersAlone, Shipped
  <2> QED BY <2>1, OthersKeep
<1>8. NamesOK'
  BY <1>6, <1>7 DEF NamesOK
<1>9. TypeOK'
  BY <1>1, <1>4 DEF TypeOK, StoreKept, registry, Asset, Upload
<1> QED BY <1>4, <1>8, <1>9 DEF IInv, StoreKept

\* A step that leaves the store alone keeps it, and what the sender does of n's
\* upload is n's affair.
LEMMA SenderStepKeeps ==
    ASSUME IInv, UNCHANGED <<store, registry>>, NEW n \in Assets,
           sender' \in [Assets -> [upload : 0 .. MaxUploads, length : Nat, sent : Nat]],
           \A m \in Assets \ {n} : sender'[m] = sender[m],
           n \in Numbered => NumberedUpload(n)',
           n \notin Numbered => PlainUpload(n)'
    PROVE  IInv'
<1>1. TypeOK /\ UsageIsExact /\ SizesCounted /\ \A m \in Assets : NameOK(m)
  BY DEF IInv, NamesOK
<1>2. UNCHANGED store /\ StoreKept
  BY <1>1, UnchangedStoreKept
<1>3. assets' = assets /\ pending' = pending /\ poisoned' = poisoned
  BY <1>2 DEF store
<1>4. ASSUME NEW m \in Assets PROVE NameOK(m)'
  <2>1. CASE m # n
    <3>1. sender'[m] = sender[m] /\ NameOK(m)
      BY <1>1, <2>1
    <3>2. /\ assets'[m] = assets[m] /\ pending'[m] = pending[m]
          /\ (m \in poisoned') <=> (m \in poisoned)
      BY <1>3
    <3> QED BY <3>1, <3>2, OthersKeep
  <2>2. CASE m = n
    <3>1. WholeAsset(n) /\ UploadBegun(n)
      BY <1>1 DEF NameOK
    <3>2. WholeAsset(n)' /\ UploadBegun(n)'
      BY <1>3, <3>1 DEF WholeAsset, UploadBegun, Inflight
    <3> QED BY <2>2, <3>2 DEF NameOK
  <2> QED BY <2>1, <2>2
<1>5. TypeOK'
  BY <1>1, <1>2 DEF TypeOK, StoreKept, registry, Asset, Upload
<1> QED BY <1>2, <1>4, <1>5 DEF IInv, StoreKept, NamesOK

\* So does a withdrawal.
LEMMA WithdrawKeeps ==
    ASSUME IInv, NEW n \in Assets, Withdraw(n)
    PROVE  IInv'
<1>1. TypeOK /\ UsageIsExact /\ SizesCounted /\ \A m \in Assets : NameOK(m)
  BY DEF IInv, NamesOK
<1>2. StoreKept /\ OthersAlone(n) /\ assets'[n] = NoAsset /\ pending'[n] = NoUpload
  BY <1>1, UnregisterIs DEF Withdraw
<1>3. /\ sender' \in [Assets -> [upload : 0 .. MaxUploads, length : Nat, sent : Nat]]
      /\ sender'[n].sent = sender'[n].length
      /\ \A m \in Assets \ {n} : sender'[m] = sender[m]
  BY <1>1 DEF Withdraw, TypeOK
<1>4. NameOK(n)'
  <2>1. WholeAsset(n)' /\ UploadBegun(n)'
    BY <1>2, Empties DEF WholeAsset, UploadBegun, Consecutive, Inflight
  <2>2. NumberedUpload(n)' /\ PlainUpload(n)'
    BY <1>2, <1>3, Empties DEF NumberedUpload, PlainUpload, Inflight, Sent
  <2> QED BY <2>1, <2>2 DEF NameOK
<1>5. ASSUME NEW m \in Assets \ {n} PROVE NameOK(m)'
  <2>1. /\ NameOK(m) /\ assets'[m] = assets[m] /\ pending'[m] = pending[m]
        /\ sender'[m] = sender[m] /\ ((m \in poisoned') <=> (m \in poisoned))
    BY <1>1, <1>2, <1>3 DEF OthersAlone
  <2> QED BY <2>1, OthersKeep
<1>6. NamesOK'
  BY <1>4, <1>5 DEF NamesOK
<1>7. TypeOK'
  BY <1>1, <1>2, <1>3 DEF TypeOK, StoreKept, Withdraw, UnregisterAsset, registry, Asset, Upload
<1> QED BY <1>2, <1>6, <1>7 DEF IInv, StoreKept

\* Widgets and their types hold no bytes.
LEMMA WidgetOpKeeps ==
    ASSUME IInv, UNCHANGED <<store, sender>>,
           types' \in SUBSET Types, widgets' \in [Keys -> Types \cup {Absent}]
    PROVE  IInv'
<1>1. TypeOK /\ UsageIsExact /\ SizesCounted /\ \A m \in Assets : NameOK(m)
  BY DEF IInv, NamesOK
<1>2. UNCHANGED store /\ StoreKept /\ sender' = sender
  BY <1>1, UnchangedStoreKept
<1>3. NamesOK'
  <2>1. assets' = assets /\ pending' = pending /\ poisoned' = poisoned
    BY <1>2 DEF store
  <2> SUFFICES ASSUME NEW m \in Assets PROVE NameOK(m)'
    BY DEF NamesOK
  <2>2. /\ NameOK(m) /\ assets'[m] = assets[m] /\ pending'[m] = pending[m]
        /\ sender'[m] = sender[m] /\ ((m \in poisoned') <=> (m \in poisoned))
    BY <1>1, <1>2, <2>1
  <2> QED BY <2>2, OthersKeep
<1>4. TypeOK'
  BY <1>1, <1>2 DEF TypeOK, StoreKept, Asset, Upload
<1> QED BY <1>2, <1>3, <1>4 DEF IInv, StoreKept

\* A widget op leaves the registry well typed.
LEMMA WidgetOpTyped ==
    ASSUME TypeOK, \/ \E t \in Types : RegisterWidgetType(t)
                   \/ \E k \in Keys, t \in Types : AddWidget(k, t)
                   \/ \E k \in Keys : RemoveWidget(k)
    PROVE  /\ UNCHANGED store
           /\ types' \in SUBSET Types /\ widgets' \in [Keys -> Types \cup {Absent}]
BY DEF TypeOK, RegisterWidgetType, AddWidget, RemoveWidget

\* Every step of the core keeps the invariant.
LEMMA CoreStep == IInv /\ [Next]_vars => IInv'
<1> SUFFICES ASSUME IInv, [Next]_vars PROVE IInv'
  OBVIOUS
<1> DEFINE Senders == [Assets -> [upload : 0 .. MaxUploads, length : Nat, sent : Nat]]
<1>1. TypeOK /\ sender \in Senders /\ \A n \in Assets : NameOK(n)
  BY DEF IInv, NamesOK, TypeOK
<1>2. \A n \in Assets : /\ sender[n].upload \in 0 .. MaxUploads
                        /\ sender[n].length \in Nat /\ sender[n].sent \in Nat
  BY <1>1
<1>3. ASSUME NEW n \in Assets, Begin(n) PROVE IInv'
  <2>1. PICK length \in 1 .. MaxChunks :
          sender' = [sender EXCEPT ![n] =
                        [upload |-> sender[n].upload + 1, length |-> length, sent |-> 0]]
    BY <1>3 DEF Begin
  <2>2. sender[n].upload + 1 \in 0 .. MaxUploads /\ length \in Nat
    BY <1>2, <1>3, BoundAssumption DEF Begin
  <2>3. sender' \in Senders /\ sender'[n].sent = 0 /\ \A m \in Assets \ {n} : sender'[m] = sender[m]
    BY <1>1, <2>1, <2>2
  <2>4. UNCHANGED <<store, registry>>
    BY <1>3 DEF Begin
  <2>5. pending' = pending
    BY <2>4 DEF store
  <2>6. n \in Numbered => NumberedUpload(n)'
    BY <1>1, <2>3, <2>5 DEF NameOK, NumberedUpload, Inflight
  <2>7. n \notin Numbered => PlainUpload(n)'
    BY <1>1, <1>3, <2>3, <2>5 DEF NameOK, PlainUpload, Inflight, Begin
  <2> QED BY <2>3, <2>4, <2>6, <2>7, SenderStepKeeps
<1>4. ASSUME NEW n \in Assets, Ship(n) PROVE IInv'
  <2> DEFINE i == sender[n].sent
  <2>1. sender' = [sender EXCEPT ![n].sent = i + 1] /\ Arrives(n, i) /\ ~Sent(n)
    BY <1>4 DEF Ship
  <2>2. sender' \in Senders /\ Shipped(n, i)
    BY <1>1, <1>2, <2>1 DEF Shipped
  <2> QED BY <2>1, <2>2, ArrivalKeeps
<1>5. ASSUME NEW n \in Assets, ShipAgain(n) PROVE IInv'
  <2>1. sender' \in Senders /\ Shipped(n, sender[n].sent - 1)
    BY <1>1, <1>5 DEF ShipAgain, Shipped
  <2>2. Arrives(n, sender[n].sent - 1)
    BY <1>5 DEF ShipAgain
  <2> QED BY <2>1, <2>2, ArrivalKeeps
<1>6. ASSUME NEW n \in Assets, ChunkLost(n) PROVE IInv'
  <2>1. sender' = [sender EXCEPT ![n].sent = sender[n].sent + 1]
    BY <1>6 DEF ChunkLost
  <2>2. /\ sender' \in Senders /\ sender'[n].upload = sender[n].upload
        /\ \A m \in Assets \ {n} : sender'[m] = sender[m]
    BY <1>1, <1>2, <2>1
  <2>3. UNCHANGED <<store, registry>> /\ n \in Numbered /\ sender[n].sent # 0
    BY <1>2, <1>6 DEF ChunkLost
  <2>4. pending' = pending
    BY <2>3 DEF store
  <2>5. NumberedUpload(n)'
    BY <1>1, <2>2, <2>3, <2>4 DEF NameOK, NumberedUpload, Inflight
  <2> QED BY <2>2, <2>3, <2>5, SenderStepKeeps
<1>7. ASSUME NEW n \in Assets, Withdraw(n) PROVE IInv'
  BY <1>7, WithdrawKeeps
<1>8. CASE WidgetOp
  <2>1. sender' = sender
    BY <1>8 DEF WidgetOp
  <2>2. /\ UNCHANGED store
        /\ types' \in SUBSET Types /\ widgets' \in [Keys -> Types \cup {Absent}]
    BY <1>1, <1>8, WidgetOpTyped DEF WidgetOp
  <2> QED BY <2>1, <2>2, WidgetOpKeeps
<1>9. CASE UNCHANGED vars
  <2>1. /\ UNCHANGED <<store, sender>>
        /\ types' \in SUBSET Types /\ widgets' \in [Keys -> Types \cup {Absent}]
    BY <1>1, <1>9 DEF vars, registry, TypeOK
  <2> QED BY <2>1, WidgetOpKeeps
<1> QED BY <1>3, <1>4, <1>5, <1>6, <1>7, <1>8, <1>9 DEF Next, AssetOp

\* The invariant of the core: types, exact usage, counted sizes and, for each name, what
\* the sender and the store have of its upload.
THEOREM Inductive == Spec => []IInv
<1>1. Init => IInv
  BY CoreInit
<1>2. IInv /\ [Next]_vars => IInv'
  BY CoreStep
<1> QED BY <1>1, <1>2, PTL DEF Spec

\* The core's state is well typed: usage is a number of bytes, not a negative one.
THEOREM TypeCorrect == Spec => []TypeOK
<1>1. IInv => TypeOK
  BY DEF IInv
<1> QED BY <1>1, Inductive, PTL

\* usage is exactly the sum of the chunks held, and within the capacity, however
\* many uploads of however many names are aborted, replaced, repeated or withdrawn.
THEOREM UsageStaysExact == Spec => []UsageIsExact
<1>1. IInv => UsageIsExact
  BY DEF IInv
<1> QED BY <1>1, Inductive, PTL

\* A complete asset is one upload, from its first chunk to its last.
THEOREM AssetsAreWhole == Spec => []CompleteIsWhole
<1>1. IInv => CompleteIsWhole
  BY DEF IInv, NamesOK, NameOK, WholeAsset, CompleteIsWhole
<1> QED BY <1>1, Inductive, PTL

\* abort and unregister never give back more than was counted: the Math.max(0, ..)
\* that guards them (surface-core.js:120, 160) never acts.
THEOREM ClampNeverActs ==
    Spec => [](\A n \in Assets : assets[n].size + pending[n].bytes <= usage)
<1>1. IInv => \A n \in Assets : assets[n].size + pending[n].bytes <= usage
  BY HeldIsCounted DEF IInv
<1> QED BY <1>1, Inductive, PTL

-----------------------------------------------------------------------------
(* The host: sequences of messages.                                        *)

Numbers(n) == [i \in 1 .. n |-> i]

\* The numbers up to n and the next one.
LEMMA NumbersGrow ==
    ASSUME NEW n \in Nat
    PROVE  /\ Numbers(n) \in Seq(Nat)
           /\ Numbers(n) \o <<n + 1>> = Numbers(n + 1)
<1>1. Numbers(n) \in Seq(Nat) /\ Len(Numbers(n)) = n /\ \A i \in 1 .. n : Numbers(n)[i] = i
  BY DEF Numbers
<1>2. /\ Numbers(n + 1) \in Seq(Nat) /\ Len(Numbers(n + 1)) = n + 1
      /\ \A i \in 1 .. n + 1 : Numbers(n + 1)[i] = i
  BY DEF Numbers
<1> DEFINE a == Numbers(n)
           b == <<n + 1>>
           c == Numbers(n + 1)
           d == a \o b
<1>3. b \in Seq(Nat) /\ Len(b) = 1 /\ b[1] = n + 1
  OBVIOUS
<1> HIDE DEF a, b, c
<1>4. d \in Seq(Nat) /\ Len(d) = n + 1
      /\ \A i \in 1 .. n + 1 : d[i] = IF i <= n THEN a[i] ELSE b[i - n]
  <2>1. a \in Seq(Nat) /\ b \in Seq(Nat)
    BY <1>1, <1>3 DEF a
  <2>2. /\ d \in Seq(Nat) /\ Len(d) = Len(a) + Len(b)
        /\ \A i \in 1 .. Len(a) + Len(b) :
              d[i] = IF i <= Len(a) THEN a[i] ELSE b[i - Len(a)]
    BY <2>1, ConcatProperties, Zenon
  <2>3. Len(a) = n /\ Len(b) = 1
    BY <1>1, <1>3 DEF a
  <2> HIDE DEF d
  <2> QED BY <2>2, <2>3
<1>5. \A i \in 1 .. n + 1 : d[i] = i
  <2>1. ASSUME NEW i \in 1 .. n + 1, i <= n PROVE d[i] = i
    BY <1>1, <1>4, <2>1 DEF a
  <2>2. ASSUME NEW i \in 1 .. n + 1, ~(i <= n) PROVE d[i] = i
    <3>1. i = n + 1 /\ i - n = 1
      BY <2>2
    <3> QED BY <1>3, <1>4, <2>2, <3>1
  <2> QED BY <2>1, <2>2
<1>6. d = c
  <2> HIDE DEF d
  <2> QED BY <1>2, <1>4, <1>5, SeqEqual DEF c
<1> QED BY <1>1, <1>6 DEF a, b, c, d

\* Appending is concatenating one.
LEMMA AppendIs ==
    ASSUME NEW q \in Seq(Nat), NEW e \in Nat
    PROVE  Append(q, e) = q \o <<e>>
<1> DEFINE a == Append(q, e)
           b == <<e>>
           d == q \o b
<1>1. /\ a \in Seq(Nat) /\ Len(a) = Len(q) + 1 /\ a[Len(q) + 1] = e
      /\ \A i \in 1 .. Len(q) : a[i] = q[i]
  OBVIOUS
<1>2. b \in Seq(Nat) /\ Len(b) = 1 /\ b[1] = e /\ Len(q) \in Nat
  OBVIOUS
<1> HIDE DEF a, b
<1>3. d \in Seq(Nat) /\ Len(d) = Len(q) + 1
      /\ \A i \in 1 .. Len(q) + 1 : d[i] = IF i <= Len(q) THEN q[i] ELSE b[i - Len(q)]
  <2>1. q \in Seq(Nat) /\ b \in Seq(Nat)
    BY <1>2
  <2>2. /\ d \in Seq(Nat) /\ Len(d) = Len(q) + Len(b)
        /\ \A i \in 1 .. Len(q) + Len(b) :
              d[i] = IF i <= Len(q) THEN q[i] ELSE b[i - Len(q)]
    BY <2>1, ConcatProperties, Zenon
  <2> HIDE DEF d
  <2> QED BY <1>2, <2>2
<1> HIDE DEF d
<1>4. ASSUME NEW i \in 1 .. Len(q) + 1 PROVE a[i] = d[i]
  <2>1. CASE i <= Len(q)
    <3>1. i \in 1 .. Len(q)
      BY <1>2, <2>1
    <3> QED BY <1>1, <1>3, <2>1, <3>1
  <2>2. CASE ~(i <= Len(q))
    <3>1. i = Len(q) + 1 /\ i - Len(q) = 1
      BY <1>2, <2>2
    <3> QED BY <1>1, <1>2, <1>3, <2>2, <3>1
  <2> QED BY <2>1, <2>2
<1>5. a = d
  BY <1>1, <1>3, <1>4, SeqEqual
<1> QED BY <1>5 DEF a, b, d

\* A queue is its head and what is behind it.
LEMMA HeadAndTail ==
    ASSUME NEW q \in Seq(Nat), q # <<>>
    PROVE  /\ Head(q) \in Nat /\ Tail(q) \in Seq(Nat)
           /\ <<Head(q)>> \o Tail(q) = q
<1> DEFINE h == <<Head(q)>>
           t == Tail(q)
           d == h \o t
<1>1. /\ Head(q) \in Nat /\ Len(q) \in Nat /\ t \in Seq(Nat) /\ Len(t) = Len(q) - 1
      /\ \A i \in 1 .. Len(q) - 1 : t[i] = q[i + 1]
  BY HeadTailProperties
<1>2. h \in Seq(Nat) /\ Len(h) = 1 /\ h[1] = q[1]
  BY <1>1
<1> HIDE DEF h, t
<1>3. d \in Seq(Nat) /\ Len(d) = Len(q)
      /\ \A i \in 1 .. Len(q) : d[i] = IF i <= 1 THEN h[i] ELSE t[i - 1]
  <2>1. h \in Seq(Nat) /\ t \in Seq(Nat)
    BY <1>1, <1>2
  <2>2. /\ d \in Seq(Nat) /\ Len(d) = Len(h) + Len(t)
        /\ \A i \in 1 .. Len(h) + Len(t) :
              d[i] = IF i <= Len(h) THEN h[i] ELSE t[i - Len(h)]
    BY <2>1, ConcatProperties, Zenon
  <2>3. Len(h) = 1 /\ Len(h) + Len(t) = Len(q)
    BY <1>1, <1>2
  <2> HIDE DEF d
  <2> QED BY <2>2, <2>3
<1> HIDE DEF d
<1>4. ASSUME NEW i \in 1 .. Len(q) PROVE d[i] = q[i]
  <2>1. CASE i <= 1
    BY <1>2, <1>3, <2>1
  <2>2. CASE ~(i <= 1)
    <3>1. i - 1 \in 1 .. Len(q) - 1 /\ i - 1 + 1 = i
      BY <1>1, <2>2
    <3>2. t[i - 1] = q[i]
      BY <1>1, <3>1
    <3> QED BY <1>3, <2>2, <3>2
  <2> QED BY <2>1, <2>2
<1>5. d = q
  BY <1>3, <1>4, SeqEqual
<1> QED BY <1>1, <1>5 DEF d, h, t

-----------------------------------------------------------------------------
(* The host: its inductive invariant.                                      *)

\* The frame of a view was given its messages in order.
FedAt(v) == v.seen \o v.inbox \o v.queue = Numbers(v.fed)

\* What is true of the frame a key shows: it was mounted, has its messages in
\* order, and has handled one before it has answered or a result is reported on its
\* word.  While a test waits for it, it runs the code of the key's type.
KeyOK(k) ==
    /\ views[k].attached =>
          /\ views[k].frame \in 1 .. mounts
          /\ FedAt(views[k])
          /\ mail[views[k].frame] # <<>> => views[k].seen # <<>>
          /\ views[k].probe => views[k].code = views[k].type
    /\ verdict[k] \in {"ok", "failed"} => views[k].attached /\ views[k].seen # <<>>
    /\ verdict[k] = "ok" => views[k].code = views[k].type

Verdicts == {"none", "ok", "failed", "unmounted"}

\* No frame is shown under two keys.
FramesApart ==
    \A j, k \in Keys :
        j # k /\ views[j].attached /\ views[k].attached => views[j].frame # views[k].frame

NoMailYet == \A f \in 1 .. MaxMounts : f > mounts => mail[f] = <<>>

HostTyped ==
    /\ views \in [Keys -> View]
    /\ mounts \in 0 .. MaxMounts
    /\ mail \in [1 .. MaxMounts -> Seq(BOOLEAN)]
    /\ verdict \in [Keys -> Verdicts]

QueueFlushed == \A k \in Keys : views[k].ready => views[k].queue = <<>>

HostIInv ==
    /\ TypeOK /\ HostTyped /\ QueueFlushed
    /\ FramesApart /\ NoMailYet /\ \A k \in Keys : KeyOK(k)

\* The invariant holds before anything is mounted.
LEMMA HostInitially == HostInit => HostIInv
<1> SUFFICES ASSUME HostInit PROVE HostIInv
  OBVIOUS
<1>1. TypeOK
  BY CoreInit DEF HostInit, IInv
<1>2. NoView \in View
  BY HostBoundAssumption DEF NoView, View
<1>3. HostTyped
  BY <1>2, HostBoundAssumption DEF HostInit, HostTyped, Verdicts
<1>4. \A k \in Keys : ~views[k].attached /\ ~views[k].ready /\ verdict[k] = "none"
  BY DEF HostInit, NoView
<1>5. \A f \in 1 .. MaxMounts : mail[f] = <<>>
  BY DEF HostInit
<1> QED BY <1>1, <1>3, <1>4, <1>5 DEF HostIInv, QueueFlushed, FramesApart, NoMailYet, KeyOK

\* One view changes, and keeps its frame or is detached: either what is reported of it
\* stands, or it is set aside by a word of the host's own.
LEMMA ViewChanges ==
    ASSUME HostTyped, QueueFlushed, FramesApart, NoMailYet, \A m \in Keys : KeyOK(m),
           NEW k \in Keys, NEW v \in View,
           views' = [views EXCEPT ![k] = v],
           v.ready => v.queue = <<>>,
           v.attached => /\ views[k].attached /\ v.frame = views[k].frame /\ FedAt(v)
                         /\ views[k].seen # <<>> => v.seen # <<>>,
           UNCHANGED <<mounts, mail>>,
           \/ /\ verdict' = verdict
              /\ v.attached = views[k].attached /\ v.type = views[k].type
              /\ v.code = views[k].code /\ v.probe = views[k].probe
           \/ /\ \E o \in {"none", "unmounted"} : verdict' = [verdict EXCEPT ![k] = o]
              /\ v.attached => v.probe = FALSE
    PROVE  HostTyped' /\ QueueFlushed' /\ FramesApart' /\ NoMailYet' /\ \A m \in Keys : KeyOK(m)'
<1>1. /\ mounts' = mounts /\ mail' = mail
      /\ views' \in [Keys -> View] /\ views'[k] = v
      /\ \A m \in Keys : m # k => views'[m] = views[m]
  BY DEF HostTyped
<1>2. /\ verdict' \in [Keys -> Verdicts]
      /\ \A m \in Keys : m # k => verdict'[m] = verdict[m]
      /\ \/ /\ verdict'[k] = verdict[k]
            /\ v.attached = views[k].attached /\ v.type = views[k].type
            /\ v.code = views[k].code /\ v.probe = views[k].probe
         \/ verdict'[k] \notin {"ok", "failed"} /\ (v.attached => v.probe = FALSE)
  BY DEF HostTyped, Verdicts
<1>3. HostTyped' /\ QueueFlushed' /\ NoMailYet'
  BY <1>1, <1>2 DEF HostTyped, QueueFlushed, NoMailYet
<1>4. \A m \in Keys : views'[m].attached => views[m].attached /\ views'[m].frame = views[m].frame
  BY <1>1
<1>5. FramesApart'
  BY <1>4 DEF FramesApart
<1>6. ASSUME NEW m \in Keys PROVE KeyOK(m)'
  <2>1. CASE m # k
    <3>1. views'[m] = views[m] /\ KeyOK(m)
      BY <1>1, <2>1
    <3> QED BY <1>1, <1>2, <3>1 DEF KeyOK, FedAt
  <2>2. CASE m = k
    <3>1. KeyOK(k) /\ views'[m] = v
      BY <1>1, <2>2
    <3>2. v.attached => /\ v.frame \in 1 .. mounts'
                        /\ FedAt(v)
                        /\ mail'[v.frame] # <<>> => v.seen # <<>>
      BY <1>1, <3>1 DEF KeyOK
    <3>3. v.attached => (v.probe => v.code = v.type)
      BY <1>2, <3>1 DEF KeyOK
    <3>4. verdict'[k] \in {"ok", "failed"} => v.attached /\ v.seen # <<>>
      BY <1>2, <3>1 DEF KeyOK
    <3>5. verdict'[k] = "ok" => v.code = v.type
      BY <1>2, <3>1 DEF KeyOK
    <3> QED BY <2>2, <3>1, <3>2, <3>3, <3>4, <3>5 DEF KeyOK, FedAt
  <2> QED BY <2>1, <2>2
<1> QED BY <1>3, <1>5, <1>6

\* What posting to a frame does to its view keeps its messages in order.
LEMMA PostedKeeps ==
    ASSUME NEW v \in View, v.ready => v.queue = <<>>, v.attached => FedAt(v),
           NEW w, w \in {Updated(v), Posted(v)}
    PROVE  /\ w \in View
           /\ w.ready => w.queue = <<>>
           /\ w.attached = v.attached /\ w.frame = v.frame /\ w.seen = v.seen
           /\ w.type = v.type /\ w.code = v.code /\ w.probe = v.probe
           /\ w.attached => FedAt(w)
<1> DEFINE e == v.fed + 1
           h == Handed(v)
           q == [v EXCEPT !.fed = @ + 1, !.queue = Append(@, v.fed + 1)]
<1>1. /\ v.seen \in Seq(Nat) /\ v.inbox \in Seq(Nat) /\ v.queue \in Seq(Nat)
      /\ v.fed \in Nat /\ e \in Nat /\ <<e>> \in Seq(Nat)
  BY DEF View
<1>2. w = v \/ (w = h /\ v.ready) \/ (w = q /\ ~v.ready)
  BY DEF Updated, Posted
<1>3. /\ h \in View /\ q \in View
      /\ h.ready = v.ready /\ q.ready = v.ready
      /\ h.attached = v.attached /\ h.frame = v.frame /\ h.seen = v.seen
      /\ q.attached = v.attached /\ q.frame = v.frame /\ q.seen = v.seen
      /\ h.type = v.type /\ h.code = v.code /\ h.probe = v.probe
      /\ q.type = v.type /\ q.code = v.code /\ q.probe = v.probe
      /\ h.queue = v.queue /\ h.inbox = Append(v.inbox, e) /\ h.fed = e
      /\ q.inbox = v.inbox /\ q.queue = Append(v.queue, e) /\ q.fed = e
  <2>1. Append(v.inbox, e) \in Seq(Nat) /\ Append(v.queue, e) \in Seq(Nat)
    BY <1>1
  <2>2. h = [v EXCEPT !.fed = e, !.inbox = Append(v.inbox, e)]
    BY DEF Handed
  <2>3. q = [v EXCEPT !.fed = e, !.queue = Append(v.queue, e)]
    OBVIOUS
  <2> HIDE DEF e, h, q
  <2>4. h \in View /\ q \in View
    BY <1>1, <2>1, <2>2, <2>3 DEF View
  <2>5. /\ h.ready = v.ready /\ h.queue = v.queue /\ h.inbox = Append(v.inbox, e) /\ h.fed = e
        /\ h.attached = v.attached /\ h.frame = v.frame /\ h.seen = v.seen
    BY <2>2 DEF View
  <2>6. /\ q.ready = v.ready /\ q.inbox = v.inbox /\ q.queue = Append(v.queue, e) /\ q.fed = e
        /\ q.attached = v.attached /\ q.frame = v.frame /\ q.seen = v.seen
    BY <2>3 DEF View
  <2>7. h.type = v.type /\ h.code = v.code /\ h.probe = v.probe
    BY <2>2 DEF View
  <2>8. q.type = v.type /\ q.code = v.code /\ q.probe = v.probe
    BY <2>3 DEF View
  <2> QED BY <2>4, <2>5, <2>6, <2>7, <2>8
<1>4. FedAt(v) => Numbers(e) = (v.seen \o v.inbox \o v.queue) \o <<e>>
  BY <1>1, NumbersGrow DEF FedAt
<1> HIDE DEF e, h, q
<1>5. v.queue = <<>> /\ FedAt(v) => FedAt(h)
  <2> SUFFICES ASSUME v.queue = <<>>, FedAt(v) PROVE FedAt(h)
    OBVIOUS
  <2> DEFINE a == v.seen
             b == v.inbox
             si == a \o b
             c == <<e>>
  <2>1. a \in Seq(Nat) /\ b \in Seq(Nat) /\ c \in Seq(Nat)
    BY <1>1
  <2>2. v.queue = <<>> /\ h.queue = <<>> /\ h.inbox = b \o c
    BY <1>1, <1>3, AppendIs
  <2>3. Numbers(e) = (si \o <<>>) \o c
    BY <1>4, <2>2
  <2>4. FedAt(h) <=> (a \o (b \o c)) \o <<>> = Numbers(e)
    BY <1>3, <2>2 DEF FedAt
  <2> HIDE DEF a, b, c, si
  <2>5. si \in Seq(Nat) /\ b \o c \in Seq(Nat) /\ a \o (b \o c) \in Seq(Nat)
    BY <2>1, ConcatProperties DEF si
  <2>6. si \o <<>> = si /\ (a \o (b \o c)) \o <<>> = a \o (b \o c)
    BY <2>5, ConcatEmptySeq
  <2>7. (a \o b) \o c = a \o (b \o c)
    BY <2>1, ConcatAssociative
  <2> QED BY <2>3, <2>4, <2>6, <2>7 DEF si
<1>6. FedAt(v) => FedAt(q)
  <2> SUFFICES ASSUME FedAt(v) PROVE FedAt(q)
    OBVIOUS
  <2> DEFINE si == v.seen \o v.inbox
             d == v.queue
             c == <<e>>
  <2>1. si \in Seq(Nat) /\ d \in Seq(Nat) /\ c \in Seq(Nat)
    BY <1>1
  <2>2. q.queue = d \o c
    BY <1>1, <1>3, AppendIs
  <2>3. Numbers(e) = (si \o d) \o c
    BY <1>4
  <2>4. FedAt(q) <=> si \o (d \o c) = Numbers(e)
    BY <1>3, <2>2 DEF FedAt
  <2> HIDE DEF si, d, c
  <2>5. (si \o d) \o c = si \o (d \o c)
    BY <2>1, ConcatAssociative
  <2> QED BY <2>3, <2>4, <2>5
<1> QED BY <1>2, <1>3, <1>5, <1>6

-----------------------------------------------------------------------------
(* The host: steps.                                                        *)

HostKept == HostTyped /\ QueueFlushed /\ FramesApart /\ NoMailYet /\ \A m \in Keys : KeyOK(m)

\* A mount keeps it, in place of another view or not.
LEMMA MountKeeps ==
    ASSUME HostKept, NEW k \in Keys, NEW t \in Types, NEW test \in BOOLEAN,
           MountRegistered(k, t, test), Told(k, "none"), UNCHANGED mail
    PROVE  HostKept'
<1>1. /\ HostTyped /\ QueueFlushed /\ FramesApart /\ NoMailYet /\ \A m \in Keys : KeyOK(m)
      /\ views[k] \in View
  BY DEF HostKept, HostTyped
<1>2. verdict' = [verdict EXCEPT ![k] = "none"] /\ mail' = mail
  BY DEF Told
<1>3. CASE t \in External
  <2> DEFINE v == Warned(views[k], t, test)
  <2>1. views' = [views EXCEPT ![k] = v] /\ mounts' = mounts
    BY <1>3 DEF MountRegistered
  <2>2. v \in View /\ v.attached = FALSE /\ v.ready = views[k].ready /\ v.queue = views[k].queue
    <3> DEFINE u == views[k]
    <3>1. v = [u EXCEPT !.type = t, !.probe = test, !.attached = FALSE, !.inbox = <<>>]
      BY DEF Warned
    <3>2. u \in View /\ <<>> \in Seq(Nat)
      BY <1>1
    <3> HIDE DEF u, v
    <3>3. v \in View
      BY <3>1, <3>2 DEF View
    <3>4. v.attached = FALSE /\ v.ready = u.ready /\ v.queue = u.queue
      BY <3>1, <3>2 DEF View
    <3> QED BY <3>3, <3>4 DEF u
  <2>3. v.ready => v.queue = <<>>
    BY <1>1, <2>2 DEF QueueFlushed
  <2> HIDE DEF v
  <2> QED BY <1>1, <1>2, <2>1, <2>2, <2>3, ViewChanges DEF HostKept
<1>4. CASE t \notin External
  <2> DEFINE v == Mounted(t, test)
             f == mounts + 1
  <2>1. views' = [views EXCEPT ![k] = v] /\ mounts' = f /\ mounts < MaxMounts
    BY <1>4 DEF MountRegistered
  <2>2. mounts \in Nat /\ f \in 1 .. MaxMounts /\ f \in 1 .. f
    BY <1>1, <2>1, HostBoundAssumption DEF HostTyped
  <2>3. /\ v \in View /\ v.attached /\ v.ready = FALSE /\ v.frame = f /\ v.code = v.type
        /\ v.seen = <<>> /\ v.inbox = <<>> /\ v.queue = <<1>> /\ v.fed = 1
    <3>1. <<1>> \in Seq(Nat) /\ <<>> \in Seq(Nat)
      OBVIOUS
    <3> QED BY <2>2, <3>1 DEF Mounted, View
  <2> HIDE DEF v
  <2>4. FedAt(v)
    <3>1. Numbers(0) = <<>> /\ Numbers(0) \o <<0 + 1>> = Numbers(0 + 1)
      BY NumbersGrow DEF Numbers
    <3>2. <<>> \o <<1>> = Numbers(1)
      BY <3>1
    <3>3. (<<>> \o <<>>) \o <<1>> = <<>> \o <<1>>
      OBVIOUS
    <3> QED BY <2>3, <3>2, <3>3 DEF FedAt
  <2>5. /\ views' \in [Keys -> View] /\ views'[k] = v
        /\ \A m \in Keys : m # k => views'[m] = views[m]
    BY <1>1, <2>1, <2>3 DEF HostTyped
  <2>6. /\ verdict' \in [Keys -> Verdicts] /\ verdict'[k] = "none"
        /\ \A m \in Keys : m # k => verdict'[m] = verdict[m]
    BY <1>1, <1>2 DEF HostTyped, Verdicts
  <2>7. mail[f] = <<>>
    BY <1>1, <2>2 DEF NoMailYet
  <2>8. ASSUME NEW m \in Keys, m # k, views[m].attached
        PROVE  views[m].frame \in 1 .. mounts /\ views[m].frame \in 1 .. f /\ views[m].frame # f
    BY <1>1, <2>2, <2>8 DEF KeyOK
  <2>9. HostTyped'
    BY <1>1, <1>2, <2>1, <2>2, <2>5, <2>6 DEF HostTyped
  <2>10. QueueFlushed'
    BY <1>1, <2>3, <2>5 DEF QueueFlushed
  <2>11. NoMailYet'
    BY <1>1, <1>2, <2>1, <2>2 DEF NoMailYet
  <2>12. FramesApart'
    <3> SUFFICES ASSUME NEW j \in Keys, NEW m \in Keys, j # m,
                        views'[j].attached, views'[m].attached
                 PROVE  views'[j].frame # views'[m].frame
      BY DEF FramesApart
    <3>1. CASE j # k /\ m # k
      BY <1>1, <2>5, <3>1 DEF FramesApart
    <3>2. CASE j = k
      BY <2>3, <2>5, <2>8, <3>2
    <3>3. CASE m = k
      BY <2>3, <2>5, <2>8, <3>3
    <3> QED BY <3>1, <3>2, <3>3
  <2>13. ASSUME NEW m \in Keys PROVE KeyOK(m)'
    <3>1. CASE m = k
      <4>1. views'[m] = v /\ mail'[f] = <<>> /\ verdict'[m] = "none" /\ mounts' = f
        BY <1>2, <2>1, <2>5, <2>6, <2>7, <3>1
      <4> QED BY <2>2, <2>3, <2>4, <4>1 DEF KeyOK, FedAt
    <3>2. CASE m # k
      <4>1. views'[m] = views[m] /\ verdict'[m] = verdict[m] /\ KeyOK(m)
        BY <1>1, <2>5, <2>6, <3>2
      <4>2. views[m].attached => views[m].frame \in 1 .. f
        BY <2>8, <3>2
      <4> QED BY <1>2, <2>1, <4>1, <4>2 DEF KeyOK, FedAt
    <3> QED BY <3>1, <3>2
  <2> QED BY <2>9, <2>10, <2>11, <2>12, <2>13 DEF HostKept
<1> QED BY <1>3, <1>4

\* A mount that throws keeps it: what it leaves on show is not what a test waits for.
LEMMA MountFailureKeeps ==
    ASSUME HostKept, NEW k \in Keys, NEW t \in Types, NEW test \in BOOLEAN,
           MountFails(k, t, test), UNCHANGED mail
    PROVE  HostKept'
<1> DEFINE u == views[k]
           v == [u EXCEPT !.type = t, !.probe = FALSE]
<1>1. /\ HostTyped /\ QueueFlushed /\ FramesApart /\ NoMailYet /\ \A m \in Keys : KeyOK(m)
      /\ u \in View
  BY DEF HostKept, HostTyped
<1>2. /\ views' = [views EXCEPT ![k] = v] /\ UNCHANGED <<mounts, mail>>
      /\ \E o \in {"none", "unmounted"} : verdict' = [verdict EXCEPT ![k] = o]
  BY <1>1 DEF MountFails, Told, HostTyped
<1>3. /\ v \in View /\ v.probe = FALSE /\ v.ready = u.ready /\ v.queue = u.queue
      /\ v.attached = u.attached /\ v.frame = u.frame
      /\ v.seen = u.seen /\ v.inbox = u.inbox /\ v.fed = u.fed
  <2> HIDE DEF u, v
  <2>1. v = [u EXCEPT !.type = t, !.probe = FALSE]
    BY DEF v
  <2>2. v \in View
    BY <1>1, <2>1 DEF View
  <2>3. /\ v.probe = FALSE /\ v.ready = u.ready /\ v.queue = u.queue
        /\ v.attached = u.attached /\ v.frame = u.frame
    BY <1>1, <2>1 DEF View
  <2>4. v.seen = u.seen /\ v.inbox = u.inbox /\ v.fed = u.fed
    BY <1>1, <2>1 DEF View
  <2> QED BY <2>2, <2>3, <2>4
<1> HIDE DEF v
<1>4. v.ready => v.queue = <<>>
  BY <1>1, <1>3 DEF QueueFlushed
<1>5. v.attached => /\ views[k].attached /\ v.frame = views[k].frame /\ FedAt(v)
                    /\ views[k].seen # <<>> => v.seen # <<>>
  BY <1>1, <1>3 DEF KeyOK, FedAt
<1> QED BY <1>1, <1>2, <1>3, <1>4, <1>5, ViewChanges DEF HostKept

\* So a render keeps it either way.
LEMMA RenderKeeps ==
    ASSUME HostKept, NEW k \in Keys, NEW t \in Types, NEW test \in BOOLEAN, Render(k, t, test)
    PROVE  HostKept'
BY MountKeeps, MountFailureKeeps DEF Render

\* A message posted or queued keeps it.
LEMMA FeedKeeps ==
    ASSUME HostKept, NEW k \in Keys, NEW v \in {Updated(views[k]), Posted(views[k])}, Feed(k, v)
    PROVE  HostKept'
<1>1. /\ HostTyped /\ QueueFlushed /\ FramesApart /\ NoMailYet /\ \A m \in Keys : KeyOK(m)
      /\ views[k] \in View
  BY DEF HostKept, HostTyped
<1>2. /\ views[k].ready => views[k].queue = <<>>
      /\ views[k].attached => FedAt(views[k])
  BY <1>1 DEF QueueFlushed, KeyOK
<1>3. /\ v \in View
      /\ v.ready => v.queue = <<>>
      /\ v.attached = views[k].attached /\ v.frame = views[k].frame /\ v.seen = views[k].seen
      /\ v.type = views[k].type /\ v.code = views[k].code /\ v.probe = views[k].probe
      /\ v.attached => FedAt(v)
  BY <1>1, <1>2, PostedKeeps
<1>4. /\ views' = [views EXCEPT ![k] = v]
      /\ UNCHANGED <<mounts, mail>> /\ verdict' = verdict
  BY DEF Feed
<1>5. v.attached => /\ views[k].attached /\ v.frame = views[k].frame /\ FedAt(v)
                    /\ views[k].seen # <<>> => v.seen # <<>>
  BY <1>3
<1> QED BY <1>1, <1>3, <1>4, <1>5, ViewChanges DEF HostKept

\* A removal keeps it.
LEMMA TeardownKeeps ==
    ASSUME HostKept, NEW k \in Keys, Teardown(k)
    PROVE  HostKept'
<1>1. HostTyped /\ QueueFlushed /\ FramesApart /\ NoMailYet /\ \A m \in Keys : KeyOK(m)
  BY DEF HostKept
<1>2. NoView \in View /\ ~NoView.attached /\ NoView.queue = <<>>
  BY HostBoundAssumption DEF NoView, View
<1>3. /\ views' = [views EXCEPT ![k] = NoView] /\ UNCHANGED <<mounts, mail>>
      /\ verdict' = [verdict EXCEPT ![k] = "none"]
  BY DEF Teardown
<1> QED BY <1>1, <1>2, <1>3, ViewChanges DEF HostKept

\* The load of a frame, which flushes its queue, keeps it.
LEMMA LoadKeeps ==
    ASSUME HostKept, NEW k \in Keys, Load(k)
    PROVE  HostKept'
<1> DEFINE u == views[k]
           v == [u EXCEPT !.ready = TRUE, !.queue = <<>>, !.inbox = u.inbox \o u.queue]
<1>1. /\ HostTyped /\ QueueFlushed /\ FramesApart /\ NoMailYet /\ \A m \in Keys : KeyOK(m)
      /\ u \in View
  BY DEF HostKept, HostTyped
<1>2. /\ views' = [views EXCEPT ![k] = v]
      /\ UNCHANGED <<mounts, mail>> /\ verdict' = verdict
  BY <1>1 DEF Load, HostTyped
<1>3. /\ u.attached = TRUE /\ u.seen \in Seq(Nat) /\ u.inbox \in Seq(Nat) /\ u.queue \in Seq(Nat)
      /\ FedAt(u)
  BY <1>1 DEF View, Load, KeyOK
<1>4. /\ v \in View /\ v.queue = <<>> /\ v.inbox = u.inbox \o u.queue
      /\ v.attached = TRUE /\ v.frame = u.frame /\ v.seen = u.seen /\ v.fed = u.fed
      /\ v.type = u.type /\ v.code = u.code /\ v.probe = u.probe
  <2> DEFINE q == u.inbox \o u.queue
  <2>1. q \in Seq(Nat) /\ <<>> \in Seq(Nat)
    BY <1>3, ConcatProperties
  <2>2. v = [u EXCEPT !.ready = TRUE, !.queue = <<>>, !.inbox = q]
    OBVIOUS
  <2> HIDE DEF u, v, q
  <2>3. v \in View
    BY <1>1, <2>1, <2>2 DEF View
  <2>4. v.queue = <<>> /\ v.inbox = q /\ v.frame = u.frame /\ v.seen = u.seen /\ v.fed = u.fed
    BY <1>1, <2>2 DEF View
  <2>5. v.attached = u.attached /\ v.type = u.type /\ v.code = u.code /\ v.probe = u.probe
    BY <1>1, <2>2 DEF View
  <2> QED BY <1>3, <2>3, <2>4, <2>5 DEF q
<1> HIDE DEF u, v
<1>5. FedAt(v)
  <2> DEFINE a == u.seen
             b == u.inbox
             c == u.queue
  <2>1. a \in Seq(Nat) /\ b \in Seq(Nat) /\ c \in Seq(Nat)
    BY <1>3
  <2>2. FedAt(v) <=> (a \o (b \o c)) \o <<>> = Numbers(u.fed)
    BY <1>4 DEF FedAt
  <2>3. (a \o b) \o c = Numbers(u.fed)
    BY <1>3 DEF FedAt
  <2> HIDE DEF a, b, c
  <2>4. b \o c \in Seq(Nat) /\ a \o (b \o c) \in Seq(Nat)
    BY <2>1, ConcatProperties
  <2>5. (a \o (b \o c)) \o <<>> = a \o (b \o c)
    BY <2>4, ConcatEmptySeq
  <2>6. (a \o b) \o c = a \o (b \o c)
    BY <2>1, ConcatAssociative
  <2> QED BY <2>2, <2>3, <2>5, <2>6
<1>6. v.attached => /\ views[k].attached /\ v.frame = views[k].frame /\ FedAt(v)
                    /\ views[k].seen # <<>> => v.seen # <<>>
  BY <1>3, <1>4, <1>5 DEF u
<1>7. /\ v.attached = views[k].attached /\ v.type = views[k].type
      /\ v.code = views[k].code /\ v.probe = views[k].probe
  BY <1>3, <1>4 DEF u
<1> QED BY <1>1, <1>2, <1>4, <1>6, <1>7, ViewChanges DEF HostKept

\* A frame that handles its next message keeps it.
LEMMA FrameHandlesKeeps ==
    ASSUME HostKept, NEW k \in Keys, FrameHandles(k)
    PROVE  HostKept'
<1> DEFINE u == views[k]
           e == Head(u.inbox)
           r == Tail(u.inbox)
           v == [u EXCEPT !.inbox = r, !.seen = Append(u.seen, e)]
           f == u.frame
<1>1. /\ HostTyped /\ QueueFlushed /\ FramesApart /\ NoMailYet /\ \A m \in Keys : KeyOK(m)
      /\ u \in View
  BY DEF HostKept, HostTyped
<1>2. views' = [views EXCEPT ![k] = v] /\ UNCHANGED <<mounts, verdict>>
  BY <1>1 DEF FrameHandles, HostTyped
<1>3. PICK ok \in BOOLEAN : mail' = [mail EXCEPT ![f] = Append(@, ok)]
  BY DEF FrameHandles
<1>4. /\ u.attached = TRUE /\ u.inbox # <<>> /\ u.seen \in Seq(Nat) /\ u.inbox \in Seq(Nat)
      /\ u.queue \in Seq(Nat) /\ FedAt(u) /\ f \in 1 .. mounts /\ mounts \in 0 .. MaxMounts
  BY <1>1 DEF View, FrameHandles, KeyOK, HostTyped
<1>5. f \in 1 .. MaxMounts /\ ~(f > mounts)
  BY <1>4, HostBoundAssumption
<1>6. e \in Nat /\ r \in Seq(Nat) /\ <<e>> \o r = u.inbox /\ Append(u.seen, e) = u.seen \o <<e>>
  <2>1. e \in Nat /\ r \in Seq(Nat) /\ <<e>> \o r = u.inbox
    BY <1>4, HeadAndTail
  <2> HIDE DEF e, r
  <2> QED BY <1>4, <2>1, AppendIs
<1>7. /\ v \in View /\ v.inbox = r /\ v.queue = u.queue /\ v.seen = u.seen \o <<e>>
      /\ v.attached = TRUE /\ v.frame = f /\ v.fed = u.fed /\ v.ready = u.ready
      /\ v.type = u.type /\ v.code = u.code /\ v.probe = u.probe
      /\ v.seen # <<>>
  <2> DEFINE q == Append(u.seen, e)
  <2>1. q \in Seq(Nat) /\ q # <<>>
    <3> HIDE DEF e, r
    <3> QED BY <1>4, <1>6
  <2>2. v = [u EXCEPT !.inbox = r, !.seen = q]
    OBVIOUS
  <2>3. q = u.seen \o <<e>>
    BY <1>6
  <2> HIDE DEF u, v, q, r
  <2>4. v \in View
    BY <1>1, <1>6, <2>1, <2>2 DEF View
  <2>5. v.inbox = r /\ v.queue = u.queue /\ v.seen = q /\ v.frame = u.frame /\ v.fed = u.fed
    BY <1>1, <2>2 DEF View
  <2>6. /\ v.attached = u.attached /\ v.ready = u.ready
        /\ v.type = u.type /\ v.code = u.code /\ v.probe = u.probe
    BY <1>1, <2>2 DEF View
  <2> QED BY <1>4, <2>1, <2>3, <2>4, <2>5, <2>6
<1> HIDE DEF u, v, e, r, f
<1>8. FedAt(v)
  <2> DEFINE a == u.seen
             b == <<e>>
             ab == a \o b
             d == u.queue
  <2>1. a \in Seq(Nat) /\ b \in Seq(Nat) /\ r \in Seq(Nat)
    BY <1>4, <1>6
  <2>2. FedAt(v) <=> (ab \o r) \o d = Numbers(u.fed)
    BY <1>7 DEF FedAt
  <2>3. (a \o (b \o r)) \o d = Numbers(u.fed)
    BY <1>4, <1>6 DEF FedAt
  <2> HIDE DEF a, b, d, ab
  <2>4. (a \o b) \o r = a \o (b \o r)
    BY <2>1, ConcatAssociative
  <2> QED BY <2>2, <2>3, <2>4 DEF ab
<1>9. /\ views' \in [Keys -> View] /\ views'[k] = v
      /\ \A m \in Keys : m # k => views'[m] = views[m]
  BY <1>1, <1>2, <1>7 DEF HostTyped
<1>10. /\ mail' \in [1 .. MaxMounts -> Seq(BOOLEAN)]
       /\ \A g \in 1 .. MaxMounts : g # f => mail'[g] = mail[g]
  BY <1>1, <1>3, <1>5 DEF HostTyped
<1>11. HostTyped' /\ QueueFlushed' /\ NoMailYet'
  <2>1. HostTyped'
    BY <1>1, <1>2, <1>9, <1>10 DEF HostTyped
  <2>2. QueueFlushed'
    <3>1. views[k].ready => views[k].queue = <<>>
      BY <1>1 DEF QueueFlushed
    <3>2. v.ready => v.queue = <<>>
      BY <1>7, <3>1 DEF u
    <3> QED BY <1>1, <1>9, <3>2 DEF QueueFlushed
  <2>3. NoMailYet'
    BY <1>1, <1>2, <1>5, <1>10 DEF NoMailYet
  <2> QED BY <2>1, <2>2, <2>3
<1>12. \A m \in Keys : views'[m].attached => views[m].attached /\ views'[m].frame = views[m].frame
  BY <1>4, <1>7, <1>9 DEF u, f
<1>13. FramesApart'
  BY <1>1, <1>12 DEF FramesApart
<1>14. ASSUME NEW m \in Keys PROVE KeyOK(m)'
  <2>1. CASE m = k
    <3>1. views'[m] = v /\ verdict' = verdict /\ mounts' = mounts /\ KeyOK(k)
      BY <1>1, <1>2, <1>9, <2>1
    <3>2. /\ v.probe => v.code = v.type
          /\ verdict[k] = "ok" => v.code = v.type
      BY <1>4, <1>7, <3>1 DEF KeyOK, u
    <3> QED BY <1>4, <1>7, <1>8, <2>1, <3>1, <3>2 DEF KeyOK, FedAt
  <2>2. CASE m # k
    <3>1. views'[m] = views[m] /\ KeyOK(m) /\ verdict' = verdict /\ mounts' = mounts
      BY <1>1, <1>2, <1>9, <2>2
    <3>2. views[m].attached => views[m].frame # f /\ views[m].frame \in 1 .. MaxMounts
      <4>1. views[m].attached => views[m].frame \in 1 .. mounts
        BY <3>1 DEF KeyOK
      <4>2. \A g \in 1 .. mounts : g \in 1 .. MaxMounts
        BY <1>4, HostBoundAssumption
      <4> QED BY <1>1, <1>4, <2>2, <4>1, <4>2 DEF FramesApart, u, f
    <3>3. views[m].attached => mail'[views[m].frame] = mail[views[m].frame]
      BY <1>10, <3>2
    <3> QED BY <3>1, <3>3 DEF KeyOK, FedAt
  <2> QED BY <2>1, <2>2
<1> QED BY <1>11, <1>13, <1>14 DEF HostKept

\* What the host hears of a frame on show changes its key's verdict, and whether a
\* test still waits.
LEMMA HostHearsKeeps ==
    ASSUME HostKept, NEW f \in 1 .. MaxMounts, HostHears(f)
    PROVE  HostKept'
<1>1. HostTyped /\ QueueFlushed /\ FramesApart /\ NoMailYet /\ \A m \in Keys : KeyOK(m)
  BY DEF HostKept
<1>2. /\ mail[f] # <<>> /\ mail' = [mail EXCEPT ![f] = Tail(@)] /\ mounts' = mounts
      /\ mail[f] \in Seq(BOOLEAN)
  BY <1>1 DEF HostHears, HostTyped
<1>3. /\ mail' \in [1 .. MaxMounts -> Seq(BOOLEAN)]
      /\ \A g \in 1 .. MaxMounts : mail'[g] # <<>> => mail[g] # <<>>
  <2>1. Tail(mail[f]) \in Seq(BOOLEAN)
    BY <1>2, HeadTailProperties
  <2> QED BY <1>1, <1>2, <2>1 DEF HostTyped
<1> DEFINE Same(w, x) == /\ w.ready = x.ready /\ w.queue = x.queue /\ w.attached = x.attached
                         /\ w.frame = x.frame /\ w.seen = x.seen /\ w.inbox = x.inbox
                         /\ w.fed = x.fed /\ w.type = x.type /\ w.code = x.code
                         /\ w.probe => x.probe
           Heard(m, w) == \/ w = verdict[m]
                          \/ Shows(m, f) /\ (w = "ok" => views[m].probe) /\ w # "none"
<1>4. /\ views' \in [Keys -> View]
      /\ \A m \in Keys : Same(views'[m], views[m])
      /\ verdict' \in [Keys -> Verdicts]
      /\ \A m \in Keys : Heard(m, verdict'[m])
  <2>1. CASE UNCHANGED <<views, verdict>>
    BY <1>1, <2>1 DEF HostTyped
  <2>2. ASSUME NEW k \in Keys, Shows(k, f), Report(k, Head(mail[f]))
        PROVE  /\ views' \in [Keys -> View]
               /\ \A m \in Keys : Same(views'[m], views[m])
               /\ verdict' \in [Keys -> Verdicts]
               /\ \A m \in Keys : Heard(m, verdict'[m])
    <3> DEFINE u == views[k]
               v == [u EXCEPT !.probe = FALSE]
    <3>1. u \in View
      BY <1>1 DEF HostTyped
    <3>2. views' = [views EXCEPT ![k] = v] \/ views' = views
      BY <1>1, <2>2 DEF Report, HostTyped
    <3>3. v \in View /\ Same(v, u)
      <4> HIDE DEF u
      <4> QED BY <3>1 DEF View
    <3>4. \/ verdict' = verdict
          \/ \E o \in {"ok", "failed"} : /\ verdict' = [verdict EXCEPT ![k] = o]
                                         /\ o = "ok" => views[k].probe
      BY <2>2 DEF Report, Told
    <3> HIDE DEF v
    <3>5. /\ views' \in [Keys -> View] /\ \A m \in Keys : Same(views'[m], views[m])
      BY <1>1, <3>2, <3>3 DEF HostTyped
    <3>6. /\ verdict' \in [Keys -> Verdicts]
          /\ \A m \in Keys : Heard(m, verdict'[m])
      BY <1>1, <2>2, <3>4 DEF HostTyped, Verdicts
    <3> QED BY <2>2, <3>5, <3>6
  <2> QED BY <2>1, <2>2 DEF HostHears
<1>5. HostTyped' /\ QueueFlushed' /\ NoMailYet' /\ FramesApart'
  <2>1. HostTyped'
    BY <1>1, <1>2, <1>3, <1>4 DEF HostTyped
  <2>2. QueueFlushed' /\ FramesApart'
    BY <1>1, <1>4 DEF QueueFlushed, FramesApart
  <2>3. NoMailYet'
    BY <1>1, <1>2, <1>3 DEF NoMailYet
  <2> QED BY <2>1, <2>2, <2>3
<1>6. ASSUME NEW m \in Keys PROVE KeyOK(m)'
  <2>1. Same(views'[m], views[m]) /\ KeyOK(m) /\ Heard(m, verdict'[m])
    BY <1>1, <1>4
  <2>2. ASSUME views'[m].attached
        PROVE  /\ views'[m].frame \in 1 .. mounts'
               /\ FedAt(views'[m])
               /\ mail'[views'[m].frame] # <<>> => views'[m].seen # <<>>
               /\ views'[m].probe => views'[m].code = views'[m].type
    <3>1. /\ views[m].frame \in 1 .. mounts /\ FedAt(views[m])
          /\ mail[views[m].frame] # <<>> => views[m].seen # <<>>
          /\ views[m].probe => views[m].code = views[m].type
      BY <2>1, <2>2 DEF KeyOK
    <3>2. views[m].frame \in 1 .. MaxMounts
      BY <1>1, <3>1, HostBoundAssumption DEF HostTyped
    <3> QED BY <1>2, <1>3, <2>1, <3>1, <3>2 DEF FedAt
  <2>3. Shows(m, f) => /\ views[m].attached /\ views[m].seen # <<>>
                       /\ views[m].probe => views[m].code = views[m].type
    BY <1>2, <2>1 DEF Shows, KeyOK
  <2>4. verdict'[m] \in {"ok", "failed"} => views'[m].attached /\ views'[m].seen # <<>>
    BY <2>1, <2>3 DEF KeyOK
  <2>5. verdict'[m] = "ok" => views'[m].code = views'[m].type
    BY <2>1, <2>3 DEF KeyOK
  <2> QED BY <2>2, <2>4, <2>5 DEF KeyOK, FedAt
<1> QED BY <1>5, <1>6 DEF HostKept

\* So does a step that leaves the host alone.
LEMMA UnchangedHostKept ==
    ASSUME HostKept, UNCHANGED host
    PROVE  HostKept'
<1>1. views' = views /\ mounts' = mounts /\ mail' = mail /\ verdict' = verdict
  BY DEF host
<1>2. HostTyped' /\ QueueFlushed' /\ FramesApart' /\ NoMailYet'
  BY <1>1 DEF HostKept, HostTyped, QueueFlushed, FramesApart, NoMailYet
<1>3. \A m \in Keys : KeyOK(m)'
  BY <1>1 DEF HostKept, KeyOK, FedAt
<1> QED BY <1>2, <1>3 DEF HostKept

\* An event of the core keeps it, whatever it is.
LEMMA EventKeeps ==
    ASSUME HostKept, NEW ev,
           \/ \E k \in Keys, t \in Types, test \in BOOLEAN : ev = RenderEvent(k, t, test)
           \/ \E k \in Keys, event \in {"update", "data"} : ev = FeedEvent(k, event),
           HandleEvent(ev)
    PROVE  HostKept'
<1>1. ASSUME NEW k, ev = Refused(k) PROVE HostKept'
  <2>1. ev.event = "render_result"
    BY <1>1 DEF Refused
  <2> QED BY <2>1, UnchangedHostKept DEF HandleEvent
<1>2. ASSUME NEW k \in Keys, NEW t \in Types, NEW test \in BOOLEAN,
             ev = [event |-> "render", key |-> k, type |-> t, test |-> test]
      PROVE  HostKept'
  <2>1. ev.event = "render" /\ ev.key = k /\ ev.type = t /\ ev.test = test
    BY <1>2
  <2>2. Render(k, t, test)
    BY <2>1 DEF HandleEvent
  <2> QED BY <2>2, RenderKeeps
<1>3. ASSUME NEW k \in Keys, NEW event \in {"update", "data"},
             ev = [event |-> event, key |-> k]
      PROVE  HostKept'
  <2>1. ev.event = event /\ ev.key = k
    BY <1>3
  <2>2. CASE event = "update"
    <3>1. Feed(k, Updated(views[k]))
      BY <2>1, <2>2 DEF HandleEvent
    <3> QED BY <3>1, FeedKeeps
  <2>3. CASE event = "data"
    <3>1. Feed(k, Posted(views[k]))
      BY <2>1, <2>3 DEF HandleEvent
    <3> QED BY <3>1, FeedKeeps
  <2> QED BY <2>2, <2>3
<1> QED BY <1>1, <1>2, <1>3 DEF RenderEvent, FeedEvent

\* Every step of the host keeps the invariant.
LEMMA HostStep == HostIInv /\ [HostNext]_hostVars => HostIInv'
<1> SUFFICES ASSUME HostIInv, [HostNext]_hostVars PROVE HostIInv'
  OBVIOUS
<1>1. TypeOK /\ HostKept
  BY DEF HostIInv, HostKept
<1>2. ASSUME UNCHANGED <<store, sender>>,
             types' \in SUBSET Types, widgets' \in [Keys -> Types \cup {Absent}]
      PROVE  TypeOK'
  BY <1>1, <1>2 DEF TypeOK, store
<1>3. UNCHANGED vars => TypeOK'
  BY <1>1 DEF TypeOK, vars, store, registry
<1>4. UNCHANGED <<store, registry, sender>> => TypeOK'
  BY <1>3 DEF vars
<1>5. CASE ApplyWidgetOp
  <2>1. sender' = sender
    BY <1>5 DEF ApplyWidgetOp
  <2>2. ASSUME NEW t \in Types, RegisterWidgetType(t), UNCHANGED host PROVE TypeOK' /\ HostKept'
    <3>1. TypeOK'
      BY <1>1, <1>2, <2>1, <2>2, WidgetOpTyped
    <3> QED BY <1>1, <2>2, <3>1, UnchangedHostKept
  <2>3. ASSUME NEW k \in Keys, NEW t \in Types,
               AddWidget(k, t), HandleEvent(RenderEvent(k, t, FALSE))
        PROVE  TypeOK' /\ HostKept'
    <3>1. TypeOK'
      BY <1>1, <1>2, <2>1, <2>3, WidgetOpTyped
    <3>2. HostKept'
      BY <1>1, <2>3, EventKeeps
    <3> QED BY <3>1, <3>2
  <2>4. ASSUME NEW k \in Keys, NEW t \in Types,
               HandleEvent(RenderEvent(k, t, TRUE)), UNCHANGED <<store, registry>>
        PROVE  TypeOK' /\ HostKept'
    <3>1. HostKept'
      BY <1>1, <2>4, EventKeeps
    <3> QED BY <1>4, <2>1, <2>4, <3>1
  <2>5. ASSUME NEW k \in Keys, NEW event \in {"update", "data"},
               HandleEvent(FeedEvent(k, event)), UNCHANGED <<store, registry>>
        PROVE  TypeOK' /\ HostKept'
    <3>1. HostKept'
      BY <1>1, <2>5, EventKeeps
    <3> QED BY <1>4, <2>1, <2>5, <3>1
  <2>6. TypeOK' /\ HostKept'
    BY <1>5, <2>2, <2>3, <2>4, <2>5 DEF ApplyWidgetOp
  <2> QED BY <2>6 DEF HostIInv, HostKept
<1>6. ASSUME NEW k \in Keys, ApplyRemove(k) PROVE HostIInv'
  <2>1. TypeOK'
    BY <1>1, <1>2, <1>6, WidgetOpTyped DEF ApplyRemove
  <2>2. HostKept'
    BY <1>1, <1>6, TeardownKeeps DEF ApplyRemove
  <2> QED BY <2>1, <2>2 DEF HostIInv, HostKept
<1>7. CASE FrameStep
  <2>1. TypeOK'
    BY <1>3, <1>7 DEF FrameStep, Load, FrameHandles, HostHears
  <2>2. HostKept'
    BY <1>1, <1>7, LoadKeeps, FrameHandlesKeeps, HostHearsKeeps DEF FrameStep
  <2> QED BY <2>1, <2>2 DEF HostIInv, HostKept
<1>8. CASE UNCHANGED hostVars
  <2>1. TypeOK' /\ HostKept'
    BY <1>1, <1>3, <1>8, UnchangedHostKept DEF hostVars
  <2> QED BY <2>1 DEF HostIInv, HostKept
<1> QED BY <1>5, <1>6, <1>7, <1>8 DEF HostNext

\* The invariant of the host over the core: types, flushed queues, frames of their own and,
\* for each key, what its frame was given against what it has handled.
THEOREM HostInductive == HostSpec => []HostIInv
<1>1. HostInit => HostIInv
  BY HostInitially
<1>2. HostIInv /\ [HostNext]_hostVars => HostIInv'
  BY HostStep
<1> QED BY <1>1, <1>2, PTL DEF HostSpec

\* The host's state is well typed over the core's, and a frame that has loaded has
\* an empty queue.
THEOREM HostTypeCorrect == HostSpec => []HostTypeOK
<1>1. HostIInv => HostTypeOK
  BY DEF HostIInv, HostTypeOK, HostTyped, QueueFlushed, Verdicts
<1> QED BY <1>1, HostInductive, PTL

\* Every frame on show gets its messages in the order they were given, none lost
\* and none twice, however its loading falls among them.
THEOREM FramesAreFedInOrder == HostSpec => []FedInOrder
<1>1. HostIInv => FedInOrder
  BY DEF HostIInv, KeyOK, FedAt, FedInOrder, Numbers
<1> QED BY <1>1, HostInductive, PTL

\* What is reported on a frame's word was answered by the frame the key now shows, and
\* a success by the code of the type the key was last given: neither a frame replaced
\* or removed, nor one left on show by a mount that failed, passes for another.
THEOREM VerdictsAreEarned == HostSpec => []VerdictIsEarned
<1>1. HostIInv => VerdictIsEarned
  BY DEF HostIInv, KeyOK, VerdictIsEarned
<1> QED BY <1>1, HostInductive, PTL

-----------------------------------------------------------------------------
(* The microphone control: of the calls under way at most one is the step  *)
(* of a tap, and the answer that sets the control last tells it what the   *)
(* microphone now is.                                                      *)

FlagsTyped ==
    /\ mic \in BOOLEAN /\ permitted \in BOOLEAN /\ linked \in BOOLEAN
    /\ busy \in BOOLEAN /\ ring \in BOOLEAN /\ pulse \in BOOLEAN /\ told \in BOOLEAN
    /\ losses \in 0 .. MaxLosses
    /\ pulse => ring

\* Only a tap stops the microphone, and a sync only asks.
PageRequest ==
    {r \in Requests : /\ r.does = "stop" => r.by = "toggle"
                      /\ r.by = "sync" => r.does = "ask"}

PageAnswer ==
    {a \in Answers : /\ a.does = "ask" <=> a.result \in {"on", "off"}
                     /\ a.by = "sync" => a.does = "ask"}

CallsTyped ==
    /\ requests \in Seq(PageRequest) /\ answers \in Seq(PageAnswer)
    /\ asking \subseteq {"toggle", "ensure"}

NoTap(q) == \A i \in DOMAIN q : q[i].by # "toggle"

OneTap(q) ==
    \E i \in DOMAIN q : /\ q[i].by = "toggle"
                        /\ \A j \in DOMAIN q : j # i => q[j].by # "toggle"

TapIsOne ==
    \/ ~busy /\ NoTap(requests) /\ "toggle" \notin asking /\ NoTap(answers)
    \/ busy /\ OneTap(requests) /\ "toggle" \notin asking /\ NoTap(answers)
    \/ busy /\ NoTap(requests) /\ "toggle" \in asking /\ NoTap(answers)
    \/ busy /\ NoTap(requests) /\ "toggle" \notin asking /\ OneTap(answers)

\* Whether an answer sets the control, and to what.
SetsRing(a) == a.by = "sync" \/ (a.by = "toggle" /\ a.does # "ask" /\ a.result = "done")
RingFrom(a) == IF a.by = "sync" THEN a.result = "on" ELSE a.does = "start"

\* Once the answers of q are seen, a control that shows r will show m.
WillShow(q, r, m) ==
    /\ \A n \in DOMAIN q :
          SetsRing(q[n]) /\ (\A k \in DOMAIN q : k > n => ~SetsRing(q[k]))
             => (RingFrom(q[n]) <=> m)
    /\ (\A n \in DOMAIN q : ~SetsRing(q[n])) => (r <=> m)

RingWillFollow == told => WillShow(answers, ring, mic)

MicInv == FlagsTyped /\ CallsTyped /\ TapIsOne /\ RingWillFollow

\* An answer that sets the control gives it what it says, any other leaves it.
LEMMA AnswerAppended ==
    ASSUME NEW q \in Seq(PageAnswer), NEW a \in PageAnswer,
           NEW r \in BOOLEAN, NEW m \in BOOLEAN
    PROVE  /\ SetsRing(a) /\ (RingFrom(a) <=> m) => WillShow(Append(q, a), r, m)
           /\ ~SetsRing(a) /\ WillShow(q, r, m) => WillShow(Append(q, a), r, m)
<1> DEFINE p == Append(q, a)
           l == Len(q)
<1>1. /\ l \in Nat /\ DOMAIN q = 1 .. l /\ DOMAIN p = 1 .. l + 1
      /\ p[l + 1] = a /\ \A n \in 1 .. l : p[n] = q[n]
  OBVIOUS
<1> HIDE DEF p, l
<1>2. ASSUME SetsRing(a), RingFrom(a) <=> m PROVE WillShow(p, r, m)
  <2>1. l + 1 \in DOMAIN p /\ SetsRing(p[l + 1])
    BY <1>1, <1>2
  <2>2. \A n \in DOMAIN p : n # l + 1 => l + 1 > n
    BY <1>1
  <2> QED BY <1>1, <1>2, <2>1, <2>2 DEF WillShow
<1>3. ASSUME ~SetsRing(a), WillShow(q, r, m) PROVE WillShow(p, r, m)
  <2>1. \A n \in DOMAIN q : n \in DOMAIN p /\ p[n] = q[n]
    BY <1>1
  <2>2. \A n \in DOMAIN p : SetsRing(p[n]) => n \in DOMAIN q
    BY <1>1, <1>3
  <2> QED BY <1>3, <2>1, <2>2 DEF WillShow
<1> QED BY <1>2, <1>3 DEF p

\* The page does with the answer at the head what the control was promised.
LEMMA AnswerSeen ==
    ASSUME NEW q \in Seq(PageAnswer), q # <<>>,
           NEW r \in BOOLEAN, NEW m \in BOOLEAN, WillShow(q, r, m)
    PROVE  WillShow(Tail(q), IF SetsRing(Head(q)) THEN RingFrom(Head(q)) ELSE r, m)
<1> DEFINE p == Tail(q)
           l == Len(q) - 1
           h == Head(q)
           s == IF SetsRing(h) THEN RingFrom(h) ELSE r
<1>1. /\ l \in Nat /\ DOMAIN q = 1 .. l + 1 /\ DOMAIN p = 1 .. l
      /\ h = q[1] /\ \A n \in 1 .. l : p[n] = q[n + 1]
  OBVIOUS
<1> HIDE DEF p, l, h
<1>2. \A n \in DOMAIN p : n + 1 \in DOMAIN q /\ p[n] = q[n + 1]
  BY <1>1
<1>3. \A k \in DOMAIN q : k # 1 => k - 1 \in DOMAIN p /\ q[k] = p[k - 1]
  <2>1. \A k \in 1 .. l + 1 : k # 1 => k - 1 \in 1 .. l /\ k - 1 + 1 = k
    BY <1>1
  <2> QED BY <1>1, <2>1
<1>4. ASSUME NEW n \in DOMAIN p, SetsRing(p[n]),
             \A k \in DOMAIN p : k > n => ~SetsRing(p[k])
      PROVE  RingFrom(p[n]) <=> m
  <2>1. ASSUME NEW k \in DOMAIN q, k > n + 1 PROVE ~SetsRing(q[k])
    <3>1. n \in Nat /\ k \in Nat
      BY <1>1
    <3>2. k # 1 /\ k - 1 > n
      BY <2>1, <3>1
    <3> QED BY <1>3, <1>4, <3>2
  <2>2. n + 1 \in DOMAIN q /\ SetsRing(q[n + 1])
    BY <1>2, <1>4
  <2> QED BY <1>2, <2>1, <2>2 DEF WillShow
<1>5. ASSUME \A n \in DOMAIN p : ~SetsRing(p[n])
      PROVE  s <=> m
  <2>1. \A k \in DOMAIN q : k # 1 => ~SetsRing(q[k])
    BY <1>3, <1>5
  <2>2. CASE SetsRing(h)
    <3>1. 1 \in DOMAIN q /\ \A k \in DOMAIN q : k > 1 => ~SetsRing(q[k])
      BY <1>1, <2>1
    <3> QED BY <1>1, <2>2, <3>1 DEF WillShow
  <2>3. CASE ~SetsRing(h)
    BY <1>1, <2>1, <2>3 DEF WillShow
  <2> QED BY <2>2, <2>3
<1>6. WillShow(p, s, m)
  BY <1>4, <1>5 DEF WillShow
<1> QED BY <1>6 DEF p, h

\* One more call at the end of a queue of calls.
LEMMA CallAppended ==
    ASSUME NEW S, NEW q \in Seq(S), NEW e \in S
    PROVE  /\ NoTap(q) /\ e.by # "toggle" => NoTap(Append(q, e))
           /\ NoTap(q) /\ e.by = "toggle" => OneTap(Append(q, e))
           /\ OneTap(q) /\ e.by # "toggle" => OneTap(Append(q, e))
<1> DEFINE p == Append(q, e)
           l == Len(q)
<1>1. /\ l \in Nat /\ DOMAIN q = 1 .. l /\ DOMAIN p = 1 .. l + 1
      /\ p[l + 1] = e /\ \A n \in 1 .. l : p[n] = q[n]
  OBVIOUS
<1> HIDE DEF p, l
<1>2. /\ \A n \in DOMAIN q : n \in DOMAIN p /\ p[n] = q[n]
      /\ \A n \in DOMAIN p : n \in DOMAIN q \/ n = l + 1
      /\ l + 1 \in DOMAIN p /\ l + 1 \notin DOMAIN q
  BY <1>1
<1>3. NoTap(q) /\ e.by # "toggle" => NoTap(p)
  BY <1>1, <1>2 DEF NoTap
<1>4. NoTap(q) /\ e.by = "toggle" => OneTap(p)
  BY <1>1, <1>2 DEF NoTap, OneTap
<1>5. OneTap(q) /\ e.by # "toggle" => OneTap(p)
  BY <1>1, <1>2 DEF OneTap
<1> QED BY <1>3, <1>4, <1>5 DEF p

\* The call at the head is taken off.
LEMMA CallTaken ==
    ASSUME NEW S, NEW q \in Seq(S), q # <<>>
    PROVE  /\ Head(q) \in S /\ Tail(q) \in Seq(S)
           /\ NoTap(q) => NoTap(Tail(q)) /\ Head(q).by # "toggle"
           /\ OneTap(q) /\ Head(q).by = "toggle" => NoTap(Tail(q))
           /\ OneTap(q) /\ Head(q).by # "toggle" => OneTap(Tail(q))
<1> DEFINE p == Tail(q)
           l == Len(q) - 1
           h == Head(q)
<1>1. /\ l \in Nat /\ DOMAIN q = 1 .. l + 1 /\ DOMAIN p = 1 .. l
      /\ h = q[1] /\ \A n \in 1 .. l : p[n] = q[n + 1]
      /\ h \in S /\ p \in Seq(S)
  OBVIOUS
<1> HIDE DEF p, l, h
<1>2. \A n \in DOMAIN p : n + 1 \in DOMAIN q /\ n + 1 # 1 /\ p[n] = q[n + 1]
  BY <1>1
<1>3. \A k \in DOMAIN q : k # 1 => k - 1 \in DOMAIN p /\ q[k] = p[k - 1]
  <2>1. \A k \in 1 .. l + 1 : k # 1 => k - 1 \in 1 .. l /\ k - 1 + 1 = k
    BY <1>1
  <2> QED BY <1>1, <2>1
<1>4. 1 \in DOMAIN q
  BY <1>1
<1>5. NoTap(q) => NoTap(p) /\ h.by # "toggle"
  BY <1>1, <1>2, <1>4 DEF NoTap
<1>6. OneTap(q) /\ h.by = "toggle" => NoTap(p)
  BY <1>1, <1>2, <1>4 DEF NoTap, OneTap
<1>7. ASSUME OneTap(q), h.by # "toggle" PROVE OneTap(p)
  <2>1. PICK i \in DOMAIN q : /\ q[i].by = "toggle"
                              /\ \A j \in DOMAIN q : j # i => q[j].by # "toggle"
    BY <1>7 DEF OneTap
  <2>2. i # 1
    BY <1>1, <1>7, <2>1
  <2>3. i - 1 \in DOMAIN p /\ p[i - 1].by = "toggle"
    BY <1>3, <2>1, <2>2
  <2>4. ASSUME NEW j \in DOMAIN p, j # i - 1 PROVE p[j].by # "toggle"
    <3>1. j \in Nat /\ i \in Nat
      BY <1>1, <2>1
    <3>2. j + 1 # i
      BY <2>4, <3>1
    <3> QED BY <1>2, <2>1, <3>2
  <2> QED BY <2>3, <2>4 DEF OneTap
<1> QED BY <1>1, <1>5, <1>6, <1>7 DEF p, h

\* The steps of a tap are counted: one while the control is busy.
LEMMA TapIsCounted ==
    ASSUME TapIsOne
    PROVE  UnderWay("toggle") = IF busy THEN 1 ELSE 0
<1> DEFINE T(q) == {i \in DOMAIN q : q[i].by = "toggle"}
           W == asking \cap {"toggle"}
<1>1. ASSUME NEW q, NoTap(q) PROVE Cardinality(T(q)) = 0
  <2>1. T(q) = {}
    BY <1>1 DEF NoTap
  <2> QED BY <2>1, FS_EmptySet
<1>2. ASSUME NEW q, OneTap(q) PROVE Cardinality(T(q)) = 1
  <2>1. PICK i \in DOMAIN q : /\ q[i].by = "toggle"
                              /\ \A j \in DOMAIN q : j # i => q[j].by # "toggle"
    BY <1>2 DEF OneTap
  <2>2. T(q) = {i}
    BY <2>1
  <2> QED BY <2>2, FS_Singleton
<1>3. ASSUME "toggle" \notin asking PROVE Cardinality(W) = 0
  <2>1. W = {}
    BY <1>3
  <2> QED BY <2>1, FS_EmptySet
<1>4. ASSUME "toggle" \in asking PROVE Cardinality(W) = 1
  <2>1. W = {"toggle"}
    BY <1>4
  <2> QED BY <2>1, FS_Singleton
<1>5. UnderWay("toggle") = Cardinality(T(requests)) + Cardinality(W) + Cardinality(T(answers))
  BY Zenon DEF UnderWay
<1> HIDE DEF T, W
<1> QED BY <1>1, <1>2, <1>3, <1>4, <1>5 DEF TapIsOne

\* Nothing is under way at first, and the control shows a microphone that is off.
LEMMA MicInitially ==
    ASSUME PageInit
    PROVE  MicInv
<1>1. FlagsTyped
  <2>1. 0 \in 0 .. MaxLosses
    BY BoundsAssumption
  <2> QED BY <2>1, Zenon DEF PageInit, FlagsTyped
<1>2. CallsTyped
  BY DEF PageInit, CallsTyped
<1>3. TapIsOne /\ RingWillFollow
  BY DEF PageInit, TapIsOne, NoTap, RingWillFollow, WillShow
<1> QED BY <1>1, <1>2, <1>3 DEF MicInv

\* What the plugin does with a start: the control is promised nothing, or the truth.
LEMMA StartKeeps ==
    ASSUME MicInv, NEW c \in {"toggle", "ensure"}, StartMic(c),
           answers' = Append(answers, Answer(Request(c, "start"), "done")), UNCHANGED ring
    PROVE  /\ mic' \in BOOLEAN /\ told' \in BOOLEAN
           /\ Answer(Request(c, "start"), "done") \in PageAnswer
           /\ RingWillFollow'
<1> DEFINE a == Answer(Request(c, "start"), "done")
<1>1. a \in PageAnswer /\ a.by = c /\ (SetsRing(a) <=> c = "toggle") /\ RingFrom(a)
  BY DEF PageAnswer, Answers, Callers, Answer, Request, SetsRing, RingFrom
<1> HIDE DEF a
<1>2. mic \in BOOLEAN /\ told \in BOOLEAN /\ ring \in BOOLEAN /\ answers \in Seq(PageAnswer)
  BY DEF MicInv, FlagsTyped, CallsTyped
<1>3. mic' \in BOOLEAN /\ told' \in BOOLEAN
  BY <1>2, Zenon DEF StartMic
<1>4. answers' = Append(answers, a)
  BY DEF a
<1>5. ASSUME told' PROVE WillShow(answers', ring', mic')
  <2>1. CASE c = "toggle"
    <3>1. mic'
      BY <1>5, <2>1, <1>2, Zenon DEF StartMic
    <3>2. SetsRing(a) /\ (RingFrom(a) <=> mic')
      BY <1>1, <2>1, <3>1
    <3> QED BY <1>1, <1>2, <1>3, <1>4, <3>2, AnswerAppended
  <2>2. CASE c # "toggle"
    <3>1. told /\ (mic' <=> mic)
      BY <1>5, <2>2, <1>2, Zenon DEF StartMic
    <3>2. WillShow(answers, ring, mic)
      BY <3>1 DEF MicInv, RingWillFollow
    <3>3. mic' = mic
      BY <1>2, <1>3, <3>1
    <3>4. ~SetsRing(a)
      BY <1>1, <2>2
    <3>5. WillShow(Append(answers, a), ring, mic)
      BY <1>1, <1>2, <3>2, <3>4, AnswerAppended
    <3> QED BY <1>4, <3>3, <3>5
  <2> QED BY <2>1, <2>2
<1> QED BY <1>1, <1>3, <1>5 DEF RingWillFollow, a

\* The plugin answers its next call, or asks for the permission.
LEMMA PluginKeeps ==
    ASSUME MicInv, PluginAnswers
    PROVE  MicInv'
<1> DEFINE r == Head(requests)
<1>1. /\ FlagsTyped /\ requests \in Seq(PageRequest) /\ answers \in Seq(PageAnswer)
      /\ asking \subseteq {"toggle", "ensure"} /\ requests # <<>>
  BY DEF MicInv, CallsTyped, PluginAnswers
<1>2. /\ r \in PageRequest /\ requests' = Tail(requests) /\ Tail(requests) \in Seq(PageRequest)
      /\ UNCHANGED <<permitted, linked, losses, busy, ring, pulse>>
  BY <1>1 DEF PluginAnswers
<1>3. /\ r.by \in Callers /\ r.does \in {"ask", "start", "stop"}
      /\ r.does = "stop" => r.by = "toggle"
      /\ r.by = "sync" => r.does = "ask"
      /\ r = Request(r.by, r.does)
  BY <1>2 DEF PageRequest, Requests, Request
<1>4. /\ NoTap(requests) => NoTap(requests') /\ r.by # "toggle"
      /\ OneTap(requests) /\ r.by = "toggle" => NoTap(requests')
      /\ OneTap(requests) /\ r.by # "toggle" => OneTap(requests')
  BY <1>1, <1>2, CallTaken
<1> HIDE DEF r
<1>5. ASSUME NEW result \in {"on", "off", "done"},
             Answer(r, result) \in PageAnswer, answers' = Append(answers, Answer(r, result)),
             UNCHANGED asking, mic' \in BOOLEAN, told' \in BOOLEAN, RingWillFollow'
      PROVE  MicInv'
  <2>1. FlagsTyped'
    BY <1>1, <1>2, <1>5, Zenon DEF FlagsTyped
  <2>2. CallsTyped'
    BY <1>1, <1>2, <1>5 DEF CallsTyped
  <2>3. Answer(r, result).by = r.by
    BY DEF Answer
  <2>4. /\ NoTap(answers) /\ r.by # "toggle" => NoTap(answers')
        /\ NoTap(answers) /\ r.by = "toggle" => OneTap(answers')
        /\ OneTap(answers) /\ r.by # "toggle" => OneTap(answers')
    BY <1>1, <1>5, <2>3, CallAppended
  <2>5. TapIsOne'
    BY <1>2, <1>4, <1>5, <2>4 DEF MicInv, TapIsOne
  <2> QED BY <1>5, <2>1, <2>2, <2>5 DEF MicInv
<1>6. CASE /\ r.does = "ask"
           /\ answers' = Append(answers, Answer(r, IF mic THEN "on" ELSE "off"))
           /\ told' = (told \/ r.by = "sync")
           /\ UNCHANGED <<mic, asking>>
  <2> DEFINE a == Answer(r, IF mic THEN "on" ELSE "off")
  <2>1. /\ a \in PageAnswer /\ (SetsRing(a) <=> r.by = "sync")
        /\ r.by = "sync" => (RingFrom(a) <=> mic)
    BY <1>3, <1>6 DEF PageAnswer, Answers, Answer, SetsRing, RingFrom
  <2> HIDE DEF a
  <2>2. mic \in BOOLEAN /\ ring \in BOOLEAN /\ told \in BOOLEAN
    BY <1>1 DEF FlagsTyped
  <2>3. told' \in BOOLEAN
    BY <2>2, <1>6
  <2>4. ASSUME told' PROVE WillShow(Append(answers, a), ring, mic)
    <3>1. CASE r.by = "sync"
      BY <1>1, <2>1, <2>2, <3>1, AnswerAppended
    <3>2. CASE r.by # "sync"
      <4>1. WillShow(answers, ring, mic)
        BY <1>6, <2>2, <2>4, <3>2 DEF MicInv, RingWillFollow
      <4> QED BY <1>1, <2>1, <2>2, <3>2, <4>1, AnswerAppended
    <3> QED BY <3>1, <3>2
  <2>5. RingWillFollow'
    BY <1>2, <1>6, <2>4 DEF RingWillFollow, a
  <2>6. (IF mic THEN "on" ELSE "off") \in {"on", "off", "done"}
    OBVIOUS
  <2> QED BY <1>5, <1>6, <2>1, <2>2, <2>3, <2>5, <2>6 DEF a
<1>7. CASE /\ r.does = "start"
           /\ StartMic(r.by)
           /\ answers' = Append(answers, Answer(r, "done"))
           /\ UNCHANGED asking
  <2>1. r.by \in {"toggle", "ensure"}
    BY <1>3, <1>7 DEF Callers
  <2>2. r = Request(r.by, "start")
    BY <1>3, <1>7
  <2>3. /\ mic' \in BOOLEAN /\ told' \in BOOLEAN
        /\ Answer(r, "done") \in PageAnswer
        /\ RingWillFollow'
    BY <1>2, <1>7, <2>1, <2>2, StartKeeps
  <2> QED BY <1>5, <1>7, <2>3
<1>8. CASE /\ r.does = "start"
           /\ asking' = asking \cup {r.by}
           /\ UNCHANGED <<answers, mic, told>>
  <2>1. r.by \in {"toggle", "ensure"}
    BY <1>3, <1>8 DEF Callers
  <2>2. FlagsTyped' /\ RingWillFollow'
    BY <1>1, <1>2, <1>8 DEF FlagsTyped, MicInv, RingWillFollow
  <2>3. CallsTyped'
    BY <1>1, <1>2, <1>8, <2>1 DEF CallsTyped
  <2>4. TapIsOne'
    BY <1>2, <1>4, <1>8 DEF MicInv, TapIsOne
  <2> QED BY <2>2, <2>3, <2>4 DEF MicInv
<1>9. CASE /\ r.does = "stop"
           /\ mic' = FALSE /\ told' = TRUE
           /\ answers' = Append(answers, Answer(r, "done"))
           /\ UNCHANGED asking
  <2> DEFINE a == Answer(r, "done")
  <2>1. a \in PageAnswer /\ SetsRing(a) /\ (RingFrom(a) <=> FALSE)
    BY <1>3, <1>9 DEF PageAnswer, Answers, Answer, SetsRing, RingFrom
  <2> HIDE DEF a
  <2>2. ring \in BOOLEAN
    BY <1>1 DEF FlagsTyped
  <2>3. WillShow(Append(answers, a), ring, FALSE)
    BY <1>1, <2>1, <2>2, AnswerAppended
  <2>4. RingWillFollow'
    BY <1>2, <1>9, <2>3 DEF RingWillFollow, a
  <2> QED BY <1>5, <1>9, <2>1, <2>4 DEF a
<1> QED BY <1>6, <1>7, <1>8, <1>9 DEF PluginAnswers, r

\* The user answers the permission dialog.
LEMMA PermissionKeeps ==
    ASSUME MicInv, PermissionAnswered
    PROVE  MicInv'
<1>1. /\ FlagsTyped /\ CallsTyped /\ requests \in Seq(PageRequest) /\ answers \in Seq(PageAnswer)
      /\ asking \subseteq {"toggle", "ensure"}
      /\ UNCHANGED <<linked, losses, requests, busy, ring, pulse>>
  BY DEF MicInv, CallsTyped, PermissionAnswered
<1>2. PICK c \in asking :
          /\ asking' = asking \ {c}
          /\ \/ /\ permitted' = TRUE
                /\ StartMic(c)
                /\ answers' = Append(answers, Answer(Request(c, "start"), "done"))
             \/ /\ answers' = Append(answers, Answer(Request(c, "start"), "denied"))
                /\ UNCHANGED <<mic, permitted, told>>
  BY DEF PermissionAnswered
<1>3. c \in {"toggle", "ensure"}
  BY <1>1
<1>4. ASSUME NEW result,
             Answer(Request(c, "start"), result) \in PageAnswer,
             answers' = Append(answers, Answer(Request(c, "start"), result)),
             mic' \in BOOLEAN, told' \in BOOLEAN, permitted' \in BOOLEAN, RingWillFollow'
      PROVE  MicInv'
  <2>1. FlagsTyped'
    BY <1>1, <1>4, Zenon DEF FlagsTyped
  <2>2. CallsTyped'
    BY <1>1, <1>2, <1>4 DEF CallsTyped
  <2>3. Answer(Request(c, "start"), result).by = c
    BY DEF Answer, Request
  <2>4. /\ NoTap(answers) /\ c # "toggle" => NoTap(answers')
        /\ NoTap(answers) /\ c = "toggle" => OneTap(answers')
        /\ OneTap(answers) /\ c # "toggle" => OneTap(answers')
    BY <1>1, <1>4, <2>3, CallAppended
  <2>5. TapIsOne'
    BY <1>1, <1>2, <2>4 DEF MicInv, TapIsOne
  <2> QED BY <1>4, <2>1, <2>2, <2>5 DEF MicInv
<1>5. CASE /\ permitted' = TRUE
           /\ StartMic(c)
           /\ answers' = Append(answers, Answer(Request(c, "start"), "done"))
  <2>1. /\ mic' \in BOOLEAN /\ told' \in BOOLEAN
        /\ Answer(Request(c, "start"), "done") \in PageAnswer
        /\ RingWillFollow'
    BY <1>1, <1>3, <1>5, StartKeeps
  <2>2. permitted' \in BOOLEAN
    BY <1>5
  <2> QED BY <1>4, <1>5, <2>1, <2>2
<1>6. CASE /\ answers' = Append(answers, Answer(Request(c, "start"), "denied"))
           /\ UNCHANGED <<mic, permitted, told>>
  <2> DEFINE a == Answer(Request(c, "start"), "denied")
  <2>1. a \in PageAnswer /\ ~SetsRing(a)
    BY <1>3 DEF PageAnswer, Answers, Callers, Answer, Request, SetsRing
  <2> HIDE DEF a
  <2>2. mic \in BOOLEAN /\ ring \in BOOLEAN /\ told \in BOOLEAN /\ permitted \in BOOLEAN
    BY <1>1 DEF FlagsTyped
  <2>3. told => WillShow(Append(answers, a), ring, mic)
    BY <1>1, <2>1, <2>2, AnswerAppended DEF MicInv, RingWillFollow
  <2>4. RingWillFollow'
    BY <1>1, <1>6, <2>3 DEF RingWillFollow, a
  <2> QED BY <1>4, <1>6, <2>1, <2>2, <2>4 DEF a
<1> QED BY <1>2, <1>5, <1>6

\* A call that is not the step of a tap joins the queue of the plugin.
LEMMA CallsJoin ==
    ASSUME MicInv, NEW e \in PageRequest, e.by # "toggle", requests' = Append(requests, e),
           UNCHANGED <<asking, answers, control, mic, permitted, losses>>, linked' \in BOOLEAN
    PROVE  MicInv'
<1>1. UNCHANGED <<busy, ring, pulse, told>> /\ requests \in Seq(PageRequest)
  BY DEF control, MicInv, CallsTyped
<1>2. FlagsTyped' /\ RingWillFollow'
  BY <1>1 DEF MicInv, FlagsTyped, RingWillFollow
<1>3. CallsTyped'
  BY DEF MicInv, CallsTyped
<1>4. /\ NoTap(requests) => NoTap(requests')
      /\ OneTap(requests) => OneTap(requests')
  BY <1>1, CallAppended
<1>5. TapIsOne'
  BY <1>1, <1>4 DEF MicInv, TapIsOne
<1> QED BY <1>2, <1>3, <1>5 DEF MicInv

\* The page sees its next answer.
LEMMA PageHearsKeeps ==
    ASSUME MicInv, PageHears
    PROVE  MicInv'
<1> DEFINE a == Head(answers)
<1>1. /\ FlagsTyped /\ CallsTyped /\ requests \in Seq(PageRequest)
      /\ answers \in Seq(PageAnswer) /\ answers # <<>> /\ answers' = Tail(answers)
      /\ UNCHANGED <<plugin, asking, told>>
  BY DEF MicInv, CallsTyped, PageHears
<1>2. UNCHANGED <<mic, permitted, linked, losses>>
  BY <1>1 DEF plugin
<1>3. /\ a \in PageAnswer /\ Tail(answers) \in Seq(PageAnswer)
      /\ NoTap(answers) => NoTap(answers') /\ a.by # "toggle"
      /\ OneTap(answers) /\ a.by = "toggle" => NoTap(answers')
      /\ OneTap(answers) /\ a.by # "toggle" => OneTap(answers')
  BY <1>1, CallTaken
<1>4. /\ mic \in BOOLEAN /\ ring \in BOOLEAN /\ pulse \in BOOLEAN /\ busy \in BOOLEAN
      /\ told \in BOOLEAN /\ (pulse => ring)
  BY <1>1 DEF FlagsTyped
<1>5. told => WillShow(answers', IF SetsRing(a) THEN RingFrom(a) ELSE ring, mic)
  BY <1>1, <1>4, AnswerSeen DEF MicInv, RingWillFollow
<1> HIDE DEF a
<1>6. ASSUME busy' \in BOOLEAN, ring' \in BOOLEAN, pulse' \in BOOLEAN, pulse' => ring',
             ring' = IF SetsRing(a) THEN RingFrom(a) ELSE ring,
             requests' \in Seq(PageRequest), TapIsOne'
      PROVE  MicInv'
  <2>1. FlagsTyped'
    BY <1>1, <1>2, <1>6, Zenon DEF FlagsTyped
  <2>2. CallsTyped'
    BY <1>1, <1>3, <1>6 DEF CallsTyped
  <2>3. RingWillFollow'
    BY <1>1, <1>2, <1>5, <1>6 DEF RingWillFollow
  <2> QED BY <1>6, <2>1, <2>2, <2>3 DEF MicInv
<1>7. ASSUME NEW b \in BOOLEAN, SyncAudioCtl(b)
      PROVE  ring' = b /\ ring' \in BOOLEAN /\ pulse' \in BOOLEAN /\ (pulse' => ring')
  BY <1>4, <1>7 DEF SyncAudioCtl
<1>8. ASSUME ~SetsRing(a), UNCHANGED <<ring, pulse>>
      PROVE  /\ ring' \in BOOLEAN /\ pulse' \in BOOLEAN /\ (pulse' => ring')
             /\ ring' = IF SetsRing(a) THEN RingFrom(a) ELSE ring
  <2>1. ring' = ring /\ pulse' = pulse
    BY <1>8
  <2>2. ring' = IF SetsRing(a) THEN RingFrom(a) ELSE ring
    BY <1>8, <2>1
  <2>3. ring' \in BOOLEAN /\ pulse' \in BOOLEAN
    BY <1>4, <2>1, Zenon
  <2>4. pulse' => ring'
    BY <1>4, <1>8
  <2> QED BY <2>2, <2>3, <2>4, Zenon
<1>9. CASE a.by = "ensure" /\ EnsureMicOn(a)
  <2>1. ~SetsRing(a)
    BY <1>9 DEF SetsRing
  <2>2. UNCHANGED <<busy, ring, pulse>>
    BY <1>9 DEF EnsureMicOn
  <2>3. /\ Request("ensure", "start") \in PageRequest
        /\ Request("ensure", "start").by = "ensure"
    BY DEF PageRequest, Requests, Callers, Request
  <2>4. requests' \in {requests, Append(requests, Request("ensure", "start"))}
    BY <1>9 DEF EnsureMicOn
  <2>5. requests' \in Seq(PageRequest)
    BY <1>1, <2>3, <2>4
  <2>6. /\ NoTap(requests) => NoTap(requests')
        /\ OneTap(requests) => OneTap(requests')
    <3>1. CASE requests' = requests
      BY <3>1
    <3>2. CASE requests' = Append(requests, Request("ensure", "start"))
      BY <1>1, <2>3, <3>2, CallAppended
    <3> QED BY <2>4, <3>1, <3>2
  <2>7. TapIsOne'
    BY <1>1, <1>3, <1>9, <2>2, <2>6 DEF MicInv, TapIsOne
  <2>8. busy' \in BOOLEAN
    BY <1>4, <2>2
  <2> QED BY <1>6, <1>8, <2>1, <2>2, <2>5, <2>7, <2>8
<1>10. CASE a.by = "sync" /\ SyncLiveCtl(a)
  <2>1. SetsRing(a) /\ RingFrom(a) = (a.result = "on") /\ (a.result = "on") \in BOOLEAN
    BY <1>10 DEF SetsRing, RingFrom
  <2>2. /\ UNCHANGED <<requests, busy>> /\ SyncAudioCtl(a.result = "on")
    BY <1>10 DEF SyncLiveCtl
  <2>3. ring' = (a.result = "on") /\ ring' \in BOOLEAN /\ pulse' \in BOOLEAN /\ (pulse' => ring')
    BY <1>7, <2>1, <2>2
  <2>4. TapIsOne'
    BY <1>1, <1>3, <1>10, <2>2 DEF MicInv, TapIsOne
  <2> QED BY <1>1, <1>4, <1>6, <2>1, <2>2, <2>3, <2>4
<1>11. CASE a.by = "toggle" /\ a.does = "ask" /\ ToggleAsked(a)
  <2> DEFINE e == Request("toggle", IF a.result = "on" THEN "stop" ELSE "start")
  <2>1. ~SetsRing(a) /\ e \in PageRequest /\ e.by = "toggle"
    BY <1>11 DEF SetsRing, PageRequest, Requests, Callers, Request
  <2>2. requests' = Append(requests, e) /\ UNCHANGED <<busy, ring, pulse>>
    BY <1>11 DEF ToggleAsked
  <2> HIDE DEF e
  <2>3. requests' \in Seq(PageRequest)
    BY <1>1, <2>1, <2>2
  <2>4. NoTap(requests) => OneTap(requests')
    BY <1>1, <2>1, <2>2, CallAppended
  <2>5. TapIsOne'
    BY <1>1, <1>3, <1>11, <2>2, <2>4 DEF MicInv, TapIsOne
  <2>6. busy' \in BOOLEAN
    BY <1>4, <2>2
  <2> QED BY <1>6, <1>8, <2>1, <2>2, <2>3, <2>5, <2>6
<1>12. CASE a.by = "toggle" /\ a.does # "ask" /\ ToggleDone(a)
  <2>1. busy' = FALSE /\ UNCHANGED requests
    BY <1>12 DEF ToggleDone
  <2>2. TapIsOne'
    BY <1>1, <1>3, <1>12, <2>1 DEF MicInv, TapIsOne
  <2>3. CASE a.result = "done" /\ SyncAudioCtl(a.does = "start")
    <3>1. SetsRing(a) /\ RingFrom(a) = (a.does = "start") /\ (a.does = "start") \in BOOLEAN
      BY <1>12, <2>3 DEF SetsRing, RingFrom
    <3>2. ring' = (a.does = "start") /\ ring' \in BOOLEAN /\ pulse' \in BOOLEAN /\ (pulse' => ring')
      BY <1>7, <2>3, <3>1
    <3> QED BY <1>1, <1>6, <2>1, <2>2, <3>1, <3>2
  <2>4. CASE a.result = "denied" /\ UNCHANGED <<ring, pulse>>
    <3>1. ~SetsRing(a)
      BY <1>12, <2>4 DEF SetsRing
    <3>2. requests' \in Seq(PageRequest) /\ busy' \in BOOLEAN
      BY <1>1, <2>1
    <3> QED BY <1>6, <1>8, <2>2, <2>4, <3>1, <3>2
  <2> QED BY <1>12, <2>3, <2>4 DEF ToggleDone
<1> QED BY <1>9, <1>10, <1>11, <1>12 DEF PageHears, a

\* No step of the page, the plugin or the network disturbs the control.
LEMMA MicStep ==
    ASSUME MicInv, [PageNext]_pageVars
    PROVE  MicInv'
<1> DEFINE ensure == Ask("ensure")
           sync == Ask("sync")
           tap == Ask("toggle")
<1>1. FlagsTyped /\ CallsTyped /\ requests \in Seq(PageRequest)
  BY DEF MicInv, CallsTyped
<1>2. /\ ensure \in PageRequest /\ sync \in PageRequest /\ tap \in PageRequest
      /\ ensure.by # "toggle" /\ sync.by # "toggle" /\ tap.by = "toggle"
  BY DEF PageRequest, Requests, Callers, Ask, Request
<1> HIDE DEF ensure, sync, tap
<1>3. CASE LinkLost
  <2>1. /\ UNCHANGED <<permitted, requests, asking, answers, busy, ring, pulse>>
        /\ linked' = FALSE /\ losses' = losses + 1 /\ losses < MaxLosses
        /\ mic' = FALSE /\ told' = (told /\ ~mic)
    BY <1>3 DEF LinkLost, calls
  <2>2. losses' \in 0 .. MaxLosses
    BY <1>1, <2>1, BoundsAssumption DEF FlagsTyped
  <2>3. told' \in BOOLEAN
    BY <2>1
  <2>4. FlagsTyped'
    BY <1>1, <2>1, <2>2, <2>3, Zenon DEF FlagsTyped
  <2>5. CallsTyped' /\ TapIsOne'
    BY <1>1, <2>1 DEF MicInv, CallsTyped, TapIsOne
  <2>6. ASSUME told' PROVE WillShow(answers', ring', mic')
    <3>1. mic \in BOOLEAN /\ told /\ ~mic
      BY <1>1, <2>1, <2>6 DEF FlagsTyped
    <3>2. mic' = mic
      BY <2>1, <3>1
    <3> QED BY <2>1, <3>1, <3>2 DEF MicInv, RingWillFollow
  <2> QED BY <2>4, <2>5, <2>6 DEF MicInv, RingWillFollow
<1>4. CASE Session
  <2> DEFINE q == Append(requests, ensure)
  <2>1. /\ requests' = Append(q, sync)
        /\ UNCHANGED <<mic, permitted, losses, asking, answers, busy, ring, pulse, told>>
        /\ linked' = TRUE
    BY <1>1, <1>2, <1>4 DEF Session, control, ensure, sync
  <2>2. q \in Seq(PageRequest)
    BY <1>1, <1>2
  <2>3. /\ NoTap(requests) => NoTap(q)
        /\ OneTap(requests) => OneTap(q)
    BY <1>1, <1>2, CallAppended
  <2> HIDE DEF q
  <2>4. requests' \in Seq(PageRequest)
    BY <1>2, <2>1, <2>2
  <2>5. /\ NoTap(q) => NoTap(requests')
        /\ OneTap(q) => OneTap(requests')
    BY <1>2, <2>1, <2>2, CallAppended
  <2>6. FlagsTyped' /\ RingWillFollow'
    BY <1>1, <2>1 DEF MicInv, FlagsTyped, RingWillFollow
  <2>7. CallsTyped'
    BY <1>1, <2>1, <2>4 DEF CallsTyped
  <2>8. TapIsOne'
    BY <2>1, <2>3, <2>5 DEF MicInv, TapIsOne
  <2> QED BY <2>6, <2>7, <2>8 DEF MicInv
<1>5. CASE AudioToggle
  <2>1. /\ ~busy /\ busy' = TRUE /\ requests' = Append(requests, tap)
        /\ UNCHANGED <<mic, permitted, linked, losses, asking, answers, ring, pulse, told>>
    BY <1>5 DEF AudioToggle, plugin, tap
  <2>2. requests' \in Seq(PageRequest)
    BY <1>1, <1>2, <2>1
  <2>3. NoTap(requests) => OneTap(requests')
    BY <1>1, <1>2, <2>1, CallAppended
  <2>4. FlagsTyped' /\ RingWillFollow'
    BY <1>1, <2>1 DEF MicInv, FlagsTyped, RingWillFollow
  <2>5. CallsTyped'
    BY <1>1, <2>1, <2>2 DEF CallsTyped
  <2>6. TapIsOne'
    BY <2>1, <2>3 DEF MicInv, TapIsOne
  <2> QED BY <2>4, <2>5, <2>6 DEF MicInv
<1>6. CASE SetMicLevel
  <2>1. /\ ring /\ pulse' = ~pulse
        /\ UNCHANGED <<mic, permitted, linked, losses, requests, asking, answers, busy, ring, told>>
    BY <1>6 DEF SetMicLevel, plugin, calls
  <2>2. pulse' \in BOOLEAN
    BY <2>1
  <2>3. FlagsTyped'
    BY <1>1, <2>1, <2>2, Zenon DEF FlagsTyped
  <2> QED BY <2>1, <2>3 DEF MicInv, CallsTyped, TapIsOne, RingWillFollow
<1>7. CASE Draw
  <2>1. /\ requests' = Append(requests, sync)
        /\ UNCHANGED <<asking, answers, control, mic, permitted, losses, linked>>
    BY <1>7 DEF Draw, plugin, sync
  <2>2. linked' \in BOOLEAN
    BY <1>1, <2>1 DEF FlagsTyped
  <2> QED BY <1>2, <2>1, <2>2, CallsJoin
<1>8. CASE UNCHANGED <<plugin, calls, control>>
  BY <1>1, <1>8 DEF plugin, calls, control, MicInv, FlagsTyped, CallsTyped, TapIsOne,
                    RingWillFollow
<1>9. MountChart \/ FramePosts \/ PageHearsFrame \/ UNCHANGED pageVars
         => UNCHANGED <<plugin, calls, control>>
  BY DEF MountChart, FramePosts, PageHearsFrame, pageVars
<1> QED
  BY <1>3, <1>4, <1>5, <1>6, <1>7, <1>8, <1>9, PluginKeeps, PermissionKeeps, PageHearsKeeps
  DEF PageNext

-----------------------------------------------------------------------------
(* The drawings: a verdict is of the drawing on the page or of none.       *)

DrawingTyped ==
    /\ drawn \in 0 .. MaxDraws
    /\ frames \subseteq Frames /\ (drawn = 0 => frames = {})
    /\ posts \in Seq(Posts)
    /\ mounting \subseteq 1 .. drawn /\ liveCharts \subseteq 1 .. drawn
    /\ status \in [Frames -> [of : 0 .. MaxDraws, says : {"ok", "error", "none"}]]

PageIInv == MicInv /\ DrawingTyped /\ OnlyThisDraw

\* Before the first draw there is nothing to belong to one.
LEMMA DrawingInitially ==
    ASSUME PageInit
    PROVE  DrawingTyped /\ OnlyThisDraw
<1>1. 0 \in 0 .. MaxDraws
  BY BoundsAssumption
<1>2. NoVerdict \in [of : 0 .. MaxDraws, says : {"ok", "error", "none"}] /\ NoVerdict.of = 0
  BY <1>1 DEF NoVerdict
<1>3. /\ drawn = 0 /\ frames = {} /\ posts = <<>> /\ mounting = {} /\ liveCharts = {}
      /\ status = [i \in Frames |-> NoVerdict]
  BY DEF PageInit
<1> QED BY <1>1, <1>2, <1>3 DEF DrawingTyped, OnlyThisDraw

\* A draw ends what the one before has on the page, and what is late finds it gone.
LEMMA DrawingStep ==
    ASSUME DrawingTyped, OnlyThisDraw, [PageNext]_pageVars
    PROVE  DrawingTyped' /\ OnlyThisDraw'
<1> USE BoundsAssumption
<1>1. CASE Draw
  <2>1. /\ drawn < MaxDraws /\ drawn' = drawn + 1 /\ frames' \subseteq Frames
        /\ status' = [i \in Frames |-> NoVerdict] /\ liveCharts' = {} /\ posts' = posts
    BY <1>1 DEF Draw
  <2>2. mounting' \subseteq mounting \cup {drawn + 1}
    BY <1>1 DEF Draw
  <2>3. drawn' \in 0 .. MaxDraws /\ drawn' # 0 /\ mounting' \subseteq 1 .. drawn'
    BY <2>1, <2>2 DEF DrawingTyped
  <2>4. NoVerdict \in [of : 0 .. MaxDraws, says : {"ok", "error", "none"}] /\ NoVerdict.of = 0
    BY DEF NoVerdict
  <2> QED BY <2>1, <2>3, <2>4 DEF DrawingTyped, OnlyThisDraw
<1>2. CASE MountChart
  <2>1. /\ mounting' \subseteq mounting /\ liveCharts' \subseteq liveCharts \cup (mounting \cap {drawn})
        /\ UNCHANGED <<drawn, frames, status, posts>>
    BY <1>2 DEF MountChart
  <2> QED BY <2>1 DEF DrawingTyped, OnlyThisDraw
<1>3. CASE FramePosts
  <2>1. PICK i \in frames, says \in {"ok", "error"} :
            posts' = Append(posts, [of |-> drawn, i |-> i, says |-> says])
    BY <1>3 DEF FramePosts
  <2>2. UNCHANGED <<drawn, frames, status, mounting, liveCharts>>
    BY <1>3 DEF FramePosts
  <2>3. drawn \in 1 .. MaxDraws /\ i \in Frames
    BY <2>1 DEF DrawingTyped
  <2>4. posts' \in Seq(Posts)
    BY <2>1, <2>3 DEF DrawingTyped, Posts
  <2> QED BY <2>2, <2>4 DEF DrawingTyped, OnlyThisDraw
<1>4. CASE PageHearsFrame
  <2> DEFINE post == Head(posts)
             ours == post.i \in frames /\ post.of = drawn
  <2>1. /\ posts # <<>> /\ posts' = Tail(posts)
        /\ UNCHANGED <<drawn, frames, mounting, liveCharts>>
        /\ status' = IF ours THEN [status EXCEPT ![post.i] = [of |-> post.of, says |-> post.says]]
                             ELSE status
    BY <1>4 DEF PageHearsFrame
  <2>2. post \in Posts /\ posts' \in Seq(Posts)
    BY <2>1 DEF DrawingTyped
  <2> HIDE DEF post
  <2>3. status' \in [Frames -> [of : 0 .. MaxDraws, says : {"ok", "error", "none"}]]
    BY <2>1, <2>2 DEF DrawingTyped, Posts
  <2>4. \A i \in Frames : status'[i].of \in {0, drawn}
    BY <2>1, <2>2 DEF DrawingTyped, Posts, OnlyThisDraw
  <2> QED BY <2>1, <2>2, <2>3, <2>4 DEF DrawingTyped, OnlyThisDraw
<1>5. CASE UNCHANGED drawing
  BY <1>5 DEF drawing, DrawingTyped, OnlyThisDraw
<1>6. PluginAnswers \/ PermissionAnswered \/ LinkLost \/ Session \/ AudioToggle \/ PageHears
      \/ SetMicLevel \/ UNCHANGED pageVars
         => UNCHANGED drawing
  BY DEF PluginAnswers, PermissionAnswered, LinkLost, Session, AudioToggle, PageHears,
         SetMicLevel, pageVars
<1> QED BY <1>1, <1>2, <1>3, <1>4, <1>5, <1>6 DEF PageNext

\* The invariant of the page: the calls of the control and what they promise it, and the
\* draw that everything on the page is of.
THEOREM PageInductive == PageSpec => []PageIInv
<1>1. PageInit => PageIInv
  BY MicInitially, DrawingInitially DEF PageIInv
<1>2. PageIInv /\ [PageNext]_pageVars => PageIInv'
  BY MicStep, DrawingStep DEF PageIInv
<1> QED BY <1>1, <1>2, PTL DEF PageSpec

\* The state of the page is well typed; while the control is busy exactly one step of a
\* tap is under way, and none otherwise: a tap can neither be lost nor overlap another.
THEOREM PageTypeCorrect == PageSpec => []PageTypeOK
<1>1. PageIInv => PageTypeOK
  <2> SUFFICES ASSUME PageIInv PROVE PageTypeOK
    OBVIOUS
  <2>1. FlagsTyped /\ CallsTyped /\ TapIsOne /\ DrawingTyped
    BY DEF PageIInv, MicInv
  <2>2. requests \in Seq(Requests) /\ answers \in Seq(Answers) /\ asking \subseteq Callers
    <3>1. PageRequest \subseteq Requests /\ PageAnswer \subseteq Answers
      BY DEF PageRequest, PageAnswer
    <3> QED BY <2>1, <3>1, SeqMonotonic DEF CallsTyped, Callers
  <2>3. UnderWay("toggle") = IF busy THEN 1 ELSE 0
    BY <2>1, TapIsCounted
  <2> QED BY <2>1, <2>2, <2>3, Zenon DEF PageTypeOK, FlagsTyped, DrawingTyped
<1> QED BY <1>1, PageInductive, PTL

\* Once nothing is under way the control shows what the plugin last reported or did,
\* in whatever order taps, sessions and draws were answered.
THEOREM TheRingIsHonest == PageSpec => []RingIsHonest
<1>1. PageIInv => RingIsHonest
  <2> SUFFICES ASSUME PageIInv, Quiet, told PROVE ring = mic
    BY DEF RingIsHonest
  <2>1. WillShow(answers, ring, mic) /\ ring \in BOOLEAN /\ mic \in BOOLEAN /\ answers = <<>>
    BY DEF PageIInv, MicInv, FlagsTyped, RingWillFollow, Quiet
  <2>2. ring <=> mic
    BY <2>1 DEF WillShow
  <2> QED BY <2>1, <2>2
<1> QED BY <1>1, PageInductive, PTL

\* A chart or a verdict of a drawing that was replaced never counts for the one after it.
THEOREM TheDrawIsAlone == PageSpec => []OnlyThisDraw
<1>1. PageIInv => OnlyThisDraw
  BY DEF PageIInv
<1> QED BY <1>1, PageInductive, PTL
=============================================================================
