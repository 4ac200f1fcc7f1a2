------------------------- MODULE ReceiptBooksProofs -------------------------
(***************************************************************************)
(* Theorems about the books of Receipt, for every slip and any number of   *)
(* sessions: when no receipt is before its save or was cut short, the      *)
(* stock tables, the trade rows and the returns say what the slip says     *)
(* (BooksBalance), and a request is closed only when what it asks for has  *)
(* arrived (ClosedMeansArrived).  Balances are sums over the lines of the  *)
(* slip, so the module begins with what such sums obey.                    *)
(***************************************************************************)
EXTENDS ReceiptMoveProofs, FiniteSetTheorems

(* Sums over finite sets.  The library's induction theorems cannot be      *)
(* used here; a claim about every subset of a finite set is proved by      *)
(* looking at a smallest subset that refutes it.                           *)

\* A nonempty set of subsets of a finite set has a smallest member.
LEMMA SmallestSet ==
    ASSUME NEW S, IsFiniteSet(S), NEW T \in SUBSET (SUBSET S), T # {}
    PROVE  \E x \in T : \A y \in T : y \subseteq x => y = x
<1> DEFINE R == StrictSubsetOrdering(S)
<1>1. IsWellFoundedOn(R, SUBSET S)
  BY FS_StrictSubsetOrderingWellFounded, FS_FiniteSubsetsOfFinite
<1>2. PICK x \in T : \A y \in T : <<y, x>> \notin R
  <2> HIDE DEF R
  <2> QED BY <1>1, WFMin
<1>3. \A y \in T : y \subseteq x => y = x
  BY <1>2 DEF StrictSubsetOrdering
<1> QED BY <1>3

One(u) == CHOOSE x \in u : TRUE

\* g[u] is the sum of f over u, for each subset u of S.
Sums(f, S, g) ==
    \A u \in SUBSET S : g[u] = IF u = {} THEN 0 ELSE f[One(u)] + g[u \ {One(u)}]

LEMMA OneOf == \A u : u # {} => One(u) \in u
BY DEF One

LEMMA SumsAgree ==
    ASSUME NEW f, NEW S, IsFiniteSet(S), NEW g, Sums(f, S, g), NEW R, NEW h, Sums(f, R, h)
    PROVE  \A u \in SUBSET S : u \in SUBSET R => g[u] = h[u]
<1> DEFINE Bad == {u \in SUBSET S : u \in SUBSET R /\ g[u] # h[u]}
<1> SUFFICES ASSUME Bad # {} PROVE FALSE
  OBVIOUS
<1>1. PICK u \in Bad : \A v \in Bad : v \subseteq u => v = u
  <2>1. Bad \in SUBSET (SUBSET S)
    OBVIOUS
  <2> HIDE DEF Bad
  <2> QED BY <2>1, SmallestSet
<1>2. u # {}
  BY <1>1 DEF Sums
<1>3. One(u) \in u
  BY <1>2, OneOf
<1> DEFINE v == u \ {One(u)}
<1>4. v \in SUBSET S /\ v \in SUBSET R /\ v \subseteq u /\ v # u
  BY <1>1, <1>3
<1>5. g[v] = h[v]
  BY <1>1, <1>4
<1>6. g[u] = f[One(u)] + g[v] /\ h[u] = f[One(u)] + h[v]
  BY <1>1, <1>2 DEF Sums
<1> QED BY <1>1, <1>5, <1>6

LEMMA SumsExist ==
    ASSUME NEW S, IsFiniteSet(S), NEW f, \A x \in S : f[x] \in Int
    PROVE  \E g \in [SUBSET S -> Int] : Sums(f, S, g)
<1> DEFINE Bad == {u \in SUBSET S : ~ \E g \in [SUBSET u -> Int] : Sums(f, u, g)}
<1> SUFFICES ASSUME Bad # {} PROVE FALSE
  OBVIOUS
<1>1. PICK u \in Bad : \A v \in Bad : v \subseteq u => v = u
  <2>1. Bad \in SUBSET (SUBSET S)
    OBVIOUS
  <2> HIDE DEF Bad
  <2> QED BY <2>1, SmallestSet
<1> DEFINE sol(v) == CHOOSE g \in [SUBSET v -> Int] : Sums(f, v, g)
           h == [v \in SUBSET u |->
                   IF v = {} THEN 0 ELSE f[One(v)] + sol(v \ {One(v)})[v \ {One(v)}]]
<1>2. ASSUME NEW v \in SUBSET u, v # u 
      PROVE  sol(v) \in [SUBSET v -> Int] /\ Sums(f, v, sol(v)) /\ IsFiniteSet(v)
  BY <1>1, <1>2, FS_Subset
<1> HIDE DEF sol
<1>3. h \in [SUBSET u -> Int]
  <2> SUFFICES ASSUME NEW v \in SUBSET u, v # {}
               PROVE  f[One(v)] + sol(v \ {One(v)})[v \ {One(v)}] \in Int
    OBVIOUS
  <2> DEFINE w == v \ {One(v)}
  <2>1. One(v) \in v /\ w \in SUBSET u /\ w # u
    BY OneOf
  <2>2. f[One(v)] \in Int
    BY <1>1, <2>1
  <2> HIDE DEF w
  <2>3. sol(w) \in [SUBSET w -> Int]
    BY <1>2, <2>1
  <2>4. sol(w)[w] \in Int
    <3> DEFINE g == sol(w)
    <3>1. g \in [SUBSET w -> Int] /\ w \in SUBSET w
      BY <2>3
    <3> HIDE DEF g
    <3>2. g[w] \in Int
      BY <3>1
    <3> QED BY <3>2 DEF g
  <2> QED BY <2>2, <2>4 DEF w
<1>4. ASSUME NEW v \in SUBSET u, v # u PROVE h[v] = sol(v)[v]
  <2>1. CASE v = {}
    BY <1>2, <1>4, <2>1 DEF Sums
  <2>2. CASE v # {}
    <3> DEFINE w == v \ {One(v)}
    <3>1. w \in SUBSET v /\ w \in SUBSET u /\ w # u
      BY <2>2, OneOf
    <3>2. Sums(f, w, sol(w)) /\ IsFiniteSet(w) /\ Sums(f, v, sol(v))
      BY <1>2, <1>4, <3>1
    <3>3. sol(w)[w] = sol(v)[w]
      <4>1. w \in SUBSET w /\ w \in SUBSET v
        BY <3>1
      <4> HIDE DEF w, h
      <4> QED BY <3>2, <4>1, SumsAgree
    <3>4. sol(v)[v] = f[One(v)] + sol(v)[w]
      BY <2>2, <3>2 DEF Sums
    <3> QED BY <2>2, <3>3, <3>4
  <2> QED BY <2>1, <2>2
<1>5. ASSUME NEW v \in SUBSET u, v # {} PROVE h[v] = f[One(v)] + h[v \ {One(v)}]
  <2>1. v \ {One(v)} \in SUBSET u /\ v \ {One(v)} # u
    BY <1>5, OneOf
  <2>2. h[v \ {One(v)}] = sol(v \ {One(v)})[v \ {One(v)}]
    BY <1>4, <2>1
  <2>3. h[v] = f[One(v)] + sol(v \ {One(v)})[v \ {One(v)}]
    BY <1>5
  <2> QED BY <2>2, <2>3
<1>6. h[{}] = 0
  OBVIOUS
<1>7. \E g \in [SUBSET u -> Int] : Sums(f, u, g)
  <2> HIDE DEF h
  <2>1. Sums(f, u, h)
    BY <1>5, <1>6 DEF Sums
  <2> QED BY <1>3, <2>1
<1> QED BY <1>1, <1>7

\* SumFunctionOnSet is the sum.
LEMMA SumIsSum ==
    ASSUME NEW S, IsFiniteSet(S), NEW f, \A x \in S : f[x] \in Int
    PROVE  \E g \in [SUBSET S -> Int] : Sums(f, S, g) /\ SumFunctionOnSet(f, S) = g[S]
<1> DEFINE it == CHOOSE g : g = [s \in SUBSET S |->
                   IF s = {} THEN 0 ELSE f[One(s)] + g[s \ {One(s)}]]
<1>1. SumFunctionOnSet(f, S) = it[S]
  BY DEF SumFunctionOnSet, FoldFunctionOnSet, MapThenFoldSet, One
<1>2. PICK g \in [SUBSET S -> Int] : Sums(f, S, g)
  BY SumsExist
<1>3. g = [s \in SUBSET S |-> IF s = {} THEN 0 ELSE f[One(s)] + g[s \ {One(s)}]]
  BY <1>2 DEF Sums
<1>4. it = [s \in SUBSET S |-> IF s = {} THEN 0 ELSE f[One(s)] + it[s \ {One(s)}]]
  BY <1>3
<1> HIDE DEF it
<1>5. Sums(f, S, it)
  BY <1>4 DEF Sums
<1>6. it[S] = g[S]
  BY <1>2, <1>5, SumsAgree
<1> QED BY <1>1, <1>2, <1>6

\* The sum over no element, and over one more.
LEMMA SumFirst ==
    ASSUME NEW S, IsFiniteSet(S), NEW f, \A x \in S : f[x] \in Int
    PROVE  /\ SumFunctionOnSet(f, S) \in Int
           /\ S = {} => SumFunctionOnSet(f, S) = 0
           /\ S # {} => SumFunctionOnSet(f, S)
                          = f[One(S)] + SumFunctionOnSet(f, S \ {One(S)})
<1>1. PICK g \in [SUBSET S -> Int] : Sums(f, S, g) /\ SumFunctionOnSet(f, S) = g[S]
  BY SumIsSum
<1>2. ASSUME S # {} PROVE g[S \ {One(S)}] = SumFunctionOnSet(f, S \ {One(S)})
  <2> DEFINE R == S \ {One(S)}
  <2>1. IsFiniteSet(R) /\ \A x \in R : f[x] \in Int
    BY FS_Subset
  <2> HIDE DEF R
  <2>2. PICK h \in [SUBSET R -> Int] : Sums(f, R, h) /\ SumFunctionOnSet(f, R) = h[R]
    BY <2>1, SumIsSum
  <2>3. R \in SUBSET S /\ R \in SUBSET R
    BY DEF R
  <2>4. g[R] = h[R]
    BY <1>1, <2>2, <2>3, SumsAgree
  <2> QED BY <2>2, <2>4 DEF R
<1> QED BY <1>1, <1>2 DEF Sums

LEMMA SumRemove ==
    ASSUME NEW S, IsFiniteSet(S), NEW f, \A x \in S : f[x] \in Int, NEW x0 \in S
    PROVE  SumFunctionOnSet(f, S) = f[x0] + SumFunctionOnSet(f, S \ {x0})
<1> DEFINE Sum(u) == SumFunctionOnSet(f, u)
           Bad == {u \in SUBSET S : \E x \in u : Sum(u) # f[x] + Sum(u \ {x})}
<1> SUFFICES ASSUME Bad # {} PROVE FALSE
  OBVIOUS
<1>1. PICK u \in Bad : \A v \in Bad : v \subseteq u => v = u
  <2>1. Bad \in SUBSET (SUBSET S)
    OBVIOUS
  <2> HIDE DEF Bad
  <2> QED BY <2>1, SmallestSet
<1>2. PICK x \in u : Sum(u) # f[x] + Sum(u \ {x})
  BY <1>1
<1>3. ASSUME NEW v \in SUBSET u
      PROVE  /\ Sum(v) \in Int
             /\ v # {} => Sum(v) = f[One(v)] + Sum(v \ {One(v)})
  <2>1. IsFiniteSet(v) /\ \A y \in v : f[y] \in Int
    BY <1>1, FS_Subset
  <2> QED BY <2>1, SumFirst
<1>4. ASSUME NEW v \in SUBSET u, v # u, NEW y \in v PROVE Sum(v) = f[y] + Sum(v \ {y})
  BY <1>1, <1>4
<1> DEFINE c == One(u)
<1>5. c \in u
  BY <1>2, OneOf
<1>6. Sum(u) = f[c] + Sum(u \ {c})
  BY <1>2, <1>3
<1> HIDE DEF Sum, c
<1>7. c # x
  BY <1>2, <1>6
<1>8. Sum(u \ {c}) = f[x] + Sum((u \ {c}) \ {x})
  BY <1>4, <1>5, <1>7
<1>9. Sum(u \ {x}) = f[c] + Sum((u \ {x}) \ {c})
  BY <1>4, <1>5, <1>7
<1>10. (u \ {x}) \ {c} = (u \ {c}) \ {x}
  OBVIOUS
<1>11. f[x] \in Int /\ f[c] \in Int /\ Sum((u \ {c}) \ {x}) \in Int
  BY <1>1, <1>3, <1>5
<1>12. Sum(u) = f[c] + (f[x] + Sum((u \ {c}) \ {x}))
  BY <1>6, <1>8
<1>13. f[x] + Sum(u \ {x}) = f[x] + (f[c] + Sum((u \ {c}) \ {x}))
  BY <1>9, <1>10
<1> QED BY <1>2, <1>11, <1>12, <1>13

LEMMA SumEqual ==
    ASSUME NEW S, IsFiniteSet(S), NEW f, NEW g, \A x \in S : f[x] \in Int /\ g[x] = f[x]
    PROVE  SumFunctionOnSet(f, S) = SumFunctionOnSet(g, S)
<1>1. PICK h \in [SUBSET S -> Int] : Sums(f, S, h) /\ SumFunctionOnSet(f, S) = h[S]
  BY SumIsSum
<1>2. PICK k \in [SUBSET S -> Int] : Sums(g, S, k) /\ SumFunctionOnSet(g, S) = k[S]
  BY SumIsSum
<1>3. Sums(f, S, k)
  BY <1>2, OneOf DEF Sums
<1> QED BY <1>1, <1>2, <1>3, SumsAgree

LEMMA SumZero ==
    ASSUME NEW S, IsFiniteSet(S), NEW f, \A x \in S : f[x] = 0
    PROVE  SumFunctionOnSet(f, S) = 0
<1>1. PICK g \in [SUBSET S -> Int] : Sums(f, S, g) /\ SumFunctionOnSet(f, S) = g[S]
  <2>1. \A x \in S : f[x] \in Int
    OBVIOUS
  <2> QED BY <2>1, SumIsSum
<1> DEFINE h == [u \in SUBSET S |-> 0]
<1>2. Sums(f, S, h)
  BY OneOf DEF Sums
<1>3. g[S] = h[S]
  BY <1>1, <1>2, SumsAgree
<1> QED BY <1>1, <1>3

\* One element's summand changes.
LEMMA SumChange ==
    ASSUME NEW S, IsFiniteSet(S), NEW f, NEW g, NEW x0, NEW d \in Int,
           \A x \in S : f[x] \in Int /\ g[x] = f[x] + (IF x = x0 THEN d ELSE 0)
    PROVE  SumFunctionOnSet(g, S) = SumFunctionOnSet(f, S) + (IF x0 \in S THEN d ELSE 0)
<1>1. IsFiniteSet(S \ {x0})
  BY FS_Subset
<1>2. /\ SumFunctionOnSet(f, S) \in Int /\ SumFunctionOnSet(g, S) \in Int
      /\ SumFunctionOnSet(f, S \ {x0}) \in Int
  <2>1. /\ \A x \in S : f[x] \in Int
        /\ \A x \in S : g[x] \in Int
        /\ \A x \in S \ {x0} : f[x] \in Int
    OBVIOUS
  <2> QED BY <1>1, <2>1, SumFirst
<1>3. SumFunctionOnSet(f, S \ {x0}) = SumFunctionOnSet(g, S \ {x0})
  <2>1. \A x \in S \ {x0} : f[x] \in Int /\ g[x] = f[x]
    OBVIOUS
  <2> QED BY <1>1, <2>1, SumEqual
<1>4. CASE x0 \notin S
  <2>1. S \ {x0} = S
    BY <1>4
  <2> QED BY <1>2, <1>3, <1>4, <2>1
<1>5. CASE x0 \in S
  <2>1. /\ SumFunctionOnSet(f, S) = f[x0] + SumFunctionOnSet(f, S \ {x0})
        /\ SumFunctionOnSet(g, S) = g[x0] + SumFunctionOnSet(g, S \ {x0})
    BY <1>5, SumRemove
  <2>2. f[x0] \in Int /\ g[x0] = f[x0] + d
    BY <1>5
  <2> QED BY <1>2, <1>3, <1>5, <2>1, <2>2
<1> QED BY <1>4, <1>5

\* A part of smaller summands has a smaller sum.
LEMMA SumMore ==
    ASSUME NEW S, IsFiniteSet(S), NEW R \in SUBSET S, NEW f, NEW g,
           \A x \in R : f[x] \in Int /\ f[x] <= g[x],
           \A x \in S : g[x] \in Nat
    PROVE  SumFunctionOnSet(f, R) <= SumFunctionOnSet(g, S)
<1> DEFINE F(u) == SumFunctionOnSet(f, u \cap R)
           G(u) == SumFunctionOnSet(g, u)
           Bad == {u \in SUBSET S : ~ F(u) <= G(u)}
<1> SUFFICES ASSUME Bad # {} PROVE FALSE
  <2>1. S \cap R = R
    OBVIOUS
  <2>2. S \notin Bad => F(S) <= G(S)
    OBVIOUS
  <2> HIDE DEF Bad
  <2> QED BY <2>1, <2>2
<1>1. PICK u \in Bad : \A v \in Bad : v \subseteq u => v = u
  <2>1. Bad \in SUBSET (SUBSET S)
    OBVIOUS
  <2> HIDE DEF Bad
  <2> QED BY <2>1, SmallestSet
<1>2. ASSUME NEW v \in SUBSET u PROVE F(v) \in Int /\ G(v) \in Int
  <2>1. IsFiniteSet(v) /\ IsFiniteSet(v \cap R) /\ \A y \in v : g[y] \in Int
    BY <1>1, FS_Subset
  <2>2. \A y \in v \cap R : f[y] \in Int
    OBVIOUS
  <2> QED BY <2>1, <2>2, SumFirst
<1>3. u # {}
  <2> SUFFICES ASSUME u = {} PROVE FALSE
    OBVIOUS
  <2>1. F(u) = 0 /\ G(u) = 0
    <3>1. u \cap R = {} /\ IsFiniteSet({})
      BY FS_EmptySet
    <3> QED BY <3>1, SumFirst
  <2> QED BY <1>1, <2>1
<1>4. PICK x \in u : TRUE
  BY <1>3
<1> DEFINE v == u \ {x}
<1>5. F(v) <= G(v)
  BY <1>1, <1>4
<1>6. G(u) = g[x] + G(v)
  <2>1. IsFiniteSet(u) /\ \A y \in u : g[y] \in Int
    BY <1>1, FS_Subset
  <2> QED BY <1>4, <2>1, SumRemove
<1>7. F(u) = F(v) + (IF x \in R THEN f[x] ELSE 0)
  <2>1. CASE x \in R
    <3>1. IsFiniteSet(u \cap R) /\ (\A y \in u \cap R : f[y] \in Int) /\ x \in u \cap R
      BY <1>1, <1>4, <2>1, FS_Subset
    <3>2. (u \cap R) \ {x} = v \cap R
      OBVIOUS
    <3>3. F(u) = f[x] + F(v)
      BY <3>1, <3>2, SumRemove
    <3>4. f[x] \in Int /\ F(v) \in Int
      BY <1>2, <2>1
    <3> HIDE DEF F
    <3> QED BY <2>1, <3>3, <3>4
  <2>2. CASE x \notin R
    <3>1. u \cap R = v \cap R
      BY <2>2
    <3>2. F(v) \in Int
      BY <1>2
    <3> QED BY <2>2, <3>1, <3>2
  <2> QED BY <2>1, <2>2
<1>8. ~ F(u) <= G(u) /\ F(v) \in Int /\ G(v) \in Int /\ g[x] \in Nat
  BY <1>1, <1>2, <1>4
<1>9. x \in R => f[x] \in Int /\ f[x] <= g[x]
  OBVIOUS
<1> HIDE DEF F, G, v
<1> QED BY <1>5, <1>6, <1>7, <1>8, <1>9

----------------------------------------------------------------------------
(* What each table owes to the movements of the lines.                     *)

MovedOut == [l \in Lines |-> moved[l].out]
MovedIn  == [l \in Lines |-> moved[l].in]

\* What lines S took out of and brought into row k.
OutOf(S, k) == SumFunctionOnSet(MovedOut, {l \in S : FromRow(l) = k})
Into(S, k)  == SumFunctionOnSet(MovedIn, {l \in S : ToRow(l) = k})

\* Each balance is the initial one, less what left it, plus what came.
Tables ==
    \A k \in Keys :
        LET now == stock.inventory[k]  was == InitStock.inventory[k]
            change == Into(Lines, k) - OutOf(Lines, k)
        IN  /\ now.curbal = was.curbal + change
            /\ ToASite => now.locqty = was.locqty + change
            /\ stock.invblance[k].qty
                 = InitStock.invblance[k].qty + Into(Lotted, k) - OutOf(Lotted, k)
            /\ stock.locbinitem[k].qty = InitStock.locbinitem[k].qty - OutOf(Binned, k)

\* Each part is where its line has brought it.
Places ==
    \A l \in Serialised : stock.asset[Data[l].asset].location =
        IF moved[l].in # 0 THEN Data[l].to
        ELSE IF moved[l].out # 0 THEN Nowhere
        ELSE InitStock.asset[Data[l].asset].location

\* The lots and the bins that lines take from exist.
Shelves(st) ==
    /\ \A l \in Lotted : st.invblance[FromRow(l)].exists
    /\ \A l \in Binned : st.locbinitem[FromRow(l)].exists

\* The lot and the bin that a movement is about to save are as they were read.
AsRead(s) ==
    /\ pc[s] = "out" =>
         /\ seen[s].invblance[FromRow(cur[s])] = stock.invblance[FromRow(cur[s])]
         /\ seen[s].locbinitem[FromRow(cur[s])] = stock.locbinitem[FromRow(cur[s])]
    /\ pc[s] = "in" =>
         seen[s].invblance[ToRow(cur[s])] = stock.invblance[ToRow(cur[s])]

\* The inductive invariant of the stock tables, on top of Once and Underway.
Books == Tables /\ Places /\ Shelves(stock) /\ \A s \in Sessions : AsRead(s)

\* What follows the movement of a line of which n were received: the trade row
\* has been written, and the return created for a customer's part, unless an
\* exception came before.
Traded(l, n) == n # 0 /\ (trade[l] = n \/ ("throws" \in Failures /\ trade[l] = 0))
Returned(l) ==
    \/ tkmpr[l] = IF Data[l].route = "other" /\ Data[l].iskhitem THEN 1 ELSE 0
    \/ "throws" \in Failures /\ tkmpr[l] = 0

\* The steps of a receipt with its line set on the page and no trade row yet.
Untraded == Movement \cup {"endpay", "trade"}

\* How far a request is with what follows its movement, and what the modified
\* lines of its page have behind them.
Follow(s) ==
    /\ pc[s] \in Receiving =>
         transferline[cur[s]].status = "notReceived" /\ tkmpr[cur[s]] = 0
    /\ pc[s] \in Receiving \ {"tk"} => trade[cur[s]] = 0
    /\ pc[s] \in {"endpay", "trade", "tk"} => page[s].line[cur[s]].yjsqty = qty[s]
    /\ pc[s] = "tk" => Data[cur[s]].route = "other" /\ Data[cur[s]].iskhitem
    /\ \A l \in page[s].dirty :
         \/ pc[s] \in Untraded /\ cur[s] = l
         \/ /\ Traded(l, page[s].line[l].yjsqty)
            /\ (pc[s] = "tk" /\ cur[s] = l) \/ Returned(l)

\* The inductive invariant of trade rows and returns, on top of Once and Saved.
Followed ==
    /\ \A l \in Lines \ erpiface : trade[l] = 0 /\ tkmpr[l] = 0
    /\ \A l \in Lines : transferline[l].status # "notReceived" =>
         Traded(l, transferline[l].yjsqty) /\ Returned(l)
    /\ \A s \in Sessions : Follow(s)

\* All that line r of the request asks for has arrived.
LinesOf(r) == {l \in Lines : Data[l].mrrow = r}
Arrived(r) == SumFunctionOnSet(MovedIn, LinesOf(r)) >= Required[r]

\* The inductive invariant of the request, on top of Once, Underway and Saved.
Requested ==
    /\ mrrow \in [MrRows -> [receiveqty : Int, status : {"open", "partReceived", "received"}]]
    /\ \A r \in MrRows : mrrow[r].status = "received" => Arrived(r)
    /\ ClosedMeansArrived

----------------------------------------------------------------------------
(* The movement procedures, when all their saves succeed.                  *)

\* What leaves a storeroom leaves its balance, its lot and its bin.
LEMMA OutTables ==
    ASSUME NEW st \in Stock, NEW was \in Stock, Stocked(was), NEW l \in Lines, NEW q \in Nat,
           NEW f, f = FromRow(l), was.inventory[f] = st.inventory[f],
           was.invblance[f] = st.invblance[f], was.locbinitem[f] = st.locbinitem[f],
           Shelves(st)
    PROVE  LET new == OutStoroom(st, was, Slip, Data[l], q, AllSaves) IN
           \A k \in Keys :
             /\ new.inventory[k].curbal = st.inventory[k].curbal - (IF k = f THEN q ELSE 0)
             /\ ToASite => new.inventory[k].locqty
                             = st.inventory[k].locqty - (IF k = f THEN q ELSE 0)
             /\ new.invblance[k].qty
                  = st.invblance[k].qty - (IF l \in Lotted /\ k = f THEN q ELSE 0)
             /\ new.locbinitem[k].qty
                  = st.locbinitem[k].qty - (IF l \in Binned /\ k = f THEN q ELSE 0)
             /\ st.invblance[k].exists => new.invblance[k].exists
             /\ st.locbinitem[k].exists => new.locbinitem[k].exists
             /\ k # f => new.invblance[k] = st.invblance[k]
                           /\ new.locbinitem[k] = st.locbinitem[k]
<1> DEFINE new == OutStoroom(st, was, Slip, Data[l], q, AllSaves)
           row == OutRow(st.inventory[f], Slip, q)
           lot == OutAmount(st.invblance[f], q)
           bin == OutAmount(st.locbinitem[f], q)
<1>1. f \in Keys /\ Data[l].kind \in Kinds /\ f = <<Data[l].from, Data[l].item>>
  BY LineKeys DEF LineData, FromRow
<1>2. /\ st.inventory \in [Keys -> Row]
      /\ st.invblance \in [Keys -> Amount] /\ st.locbinitem \in [Keys -> Amount]
  BY StockTables
<1>3. /\ new.inventory = [st.inventory EXCEPT ![f] = row]
      /\ new.invblance = IF l \in Lotted THEN [st.invblance EXCEPT ![f] = lot] ELSE st.invblance
      /\ new.locbinitem = IF l \in Binned THEN [st.locbinitem EXCEPT ![f] = bin]
                                          ELSE st.locbinitem
  <2>1. was.inventory[f].exists /\ (Data[l].kind = "SQN" => was.asset[Data[l].asset].exists)
    BY DEF Stocked
  <2>2. CASE Data[l].kind = "SQN"
    BY <1>1, <2>1, <2>2 DEF OutStoroom, OutSqn, Put, AllSaves, Lotted, Binned
  <2>3. CASE Data[l].kind = "LOT"
    BY <1>1, <2>1, <2>3 DEF OutStoroom, OutLot, Put, AllSaves, Lotted, Binned
  <2>4. CASE Data[l].kind = "OTHER"
    <3>1. new = [st EXCEPT !.inventory = [st.inventory EXCEPT ![f] = row]]
      BY <1>1, <2>1, <2>4 DEF OutStoroom, OutOther, Put, AllSaves
    <3>2. l \notin Lotted /\ l \notin Binned
      BY <2>4 DEF Lotted, Binned
    <3> HIDE DEF new, row
    <3> QED BY <3>1, <3>2 DEF Stock
  <2> QED BY <1>1, <2>2, <2>3, <2>4 DEF Kinds
<1>4. /\ row.curbal = st.inventory[f].curbal - q
      /\ ToASite => row.locqty = st.inventory[f].locqty - q
  <2>1. ToASite => OutMovesUsable(Slip)
    BY DEF ToASite, OutMovesUsable, MovesUsable
  <2> QED BY <2>1 DEF OutRow
<1>5. l \in Lotted => lot.exists /\ lot.qty = st.invblance[f].qty - q
  BY DEF Shelves, OutAmount
<1>6. l \in Binned => bin.exists /\ bin.qty = st.locbinitem[f].qty - q
  BY DEF Shelves, OutAmount
<1> HIDE DEF new, row, lot, bin
<1>7. ASSUME NEW k \in Keys
      PROVE  /\ new.inventory[k].curbal = st.inventory[k].curbal - (IF k = f THEN q ELSE 0)
             /\ ToASite => new.inventory[k].locqty
                             = st.inventory[k].locqty - (IF k = f THEN q ELSE 0)
  <2>1. st.inventory[k].curbal \in Int /\ st.inventory[k].locqty \in Int
    BY <1>2 DEF Row
  <2>2. new.inventory[k] = IF k = f THEN row ELSE st.inventory[k]
    BY <1>1, <1>2, <1>3
  <2> QED BY <1>4, <2>1, <2>2
<1>8. ASSUME NEW k \in Keys
      PROVE  /\ new.invblance[k].qty
                  = st.invblance[k].qty - (IF l \in Lotted /\ k = f THEN q ELSE 0)
             /\ st.invblance[k].exists => new.invblance[k].exists
             /\ k # f => new.invblance[k] = st.invblance[k]
  <2>1. st.invblance[k].qty \in Int
    BY <1>2 DEF Amount
  <2>2. new.invblance[k] = IF l \in Lotted /\ k = f THEN lot ELSE st.invblance[k]
    BY <1>1, <1>2, <1>3
  <2> QED BY <1>5, <2>1, <2>2
<1>9. ASSUME NEW k \in Keys
      PROVE  /\ new.locbinitem[k].qty
                  = st.locbinitem[k].qty - (IF l \in Binned /\ k = f THEN q ELSE 0)
             /\ st.locbinitem[k].exists => new.locbinitem[k].exists
             /\ k # f => new.locbinitem[k] = st.locbinitem[k]
  <2>1. st.locbinitem[k].qty \in Int
    BY <1>2 DEF Amount
  <2>2. new.locbinitem[k] = IF l \in Binned /\ k = f THEN bin ELSE st.locbinitem[k]
    BY <1>1, <1>2, <1>3
  <2> QED BY <1>6, <2>1, <2>2
<1> QED BY <1>7, <1>8, <1>9 DEF new

\* The part of a serialised line has left its storeroom.
LEMMA OutPlaces ==
    ASSUME NEW st \in Stock, NEW was \in Stock, Stocked(was), NEW l \in Lines, NEW q \in Nat,
           NEW a \in Assets
    PROVE  OutStoroom(st, was, Slip, Data[l], q, AllSaves).asset[a].location
             = IF l \in Serialised /\ a = Data[l].asset THEN Nowhere ELSE st.asset[a].location
<1> DEFINE new == OutStoroom(st, was, Slip, Data[l], q, AllSaves)
           a0 == Data[l].asset
           part == [st.asset[a0] EXCEPT !.location = Nowhere]
<1>1. Data[l].kind \in Kinds /\ a0 \in Assets
  BY LineKeys DEF LineData
<1>2. st.asset \in [Assets -> Asset]
  BY StockTables
<1>3. new.asset = IF l \in Serialised THEN [st.asset EXCEPT ![a0] = part] ELSE st.asset
  <2>1. /\ was.inventory[<<Data[l].from, Data[l].item>>].exists
        /\ Data[l].kind = "SQN" => was.asset[a0].exists
    BY DEF Stocked, FromRow
  <2>2. CASE Data[l].kind = "SQN"
    BY <1>1, <2>1, <2>2 DEF OutStoroom, OutSqn, Put, AllSaves, Serialised
  <2>3. CASE Data[l].kind = "LOT"
    BY <1>1, <2>1, <2>3 DEF OutStoroom, OutLot, Serialised
  <2>4. CASE Data[l].kind = "OTHER"
    <3>1. PICK rows : new = [st EXCEPT !.inventory = rows]
      BY <1>1, <2>1, <2>4 DEF OutStoroom, OutOther
    <3> HIDE DEF new
    <3> QED BY <2>4, <3>1, OtherTables DEF Serialised
  <2> QED BY <1>1, <2>2, <2>3, <2>4 DEF Kinds
<1>4. part.location = Nowhere
  BY <1>1, <1>2 DEF Asset
<1> HIDE DEF new, part
<1>5. new.asset[a] = IF l \in Serialised /\ a = a0 THEN part ELSE st.asset[a]
  BY <1>1, <1>2, <1>3
<1>6. new.asset[a].location = IF l \in Serialised /\ a = a0 THEN Nowhere
                                                             ELSE st.asset[a].location
  BY <1>4, <1>5
<1> QED BY <1>6 DEF new

\* What comes adds to its balance and its lot.
LEMMA InTables ==
    ASSUME NEW st \in Stock, NEW was \in Stock, Stocked(was), NEW l \in Lines, NEW q \in Nat,
           NEW f, f = ToRow(l), was.inventory[f] = st.inventory[f],
           was.invblance[f] = st.invblance[f]
    PROVE  LET new == InStoroom(st, was, Slip, Data[l], q, RoomType[Data[l].to], AllSaves) IN
           \A k \in Keys :
             /\ new.inventory[k].curbal = st.inventory[k].curbal + (IF k = f THEN q ELSE 0)
             /\ ToASite => new.inventory[k].locqty
                             = st.inventory[k].locqty + (IF k = f THEN q ELSE 0)
             /\ new.invblance[k].qty
                  = st.invblance[k].qty + (IF l \in Lotted /\ k = f THEN q ELSE 0)
             /\ new.locbinitem[k] = st.locbinitem[k]
             /\ st.invblance[k].exists => new.invblance[k].exists
             /\ k # f => new.invblance[k] = st.invblance[k]
<1> DEFINE room == RoomType[Data[l].to]
           new == InStoroom(st, was, Slip, Data[l], q, room, AllSaves)
           row == InRow(st.inventory[f], Slip, Data[l], q)
           lot == InAmount(st.invblance[f], q)
<1>1. f \in Keys /\ Data[l].kind \in Kinds /\ f = <<Data[l].to, Data[l].item>>
  BY LineKeys DEF LineData, ToRow
<1>2. /\ st.inventory \in [Keys -> Row] /\ st.invblance \in [Keys -> Amount]
  BY StockTables
<1> HIDE DEF room
<1>3. /\ new.inventory = [st.inventory EXCEPT ![f] = row]
      /\ new.invblance = IF l \in Lotted THEN [st.invblance EXCEPT ![f] = lot] ELSE st.invblance
      /\ new.locbinitem = st.locbinitem
  <2>1. Data[l].kind = "SQN" => was.asset[Data[l].asset].exists
    BY DEF Stocked
  <2>2. CASE Data[l].kind = "SQN"
    <3>1. new = InSqn(st, was, Slip, Data[l], q, room, AllSaves)
      BY <2>2 DEF InStoroom
    <3> QED BY <1>1, <2>1, <2>2, <3>1 DEF InSqn, Put, AllSaves, Lotted
  <2>3. CASE Data[l].kind = "LOT"
    BY <1>1, <2>3 DEF InStoroom, InLot, Put, AllSaves, Lotted
  <2>4. CASE Data[l].kind = "OTHER"
    <3>1. new = [st EXCEPT !.inventory = [st.inventory EXCEPT ![f] = row]]
      BY <1>1, <2>4 DEF InStoroom, InOther, Put, AllSaves
    <3>2. l \notin Lotted
      BY <2>4 DEF Lotted
    <3> HIDE DEF new, row
    <3> QED BY <3>1, <3>2 DEF Stock
  <2> QED BY <1>1, <2>2, <2>3, <2>4 DEF Kinds
<1>4. /\ row.curbal = st.inventory[f].curbal + q
      /\ ToASite => row.locqty = st.inventory[f].locqty + q
  <2>1. ToASite => InMovesUsable(Slip, Data[l])
    BY DEF ToASite, InMovesUsable, MovesUsable
  <2> QED BY <2>1 DEF InRow
<1>5. lot.exists /\ lot.qty = st.invblance[f].qty + q
  BY DEF InAmount
<1> HIDE DEF new, row, lot
<1>6. ASSUME NEW k \in Keys
      PROVE  /\ new.inventory[k].curbal = st.inventory[k].curbal + (IF k = f THEN q ELSE 0)
             /\ ToASite => new.inventory[k].locqty
                             = st.inventory[k].locqty + (IF k = f THEN q ELSE 0)
  <2>1. st.inventory[k].curbal \in Int /\ st.inventory[k].locqty \in Int
    BY <1>2 DEF Row
  <2>2. new.inventory[k] = IF k = f THEN row ELSE st.inventory[k]
    BY <1>1, <1>2, <1>3
  <2> QED BY <1>4, <2>1, <2>2
<1>7. ASSUME NEW k \in Keys
      PROVE  /\ new.invblance[k].qty
                  = st.invblance[k].qty + (IF l \in Lotted /\ k = f THEN q ELSE 0)
             /\ st.invblance[k].exists => new.invblance[k].exists
             /\ k # f => new.invblance[k] = st.invblance[k]
  <2>1. st.invblance[k].qty \in Int
    BY <1>2 DEF Amount
  <2>2. new.invblance[k] = IF l \in Lotted /\ k = f THEN lot ELSE st.invblance[k]
    BY <1>1, <1>2, <1>3
  <2> QED BY <1>5, <2>1, <2>2
<1> QED BY <1>3, <1>6, <1>7 DEF new, room

\* The part of a serialised line is in the storeroom it was sent to.
LEMMA InPlaces ==
    ASSUME NEW st \in Stock, NEW was \in Stock, Stocked(was), NEW l \in Lines, NEW q \in Nat,
           NEW a \in Assets
    PROVE  InStoroom(st, was, Slip, Data[l], q, RoomType[Data[l].to], AllSaves).asset[a].location
             = IF l \in Serialised /\ a = Data[l].asset THEN Data[l].to
                                                       ELSE st.asset[a].location
<1> DEFINE room == RoomType[Data[l].to]
           new == InStoroom(st, was, Slip, Data[l], q, room, AllSaves)
           a0 == Data[l].asset
           part == [exists   |-> TRUE,
                    location |-> Data[l].to,
                    status   |-> InStatus(room, Data[l], st.asset[a0].status,
                                   ~ was.inventory[<<Data[l].to, Data[l].item>>].exists)]
<1>1. Data[l].kind \in Kinds /\ a0 \in Assets
  BY LineKeys DEF LineData
<1>2. st.asset \in [Assets -> Asset]
  BY StockTables
<1> HIDE DEF room
<1>3. new.asset = IF l \in Serialised THEN [st.asset EXCEPT ![a0] = part] ELSE st.asset
  <2>1. Data[l].kind = "SQN" => was.asset[a0].exists
    BY DEF Stocked
  <2>2. CASE Data[l].kind = "SQN"
    <3>1. new = InSqn(st, was, Slip, Data[l], q, room, AllSaves)
      BY <2>2 DEF InStoroom
    <3> QED BY <1>1, <2>1, <2>2, <3>1 DEF InSqn, Put, AllSaves, Serialised
  <2>3. CASE Data[l].kind = "LOT"
    BY <1>1, <2>3 DEF InStoroom, InLot, Serialised
  <2>4. CASE Data[l].kind = "OTHER"
    <3>1. PICK rows : new = [st EXCEPT !.inventory = rows]
      BY <1>1, <2>4 DEF InStoroom, InOther
    <3> HIDE DEF new
    <3> QED BY <2>4, <3>1, OtherTables DEF Serialised
  <2> QED BY <1>1, <2>2, <2>3, <2>4 DEF Kinds
<1>4. part.location = Data[l].to
  OBVIOUS
<1> HIDE DEF new, part
<1>5. new.asset[a] = IF l \in Serialised /\ a = a0 THEN part ELSE st.asset[a]
  BY <1>1, <1>2, <1>3
<1>6. new.asset[a].location = IF l \in Serialised /\ a = a0 THEN Data[l].to
                                                             ELSE st.asset[a].location
  BY <1>4, <1>5
<1> QED BY <1>6 DEF new, room

----------------------------------------------------------------------------
(* The stock tables follow the movements.                                  *)

LEMMA LinesFinite ==
    /\ IsFiniteSet(Lines)
    /\ \A S \in SUBSET Lines : IsFiniteSet(S)
BY ReceiptAssumption, FS_Subset DEF ReceiptAssumption

\* A movement adds its quantity to the sums of the row it leaves or reaches.
LEMMA OutSums ==
    ASSUME TypeOK, NEW l \in Lines, NEW q \in Nat, moved' = AddOut(moved, l, q),
           NEW S \in SUBSET Lines, NEW k
    PROVE  /\ OutOf(S, k)' = OutOf(S, k) + (IF l \in S /\ k = FromRow(l) THEN q ELSE 0)
           /\ Into(S, k)' = Into(S, k)
           /\ OutOf(S, k) \in Int /\ Into(S, k) \in Int
<1> DEFINE F == {m \in S : FromRow(m) = k}
           T == {m \in S : ToRow(m) = k}
<1>1. /\ \A m \in Lines : moved[m] \in Both
      /\ \A m \in Lines : moved[m].out \in Int /\ moved[m].in \in Int
  BY DEF TypeOK, Both
<1>2. \A m \in Lines : /\ moved'[m].out = moved[m].out + (IF m = l THEN q ELSE 0)
                       /\ moved'[m].in = moved[m].in
  BY <1>1 DEF AddOut, TypeOK, Both
<1>3. IsFiniteSet(F) /\ IsFiniteSet(T)
  BY LinesFinite
<1>4. MovedIn' = MovedIn
  BY <1>2 DEF MovedIn
<1>5. /\ \A m \in F : MovedOut[m] \in Int
      /\ \A m \in F : MovedOut'[m] = MovedOut[m] + (IF m = l THEN q ELSE 0)
      /\ \A m \in T : MovedIn[m] \in Int
  BY <1>1, <1>2 DEF MovedOut, MovedIn
<1> HIDE DEF F, T
<1>6. SumFunctionOnSet(MovedOut', F) = SumFunctionOnSet(MovedOut, F) + (IF l \in F THEN q ELSE 0)
  <2>1. q \in Int
    OBVIOUS
  <2>2. PICK f : f = MovedOut
    OBVIOUS
  <2>3. PICK g : g = MovedOut'
    OBVIOUS
  <2>4. \A m \in F : f[m] \in Int /\ g[m] = f[m] + (IF m = l THEN q ELSE 0)
    BY <1>5, <2>2, <2>3
  <2>5. SumFunctionOnSet(g, F) = SumFunctionOnSet(f, F) + (IF l \in F THEN q ELSE 0)
    BY <1>3, <2>1, <2>4, SumChange
  <2> QED BY <2>2, <2>3, <2>5
<1>7. SumFunctionOnSet(MovedOut, F) \in Int /\ SumFunctionOnSet(MovedIn, T) \in Int
  BY <1>3, <1>5, SumFirst
<1>8. (l \in F) <=> (l \in S /\ k = FromRow(l))
  BY DEF F
<1>9. OutOf(S, k) = SumFunctionOnSet(MovedOut, F) /\ Into(S, k) = SumFunctionOnSet(MovedIn, T)
  BY DEF OutOf, Into, F, T
<1>10. OutOf(S, k)' = SumFunctionOnSet(MovedOut', F) /\ Into(S, k)' = SumFunctionOnSet(MovedIn', T)
  BY DEF OutOf, Into, F, T
<1> QED BY <1>4, <1>6, <1>7, <1>8, <1>9, <1>10

LEMMA InSums ==
    ASSUME TypeOK, NEW l \in Lines, NEW q \in Nat, moved' = AddIn(moved, l, q),
           NEW S \in SUBSET Lines, NEW k
    PROVE  /\ Into(S, k)' = Into(S, k) + (IF l \in S /\ k = ToRow(l) THEN q ELSE 0)
           /\ OutOf(S, k)' = OutOf(S, k)
           /\ OutOf(S, k) \in Int /\ Into(S, k) \in Int
<1> DEFINE F == {m \in S : FromRow(m) = k}
           T == {m \in S : ToRow(m) = k}
<1>1. /\ \A m \in Lines : moved[m] \in Both
      /\ \A m \in Lines : moved[m].out \in Int /\ moved[m].in \in Int
  BY DEF TypeOK, Both
<1>2. \A m \in Lines : /\ moved'[m].in = moved[m].in + (IF m = l THEN q ELSE 0)
                       /\ moved'[m].out = moved[m].out
  BY <1>1 DEF AddIn, TypeOK, Both
<1>3. IsFiniteSet(F) /\ IsFiniteSet(T)
  BY LinesFinite
<1>4. MovedOut' = MovedOut
  BY <1>2 DEF MovedOut
<1>5. /\ \A m \in T : MovedIn[m] \in Int
      /\ \A m \in T : MovedIn'[m] = MovedIn[m] + (IF m = l THEN q ELSE 0)
      /\ \A m \in F : MovedOut[m] \in Int
  BY <1>1, <1>2 DEF MovedOut, MovedIn
<1> HIDE DEF F, T
<1>6. SumFunctionOnSet(MovedIn', T) = SumFunctionOnSet(MovedIn, T) + (IF l \in T THEN q ELSE 0)
  <2>1. q \in Int
    OBVIOUS
  <2>2. PICK f : f = MovedIn
    OBVIOUS
  <2>3. PICK g : g = MovedIn'
    OBVIOUS
  <2>4. \A m \in T : f[m] \in Int /\ g[m] = f[m] + (IF m = l THEN q ELSE 0)
    BY <1>5, <2>2, <2>3
  <2>5. SumFunctionOnSet(g, T) = SumFunctionOnSet(f, T) + (IF l \in T THEN q ELSE 0)
    BY <1>3, <2>1, <2>4, SumChange
  <2> QED BY <2>2, <2>3, <2>5
<1>7. SumFunctionOnSet(MovedOut, F) \in Int /\ SumFunctionOnSet(MovedIn, T) \in Int
  BY <1>3, <1>5, SumFirst
<1>8. (l \in T) <=> (l \in S /\ k = ToRow(l))
  BY DEF T
<1>9. OutOf(S, k) = SumFunctionOnSet(MovedOut, F) /\ Into(S, k) = SumFunctionOnSet(MovedIn, T)
  BY DEF OutOf, Into, F, T
<1>10. OutOf(S, k)' = SumFunctionOnSet(MovedOut', F) /\ Into(S, k)' = SumFunctionOnSet(MovedIn', T)
  BY DEF OutOf, Into, F, T
<1> QED BY <1>4, <1>6, <1>7, <1>8, <1>9, <1>10

LEMMA BooksInit == ASSUME WellIssued PROVE Init => Books
<1> SUFFICES ASSUME Init PROVE Books
  OBVIOUS
<1>1. \A l \in Lines : MovedOut[l] = 0 /\ MovedIn[l] = 0
  BY DEF Init, MovedOut, MovedIn, Zero
<1>2. ASSUME NEW S \in SUBSET Lines, NEW k PROVE OutOf(S, k) = 0 /\ Into(S, k) = 0
  <2>1. {l \in S : FromRow(l) = k} \in SUBSET Lines /\ {l \in S : ToRow(l) = k} \in SUBSET Lines
    OBVIOUS
  <2> QED BY <1>1, <2>1, LinesFinite, SumZero DEF OutOf, Into
<1>3. Lotted \in SUBSET Lines /\ Binned \in SUBSET Lines
  BY DEF Lotted, Binned
<1>4. Tables
  <2> SUFFICES ASSUME NEW k \in Keys
               PROVE  LET was == InitStock.inventory[k] IN
                      /\ was.curbal = was.curbal + (0 - 0)
                      /\ was.locqty = was.locqty + (0 - 0)
                      /\ InitStock.invblance[k].qty = InitStock.invblance[k].qty + 0 - 0
                      /\ InitStock.locbinitem[k].qty = InitStock.locbinitem[k].qty - 0
    BY <1>2, <1>3 DEF Tables, Init
  <2>1. InitStock \in Stock
    BY ReceiptAssumption DEF ReceiptAssumption
  <2>2. /\ InitStock.inventory[k] \in Row
        /\ InitStock.invblance[k] \in Amount /\ InitStock.locbinitem[k] \in Amount
    BY <2>1, StockTables
  <2> QED BY <2>2 DEF Row, Amount
<1>5. Places
  BY DEF Init, Places, Serialised, Zero
<1>6. Shelves(stock)
  BY DEF Init, Shelves, WellIssued
<1>7. \A s \in Sessions : AsRead(s)
  BY DEF Init, AsRead
<1> QED BY <1>4, <1>5, <1>6, <1>7 DEF Books

\* The rows of a line that another session is moving.
LEMMA OtherRows ==
    ASSUME RowsApart, TypeOK, Once, NEW s \in Sessions, NEW t \in Sessions, s # t,
           pc[s] \in {"out", "in"}, pc[t] \in {"out", "in"}
    PROVE  /\ FromRow(cur[t]) \in Keys /\ ToRow(cur[t]) \in Keys
           /\ {FromRow(cur[s]), ToRow(cur[s])} \cap {FromRow(cur[t]), ToRow(cur[t])} = {}
<1>1. /\ Request(s) /\ Request(t) /\ pc[s] \in Receiving /\ pc[t] \in Receiving
      /\ FromRow(cur[t]) \in Keys /\ ToRow(cur[t]) \in Keys
  BY AtWork DEF BeforeInLedger, BeforeIn, BeforeOutLedger, BeforeOut
<1>2. cur[s] \in MayOpen[s] /\ cur[t] \in MayOpen[t]
  BY <1>1 DEF Request
<1> QED BY <1>1, <1>2 DEF RowsApart

LEMMA BooksOut ==
    ASSUME RowsApart, NothingSwallowed, WellIssued, TypeOK, Once, Underway, Books,
           NEW s \in Sessions, OutStock(s)
    PROVE  Books'
<1> USE DEF BeforeInLedger, BeforeIn, BeforeOutLedger, BeforeOut
<1>1. pc[s] = "out" /\ pc' = [pc EXCEPT ![s] = "outLedger"] /\ cur' = cur /\ seen' = seen
  BY DEF OutStock, At, Goto
<1>2. PICK l \in Lines : l = cur[s]
  BY <1>1, AtWork
<1>3. PICK q \in Nat \ {0} : q = qty[s]
  BY <1>1, AtWork
<1>4. PICK f : f = FromRow(l)
  OBVIOUS
<1>5. PICK was \in Stock : was = seen[s]
  BY DEF TypeOK
<1>6. /\ moved' = AddOut(moved, l, q) /\ moved[l].out = 0 /\ moved[l].in = 0
      /\ stock' = OutStoroom(stock, was, Slip, Data[l], q, AllSaves)
  BY <1>2, <1>3, <1>5, OutExact
<1>7. /\ was.inventory[f] = stock.inventory[f] /\ was.invblance[f] = stock.invblance[f]
      /\ was.locbinitem[f] = stock.locbinitem[f]
      /\ Stocked(was) /\ Shelves(stock) /\ stock \in Stock
  <2>1. Moving(s) /\ AsRead(s) /\ Stocked(seen[s])
    BY DEF Underway, Books
  <2>2. Shelves(stock) /\ stock \in Stock
    BY DEF Books, TypeOK
  <2> QED BY <1>1, <1>2, <1>4, <1>5, <2>1, <2>2 DEF Moving, AsRead
<1>8. \A k \in Keys :
        /\ stock'.inventory[k].curbal = stock.inventory[k].curbal - (IF k = f THEN q ELSE 0)
        /\ ToASite => stock'.inventory[k].locqty
                        = stock.inventory[k].locqty - (IF k = f THEN q ELSE 0)
        /\ stock'.invblance[k].qty
             = stock.invblance[k].qty - (IF l \in Lotted /\ k = f THEN q ELSE 0)
        /\ stock'.locbinitem[k].qty
             = stock.locbinitem[k].qty - (IF l \in Binned /\ k = f THEN q ELSE 0)
        /\ stock.invblance[k].exists => stock'.invblance[k].exists
        /\ stock.locbinitem[k].exists => stock'.locbinitem[k].exists
        /\ k # f => stock'.invblance[k] = stock.invblance[k]
                      /\ stock'.locbinitem[k] = stock.locbinitem[k]
  BY <1>4, <1>6, <1>7, OutTables
<1>9. \A m \in Lines : moved'[m] = IF m = l THEN [out |-> q, in |-> 0] ELSE moved[m]
  BY <1>6 DEF AddOut, TypeOK, Both
<1>10. Tables'
  <2> SUFFICES ASSUME NEW k \in Keys
               PROVE  /\ stock'.inventory[k].curbal = InitStock.inventory[k].curbal
                           + (Into(Lines, k)' - OutOf(Lines, k)')
                      /\ ToASite => stock'.inventory[k].locqty = InitStock.inventory[k].locqty
                           + (Into(Lines, k)' - OutOf(Lines, k)')
                      /\ stock'.invblance[k].qty = InitStock.invblance[k].qty
                           + Into(Lotted, k)' - OutOf(Lotted, k)'
                      /\ stock'.locbinitem[k].qty
                           = InitStock.locbinitem[k].qty - OutOf(Binned, k)'
    BY DEF Tables
  <2>1. Lotted \in SUBSET Lines /\ Binned \in SUBSET Lines /\ Lines \in SUBSET Lines /\ q \in Nat
    BY DEF Lotted, Binned
  <2>2. \A S \in {Lines, Lotted, Binned} :
          /\ OutOf(S, k)' = OutOf(S, k) + (IF l \in S /\ k = f THEN q ELSE 0)
          /\ Into(S, k)' = Into(S, k)
          /\ OutOf(S, k) \in Int /\ Into(S, k) \in Int
    BY <1>4, <1>6, <2>1, OutSums
  <2>3. InitStock \in Stock
    BY ReceiptAssumption DEF ReceiptAssumption
  <2>4. /\ InitStock.inventory[k] \in Row
        /\ InitStock.invblance[k] \in Amount /\ InitStock.locbinitem[k] \in Amount
    BY <2>3, StockTables
  <2>5. /\ InitStock.inventory[k].curbal \in Int /\ InitStock.inventory[k].locqty \in Int
        /\ InitStock.invblance[k].qty \in Int /\ InitStock.locbinitem[k].qty \in Int
    BY <2>4 DEF Row, Amount
  <2>6. /\ stock.inventory[k].curbal
             = InitStock.inventory[k].curbal + (Into(Lines, k) - OutOf(Lines, k))
        /\ ToASite => stock.inventory[k].locqty
             = InitStock.inventory[k].locqty + (Into(Lines, k) - OutOf(Lines, k))
        /\ stock.invblance[k].qty
             = InitStock.invblance[k].qty + Into(Lotted, k) - OutOf(Lotted, k)
        /\ stock.locbinitem[k].qty = InitStock.locbinitem[k].qty - OutOf(Binned, k)
    BY DEF Books, Tables
  <2>7. /\ stock'.inventory[k].curbal = InitStock.inventory[k].curbal
             + (Into(Lines, k)' - OutOf(Lines, k)')
        /\ ToASite => stock'.inventory[k].locqty = InitStock.inventory[k].locqty
             + (Into(Lines, k)' - OutOf(Lines, k)')
    BY <1>2, <1>8, <2>2, <2>5, <2>6
  <2>8. stock'.invblance[k].qty
          = InitStock.invblance[k].qty + Into(Lotted, k)' - OutOf(Lotted, k)'
    BY <1>8, <2>2, <2>5, <2>6
  <2>9. stock'.locbinitem[k].qty = InitStock.locbinitem[k].qty - OutOf(Binned, k)'
    BY <1>8, <2>2, <2>5, <2>6
  <2> QED BY <2>7, <2>8, <2>9
<1>11. Places'
  <2> SUFFICES ASSUME NEW m \in Serialised
               PROVE  stock'.asset[Data[m].asset].location =
                        IF moved'[m].in # 0 THEN Data[m].to
                        ELSE IF moved'[m].out # 0 THEN Nowhere
                        ELSE InitStock.asset[Data[m].asset].location
    BY DEF Places
  <2>1. m \in Lines /\ Data[m].asset \in Assets
    BY LineKeys DEF Serialised
  <2>2. stock'.asset[Data[m].asset].location
          = IF l \in Serialised /\ Data[m].asset = Data[l].asset THEN Nowhere
            ELSE stock.asset[Data[m].asset].location
    BY <1>6, <1>7, <2>1, OutPlaces
  <2>3. CASE m = l
    BY <1>9, <2>1, <2>2, <2>3
  <2>4. CASE m # l
    <3>1. ~ (l \in Serialised /\ Data[m].asset = Data[l].asset)
      BY <2>4 DEF WellIssued
    <3>2. moved'[m] = moved[m]
      BY <1>9, <2>1, <2>4
    <3> QED BY <2>2, <3>1, <3>2 DEF Books, Places
  <2> QED BY <2>3, <2>4
<1>12. Shelves(stock)'
  <2>1. \A m \in Lines : FromRow(m) \in Keys
    BY LineKeys DEF FromRow
  <2> QED BY <1>7, <1>8, <2>1 DEF Shelves, Lotted, Binned
<1>13. ASSUME NEW t \in Sessions PROVE AsRead(t)'
  <2>1. CASE t = s
    BY <1>1, <2>1 DEF AsRead, TypeOK
  <2>2. CASE t # s
    <3>1. AsRead(t) /\ pc'[t] = pc[t]
      BY <1>1, <2>2 DEF Books, TypeOK
    <3>2. CASE pc[t] \in {"out", "in"}
      <4>1. /\ FromRow(cur[t]) \in Keys /\ ToRow(cur[t]) \in Keys
            /\ f # FromRow(cur[t]) /\ f # ToRow(cur[t])
        BY <1>1, <1>2, <1>4, <2>2, <3>2, OtherRows
      <4> QED BY <1>1, <1>8, <3>1, <4>1 DEF AsRead
    <3> QED BY <3>1, <3>2 DEF AsRead
  <2> QED BY <2>1, <2>2
<1> QED BY <1>10, <1>11, <1>12, <1>13 DEF Books

LEMMA BooksIn ==
    ASSUME RowsApart, NothingSwallowed, WellIssued, TypeOK, Once, Underway, Books,
           NEW s \in Sessions, InStock(s)
    PROVE  Books'
<1> USE DEF BeforeInLedger, BeforeIn, BeforeOutLedger, BeforeOut
<1>1. pc[s] = "in" /\ pc' = [pc EXCEPT ![s] = "inLedger"] /\ cur' = cur /\ seen' = seen
  BY DEF InStock, At, Goto
<1>2. PICK l \in Lines : l = cur[s]
  BY <1>1, AtWork
<1>3. PICK q \in Nat \ {0} : q = qty[s]
  BY <1>1, AtWork
<1>4. PICK f : f = ToRow(l)
  OBVIOUS
<1>5. PICK was \in Stock : was = seen[s]
  BY DEF TypeOK
<1>6. /\ moved' = AddIn(moved, l, q) /\ moved[l].out = q /\ moved[l].in = 0
      /\ stock' = InStoroom(stock, was, Slip, Data[l], q, RoomType[Data[l].to], AllSaves)
  BY <1>2, <1>3, <1>5, InExact
<1>7. /\ was.inventory[f] = stock.inventory[f] /\ was.invblance[f] = stock.invblance[f]
      /\ Stocked(was) /\ Shelves(stock) /\ stock \in Stock
  <2>1. Moving(s) /\ AsRead(s) /\ Stocked(seen[s])
    BY DEF Underway, Books
  <2>2. Shelves(stock) /\ stock \in Stock
    BY DEF Books, TypeOK
  <2> QED BY <1>1, <1>2, <1>4, <1>5, <2>1, <2>2 DEF Moving, AsRead
<1>8. \A k \in Keys :
        /\ stock'.inventory[k].curbal = stock.inventory[k].curbal + (IF k = f THEN q ELSE 0)
        /\ ToASite => stock'.inventory[k].locqty
                        = stock.inventory[k].locqty + (IF k = f THEN q ELSE 0)
        /\ stock'.invblance[k].qty
             = stock.invblance[k].qty + (IF l \in Lotted /\ k = f THEN q ELSE 0)
        /\ stock'.locbinitem[k] = stock.locbinitem[k]
        /\ stock.invblance[k].exists => stock'.invblance[k].exists
        /\ k # f => stock'.invblance[k] = stock.invblance[k]
  BY <1>4, <1>6, <1>7, InTables
<1>9. \A m \in Lines : moved'[m] = IF m = l THEN [out |-> q, in |-> q] ELSE moved[m]
  <2>1. moved \in [Lines -> Both]
    BY DEF TypeOK
  <2>2. moved[l] = [out |-> q, in |-> 0]
    BY <2>1, <1>6 DEF Both
  <2>3. AddIn(moved, l, q)[l] = [out |-> q, in |-> q]
    BY <2>1, <2>2 DEF AddIn
  <2>4. \A m \in Lines : m # l => AddIn(moved, l, q)[m] = moved[m]
    BY <2>1 DEF AddIn
  <2> QED BY <1>6, <2>3, <2>4
<1>10. Tables'
  <2> SUFFICES ASSUME NEW k \in Keys
               PROVE  /\ stock'.inventory[k].curbal = InitStock.inventory[k].curbal
                           + (Into(Lines, k)' - OutOf(Lines, k)')
                      /\ ToASite => stock'.inventory[k].locqty = InitStock.inventory[k].locqty
                           + (Into(Lines, k)' - OutOf(Lines, k)')
                      /\ stock'.invblance[k].qty = InitStock.invblance[k].qty
                           + Into(Lotted, k)' - OutOf(Lotted, k)'
                      /\ stock'.locbinitem[k].qty
                           = InitStock.locbinitem[k].qty - OutOf(Binned, k)'
    BY DEF Tables
  <2>1. Lotted \in SUBSET Lines /\ Binned \in SUBSET Lines /\ Lines \in SUBSET Lines /\ q \in Nat
    BY DEF Lotted, Binned
  <2>2. \A S \in {Lines, Lotted, Binned} :
          /\ Into(S, k)' = Into(S, k) + (IF l \in S /\ k = f THEN q ELSE 0)
          /\ OutOf(S, k)' = OutOf(S, k)
          /\ OutOf(S, k) \in Int /\ Into(S, k) \in Int
    BY <1>4, <1>6, <2>1, InSums
  <2>3. InitStock \in Stock
    BY ReceiptAssumption DEF ReceiptAssumption
  <2>4. /\ InitStock.inventory[k] \in Row
        /\ InitStock.invblance[k] \in Amount /\ InitStock.locbinitem[k] \in Amount
    BY <2>3, StockTables
  <2>5. /\ InitStock.inventory[k].curbal \in Int /\ InitStock.inventory[k].locqty \in Int
        /\ InitStock.invblance[k].qty \in Int /\ InitStock.locbinitem[k].qty \in Int
    BY <2>4 DEF Row, Amount
  <2>6. /\ stock.inventory[k].curbal
             = InitStock.inventory[k].curbal + (Into(Lines, k) - OutOf(Lines, k))
        /\ ToASite => stock.inventory[k].locqty
             = InitStock.inventory[k].locqty + (Into(Lines, k) - OutOf(Lines, k))
        /\ stock.invblance[k].qty
             = InitStock.invblance[k].qty + Into(Lotted, k) - OutOf(Lotted, k)
        /\ stock.locbinitem[k].qty = InitStock.locbinitem[k].qty - OutOf(Binned, k)
    BY DEF Books, Tables
  <2>7. /\ stock'.inventory[k].curbal = InitStock.inventory[k].curbal
             + (Into(Lines, k)' - OutOf(Lines, k)')
        /\ ToASite => stock'.inventory[k].locqty = InitStock.inventory[k].locqty
             + (Into(Lines, k)' - OutOf(Lines, k)')
    BY <1>2, <1>8, <2>2, <2>5, <2>6
  <2>8. stock'.invblance[k].qty
          = InitStock.invblance[k].qty + Into(Lotted, k)' - OutOf(Lotted, k)'
    BY <1>8, <2>2, <2>5, <2>6
  <2>9. stock'.locbinitem[k].qty = InitStock.locbinitem[k].qty - OutOf(Binned, k)'
    BY <1>8, <2>2, <2>6
  <2> QED BY <2>7, <2>8, <2>9
<1>11. Places'
  <2> SUFFICES ASSUME NEW m \in Serialised
               PROVE  stock'.asset[Data[m].asset].location =
                        IF moved'[m].in # 0 THEN Data[m].to
                        ELSE IF moved'[m].out # 0 THEN Nowhere
                        ELSE InitStock.asset[Data[m].asset].location
    BY DEF Places
  <2>1. m \in Lines /\ Data[m].asset \in Assets
    BY LineKeys DEF Serialised
  <2>2. stock'.asset[Data[m].asset].location
          = IF l \in Serialised /\ Data[m].asset = Data[l].asset THEN Data[l].to
            ELSE stock.asset[Data[m].asset].location
    BY <1>6, <1>7, <2>1, InPlaces
  <2>3. CASE m = l
    BY <1>9, <2>1, <2>2, <2>3
  <2>4. CASE m # l
    <3>1. ~ (l \in Serialised /\ Data[m].asset = Data[l].asset)
      BY <2>4 DEF WellIssued
    <3>2. moved'[m] = moved[m]
      BY <1>9, <2>1, <2>4
    <3> QED BY <2>2, <3>1, <3>2 DEF Books, Places
  <2> QED BY <2>3, <2>4
<1>12. Shelves(stock)'
  <2>1. \A m \in Lines : FromRow(m) \in Keys
    BY LineKeys DEF FromRow
  <2> QED BY <1>7, <1>8, <2>1 DEF Shelves, Lotted, Binned
<1>13. ASSUME NEW t \in Sessions PROVE AsRead(t)'
  <2>1. CASE t = s
    BY <1>1, <2>1 DEF AsRead, TypeOK
  <2>2. CASE t # s
    <3>1. AsRead(t) /\ pc'[t] = pc[t]
      BY <1>1, <2>2 DEF Books, TypeOK
    <3>2. CASE pc[t] \in {"out", "in"}
      <4>1. /\ FromRow(cur[t]) \in Keys /\ ToRow(cur[t]) \in Keys
            /\ f # FromRow(cur[t]) /\ f # ToRow(cur[t])
        BY <1>1, <1>2, <1>4, <2>2, <3>2, OtherRows
      <4> QED BY <1>1, <1>8, <3>1, <4>1 DEF AsRead
    <3> QED BY <3>1, <3>2 DEF AsRead
  <2> QED BY <2>1, <2>2
<1> QED BY <1>10, <1>11, <1>12, <1>13 DEF Books

\* A step that moves nothing, and at most reads the stock.
LEMMA BooksQuiet ==
    ASSUME Books, stock' = stock, moved' = moved,
           \A t \in Sessions :
             \/ pc'[t] \notin {"out", "in"}
             \/ seen'[t] = stock
             \/ pc'[t] = pc[t] /\ cur'[t] = cur[t] /\ seen'[t] = seen[t]
    PROVE  Books'
<1>1. Tables'
  <2>1. MovedOut' = MovedOut /\ MovedIn' = MovedIn
    BY DEF MovedOut, MovedIn
  <2>2. \A S, k : OutOf(S, k)' = OutOf(S, k) /\ Into(S, k)' = Into(S, k)
    BY <2>1 DEF OutOf, Into
  <2> QED BY <2>2 DEF Books, Tables
<1>2. Places' /\ Shelves(stock)'
  BY DEF Books, Places, Shelves
<1>3. ASSUME NEW t \in Sessions PROVE AsRead(t)'
  BY DEF Books, AsRead
<1> QED BY <1>1, <1>2, <1>3 DEF Books

LEMMA BooksStill ==
    ASSUME TypeOK, Books, NEW s \in Sessions, Still(s)
    PROVE  Books'
<1> DEFINE Goal == /\ stock' = stock /\ moved' = moved
                   /\ \A t \in Sessions :
                        \/ pc'[t] \notin {"out", "in"}
                        \/ pc'[t] = pc[t] /\ cur'[t] = cur[t] /\ seen'[t] = seen[t]
<1> SUFFICES Goal
  BY BooksQuiet
<1> USE DEF TypeOK, bookvars, reqvars
<1>1. ASSUME NEW l \in Lines, NEW q \in 1 .. Data[l].orderqty, Confirm(s, l, q) PROVE Goal
  BY <1>1 DEF Confirm
<1>2. CASE Open(s)
  BY <1>2 DEF Open
<1>3. CASE SavePage(s)
  BY <1>3 DEF SavePage, Goto
<1>4. CASE InsertIface(s)
  BY <1>4 DEF InsertIface, Goto
<1>5. CASE ErpRefuses(s)
  BY <1>5 DEF ErpRefuses, Finish
<1>6. CASE SetReceived(s)
  BY <1>6 DEF SetReceived, Goto
<1>7. CASE EndPay(s)
  BY <1>7 DEF EndPay, Goto
<1>8. CASE AddTrade(s)
  BY <1>8 DEF AddTrade, Goto
<1>9. CASE CreateTk(s)
  BY <1>9 DEF CreateTk, Goto
<1>10. CASE Save(s)
  BY <1>10 DEF Save, Goto
<1>11. CASE RollUpMr(s)
  BY <1>11 DEF RollUpMr, Goto
<1>12. CASE CloseMr(s)
  BY <1>12 DEF CloseMr, Goto
<1>13. CASE RecalcInv(s)
  BY <1>13 DEF RecalcInv, Finish
<1>14. CASE QueryThrows(s)
  BY <1>14 DEF QueryThrows, Finish
<1>15. CASE Throws(s)
  BY <1>15 DEF Throws, Finish
<1>16. CASE Crash(s)
  BY <1>16 DEF Crash, Finish
<1>17. CASE SumInv(s)
  BY <1>17 DEF SumInv
<1> QED BY <1>1, <1>2, <1>3, <1>4, <1>5, <1>6, <1>7, <1>8, <1>9, <1>10, <1>11, <1>12, <1>13,
           <1>14, <1>15, <1>16, <1>17 DEF Still

LEMMA BooksNext ==
    ASSUME RowsApart, NothingSwallowed, WellIssued
    PROVE  TypeOK /\ Once /\ Underway /\ Books /\ [Next]_vars => Books'
<1> SUFFICES ASSUME TypeOK, Once, Underway, Books, [Next]_vars PROVE Books'
  OBVIOUS
<1>1. CASE UNCHANGED vars
  BY <1>1, BooksQuiet DEF vars, bookvars, reqvars
<1>2. ASSUME NEW s \in Sessions, Still(s) PROVE Books'
  BY <1>2, BooksStill
<1>3. ASSUME NEW s \in Sessions, ErpPosts(s) \/ ErpIsLost(s) PROVE Books'
  BY <1>3, BooksQuiet DEF TypeOK, ErpPosts, ErpIsLost, Goto, Finish, bookvars
<1>4. ASSUME NEW s \in Sessions, ReadOut(s) \/ ReadIn(s) PROVE Books'
  BY <1>4, BooksQuiet DEF TypeOK, ReadOut, ReadIn, Read, bookvars
<1>5. ASSUME NEW s \in Sessions, OutLedger(s) \/ InLedger(s) PROVE Books'
  BY <1>5, BooksQuiet DEF TypeOK, OutLedger, InLedger, Goto
<1>6. ASSUME NEW s \in Sessions, OutStock(s) \/ InStock(s) PROVE Books'
  BY <1>6, BooksOut, BooksIn
<1> QED BY <1>1, <1>2, <1>3, <1>4, <1>5, <1>6 DEF Next, User, Serve, Fault, Still

----------------------------------------------------------------------------
(* Trade rows and returns.                                                 *)

LEMMA FollowedInit == Init => Followed
<1> SUFFICES ASSUME Init PROVE Followed
  OBVIOUS
<1>1. ASSUME NEW s \in Sessions PROVE Follow(s)
  BY DEF Init, Follow, Fresh, Receiving, BeforeInLedger, BeforeIn, BeforeOutLedger, BeforeOut,
     BeforeErp
<1> QED BY <1>1 DEF Init, Followed

LEMMA QtyAtWork ==
    ASSUME Once, NEW s \in Sessions, pc[s] \in Receiving
    PROVE  qty[s] # 0
<1>1. qty[s] \in 1 .. Data[cur[s]].orderqty /\ cur[s] \in MayOpen[s]
  BY DEF Once, Request
<1>2. Data[cur[s]].orderqty \in Nat
  BY <1>1, OwnLines, LineKeys
<1> QED BY <1>1, <1>2

\* A step of session s, other than the save, that writes at most the trade row
\* and the return of its own line.
LEMMA FollowedStep ==
    ASSUME RowsApart, TypeOK, Once, Saved, Followed, NEW s \in Sessions,
           transferline' = transferline, erpiface \subseteq erpiface',
           \A t \in Sessions \ {s} :
             pc'[t] = pc[t] /\ cur'[t] = cur[t] /\ qty'[t] = qty[t] /\ page'[t] = page[t],
           \A l \in Lines :
             \/ l = cur[s] /\ pc[s] \in {"trade", "tk"}
             \/ trade'[l] = trade[l] /\ tkmpr'[l] = tkmpr[l],
           Follow(s)'
    PROVE  Followed'
<1>1. pc[s] \in {"trade", "tk"} =>
        cur[s] \in erpiface /\ cur[s] \in MayOpen[s] /\ transferline[cur[s]].status = "notReceived"
  <2>1. Request(s) /\ Follow(s)
    BY DEF Once, Followed
  <2> QED BY <2>1 DEF Request, Follow, Receiving
<1>2. \A l \in Lines \ erpiface' : trade'[l] = 0 /\ tkmpr'[l] = 0
  BY <1>1 DEF Followed
<1>3. ASSUME NEW l \in Lines, transferline'[l].status # "notReceived"
      PROVE  Traded(l, transferline[l].yjsqty)' /\ Returned(l)'
  <2>1. trade'[l] = trade[l] /\ tkmpr'[l] = tkmpr[l]
    BY <1>1, <1>3
  <2>2. Traded(l, transferline[l].yjsqty) /\ Returned(l)
    BY <1>3 DEF Followed
  <2> QED BY <2>1, <2>2 DEF Traded, Returned
<1>4. ASSUME NEW t \in Sessions \ {s} PROVE Follow(t)'
  <2>1. /\ Follow(t) /\ page[t].dirty \subseteq MayOpen[t] /\ MayOpen[t] \subseteq Lines
        /\ pc[t] \in Receiving => cur[t] \in MayOpen[t]
    BY OwnLines DEF Followed, Saved, Shown, Once, Request
  <2>2. \A l \in MayOpen[t] : trade'[l] = trade[l] /\ tkmpr'[l] = tkmpr[l]
    BY <1>1, <2>1, LinesApart DEF DisjointLines
  <2>3. /\ \A l \in page[t].dirty : trade'[l] = trade[l] /\ tkmpr'[l] = tkmpr[l]
        /\ pc[t] \in Receiving => trade'[cur[t]] = trade[cur[t]] /\ tkmpr'[cur[t]] = tkmpr[cur[t]]
    BY <2>1, <2>2
  <2>4. ASSUME NEW l \in page[t].dirty
        PROVE  /\ Traded(l, page[t].line[l].yjsqty) => Traded(l, page[t].line[l].yjsqty)'
               /\ Returned(l) => Returned(l)'
    BY <2>3 DEF Traded, Returned
  <2> QED BY <2>1, <2>3, <2>4 DEF Follow
<1> QED BY <1>2, <1>3, <1>4 DEF Followed

\* The page is reloaded.
LEMMA FollowedReload ==
    ASSUME RowsApart, TypeOK, Once, Saved, Followed, NEW s \in Sessions, Open(s) \/ Crash(s)
    PROVE  Followed'
<1>1. /\ transferline' = transferline /\ erpiface' = erpiface
      /\ trade' = trade /\ tkmpr' = tkmpr
  BY DEF Open, Crash, slipvars, othervars
<1>2. /\ \A t \in Sessions \ {s} :
           pc'[t] = pc[t] /\ cur'[t] = cur[t] /\ qty'[t] = qty[t] /\ page'[t] = page[t]
      /\ page'[s] = Fresh /\ pc'[s] = "idle"
  BY DEF Open, Crash, Finish, At, reqvars, TypeOK
<1>3. Follow(s)'
  BY <1>1, <1>2 DEF Follow, Fresh, Receiving, BeforeInLedger, BeforeIn, BeforeOutLedger,
     BeforeOut, BeforeErp
<1> QED BY <1>1, <1>2, <1>3, FollowedStep

LEMMA FollowedConfirm ==
    ASSUME RowsApart, TypeOK, Once, Saved, Followed, NEW s \in Sessions, NEW l \in Lines,
           NEW q \in 1 .. Data[l].orderqty, Confirm(s, l, q)
    PROVE  Followed'
<1> USE DEF Untraded, Movement, Receiving, BeforeInLedger, BeforeIn, BeforeOutLedger, BeforeOut,
            BeforeErp
<1>1. /\ transferline' = transferline /\ erpiface' = erpiface /\ page' = page
      /\ trade' = trade /\ tkmpr' = tkmpr
  BY DEF Confirm, slipvars, othervars
<1>2. /\ \A t \in Sessions \ {s} : pc'[t] = pc[t] /\ cur'[t] = cur[t] /\ qty'[t] = qty[t]
      /\ pc[s] = "idle" /\ pc'[s] = "iface" /\ cur'[s] = l /\ l \notin erpiface
  BY DEF Confirm, At, TypeOK
<1>3. Follow(s) /\ transferline[l].status = "notReceived" /\ trade[l] = 0 /\ tkmpr[l] = 0
  BY <1>2 DEF Saved, Followed, Blank
<1>4. Follow(s)'
  BY <1>1, <1>2, <1>3 DEF Follow, Traded, Returned
<1> QED BY <1>1, <1>2, <1>4, FollowedStep

\* The steps that write neither a line, a page, a trade row nor a return.
LEMMA FollowedQuiet ==
    ASSUME RowsApart, TypeOK, Once, Saved, Followed, NEW s \in Sessions,
           transferline' = transferline, erpiface \subseteq erpiface', page' = page,
           trade' = trade, tkmpr' = tkmpr,
           \A t \in Sessions \ {s} : pc'[t] = pc[t] /\ cur'[t] = cur[t] /\ qty'[t] = qty[t],
           \/ pc[s] \notin Receiving /\ pc'[s] \notin Receiving
           \/ /\ pc[s] \in Receiving \ {"endpay", "trade", "tk"}
              /\ pc'[s] \in Receiving \ {"tk"}
              /\ pc[s] \in Movement <=> pc'[s] \in Untraded
              /\ pc'[s] \in {"endpay", "trade"} => pc[s] = "inLedger"
              /\ cur'[s] = cur[s] /\ qty'[s] = qty[s]
           \/ pc[s] = "endpay" /\ pc'[s] = "trade" /\ cur'[s] = cur[s] /\ qty'[s] = qty[s]
           \/ pc[s] \in BeforeErp /\ pc'[s] \notin Receiving
           \/ pc[s] \in {"endpay", "tk"} /\ pc'[s] \notin Receiving /\ "throws" \in Failures
    PROVE  Followed'
<1> USE DEF Untraded, Movement, Receiving, BeforeInLedger, BeforeIn, BeforeOutLedger, BeforeOut,
            BeforeErp
<1>1. Follow(s) /\ Shown(s)
  BY DEF Saved, Followed
<1>2. ASSUME NEW l \in page[s].dirty
      PROVE  /\ Traded(l, page[s].line[l].yjsqty)' <=> Traded(l, page[s].line[l].yjsqty)
             /\ Returned(l)' <=> Returned(l)
  BY DEF Traded, Returned
<1>3. Follow(s)'
  <2>1. pc'[s] \in Receiving =>
          transferline'[cur'[s]].status = "notReceived" /\ tkmpr'[cur'[s]] = 0
    BY <1>1 DEF Follow
  <2>2. pc'[s] \in Receiving \ {"tk"} => trade'[cur'[s]] = 0
    BY <1>1 DEF Follow
  <2>3. pc'[s] \in {"endpay", "trade", "tk"} => page'[s].line[cur'[s]].yjsqty = qty'[s]
    BY <1>1 DEF Follow, Shown
  <2>4. pc'[s] # "tk"
    OBVIOUS
  <2>5. ASSUME NEW l \in page[s].dirty
        PROVE  \/ pc'[s] \in Untraded /\ cur'[s] = l
               \/ Traded(l, page[s].line[l].yjsqty)' /\ Returned(l)'
    <3>1. CASE pc[s] \in Untraded /\ cur[s] = l
      <4>1. CASE pc[s] = "endpay" /\ pc'[s] \notin Receiving
        <5>1. trade'[l] = 0 /\ tkmpr'[l] = 0 /\ "throws" \in Failures
          BY <1>1, <3>1, <4>1 DEF Follow
        <5>2. page'[s].line[l].yjsqty # 0
          BY <1>1, <3>1, <4>1, QtyAtWork DEF Follow
        <5> QED BY <5>1, <5>2 DEF Traded, Returned
      <4>2. CASE ~ (pc[s] = "endpay" /\ pc'[s] \notin Receiving)
        BY <3>1, <4>2
      <4> QED BY <4>1, <4>2
    <3>2. CASE ~ (pc[s] \in Untraded /\ cur[s] = l)
      <4>1. /\ Traded(l, page[s].line[l].yjsqty)
            /\ (pc[s] = "tk" /\ cur[s] = l) \/ Returned(l)
        BY <1>1, <3>2 DEF Follow
      <4>2. CASE pc[s] = "tk" /\ cur[s] = l
        <5>1. tkmpr'[l] = 0 /\ "throws" \in Failures
          BY <1>1, <4>2 DEF Follow
        <5> QED BY <1>2, <4>1, <5>1 DEF Returned
      <4> QED BY <1>2, <4>1, <4>2
    <3> QED BY <3>1, <3>2
  <2> QED BY <2>1, <2>2, <2>3, <2>4, <2>5 DEF Follow
<1> QED BY <1>3, FollowedStep

\* The steps FollowedQuiet is about.
Silent(s) ==
    \/ SavePage(s) \/ InsertIface(s) \/ ErpPosts(s) \/ ErpIsLost(s) \/ ErpRefuses(s)
    \/ ReadOut(s) \/ OutStock(s) \/ OutLedger(s) \/ ReadIn(s) \/ InStock(s) \/ InLedger(s)
    \/ EndPay(s) \/ RollUpMr(s) \/ CloseMr(s) \/ SumInv(s) \/ RecalcInv(s) \/ Throws(s)

LEMMA FollowedSilent ==
    ASSUME RowsApart, TypeOK, Once, Saved, Followed, NEW s \in Sessions, Silent(s)
    PROVE  Followed'
<1> USE DEF Untraded, Movement, Receiving, BeforeInLedger, BeforeIn, BeforeOutLedger, BeforeOut,
            BeforeErp, TypeOK, slipvars, othervars, bookvars, reqvars, At
<1>1. CASE SavePage(s)
  BY <1>1, FollowedQuiet DEF SavePage, Goto
<1>2. CASE InsertIface(s)
  BY <1>2, FollowedQuiet DEF InsertIface, Goto
<1>3. CASE ErpPosts(s)
  BY <1>3, FollowedQuiet DEF ErpPosts, Goto
<1>4. CASE ErpIsLost(s)
  BY <1>4, FollowedQuiet DEF ErpIsLost, Finish
<1>5. CASE ErpRefuses(s)
  BY <1>5, FollowedQuiet DEF ErpRefuses, Finish
<1>6. CASE ReadOut(s) \/ ReadIn(s)
  BY <1>6, FollowedQuiet DEF ReadOut, ReadIn, Read
<1>7. CASE OutStock(s)
  BY <1>7, FollowedQuiet DEF OutStock, Goto
<1>8. CASE OutLedger(s)
  BY <1>8, FollowedQuiet DEF OutLedger, Goto
<1>9. CASE InStock(s)
  BY <1>9, FollowedQuiet DEF InStock, Goto
<1>10. CASE InLedger(s)
  BY <1>10, FollowedQuiet DEF InLedger, Goto
<1>11. CASE EndPay(s)
  BY <1>11, FollowedQuiet DEF EndPay, Goto
<1>12. CASE RollUpMr(s)
  BY <1>12, FollowedQuiet DEF RollUpMr, Goto
<1>13. CASE CloseMr(s)
  BY <1>13, FollowedQuiet DEF CloseMr, Goto
<1>14. CASE SumInv(s)
  BY <1>14, FollowedQuiet DEF SumInv
<1>15. CASE RecalcInv(s)
  BY <1>15, FollowedQuiet DEF RecalcInv, Finish
<1>16. CASE Throws(s)
  BY <1>16, FollowedQuiet DEF Throws, Finish
<1> QED BY <1>1, <1>2, <1>3, <1>4, <1>5, <1>6, <1>7, <1>8, <1>9, <1>10, <1>11, <1>12, <1>13,
           <1>14, <1>15, <1>16 DEF Silent

\* The line is set on the page, and nothing has followed yet.
LEMMA FollowedSet ==
    ASSUME RowsApart, TypeOK, Once, Saved, Followed, NEW s \in Sessions, SetReceived(s)
    PROVE  Followed'
<1> USE DEF Untraded, Movement, Receiving, BeforeInLedger, BeforeIn, BeforeOutLedger, BeforeOut,
            BeforeErp
<1> DEFINE l == cur[s]
<1>1. /\ transferline' = transferline /\ erpiface' = erpiface
      /\ trade' = trade /\ tkmpr' = tkmpr
      /\ \A t \in Sessions \ {s} : pc'[t] = pc[t] /\ page'[t] = page[t]
      /\ cur' = cur /\ qty' = qty
      /\ pc[s] = "status" /\ pc'[s] = "readOut"
  BY DEF SetReceived, Goto, At, TypeOK, slipvars, othervars
<1>2. /\ page'[s].line = [page[s].line EXCEPT ![l] = LineAfter(s, l)]
      /\ page'[s].dirty = page[s].dirty \cup {l}
      /\ page[s].line \in [Lines -> [status : Statuses, yjsqty : Nat]]
      /\ page[s].dirty \subseteq Lines
  BY DEF SetReceived, TypeOK
<1>3. Follow(s)
  BY DEF Followed
<1>4. Follow(s)'
  <2>1. ASSUME NEW m \in page'[s].dirty, m # l
        PROVE  Traded(m, page[s].line[m].yjsqty)' /\ Returned(m)'
    <3>1. m \in page[s].dirty /\ page'[s].line[m] = page[s].line[m]
      BY <1>2, <2>1
    <3>2. Traded(m, page[s].line[m].yjsqty) /\ Returned(m)
      BY <1>1, <1>3, <2>1, <3>1 DEF Follow
    <3> QED BY <1>1, <3>1, <3>2 DEF Traded, Returned
  <2> QED BY <1>1, <1>3, <2>1 DEF Follow
<1> QED BY <1>1, <1>4, FollowedStep

\* The trade row is written, with the quantity set on the page.
LEMMA FollowedTrade ==
    ASSUME RowsApart, NothingSwallowed, TypeOK, Once, Saved, Followed, NEW s \in Sessions,
           AddTrade(s)
    PROVE  Followed'
<1> USE DEF Untraded, Movement, Receiving, BeforeInLedger, BeforeIn, BeforeOutLedger, BeforeOut,
            BeforeErp
<1>1. PICK l \in Lines : l = cur[s]
  <2>1. pc[s] \in Receiving /\ Request(s)
    BY DEF AddTrade, At, Once
  <2> QED BY <2>1, RequestLine
<1>2. Follow(s) /\ pc[s] = "trade"
  BY DEF Followed, AddTrade, At
<1>3. /\ transferline[l].status = "notReceived" /\ tkmpr[l] = 0 /\ trade[l] = 0
      /\ page[s].line[l].yjsqty = qty[s] /\ qty[s] # 0
  BY <1>1, <1>2, QtyAtWork DEF Follow
<1>4. /\ transferline' = transferline /\ erpiface' = erpiface /\ page' = page
      /\ tkmpr' = tkmpr /\ cur' = cur /\ qty' = qty
      /\ \A t \in Sessions \ {s} : pc'[t] = pc[t]
      /\ pc'[s] = IF Data[l].route = "other" /\ Data[l].iskhitem THEN "tk" ELSE "save"
  BY <1>1 DEF AddTrade, Goto, TypeOK, slipvars, Line
<1>5. trade'[l] = qty[s] /\ \A m \in Lines \ {l} : trade'[m] = trade[m]
  BY <1>1, <1>3 DEF AddTrade, Recorded, NothingSwallowed, TypeOK
<1>6. Follow(s)'
  <2>1. ASSUME NEW m \in page[s].dirty
        PROVE  /\ Traded(m, page[s].line[m].yjsqty)'
               /\ (pc'[s] = "tk" /\ cur'[s] = m) \/ Returned(m)'
    <3>1. CASE m = l
      <4>1. Traded(m, page[s].line[m].yjsqty)'
        BY <1>3, <1>4, <1>5, <3>1 DEF Traded
      <4>2. (pc'[s] = "tk" /\ cur'[s] = m) \/ Returned(m)'
        BY <1>1, <1>3, <1>4, <3>1 DEF Returned
      <4> QED BY <4>1, <4>2
    <3>2. CASE m # l
      <4>1. Traded(m, page[s].line[m].yjsqty) /\ Returned(m)
        BY <1>1, <1>2, <3>2 DEF Follow
      <4>2. trade'[m] = trade[m]
        BY <1>5, <3>2 DEF TypeOK
      <4> QED BY <1>4, <4>1, <4>2 DEF Traded, Returned
    <3> QED BY <3>1, <3>2
  <2> QED BY <1>1, <1>2, <1>3, <1>4, <2>1 DEF Follow
<1> QED BY <1>1, <1>2, <1>4, <1>5, <1>6, FollowedStep

\* The return of a customer's part is created.
LEMMA FollowedTk ==
    ASSUME RowsApart, TypeOK, Once, Saved, Followed, NEW s \in Sessions, CreateTk(s)
    PROVE  Followed'
<1> USE DEF Untraded, Movement, Receiving, BeforeInLedger, BeforeIn, BeforeOutLedger, BeforeOut,
            BeforeErp
<1>1. PICK l \in Lines : l = cur[s]
  <2>1. pc[s] \in Receiving /\ Request(s)
    BY DEF CreateTk, At, Once
  <2> QED BY <2>1, RequestLine
<1>2. Follow(s) /\ pc[s] = "tk"
  BY DEF Followed, CreateTk, At
<1>3. tkmpr[l] = 0 /\ Data[l].route = "other" /\ Data[l].iskhitem
  BY <1>1, <1>2 DEF Follow
<1>4. /\ transferline' = transferline /\ erpiface' = erpiface /\ page' = page
      /\ trade' = trade /\ cur' = cur /\ qty' = qty
      /\ \A t \in Sessions \ {s} : pc'[t] = pc[t]
      /\ pc'[s] = "save"
  BY DEF CreateTk, Goto, TypeOK, slipvars
<1>5. tkmpr'[l] = 1 /\ \A m \in Lines \ {l} : tkmpr'[m] = tkmpr[m]
  BY <1>1, <1>3 DEF CreateTk, TypeOK
<1>6. Follow(s)'
  <2>1. ASSUME NEW m \in page[s].dirty
        PROVE  Traded(m, page[s].line[m].yjsqty)' /\ Returned(m)'
    <3>1. Traded(m, page[s].line[m].yjsqty) /\ (m = l \/ Returned(m))
      BY <1>1, <1>2 DEF Follow
    <3>2. Traded(m, page[s].line[m].yjsqty)'
      BY <1>4, <3>1 DEF Traded
    <3>3. Returned(m)'
      BY <1>3, <1>5, <3>1 DEF Returned, TypeOK
    <3> QED BY <3>2, <3>3
  <2> QED BY <1>4, <2>1 DEF Follow
<1> QED BY <1>1, <1>2, <1>4, <1>5, <1>6, FollowedStep

\* The save writes lines whose trade row and return have been dealt with.
LEMMA FollowedSave ==
    ASSUME RowsApart, TypeOK, Once, Saved, Followed, NEW s \in Sessions, Save(s)
    PROVE  Followed'
<1> USE DEF Untraded, Movement, Receiving, BeforeInLedger, BeforeIn, BeforeOutLedger, BeforeOut,
            BeforeErp
<1>1. /\ \A l \in Lines :
           transferline'[l] = IF l \in page[s].dirty THEN page[s].line[l] ELSE transferline[l]
      /\ erpiface' = erpiface /\ trade' = trade /\ tkmpr' = tkmpr
      /\ \A t \in Sessions \ {s} : pc'[t] = pc[t] /\ page'[t] = page[t]
      /\ cur' = cur /\ qty' = qty
      /\ pc[s] = "save" /\ pc'[s] \notin Receiving
      /\ page'[s].line = page[s].line /\ page'[s].dirty = {}
  BY DEF Save, Goto, At, TypeOK, othervars
<1>2. /\ \A l \in page[s].dirty : Traded(l, page[s].line[l].yjsqty) /\ Returned(l)
      /\ page[s].dirty \subseteq MayOpen[s]
  BY <1>1 DEF Followed, Follow, Saved, Shown
<1>3. ASSUME NEW l \in Lines, transferline'[l].status # "notReceived"
      PROVE  Traded(l, transferline[l].yjsqty)' /\ Returned(l)'
  <2>1. Traded(l, transferline'[l].yjsqty) /\ Returned(l)
    <3>1. CASE l \in page[s].dirty
      BY <1>1, <1>2, <3>1
    <3>2. CASE l \notin page[s].dirty
      BY <1>1, <1>3, <3>2 DEF Followed
    <3> QED BY <3>1, <3>2
  <2> QED BY <1>1, <2>1 DEF Traded, Returned
<1>4. Follow(s)'
  BY <1>1 DEF Follow
<1>5. ASSUME NEW t \in Sessions \ {s} PROVE Follow(t)'
  <2>1. pc[t] \in Receiving => transferline'[cur[t]] = transferline[cur[t]]
    <3> SUFFICES ASSUME pc[t] \in Receiving
                 PROVE  transferline'[cur[t]] = transferline[cur[t]]
      OBVIOUS
    <3>1. cur[t] \in MayOpen[t] /\ MayOpen[t] \subseteq Lines
      BY OwnLines DEF Once, Request
    <3>2. cur[t] \notin page[s].dirty
      BY <1>2, <3>1, LinesApart DEF DisjointLines
    <3> QED BY <1>1, <3>1, <3>2
  <2>2. \A m \in page[t].dirty :
          /\ Traded(m, page[t].line[m].yjsqty) => Traded(m, page[t].line[m].yjsqty)'
          /\ Returned(m) => Returned(m)'
    BY <1>1 DEF Traded, Returned
  <2>3. Follow(t) /\ pc'[t] = pc[t] /\ page'[t] = page[t]
    BY <1>1 DEF Followed
  <2> QED BY <1>1, <2>1, <2>2, <2>3 DEF Follow
<1> QED BY <1>1, <1>3, <1>4, <1>5 DEF Followed

LEMMA FollowedNext ==
    ASSUME RowsApart, NothingSwallowed, QueryAnswers
    PROVE  TypeOK /\ Once /\ Saved /\ Followed /\ [Next]_vars => Followed'
<1> SUFFICES ASSUME TypeOK, Once, Saved, Followed, [Next]_vars PROVE Followed'
  OBVIOUS
<1>1. CASE UNCHANGED vars
  <2>1. /\ transferline' = transferline /\ erpiface' = erpiface /\ page' = page
        /\ trade' = trade /\ tkmpr' = tkmpr
        /\ pc' = pc /\ cur' = cur /\ qty' = qty
    BY <1>1 DEF vars, slipvars, othervars, reqvars
  <2> QED BY <2>1 DEF Followed, Follow, Traded, Returned
<1>2. ASSUME NEW s \in Sessions, NEW l \in Lines, NEW q \in 1 .. Data[l].orderqty,
             Confirm(s, l, q)
      PROVE  Followed'
  BY <1>2, FollowedConfirm
<1>3. ASSUME NEW s \in Sessions, Open(s) \/ Crash(s) PROVE Followed'
  BY <1>3, FollowedReload
<1>4. ASSUME NEW s \in Sessions, Silent(s) PROVE Followed'
  BY <1>4, FollowedSilent
<1>5. ASSUME NEW s \in Sessions, SetReceived(s) PROVE Followed'
  BY <1>5, FollowedSet
<1>6. ASSUME NEW s \in Sessions, AddTrade(s) PROVE Followed'
  BY <1>6, FollowedTrade
<1>7. ASSUME NEW s \in Sessions, CreateTk(s) PROVE Followed'
  BY <1>7, FollowedTk
<1>8. ASSUME NEW s \in Sessions, Save(s) PROVE Followed'
  BY <1>8, FollowedSave
<1>9. \A s \in Sessions : ~ QueryThrows(s)
  BY DEF QueryAnswers, QueryThrows
<1> QED
  BY <1>1, <1>2, <1>3, <1>4, <1>5, <1>6, <1>7, <1>8, <1>9 DEF Next, User, Serve, Fault, Silent

----------------------------------------------------------------------------
(* The request.                                                            *)

LEMMA LinesOfRow ==
    ASSUME TypeOK, NEW r \in MrRows
    PROVE  /\ LinesOf(r) \in SUBSET Lines /\ IsFiniteSet(LinesOf(r))
           /\ ReceivedOf(r) \in SUBSET LinesOf(r) /\ IsFiniteSet(ReceivedOf(r))
           /\ \A l \in LinesOf(r) : MovedIn[l] \in Nat
           /\ \A l \in LinesOf(r) : ReceivedQty[l] \in Nat
<1>1. LinesOf(r) \in SUBSET Lines /\ ReceivedOf(r) \in SUBSET LinesOf(r)
  BY DEF LinesOf, ReceivedOf
<1>2. IsFiniteSet(LinesOf(r)) /\ IsFiniteSet(ReceivedOf(r))
  <2>1. IsFiniteSet(Lines)
    BY ReceiptAssumption DEF ReceiptAssumption
  <2>2. ReceivedOf(r) \in SUBSET Lines
    BY <1>1
  <2> QED BY <1>1, <2>1, <2>2, FS_Subset
<1>3. \A l \in LinesOf(r) : MovedIn[l] \in Nat /\ ReceivedQty[l] \in Nat
  BY <1>1 DEF TypeOK, MovedIn, ReceivedQty, Both
<1> QED BY <1>1, <1>2, <1>3

\* What has arrived does not go back.
LEMMA ArrivedStays ==
    ASSUME TypeOK, TypeOK', \A l \in Lines : moved[l].in <= moved'[l].in,
           NEW r \in MrRows, Arrived(r)
    PROVE  Arrived(r)'
<1>1. PICK f : f = MovedIn
  OBVIOUS
<1>2. PICK g : g = MovedIn'
  OBVIOUS
<1>3. PICK S : S = LinesOf(r)
  OBVIOUS
<1>4. S \in SUBSET Lines /\ IsFiniteSet(S) /\ \A l \in S : f[l] \in Nat
  BY <1>1, <1>3, LinesOfRow
<1>5. \A l \in S : g[l] \in Nat /\ f[l] <= g[l]
  BY <1>1, <1>2, <1>4 DEF TypeOK, MovedIn, Both
<1>6. SumFunctionOnSet(f, S) <= SumFunctionOnSet(g, S)
  <2>1. /\ S \in SUBSET S
        /\ \A l \in S : f[l] \in Int /\ f[l] <= g[l]
        /\ \A l \in S : g[l] \in Nat
    BY <1>4, <1>5
  <2> QED BY <1>4, <2>1, SumMore
<1>7. SumFunctionOnSet(f, S) \in Int /\ SumFunctionOnSet(g, S) \in Int
  <2>1. (\A l \in S : f[l] \in Int) /\ (\A l \in S : g[l] \in Int)
    BY <1>4, <1>5
  <2> QED BY <1>4, <2>1, SumFirst
<1>8. Required[r] \in Nat
  BY ReceiptAssumption DEF ReceiptAssumption
<1>9. LinesOf(r)' = S
  BY <1>3 DEF LinesOf
<1>10. Arrived(r)' <=> SumFunctionOnSet(g, S) >= Required[r]
  BY <1>2, <1>9 DEF Arrived
<1> QED BY <1>1, <1>3, <1>6, <1>7, <1>8, <1>10 DEF Arrived

LEMMA ClosedIsArrived == ClosedMeansArrived <=> (mr = "closed" => \A r \in MrRows : Arrived(r))
BY DEF ClosedMeansArrived, Arrived, LinesOf, MovedIn

LEMMA ClosedIsArrivedNext ==
    ClosedMeansArrived' <=> (mr' = "closed" => \A r \in MrRows : Arrived(r)')
BY DEF ClosedMeansArrived, Arrived, LinesOf, MovedIn

LEMMA RequestedInit == Init => Requested
<1> SUFFICES ASSUME Init PROVE Requested
  OBVIOUS
<1>1. /\ mrrow \in [MrRows -> [receiveqty : Int, status : {"open", "partReceived", "received"}]]
      /\ \A r \in MrRows : mrrow[r].status = "open"
      /\ mr = "open"
  BY DEF Init
<1> QED BY <1>1, ClosedIsArrived DEF Requested

\* A step that leaves the request alone.
LEMMA RequestedKept ==
    ASSUME TypeOK, TypeOK', Requested, mrrow' = mrrow, mr' = mr,
           \A l \in Lines : moved[l].in <= moved'[l].in
    PROVE  Requested'
<1>1. \A r \in MrRows : Arrived(r) => Arrived(r)'
  BY ArrivedStays
<1> QED BY <1>1, ClosedIsArrived, ClosedIsArrivedNext DEF Requested

\* A request line becomes received when its lines of the slip, as far as they
\* are received, carry what it asks for: that much has arrived.
LEMMA RequestedRollUp ==
    ASSUME TypeOK, TypeOK', Saved, Requested, NEW s \in Sessions, RollUpMr(s)
    PROVE  Requested'
<1>1. /\ moved' = moved /\ mr' = mr
      /\ mrrow' = [r \in MrRows |->
           IF ReceivedOf(r) = {} THEN [mrrow[r] EXCEPT !.receiveqty = 0]
           ELSE [receiveqty |-> ReceiveQty(r),
                 status |-> IF ReceiveQty(r) = Required[r] THEN "received"
                            ELSE "partReceived"]]
  BY DEF RollUpMr, bookvars
<1>2. \A l \in Lines : moved[l].in <= moved'[l].in
  BY <1>1 DEF TypeOK, Both
<1>3. \A r \in MrRows : Arrived(r) => Arrived(r)'
  BY <1>2, ArrivedStays
<1>4. ASSUME NEW r \in MrRows
      PROVE  ReceiveQty(r) \in Int /\ (ReceiveQty(r) = Required[r] => Arrived(r))
  <2>1. PICK f : f = ReceivedQty
    OBVIOUS
  <2>2. PICK g : g = MovedIn
    OBVIOUS
  <2>3. PICK S : S = LinesOf(r)
    OBVIOUS
  <2>4. PICK R : R = ReceivedOf(r)
    OBVIOUS
  <2>5. /\ S \in SUBSET Lines /\ IsFiniteSet(S) /\ R \in SUBSET S /\ IsFiniteSet(R)
        /\ \A l \in S : g[l] \in Nat /\ f[l] \in Nat
    BY <2>1, <2>2, <2>3, <2>4, LinesOfRow
  <2>6. \A l \in R : f[l] = g[l]
    <3> SUFFICES ASSUME NEW l \in R PROVE f[l] = g[l]
      OBVIOUS
    <3>1. l \in Lines /\ transferline[l].status = "received"
      BY <2>4 DEF ReceivedOf
    <3>2. moved[l] = [out |-> transferline[l].yjsqty, in |-> transferline[l].yjsqty]
      BY <3>1 DEF Saved, SavedIsMoved
    <3>3. moved[l].in = transferline[l].yjsqty
      BY <3>2
    <3> QED BY <2>1, <2>2, <3>1, <3>3 DEF ReceivedQty, MovedIn
  <2>7. SumFunctionOnSet(f, R) <= SumFunctionOnSet(g, S)
    <3>1. /\ \A l \in R : f[l] \in Int /\ f[l] <= g[l]
          /\ \A l \in S : g[l] \in Nat
      BY <2>5, <2>6
    <3> QED BY <2>5, <3>1, SumMore
  <2>8. SumFunctionOnSet(f, R) \in Int /\ SumFunctionOnSet(g, S) \in Int
    <3>1. (\A l \in R : f[l] \in Int) /\ (\A l \in S : g[l] \in Int)
      BY <2>5
    <3> QED BY <2>5, <3>1, SumFirst
  <2> QED BY <2>1, <2>2, <2>3, <2>4, <2>7, <2>8 DEF ReceiveQty, Arrived
<1>5. mrrow' \in [MrRows -> [receiveqty : Int, status : {"open", "partReceived", "received"}]]
  BY <1>1, <1>4 DEF Requested
<1>6. ASSUME NEW r \in MrRows, mrrow'[r].status = "received" PROVE Arrived(r)'
  <2>1. mrrow[r] \in [receiveqty : Int, status : {"open", "partReceived", "received"}]
    BY DEF Requested
  <2>2. CASE ReceivedOf(r) = {}
    <3>1. mrrow'[r].status = mrrow[r].status
      BY <1>1, <2>1, <2>2
    <3> QED BY <1>3, <1>6, <3>1 DEF Requested
  <2>3. CASE ReceivedOf(r) # {}
    <3>1. ReceiveQty(r) = Required[r]
      BY <1>1, <1>6, <2>3
    <3> QED BY <1>3, <1>4, <3>1
  <2> QED BY <2>2, <2>3
<1>7. ClosedMeansArrived'
  BY <1>1, <1>3, ClosedIsArrived, ClosedIsArrivedNext DEF Requested
<1> QED BY <1>5, <1>6, <1>7 DEF Requested

LEMMA RequestedClose ==
    ASSUME TypeOK, TypeOK', Requested, NEW s \in Sessions, CloseMr(s)
    PROVE  Requested'
<1>1. /\ moved' = moved /\ mrrow' = mrrow
      /\ mr' = IF \A r \in MrRows : mrrow[r].status = "received" THEN "closed" ELSE mr
  BY DEF CloseMr, bookvars
<1>2. \A l \in Lines : moved[l].in <= moved'[l].in
  BY <1>1 DEF TypeOK, Both
<1>3. \A r \in MrRows : Arrived(r) => Arrived(r)'
  BY <1>2, ArrivedStays
<1>4. ClosedMeansArrived'
  BY <1>1, <1>3, ClosedIsArrived, ClosedIsArrivedNext DEF Requested
<1> QED BY <1>1, <1>3, <1>4 DEF Requested

\* Goods only ever arrive.
LEMMA NothingGoesBack ==
    ASSUME TypeOK, LineAtWork, [Next]_vars
    PROVE  \A l \in Lines : moved[l].in <= moved'[l].in
<1> USE DEF Receiving, BeforeInLedger, BeforeIn, BeforeOutLedger, BeforeOut, BeforeErp
<1>0. \A l \in Lines : moved[l].in <= moved[l].in
  BY DEF TypeOK, Both
<1>1. ASSUME NEW s \in Sessions, OutStock(s) PROVE \A l \in Lines : moved[l].in <= moved'[l].in
  <2>1. moved' \in {moved, AddOut(moved, cur[s], qty[s])} /\ cur[s] \in Lines
    BY <1>1 DEF OutStock, LineAtWork, At
  <2>2. ASSUME moved' = AddOut(moved, cur[s], qty[s]), NEW l \in Lines
        PROVE  moved'[l].in = moved[l].in
    BY <2>1, <2>2 DEF AddOut, TypeOK
  <2>3. CASE moved' = AddOut(moved, cur[s], qty[s])
    BY <1>0, <2>2, <2>3
  <2> QED BY <1>0, <2>1, <2>3
<1>2. ASSUME NEW s \in Sessions, InStock(s) PROVE \A l \in Lines : moved[l].in <= moved'[l].in
  <2>1. moved' \in {moved, AddIn(moved, cur[s], qty[s])} /\ cur[s] \in Lines /\ qty[s] \in Nat
    BY <1>2 DEF InStock, LineAtWork, At, TypeOK
  <2>2. ASSUME moved' = AddIn(moved, cur[s], qty[s]), NEW l \in Lines
        PROVE  moved[l].in <= moved'[l].in
    <3>1. moved'[l].in = moved[l].in + (IF l = cur[s] THEN qty[s] ELSE 0)
      <4>1. moved[l] \in Both
        BY DEF TypeOK
      <4>2. moved[l].in \in Nat
        BY <4>1 DEF Both
      <4>3. CASE l = cur[s]
        BY <2>1, <2>2, <4>3 DEF AddIn, TypeOK
      <4>4. CASE l # cur[s]
        BY <2>2, <4>2, <4>4 DEF AddIn, TypeOK
      <4> QED BY <4>3, <4>4
    <3>2. moved[l].in \in Nat /\ qty[s] \in Nat
      BY <2>1 DEF TypeOK, Both
    <3> QED BY <3>1, <3>2
  <2>3. CASE moved' = AddIn(moved, cur[s], qty[s])
    BY <2>2, <2>3
  <2> QED BY <1>0, <2>1, <2>3
<1>3. moved' = moved \/ (\E s \in Sessions : OutStock(s) \/ InStock(s))
  BY DEF Next, User, Serve, Fault, vars, Open, Confirm, SavePage, InsertIface, ErpPosts,
     SetReceived, ReadOut, ReadIn, Read, OutLedger, InLedger, EndPay, AddTrade, CreateTk, Save,
     RollUpMr, CloseMr, SumInv, RecalcInv, ErpRefuses, ErpIsLost, QueryThrows, Throws, Crash,
     bookvars
<1> QED BY <1>0, <1>1, <1>2, <1>3

LEMMA RequestedNext == TypeOK /\ LineAtWork /\ Saved /\ Requested /\ [Next]_vars => Requested'
<1> SUFFICES ASSUME TypeOK, LineAtWork, Saved, Requested, [Next]_vars PROVE Requested'
  OBVIOUS
<1>1. TypeOK' /\ \A l \in Lines : moved[l].in <= moved'[l].in
  BY TypeNext, NothingGoesBack
<1>2. ASSUME NEW s \in Sessions, RollUpMr(s) PROVE Requested'
  BY <1>1, <1>2, RequestedRollUp
<1>3. ASSUME NEW s \in Sessions, CloseMr(s) PROVE Requested'
  BY <1>1, <1>3, RequestedClose
<1>4. CASE UNCHANGED vars
  BY <1>1, <1>4, RequestedKept DEF vars, sumvars
<1>5. ASSUME NEW s \in Sessions, User(s) PROVE mrrow' = mrrow /\ mr' = mr
  BY <1>5 DEF User, Open, Confirm, SavePage, sumvars
<1>6. ASSUME NEW s \in Sessions, Fault(s) PROVE mrrow' = mrrow /\ mr' = mr
  BY <1>6 DEF Fault, ErpRefuses, ErpIsLost, QueryThrows, Throws, Crash, sumvars
<1>7. ASSUME NEW s \in Sessions, Serve(s), ~ RollUpMr(s), ~ CloseMr(s)
      PROVE  mrrow' = mrrow /\ mr' = mr
  <2>1. CASE InsertIface(s) \/ ErpPosts(s) \/ SetReceived(s) \/ ReadOut(s) \/ ReadIn(s)
    BY <2>1 DEF InsertIface, ErpPosts, SetReceived, ReadOut, ReadIn, Read, sumvars
  <2>2. CASE OutStock(s) \/ OutLedger(s) \/ InStock(s) \/ InLedger(s)
    BY <2>2 DEF OutStock, OutLedger, InStock, InLedger, sumvars
  <2>3. CASE EndPay(s) \/ AddTrade(s) \/ CreateTk(s) \/ Save(s) \/ SumInv(s) \/ RecalcInv(s)
    BY <2>3 DEF EndPay, AddTrade, CreateTk, Save, SumInv, RecalcInv, sumvars
  <2> QED BY <1>7, <2>1, <2>2, <2>3 DEF Serve
<1> QED BY <1>1, <1>2, <1>3, <1>4, <1>5, <1>6, <1>7, RequestedKept DEF Next

----------------------------------------------------------------------------
(* The theorems.                                                           *)

\* Everything the invariants need of each other.
LEMMA BooksInvariant ==
    ASSUME RowsApart, NothingSwallowed, QueryAnswers
    PROVE  Spec => [](TypeOK /\ Once /\ Saved /\ Followed /\ Requested)
<1> DEFINE All == TypeOK /\ Once /\ Underway /\ Saved /\ Followed /\ Requested
<1>1. Init => Saved /\ Followed /\ Requested
  BY SavedInit, FollowedInit, RequestedInit
<1>2. TypeOK /\ Once /\ Underway /\ Saved /\ Followed /\ Requested /\ [Next]_vars
        => Saved' /\ Followed' /\ Requested'
  <2>1. TypeOK /\ Once => LineAtWork
    BY RequestLine DEF Once, LineAtWork
  <2> QED BY <2>1, SavedNext, FollowedNext, RequestedNext
<1> QED BY <1>1, <1>2, UnderwayInvariant, PTL DEF Spec

\* The request is closed only when all that it asks for has arrived, for any
\* lines of the slip and of the request, any sessions and whatever dies, is
\* refused, lost or thrown by the later steps of SAVE: as long as no two
\* sessions share an inventory row, the movements let no exception disappear
\* and the query of TOERP for other lines does not fail (mr status in SAVE).
THEOREM ClosedArrived ==
    ASSUME RowsApart, NothingSwallowed, QueryAnswers
    PROVE  Spec => []ClosedMeansArrived
<1>1. Requested => ClosedMeansArrived
  BY DEF Requested
<1> QED BY <1>1, BooksInvariant, PTL

\* As long as nothing is lost, what the slip says is what was moved.
LEMMA SavedIsAllMoved ==
    ASSUME TypeOK, Once, Saved, NothingLost
    PROVE  MovedOut = ReceivedQty /\ MovedIn = ReceivedQty
<1>1. ASSUME NEW l \in Lines
      PROVE  moved[l].out = transferline[l].yjsqty /\ moved[l].in = transferline[l].yjsqty
  <2>1. CASE l \in erpiface
    <3>1. moved[l] = [out |-> transferline[l].yjsqty, in |-> transferline[l].yjsqty]
      BY <2>1 DEF NothingLost, Saved, SavedIsMoved
    <3> QED BY <3>1
  <2>2. CASE l \notin erpiface
    <3>1. moved[l] = Zero /\ transferline[l] = Blank
      BY <2>2 DEF Once, Untouched, Saved
    <3> QED BY <3>1 DEF Zero, Blank
  <2> QED BY <2>1, <2>2
<1> QED BY <1>1 DEF MovedOut, MovedIn, ReceivedQty

LEMMA BooksAreBalanced ==
    ASSUME TypeOK, Once, Saved, Followed, Books
    PROVE  BooksBalance
<1> SUFFICES ASSUME NothingLost
             PROVE  /\ \A k \in Keys :
                         LET now == stock.inventory[k]  was == InitStock.inventory[k]
                             change == GoneTo(Lines, k) - LeftFrom(Lines, k)
                         IN  /\ now.curbal = was.curbal + change
                             /\ ToASite => now.locqty = was.locqty + change
                             /\ stock.invblance[k].qty = InitStock.invblance[k].qty
                                  + GoneTo(Lotted, k) - LeftFrom(Lotted, k)
                             /\ stock.locbinitem[k].qty
                                  = InitStock.locbinitem[k].qty - LeftFrom(Binned, k)
                    /\ \A l \in Serialised : LET a == Data[l].asset IN
                         stock.asset[a].location =
                           IF ReceivedQty[l] = 0 THEN InitStock.asset[a].location
                                                 ELSE Data[l].to
                    /\ \A l \in Lines : LET n == ReceivedQty[l] IN
                         /\ \/ trade[l] = n
                            \/ "throws" \in Failures /\ trade[l] = 0
                         /\ \/ tkmpr[l] = IF n > 0 /\ Data[l].route = "other"
                                               /\ Data[l].iskhitem THEN 1 ELSE 0
                            \/ "throws" \in Failures /\ tkmpr[l] = 0
  BY DEF BooksBalance
<1>1. MovedOut = ReceivedQty /\ MovedIn = ReceivedQty
  BY SavedIsAllMoved
<1>2. \A S, k : OutOf(S, k) = LeftFrom(S, k) /\ Into(S, k) = GoneTo(S, k)
  BY <1>1 DEF OutOf, Into, LeftFrom, GoneTo
<1>3. ASSUME NEW k \in Keys
      PROVE  LET now == stock.inventory[k]  was == InitStock.inventory[k]
                 change == GoneTo(Lines, k) - LeftFrom(Lines, k)
             IN  /\ now.curbal = was.curbal + change
                 /\ ToASite => now.locqty = was.locqty + change
                 /\ stock.invblance[k].qty = InitStock.invblance[k].qty
                      + GoneTo(Lotted, k) - LeftFrom(Lotted, k)
                 /\ stock.locbinitem[k].qty
                      = InitStock.locbinitem[k].qty - LeftFrom(Binned, k)
  BY <1>2 DEF Books, Tables
<1>4. ASSUME NEW l \in Serialised
      PROVE  stock.asset[Data[l].asset].location =
               IF ReceivedQty[l] = 0 THEN InitStock.asset[Data[l].asset].location ELSE Data[l].to
  <2>1. l \in Lines
    BY DEF Serialised
  <2>2. moved[l].in = ReceivedQty[l] /\ moved[l].out = ReceivedQty[l]
    <3>1. MovedOut[l] = moved[l].out /\ MovedIn[l] = moved[l].in
      BY <2>1 DEF MovedOut, MovedIn
    <3> QED BY <1>1, <3>1
  <2> QED BY <2>2 DEF Books, Places
<1>5. ASSUME NEW l \in Lines
      PROVE  /\ \/ trade[l] = ReceivedQty[l]
                \/ "throws" \in Failures /\ trade[l] = 0
             /\ \/ tkmpr[l] = IF ReceivedQty[l] > 0 /\ Data[l].route = "other"
                                   /\ Data[l].iskhitem THEN 1 ELSE 0
                \/ "throws" \in Failures /\ tkmpr[l] = 0
  <2>1. ReceivedQty[l] = transferline[l].yjsqty /\ transferline[l].yjsqty \in Nat
    BY DEF ReceivedQty, TypeOK
  <2>2. CASE l \in erpiface
    <3>1. Traded(l, transferline[l].yjsqty) /\ Returned(l)
      BY <2>2 DEF NothingLost, Followed
    <3> QED BY <2>1, <3>1 DEF Traded, Returned
  <2>3. CASE l \notin erpiface
    <3>1. trade[l] = 0 /\ tkmpr[l] = 0 /\ transferline[l].yjsqty = 0
      BY <2>3 DEF Followed, Saved, Blank
    <3> QED BY <2>1, <3>1
  <2> QED BY <2>2, <2>3
<1> QED BY <1>3, <1>4, <1>5

\* When no receipt is before its save or was cut short, balances, usable
\* quantities, lots, bins, parts, trade rows and returns are what the slip says
\* was received, for any lines and sessions and whatever dies, is refused, lost
\* or thrown by the later steps of SAVE: under the assumptions of ClosedArrived,
\* and when the lots and bins that the lines name exist and no two lines carry
\* the same part.
THEOREM BooksBalanced ==
    ASSUME RowsApart, NothingSwallowed, QueryAnswers, WellIssued
    PROVE  Spec => []BooksBalance
<1>1. Init => Books
  BY BooksInit
<1>2. TypeOK /\ Once /\ Underway /\ Books /\ [Next]_vars => Books'
  BY BooksNext
<1>3. TypeOK /\ Once /\ Saved /\ Followed /\ Books => BooksBalance
  BY BooksAreBalanced
<1> QED BY <1>1, <1>2, <1>3, UnderwayInvariant, BooksInvariant, PTL DEF Spec
=============================================================================
