-------------------------- MODULE ControlMgrProofs --------------------------
(***************************************************************************)
(* Proofs for the control manager of a page, whatever is on the page and   *)
(* in its dialogs: TypeOK, TopDialogIsTop, RegisterIsDisplay and           *)
(* StillReachable.                                                         *)
(*                                                                         *)
(* The register does not say which controls are a dialog's; closing one    *)
(* takes out what stands behind its entry.  The proof is about that order: *)
(* the entries of the dialogs stand as the dialogs were opened, and what   *)
(* was loaded with nothing open over it stands behind its own dialog.      *)
(***************************************************************************)
EXTENDS ControlMgr, FiniteSetTheorems, SequenceTheorems, WellFoundedInduction, TLAPS

Entry == [key : Keys, obj : Nat \ {0}]

\* What a register is made of.
Register == [ctrls : Seq(Entry), dialogList : Seq(Dialogs), dialogCount : Nat,
             shown : [Keys -> Nat], made : [Keys -> Nat]]

\* The ids of panels, the only ones that can be loaded twice.
Inner == UNION {Range(Panel[g]) : g \in Groups}

Has(c, k)  == \E i \in DOMAIN c : c[i].key = k
Once(c, k) == \A i, j \in DOMAIN c : c[i].key = k /\ c[j].key = k => i = j

\* The entry at i stands behind that of dialog a, or in front of all dialogs.
StandsIn(c, i, a) ==
    IF a = Page THEN \A j \in 1..i : c[j].key \notin Dialogs
    ELSE \E j \in 1..i : c[j].key = a /\ \A m \in j + 1..i : c[m].key \notin Dialogs

-----------------------------------------------------------------------------
(* The inductive invariant, of a register p, a stack o of dialogs and the  *)
(* histories w and b.                                                      *)

\* The register's values, and its list and count of dialogs.
Sound(p, o) ==
    /\ p \in Register
    /\ \A i \in DOMAIN p.ctrls : p.ctrls[i].obj <= p.made[p.ctrls[i].key]
    /\ \A k \in Keys : p.made[k] <= MaxMade /\ p.shown[k] \in {Null, p.made[k]}
    /\ o \in Seq(Dialogs) /\ IsInjective(o)
    /\ p.dialogList = o /\ p.dialogCount = Len(o)

\* The open dialogs are those with an entry, and their entries stand in their order.
Stacked(c, o) ==
    /\ \A d \in Dialogs : Has(c, d) <=> d \in Range(o)
    /\ \A i, j \in DOMAIN c : \A m, n \in DOMAIN o :
          c[i].key = o[m] /\ c[j].key = o[n] => (i < j <=> m < n)

AtHome(c, b) ==
    \A i \in DOMAIN c : \A a \in Places : c[i].key \in Within(a) \ b => StandsIn(c, i, a)

Single(c) == \A k \in Keys \ Inner : Once(c, k)

Told(p, w, b) ==
    \A k \in Keys \ (w \cup b) :
        /\ Once(p.ctrls, k)
        /\ \A i \in DOMAIN p.ctrls : p.ctrls[i].key = k => p.ctrls[i].obj = p.shown[k]

Reached(p, b) == \A k \in Keys \ b : p.shown[k] # Null => Has(p.ctrls, k)

Inv(p, o, w, b) ==
    /\ Sound(p, o)
    /\ Stacked(p.ctrls, o)
    /\ AtHome(p.ctrls, b)
    /\ Single(p.ctrls)
    /\ Told(p, w, b)
    /\ Reached(p, b)
    /\ w \subseteq Inner /\ b \subseteq Inner

ControlInv == Inv(mgr, open, worn, behind)

-----------------------------------------------------------------------------
(* Positions in sequences.                                                 *)

\* A set of numbers has a smallest, and Min returns it.
LEMMA Smallest ==
    ASSUME NEW I \in SUBSET Nat, I # {}
    PROVE  Min(I) \in I /\ \A y \in I : Min(I) <= y
<1>1. PICK x \in I : \A y \in I : ~(<<y, x>> \in OpToRel(<, Nat))
  BY NatLessThanWellFounded, WFMin, Zenon
<1>2. ASSUME NEW y \in I, y < x
      PROVE  FALSE
  <2>1. <<y, x>> \in Nat \X Nat
    OBVIOUS
  <2>2. <<y, x>> \in OpToRel(<, Nat)
    BY <1>2, <2>1 DEF OpToRel
  <2>. QED BY <1>1, <2>2
<1>3. \A y \in I : x <= y
  BY <1>2
<1>. QED BY <1>3 DEF Min

\* IndexOf is 0 when no entry has the key, and else the first that has it.
LEMMA FirstEntry ==
    ASSUME NEW p \in Register, NEW k
    PROVE  IF Has(p.ctrls, k)
           THEN /\ IndexOf(p, k) \in DOMAIN p.ctrls
                /\ p.ctrls[IndexOf(p, k)].key = k
                /\ \A i \in DOMAIN p.ctrls : p.ctrls[i].key = k => IndexOf(p, k) <= i
           ELSE IndexOf(p, k) = 0
<1>. DEFINE I == {i \in 1..Len(p.ctrls) : p.ctrls[i].key = k}
<1>1. IndexOf(p, k) = IF I # {} THEN Min(I) ELSE 0
  BY DEF IndexOf, SelectInSeq
<1>2. DOMAIN p.ctrls = 1..Len(p.ctrls) /\ Len(p.ctrls) \in Nat
  BY DEF Register
<1>3. I \in SUBSET Nat
  BY <1>2
<1>4. I # {} <=> Has(p.ctrls, k)
  BY <1>2 DEF Has
<1>. QED BY <1>1, <1>2, <1>3, <1>4, Smallest

\* Get finds an object exactly when the id has an entry.
LEMMA GetIs ==
    ASSUME NEW p \in Register, NEW k
    PROVE  /\ Get(p, k) # Null <=> Has(p.ctrls, k)
           /\ Has(p.ctrls, k) => \E i \in DOMAIN p.ctrls :
                                    p.ctrls[i].key = k /\ Get(p, k) = p.ctrls[i].obj
<1>1. p.ctrls \in Seq(Entry)
  BY DEF Register
<1>2. \A i \in DOMAIN p.ctrls : p.ctrls[i] \in Entry /\ i \in Nat \ {0}
  BY <1>1
<1>3. \A i \in DOMAIN p.ctrls : p.ctrls[i].obj \in Nat \ {0}
  BY <1>2 DEF Entry
<1>. QED BY <1>2, <1>3, FirstEntry DEF Get, Null

\* The loop that splices meets one hit: all other elements stay, in their order.
LEMMA SplicedOne ==
    ASSUME NEW S, NEW s \in Seq(S), NEW h \in DOMAIN s
    PROVE  /\ Spliced(s, {h}) \in Seq(S)
           /\ Len(Spliced(s, {h})) = Len(s) - 1
           /\ \A n \in 1..Len(s) - 1 :
                 Spliced(s, {h})[n] = s[IF n < h THEN n ELSE n + 1]
<1>. DEFINE out == CHOOSE f : f = [i \in DOMAIN s |-> i \in {h} /\ (i > 1 => ~f[i - 1])]
            left   == {i \in DOMAIN s : ~out[i]}
            nth(n) == CHOOSE i \in left : Cardinality({j \in left : j <= i}) = n
<1>1. Spliced(s, {h}) = [n \in 1..Cardinality(left) |-> s[nth(n)]]
  BY DEF Spliced
<1>2. DOMAIN s = 1..Len(s) /\ Len(s) \in Nat /\ h \in 1..Len(s)
  OBVIOUS
<1>3. left = (1..Len(s)) \ {h}
  <2>. DEFINE g == [i \in DOMAIN s |-> i = h]
  <2>1. g = [i \in DOMAIN s |-> i \in {h} /\ (i > 1 => ~g[i - 1])]
    <3>1. ASSUME NEW i \in DOMAIN s
          PROVE  (i = h) <=> (i \in {h} /\ (i > 1 => ~g[i - 1]))
      <4>1. i > 1 => i - 1 \in DOMAIN s /\ i - 1 # i
        BY <1>2
      <4>2. i > 1 => g[i - 1] = (i - 1 = h)
        BY <4>1, Zenon
      <4>. QED BY <4>1, <4>2, Zenon
    <3>. QED BY <3>1, Zenon
  <2>2. out = [i \in DOMAIN s |-> i \in {h} /\ (i > 1 => ~out[i - 1])]
    BY <2>1
  <2>. HIDE DEF out, g
  <2>3. \A i \in DOMAIN s : i # h => out[i] = FALSE
    BY <2>2
  <2>4. h > 1 => h - 1 \in DOMAIN s /\ h - 1 # h
    BY <1>2
  <2>5. h > 1 => ~out[h - 1]
    BY <2>3, <2>4, Zenon
  <2>6. out[h] = (h \in {h} /\ (h > 1 => ~out[h - 1]))
    BY <2>2, Zenon
  <2>7. out[h]
    BY <2>5, <2>6, Zenon
  <2>. QED BY <2>3, <2>7, <1>2
<1>. HIDE DEF out
<1>4. Cardinality(left) = Len(s) - 1
  <2>. HIDE DEF left
  <2>1. PICK N \in Nat : N = Len(s) /\ h \in 1..N
    BY <1>2
  <2>2. IsFiniteSet(1..N) /\ Cardinality(1..N) = N
    BY FS_Interval
  <2>3. Cardinality((1..Len(s)) \ {h}) = Len(s) - 1
    BY <2>1, <2>2, FS_RemoveElement
  <2>. QED BY <2>3, <1>3
<1>5. \A i \in left : Cardinality({j \in left : j <= i}) = IF i < h THEN i ELSE i - 1
  <2>. SUFFICES ASSUME NEW i \in left
                PROVE  Cardinality({j \in left : j <= i}) = IF i < h THEN i ELSE i - 1
    OBVIOUS
  <2>1. i \in 1..Len(s) /\ i # h
    BY <1>3
  <2>2. {j \in left : j <= i} = (1..i) \ {h}
    BY <1>2, <1>3, <2>1
  <2>3. IsFiniteSet(1..i) /\ Cardinality(1..i) = i
    BY <2>1, FS_Interval
  <2>4. Cardinality((1..i) \ {h}) = IF h \in 1..i THEN i - 1 ELSE i
    BY <2>3, FS_RemoveElement
  <2>5. h \in 1..i <=> ~(i < h)
    BY <2>1, <1>2
  <2>. HIDE DEF left
  <2>. QED BY <2>2, <2>4, <2>5
<1>6. \A n \in 1..Len(s) - 1 : nth(n) = IF n < h THEN n ELSE n + 1
  <2>. SUFFICES ASSUME NEW n \in 1..Len(s) - 1
                PROVE  nth(n) = IF n < h THEN n ELSE n + 1
    OBVIOUS
  <2>. DEFINE m == IF n < h THEN n ELSE n + 1
  <2>1. m \in left /\ Cardinality({j \in left : j <= m}) = n
    <3>1. m \in 1..Len(s) /\ m # h /\ (IF m < h THEN m ELSE m - 1) = n
      BY <1>2
    <3>. QED BY <3>1, <1>3, <1>5
  <2>2. \A i \in left : Cardinality({j \in left : j <= i}) = n => i = m
    <3>. SUFFICES ASSUME NEW i \in left, Cardinality({j \in left : j <= i}) = n
                  PROVE  i = m
      OBVIOUS
    <3>1. n = IF i < h THEN i ELSE i - 1
      BY <1>5
    <3>2. i \in 1..Len(s) /\ i # h
      BY <1>3
    <3>. QED BY <3>1, <3>2, <1>2
  <2>. HIDE DEF m, left
  <2>. QED BY <2>1, <2>2 DEF m
<1>. DEFINE z == Spliced(s, {h})
<1>7. z = [n \in 1..Len(s) - 1 |-> s[IF n < h THEN n ELSE n + 1]]
  <2>1. z = [n \in 1..Len(s) - 1 |-> s[nth(n)]]
    BY <1>1, <1>4, Zenon
  <2>2. \A n \in 1..Len(s) - 1 : s[nth(n)] = s[IF n < h THEN n ELSE n + 1]
    BY <1>6, Zenon
  <2>. HIDE DEF left, nth, z
  <2>. QED BY <2>1, <2>2, Zenon
<1>8. \A n \in 1..Len(s) - 1 : s[IF n < h THEN n ELSE n + 1] \in S
  BY <1>2
<1>. HIDE DEF z
<1>9. z \in Seq(S) /\ Len(z) = Len(s) - 1
  BY <1>7, <1>8, <1>2
<1>. QED BY <1>7, <1>9 DEF z

-----------------------------------------------------------------------------
(* What is on a page, and what the calls do to the register.               *)

\* The content of a place is of ids loaded once with it, and belongs to that place.
LEMMA ContentFacts ==
    ASSUME NEW a \in Places
    PROVE  /\ Content[a] \in Seq(Keys) /\ IsInjective(Content[a])
           /\ Range(Content[a]) \subseteq Within(a)
           /\ Range(Content[a]) \subseteq Ids \ Inner
           /\ Range(Content[a]) \cap Dialogs = {}
<1>1. Content[a] \in Seq(Range(Content[a])) /\ IsInjective(Content[a])
  BY ControlMgrAssumption
<1>2. Range(Content[a]) \subseteq Ids
  BY DEF Ids
<1>3. Range(Content[a]) \cap Inner = {}
  BY ControlMgrAssumption DEF Inner
<1>4. Content[a] \in Seq(Keys)
  BY <1>1, <1>2, SeqMonotonic DEF Keys
<1>5. Range(Content[a]) \cap Dialogs = {}
  BY <1>2, ControlMgrAssumption
<1>. QED BY <1>1, <1>2, <1>3, <1>4, <1>5 DEF Within

\* A panel is of ids of its own, and belongs to the place of its group.
LEMMA PanelFacts ==
    ASSUME NEW g \in Groups
    PROVE  /\ Panel[g] \in Seq(Keys) /\ IsInjective(Panel[g])
           /\ Range(Panel[g]) \subseteq Inner
           /\ Range(Panel[g]) \cap Dialogs = {}
           /\ g \in Keys \ Inner /\ g \notin Dialogs
           /\ \A a \in Places : g \in Range(Content[a]) => Range(Panel[g]) \subseteq Within(a)
<1>1. Panel[g] \in Seq(Range(Panel[g])) /\ IsInjective(Panel[g])
  BY ControlMgrAssumption
<1>2. Range(Panel[g]) \subseteq Ids /\ Range(Panel[g]) \subseteq Inner
  BY DEF Ids, Inner
<1>3. Panel[g] \in Seq(Keys)
  BY <1>1, <1>2, SeqMonotonic DEF Keys
<1>4. Range(Panel[g]) \cap Dialogs = {}
  BY <1>2, ControlMgrAssumption
<1>5. PICK a \in Places : g \in Range(Content[a])
  BY ControlMgrAssumption
<1>6. g \in Keys \ Inner /\ g \notin Dialogs
  BY <1>5, ContentFacts DEF Keys
<1>. QED BY <1>1, <1>2, <1>3, <1>4, <1>6 DEF Within

\* No id belongs to two places.
LEMMA OnePlace ==
    ASSUME NEW a \in Places, NEW b \in Places, NEW k, k \in Within(a), k \in Within(b)
    PROVE  a = b
  BY ControlMgrAssumption

\* Ids of panels are ids, and no dialog is one.
LEMMA InnerFacts ==
    /\ Inner \subseteq Ids /\ Inner \subseteq Keys /\ Inner \cap Dialogs = {}
    /\ \A a \in Places : Within(a) \subseteq Ids
    /\ \A a \in Places : a = Page <=> a \notin Dialogs
<1>1. Inner \subseteq Ids
  BY DEF Inner, Ids
<1>2. \A a \in Places : Within(a) \subseteq Ids
  BY DEF Within, Ids
<1>. QED BY <1>1, <1>2, ControlMgrAssumption DEF Keys, Places

\* Entries have a key and an object.
LEMMA EntryFacts ==
    ASSUME NEW p \in Register
    PROVE  /\ p.ctrls \in Seq(Entry) /\ Len(p.ctrls) \in Nat /\ DOMAIN p.ctrls = 1..Len(p.ctrls)
           /\ \A i \in DOMAIN p.ctrls : /\ p.ctrls[i] \in Entry /\ p.ctrls[i].key \in Keys
                                        /\ p.ctrls[i].obj \in Nat \ {0}
<1>1. p.ctrls \in Seq(Entry)
  BY DEF Register
<1>2. \A i \in DOMAIN p.ctrls : p.ctrls[i] \in Entry
  BY <1>1
<1>. QED BY <1>1, <1>2 DEF Entry

\* The calls put their entries behind all others, with new objects that are displayed.
LEMMA PutAllShape ==
    ASSUME NEW p \in Register, NEW ks \in Seq(Keys)
    PROVE  LET q == PutAll(p, ks) IN
           /\ q \in Register /\ q.dialogList = p.dialogList /\ q.dialogCount = p.dialogCount
           /\ \A k \in Keys :
                 /\ q.made[k] = p.made[k] + (IF k \in Range(ks) THEN 1 ELSE 0)
                 /\ q.shown[k] = IF k \in Range(ks) THEN q.made[k] ELSE p.shown[k]
           /\ Len(q.ctrls) = Len(p.ctrls) + Len(ks)
           /\ \A i \in 1..Len(p.ctrls) : q.ctrls[i] = p.ctrls[i]
           /\ \A i \in 1..Len(ks) : q.ctrls[Len(p.ctrls) + i].key = ks[i]
           /\ \A i \in 1..Len(ks) : q.ctrls[Len(p.ctrls) + i].obj = q.made[ks[i]]
<1>. DEFINE made  == [k \in Keys |-> p.made[k] + (IF k \in Range(ks) THEN 1 ELSE 0)]
            shown == [k \in Keys |-> IF k \in Range(ks) THEN made[k] ELSE p.shown[k]]
            new   == [i \in DOMAIN ks |-> [key |-> ks[i], obj |-> made[ks[i]]]]
            q     == PutAll(p, ks)
<1>1. /\ p.ctrls \in Seq(Entry) /\ p.dialogList \in Seq(Dialogs) /\ p.dialogCount \in Nat
      /\ p.shown \in [Keys -> Nat] /\ p.made \in [Keys -> Nat]
  BY DEF Register
<1>2. /\ q.ctrls = p.ctrls \o new /\ q.shown = shown /\ q.made = made
      /\ q.dialogList = p.dialogList /\ q.dialogCount = p.dialogCount
  BY DEF PutAll, Register
<1>3. q = [p EXCEPT !.ctrls = p.ctrls \o new, !.shown = shown, !.made = made]
  BY DEF PutAll, Register
<1>4. made \in [Keys -> Nat] /\ shown \in [Keys -> Nat]
  BY <1>1
<1>5. \A i \in 1..Len(ks) : ks[i] \in Keys /\ ks[i] \in Range(ks) /\ made[ks[i]] \in Nat \ {0}
  <2>. SUFFICES ASSUME NEW i \in 1..Len(ks)
                PROVE  ks[i] \in Keys /\ ks[i] \in Range(ks) /\ made[ks[i]] \in Nat \ {0}
    OBVIOUS
  <2>1. ks[i] \in Keys /\ ks[i] \in Range(ks)
    BY DEF Range
  <2>2. p.made[ks[i]] \in Nat
    BY <2>1, <1>1
  <2>. QED BY <2>1, <2>2
<1>6. new \in Seq(Entry) /\ Len(new) = Len(ks)
  <2>1. DOMAIN ks = 1..Len(ks) /\ Len(ks) \in Nat
    OBVIOUS
  <2>2. \A i \in 1..Len(ks) : [key |-> ks[i], obj |-> made[ks[i]]] \in Entry
    BY <1>5 DEF Entry
  <2>. HIDE DEF made
  <2>. QED BY <2>1, <2>2
<1>7. \A i \in 1..Len(ks) : new[i].key = ks[i] /\ new[i].obj = made[ks[i]]
  OBVIOUS
<1>. HIDE DEF made, shown, new
<1>8. /\ p.ctrls \o new \in Seq(Entry) /\ Len(p.ctrls \o new) = Len(p.ctrls) + Len(ks)
      /\ \A i \in 1..Len(p.ctrls) : (p.ctrls \o new)[i] = p.ctrls[i]
      /\ \A i \in 1..Len(ks) : (p.ctrls \o new)[Len(p.ctrls) + i] = new[i]
  <2>1. PICK u \in Seq(Entry) : u = p.ctrls
    BY <1>1
  <2>2. PICK v \in Seq(Entry) : v = new /\ Len(v) = Len(ks)
    BY <1>6
  <2>3. u \o v \in Seq(Entry) /\ Len(u \o v) = Len(u) + Len(v)
    BY ConcatProperties
  <2>4. \A i \in 1..Len(u) : (u \o v)[i] = u[i]
    OBVIOUS
  <2>5. \A i \in 1..Len(v) : (u \o v)[Len(u) + i] = v[i]
    OBVIOUS
  <2>. QED BY <2>1, <2>2, <2>3, <2>4, <2>5
<1>. HIDE DEF q
<1>9. q \in Register
  <2>1. PICK cc \in Seq(Entry) : cc = p.ctrls \o new
    BY <1>8
  <2>2. PICK sh \in [Keys -> Nat] : sh = shown
    BY <1>4
  <2>3. PICK md \in [Keys -> Nat] : md = made
    BY <1>4
  <2>4. [p EXCEPT !.ctrls = cc, !.shown = sh, !.made = md] \in Register
    BY DEF Register
  <2>. QED BY <1>3, <2>1, <2>2, <2>3, <2>4 DEF q
<1>10. \A k \in Keys : /\ q.made[k] = p.made[k] + (IF k \in Range(ks) THEN 1 ELSE 0)
                      /\ q.shown[k] = IF k \in Range(ks) THEN q.made[k] ELSE p.shown[k]
  BY <1>2 DEF made, shown
<1>11. /\ Len(q.ctrls) = Len(p.ctrls) + Len(ks)
       /\ \A i \in 1..Len(p.ctrls) : q.ctrls[i] = p.ctrls[i]
       /\ \A i \in 1..Len(ks) : q.ctrls[Len(p.ctrls) + i] = new[i]
  BY <1>2, <1>8
<1>12. \A i \in 1..Len(ks) : /\ q.ctrls[Len(p.ctrls) + i].key = ks[i]
                             /\ q.ctrls[Len(p.ctrls) + i].obj = q.made[ks[i]]
  BY <1>2, <1>7, <1>11
<1>. QED BY <1>2, <1>9, <1>10, <1>11, <1>12 DEF q

\* A dialog's entry comes behind all others, and its content behind it.
LEMMA PutDialogShape ==
    ASSUME NEW p \in Register, NEW d \in Dialogs
    PROVE  LET q   == PutDialog(p, d)
               L   == Len(p.ctrls)
               new == {d} \cup Range(Content[d])
           IN
           /\ q \in Register /\ q.dialogCount = p.dialogCount + 1
           /\ q.dialogList = Append(p.dialogList, d)
           /\ \A k \in Keys :
                 /\ q.made[k] = p.made[k] + (IF k \in new THEN 1 ELSE 0)
                 /\ q.shown[k] = IF k \in new THEN q.made[k] ELSE p.shown[k]
           /\ Len(q.ctrls) = L + 1 + Len(Content[d])
           /\ \A i \in 1..L : q.ctrls[i] = p.ctrls[i]
           /\ q.ctrls[L + 1].key = d /\ q.ctrls[L + 1].obj = q.made[d]
           /\ \A i \in 1..Len(Content[d]) :
                 /\ q.ctrls[L + 1 + i].key = Content[d][i]
                 /\ q.ctrls[L + 1 + i].obj = q.made[Content[d][i]]
<1>. DEFINE r   == PutAll(p, <<d>>)
            s   == PutAll(r, Content[d])
            q   == PutDialog(p, d)
            L   == Len(p.ctrls)
            new == {d} \cup Range(Content[d])
<1>1. d \in Places /\ d \in Keys /\ <<d>> \in Seq(Keys) /\ Len(<<d>>) = 1 /\ Range(<<d>>) = {d}
  BY DEF Places, Keys, Range
<1>2. Content[d] \in Seq(Keys) /\ d \notin Range(Content[d])
  BY <1>1, ContentFacts
<1>3. /\ r \in Register /\ r.dialogList = p.dialogList /\ r.dialogCount = p.dialogCount
      /\ \A k \in Keys :
            /\ r.made[k] = p.made[k] + (IF k \in {d} THEN 1 ELSE 0)
            /\ r.shown[k] = IF k \in {d} THEN r.made[k] ELSE p.shown[k]
      /\ Len(r.ctrls) = L + 1
      /\ \A i \in 1..L : r.ctrls[i] = p.ctrls[i]
      /\ r.ctrls[L + 1].key = d /\ r.ctrls[L + 1].obj = r.made[d]
  <2>1. PICK ks \in Seq(Keys) : ks = <<d>>
    BY <1>1
  <2>2. /\ PutAll(p, ks) \in Register /\ PutAll(p, ks).dialogList = p.dialogList
        /\ PutAll(p, ks).dialogCount = p.dialogCount
        /\ \A k \in Keys :
              /\ PutAll(p, ks).made[k] = p.made[k] + (IF k \in Range(ks) THEN 1 ELSE 0)
              /\ PutAll(p, ks).shown[k] = IF k \in Range(ks) THEN PutAll(p, ks).made[k] ELSE p.shown[k]
        /\ Len(PutAll(p, ks).ctrls) = Len(p.ctrls) + Len(ks)
        /\ \A i \in 1..Len(p.ctrls) : PutAll(p, ks).ctrls[i] = p.ctrls[i]
        /\ \A i \in 1..Len(ks) : PutAll(p, ks).ctrls[Len(p.ctrls) + i].key = ks[i]
        /\ \A i \in 1..Len(ks) : PutAll(p, ks).ctrls[Len(p.ctrls) + i].obj = PutAll(p, ks).made[ks[i]]
    BY PutAllShape
  <2>3. ks[1] = d /\ 1 \in 1..Len(ks)
    BY <1>1, <2>1
  <2>. QED BY <1>1, <2>1, <2>2, <2>3
<1>. HIDE DEF r
<1>4. /\ s \in Register /\ s.dialogList = r.dialogList /\ s.dialogCount = r.dialogCount
      /\ \A k \in Keys :
            /\ s.made[k] = r.made[k] + (IF k \in Range(Content[d]) THEN 1 ELSE 0)
            /\ s.shown[k] = IF k \in Range(Content[d]) THEN s.made[k] ELSE r.shown[k]
      /\ Len(s.ctrls) = Len(r.ctrls) + Len(Content[d])
      /\ \A i \in 1..Len(r.ctrls) : s.ctrls[i] = r.ctrls[i]
      /\ \A i \in 1..Len(Content[d]) : s.ctrls[Len(r.ctrls) + i].key = Content[d][i]
      /\ \A i \in 1..Len(Content[d]) : s.ctrls[Len(r.ctrls) + i].obj = s.made[Content[d][i]]
  BY <1>2, <1>3, PutAllShape
<1>5. q = [s EXCEPT !.dialogCount = @ + 1, !.dialogList = Append(@, d)]
  BY DEF PutDialog, r
<1>. HIDE DEF s, q
<1>6. /\ q.ctrls = s.ctrls /\ q.made = s.made /\ q.shown = s.shown
      /\ q.dialogCount = s.dialogCount + 1 /\ q.dialogList = Append(s.dialogList, d)
  BY <1>4, <1>5 DEF Register
<1>7. q \in Register
  <2>1. PICK n \in Nat : n = s.dialogCount + 1
    BY <1>4 DEF Register
  <2>2. s.dialogList \in Seq(Dialogs)
    BY <1>4 DEF Register
  <2>3. PICK dl \in Seq(Dialogs) : dl = Append(s.dialogList, d)
    BY <2>2, AppendProperties
  <2>4. [s EXCEPT !.dialogCount = n, !.dialogList = dl] \in Register
    BY <1>4 DEF Register
  <2>. QED BY <1>5, <2>1, <2>3, <2>4
<1>8. \A k \in Keys : p.made[k] \in Nat
  BY DEF Register
<1>9. \A k \in Keys : /\ q.made[k] = p.made[k] + (IF k \in new THEN 1 ELSE 0)
                      /\ q.shown[k] = IF k \in new THEN q.made[k] ELSE p.shown[k]
  BY <1>2, <1>3, <1>4, <1>6, <1>8
<1>10. L \in Nat /\ Len(Content[d]) \in Nat
  BY <1>2, EntryFacts
<1>11. Len(q.ctrls) = L + 1 + Len(Content[d])
  BY <1>3, <1>4, <1>6
<1>12. \A i \in 1..L + 1 : q.ctrls[i] = r.ctrls[i]
  BY <1>3, <1>4, <1>6
<1>13. q.made[d] = r.made[d]
  BY <1>1, <1>2, <1>3, <1>4, <1>6, <1>8
<1>14. q.ctrls[L + 1].key = d /\ q.ctrls[L + 1].obj = q.made[d]
  BY <1>3, <1>10, <1>12, <1>13
<1>15. \A i \in 1..L : q.ctrls[i] = p.ctrls[i]
  BY <1>3, <1>10, <1>12
<1>16. \A i \in 1..Len(Content[d]) : /\ q.ctrls[L + 1 + i].key = Content[d][i]
                                     /\ q.ctrls[L + 1 + i].obj = q.made[Content[d][i]]
  BY <1>3, <1>4, <1>6
<1>. HIDE DEF L, new
<1>17. q.dialogCount = p.dialogCount + 1 /\ q.dialogList = Append(p.dialogList, d)
  BY <1>3, <1>4, <1>6
<1>. QED BY <1>7, <1>9, <1>11, <1>14, <1>15, <1>16, <1>17 DEF q, L, new

\* To hide takes nothing out of the register.
LEMMA HideShape ==
    ASSUME NEW p \in Register, NEW ks
    PROVE  LET q == Hide(p, ks) IN
           /\ q \in Register /\ q.dialogList = p.dialogList /\ q.dialogCount = p.dialogCount
           /\ q.ctrls = p.ctrls /\ q.made = p.made
           /\ \A k \in Keys : q.shown[k] = IF k \in ks THEN Null ELSE p.shown[k]
<1>. DEFINE sh == [k \in Keys |-> IF k \in ks THEN Null ELSE p.shown[k]]
<1>1. sh \in [Keys -> Nat]
  BY DEF Register, Null
<1>2. Hide(p, ks) = [p EXCEPT !.shown = sh]
  BY DEF Hide, Register
<1>3. \A k \in Keys : sh[k] = IF k \in ks THEN Null ELSE p.shown[k]
  OBVIOUS
<1>. HIDE DEF sh
<1>. QED BY <1>1, <1>2, <1>3 DEF Register

\* A tree gets a new object, and keeps its first entry.
LEMMA ReplaceShape ==
    ASSUME NEW p \in Register, NEW k \in Keys, Has(p.ctrls, k)
    PROVE  LET q == Replace(p, k) IN
           /\ q \in Register /\ q.dialogList = p.dialogList /\ q.dialogCount = p.dialogCount
           /\ DOMAIN q.ctrls = DOMAIN p.ctrls
           /\ \A i \in DOMAIN p.ctrls :
                 /\ q.ctrls[i].key = p.ctrls[i].key
                 /\ q.ctrls[i].obj = IF i = IndexOf(p, k) THEN p.made[k] + 1 ELSE p.ctrls[i].obj
           /\ \A h \in Keys : /\ q.made[h]  = IF h = k THEN p.made[k] + 1 ELSE p.made[h]
                              /\ q.shown[h] = IF h = k THEN p.made[k] + 1 ELSE p.shown[h]
<1>. DEFINE i0 == IndexOf(p, k)
            e  == [key |-> k, obj |-> p.made[k] + 1]
            cc == [p.ctrls EXCEPT ![i0] = e]
            md == [p.made EXCEPT ![k] = p.made[k] + 1]
            sh == [p.shown EXCEPT ![k] = p.made[k] + 1]
            q  == Replace(p, k)
<1>1. /\ p.ctrls \in Seq(Entry) /\ p.shown \in [Keys -> Nat] /\ p.made \in [Keys -> Nat]
  BY DEF Register
<1>2. i0 \in DOMAIN p.ctrls /\ p.ctrls[i0].key = k /\ i0 # 0
  BY FirstEntry, EntryFacts
<1>3. p.made[k] + 1 \in Nat \ {0}
  BY <1>1
<1>4. e \in Entry
  BY <1>3 DEF Entry
<1>5. e.key = k /\ e.obj = p.made[k] + 1
  OBVIOUS
<1>6. md \in [Keys -> Nat] /\ sh \in [Keys -> Nat]
  BY <1>1, <1>3
<1>7. q = [p EXCEPT !.ctrls = cc, !.made = md, !.shown = sh]
  BY <1>2 DEF Replace, Register
<1>8. /\ \A h \in Keys : /\ md[h] = IF h = k THEN p.made[k] + 1 ELSE p.made[h]
                         /\ sh[h] = IF h = k THEN p.made[k] + 1 ELSE p.shown[h]
  BY <1>1
<1>. HIDE DEF e, md, sh, i0
<1>9. cc \in Seq(Entry) /\ DOMAIN cc = DOMAIN p.ctrls
  BY <1>1, <1>2, <1>4
<1>10. \A i \in DOMAIN p.ctrls : cc[i] = IF i = i0 THEN e ELSE p.ctrls[i]
  BY <1>1, <1>2
<1>. HIDE DEF cc, q
<1>11. q \in Register
  BY <1>6, <1>7, <1>9 DEF Register
<1>12. /\ q.ctrls = cc /\ q.made = md /\ q.shown = sh
       /\ q.dialogList = p.dialogList /\ q.dialogCount = p.dialogCount
  BY <1>7 DEF Register
<1>13. \A i \in DOMAIN p.ctrls :
          /\ q.ctrls[i].key = p.ctrls[i].key
          /\ q.ctrls[i].obj = IF i = i0 THEN p.made[k] + 1 ELSE p.ctrls[i].obj
  BY <1>2, <1>5, <1>10, <1>12
<1>. QED BY <1>8, <1>9, <1>11, <1>12, <1>13 DEF q, i0

\* e is c without the positions from i to j - 1.
Cut(c, e, i, j) ==
    /\ Len(e) = Len(c) - (j - i)
    /\ \A n \in 1..Len(e) : e[n] = c[IF n < i THEN n ELSE n + (j - i)]

\* One position is cut out.
LEMMA CutOne ==
    ASSUME NEW c, NEW e, NEW h \in Nat, Len(c) \in Nat, Len(e) = Len(c) - 1,
           \A n \in 1..Len(c) - 1 : e[n] = c[IF n < h THEN n ELSE n + 1]
    PROVE  Cut(c, e, h, h + 1)
<1>1. h + 1 - h = 1
  OBVIOUS
<1>2. Len(e) = Len(c) - (h + 1 - h)
  BY <1>1
<1>3. ASSUME NEW n \in 1..Len(e)
      PROVE  e[n] = c[IF n < h THEN n ELSE n + (h + 1 - h)]
  <2>1. n + (h + 1 - h) = n + 1
    OBVIOUS
  <2>2. e[n] = c[IF n < h THEN n ELSE n + 1]
    OBVIOUS
  <2>. QED BY <2>1, <2>2
<1>. QED BY <1>2, <1>3 DEF Cut

\* What stands in front of some positions and what stands behind them, together.
LEMMA Joined ==
    ASSUME NEW S, NEW s \in Seq(S), NEW i \in 1..Len(s), NEW j \in i + 1..Len(s) + 1
    PROVE  LET t == SubSeq(s, 1, i - 1) \o SubSeq(s, j, Len(s)) IN t \in Seq(S) /\ Cut(s, t, i, j)
<1>. DEFINE u == SubSeq(s, 1, i - 1)
            v == SubSeq(s, j, Len(s))
<1>1. Len(s) \in Nat /\ i \in Nat /\ j \in Nat /\ \A n \in 1..Len(s) : s[n] \in S
  OBVIOUS
<1>2. u \in Seq(S) /\ Len(u) = i - 1 /\ \A n \in 1..i - 1 : u[n] = s[n]
  <2>1. \A n \in 1..i - 1 : s[n] \in S
    BY <1>1
  <2>2. PICK m \in Int : m = i - 1
    BY <1>1
  <2>3. /\ SubSeq(s, 1, m) \in Seq(S)
        /\ Len(SubSeq(s, 1, m)) = IF 1 <= m THEN m - 1 + 1 ELSE 0
        /\ \A n \in 1..m - 1 + 1 : SubSeq(s, 1, m)[n] = s[1 + n - 1]
    BY <2>1, <2>2, SubSeqProperties
  <2>. QED BY <2>2, <2>3, <1>1
<1>3. v \in Seq(S) /\ Len(v) = Len(s) - j + 1 /\ \A n \in 1..Len(s) - j + 1 : v[n] = s[j + n - 1]
  <2>1. \A n \in j..Len(s) : s[n] \in S
    BY <1>1
  <2>2. /\ SubSeq(s, j, Len(s)) \in Seq(S)
        /\ Len(SubSeq(s, j, Len(s))) = IF j <= Len(s) THEN Len(s) - j + 1 ELSE 0
        /\ \A n \in 1..Len(s) - j + 1 : SubSeq(s, j, Len(s))[n] = s[j + n - 1]
    BY <2>1, <1>1, SubSeqProperties
  <2>. QED BY <2>2, <1>1
<1>. HIDE DEF u, v
<1>4. /\ u \o v \in Seq(S) /\ Len(u \o v) = Len(u) + Len(v)
      /\ \A n \in 1..Len(u) + Len(v) : (u \o v)[n] = IF n <= Len(u) THEN u[n] ELSE v[n - Len(u)]
  BY <1>2, <1>3, ConcatProperties
<1>5. Len(u \o v) = Len(s) - (j - i)
  BY <1>1, <1>2, <1>3, <1>4
<1>6. ASSUME NEW n \in 1..Len(u \o v)
      PROVE  (u \o v)[n] = s[IF n < i THEN n ELSE n + (j - i)]
  <2>1. CASE n < i
    BY <2>1, <1>1, <1>2, <1>4, <1>5
  <2>2. CASE ~(n < i)
    <3>1. (u \o v)[n] = v[n - (i - 1)]
      BY <2>2, <1>1, <1>2, <1>4, <1>5
    <3>2. n - (i - 1) \in 1..Len(s) - j + 1
      BY <2>2, <1>1, <1>5
    <3>3. v[n - (i - 1)] = s[j + (n - (i - 1)) - 1]
      BY <3>2, <1>3
    <3>4. j + (n - (i - 1)) - 1 = n + (j - i)
      BY <1>1
    <3>. QED BY <3>1, <3>3, <3>4, <2>2
  <2>. QED BY <2>1, <2>2
<1>. QED BY <1>4, <1>5, <1>6 DEF u, v, Cut

\* Two sequences that are the same cut of a third are equal.
LEMMA CutsAgree ==
    ASSUME NEW S, NEW s \in Seq(S), NEW t \in Seq(S), NEW u \in Seq(S), NEW i, NEW j,
           Cut(s, t, i, j), Cut(s, u, i, j)
    PROVE  t = u
  BY SeqEqual DEF Cut

\* A dialog leaves the list of the script as it leaves the stack of the server.
LEMMA ListIsStack ==
    ASSUME NEW o \in Seq(Dialogs), IsInjective(o), NEW h \in DOMAIN o
    PROVE  /\ RemoveFirst(o, o[h]) \in Seq(Dialogs) /\ Cut(o, RemoveFirst(o, o[h]), h, h + 1)
           /\ Spliced(o, {j \in DOMAIN o : o[j] = o[h]}) = RemoveFirst(o, o[h])
<1>. DEFINE d == o[h]
<1>1. Len(o) \in Nat /\ DOMAIN o = 1..Len(o) /\ h \in 1..Len(o)
  OBVIOUS
<1>2. {j \in DOMAIN o : o[j] = d} = {h}
  BY DEF IsInjective
<1>3. SelectInSeq(o, LAMBDA v : v = d) = h
  <2>. DEFINE I == {i \in 1..Len(o) : o[i] = d}
  <2>1. I = {h}
    BY <1>1, <1>2
  <2>2. SelectInSeq(o, LAMBDA v : v = d) = IF I # {} THEN Min(I) ELSE 0
    BY DEF SelectInSeq
  <2>3. {h} \in SUBSET Nat
    BY <1>1
  <2>. QED BY <2>1, <2>2, <2>3, Smallest
<1>4. RemoveFirst(o, d) = SubSeq(o, 1, h - 1) \o SubSeq(o, h + 1, Len(o))
  BY <1>1, <1>3 DEF RemoveFirst, RemoveAt
<1>5. h + 1 \in h + 1..Len(o) + 1
  BY <1>1
<1>6. RemoveFirst(o, d) \in Seq(Dialogs) /\ Cut(o, RemoveFirst(o, d), h, h + 1)
  BY <1>1, <1>4, <1>5, Joined
<1>7. Spliced(o, {h}) \in Seq(Dialogs) /\ Cut(o, Spliced(o, {h}), h, h + 1)
  <2>1. /\ Spliced(o, {h}) \in Seq(Dialogs) /\ Len(Spliced(o, {h})) = Len(o) - 1
        /\ \A n \in 1..Len(o) - 1 : Spliced(o, {h})[n] = o[IF n < h THEN n ELSE n + 1]
    BY SplicedOne
  <2>2. h \in Nat
    BY <1>1
  <2>. QED BY <1>1, <2>1, <2>2, CutOne
<1>8. Spliced(o, {h}) = RemoveFirst(o, d)
  BY <1>6, <1>7, CutsAgree
<1>. QED BY <1>2, <1>6, <1>8

\* A control that is registered once is taken out alone.
LEMMA RemoveCtrlShape ==
    ASSUME NEW p \in Register, NEW i \in DOMAIN p.ctrls, Once(p.ctrls, p.ctrls[i].key)
    PROVE  LET q == RemoveCtrl(p, p.ctrls[i].key) IN
           /\ q \in Register /\ q.dialogList = p.dialogList /\ q.dialogCount = p.dialogCount
           /\ q.made = p.made /\ q.shown = p.shown
           /\ Cut(p.ctrls, q.ctrls, i, i + 1)
<1>. DEFINE k == p.ctrls[i].key
            q == RemoveCtrl(p, k)
            z == Spliced(p.ctrls, {i})
<1>1. p.ctrls \in Seq(Entry) /\ i \in Nat
  BY EntryFacts
<1>2. {n \in DOMAIN p.ctrls : p.ctrls[n].key = k} = {i}
  BY DEF Once
<1>3. /\ z \in Seq(Entry) /\ Len(z) = Len(p.ctrls) - 1
      /\ \A n \in 1..Len(p.ctrls) - 1 : z[n] = p.ctrls[IF n < i THEN n ELSE n + 1]
  BY <1>1, SplicedOne
<1>4. Cut(p.ctrls, z, i, i + 1)
  BY <1>1, <1>3, EntryFacts, CutOne
<1>5. q = [p EXCEPT !.ctrls = z]
  BY <1>2 DEF RemoveCtrl
<1>. HIDE DEF z
<1>6. q \in Register
  BY <1>3, <1>5 DEF Register
<1>7. /\ q.ctrls = z /\ q.dialogList = p.dialogList /\ q.dialogCount = p.dialogCount
      /\ q.made = p.made /\ q.shown = p.shown
  BY <1>5 DEF Register
<1>. QED BY <1>4, <1>6, <1>7

\* q is p without the dialog, and what stands behind its entry, up to the next dialog.
Closed(p, q, d) ==
    /\ q \in Register /\ q.dialogList = RemoveFirst(p.dialogList, d)
    /\ q.dialogCount = Len(q.dialogList)
    /\ \E h \in DOMAIN p.dialogList :
          p.dialogList[h] = d /\ Cut(p.dialogList, q.dialogList, h, h + 1)
    /\ q.made = p.made /\ q.shown = p.shown
    /\ \E i \in DOMAIN p.ctrls : \E j \in i + 1..Len(p.ctrls) + 1 :
          /\ p.ctrls[i].key = d
          /\ \A m \in i + 1..j - 1 : p.ctrls[m].key \notin Dialogs
          /\ j <= Len(p.ctrls) => p.ctrls[j].key \in Dialogs
          /\ Cut(p.ctrls, q.ctrls, i, j)

\* That is what removeDialog does.
LEMMA RemoveDialogShape ==
    ASSUME NEW p \in Register, NEW d \in Dialogs, Has(p.ctrls, d),
           IsInjective(p.dialogList), d \in Range(p.dialogList),
           p.dialogCount = Len(p.dialogList)
    PROVE  Closed(p, RemoveDialog(p, d), d)
<1>. DEFINE q    == RemoveDialog(p, d)
            o    == p.dialogList
            c    == p.ctrls
            i    == IndexOf(p, d)
            rest == SubSeq(c, i + 1, Len(c))
            next == SelectInSeq(rest, LAMBDA e : e.key \in Dialogs)
            tail == IF next = 0 THEN <<>> ELSE SubSeq(c, i + next, Len(c))
            z    == SubSeq(c, 1, i - 1) \o tail
<1>1. o \in Seq(Dialogs) /\ c \in Seq(Entry) /\ Len(c) \in Nat /\ DOMAIN c = 1..Len(c)
  BY EntryFacts DEF Register
<1>2. i \in 1..Len(c) /\ c[i].key = d /\ i # 0
  BY <1>1, FirstEntry
<1>3. PICK h \in DOMAIN o : o[h] = d
  BY DEF Range
<1>4. /\ RemoveFirst(o, d) \in Seq(Dialogs) /\ Cut(o, RemoveFirst(o, d), h, h + 1)
      /\ Spliced(o, {j \in DOMAIN o : o[j] = d}) = RemoveFirst(o, d)
  BY <1>1, <1>3, ListIsStack
<1>5. q = [p EXCEPT !.ctrls = z, !.dialogList = RemoveFirst(o, d), !.dialogCount = p.dialogCount - 1]
  BY <1>2, <1>4 DEF RemoveDialog
<1>6. /\ rest \in Seq(Entry) /\ Len(rest) = Len(c) - i
      /\ \A n \in 1..Len(c) - i : rest[n] = c[i + n]
  <2>1. PICK m \in Int : m = i + 1
    BY <1>2
  <2>2. \A n \in m..Len(c) : c[n] \in Entry
    BY <1>1, <1>2, <2>1
  <2>3. /\ SubSeq(c, m, Len(c)) \in Seq(Entry)
        /\ Len(SubSeq(c, m, Len(c))) = IF m <= Len(c) THEN Len(c) - m + 1 ELSE 0
        /\ \A n \in 1..Len(c) - m + 1 : SubSeq(c, m, Len(c))[n] = c[m + n - 1]
    BY <2>2, <1>1, SubSeqProperties
  <2>4. rest = SubSeq(c, m, Len(c))
    BY <2>1
  <2>. HIDE DEF i, c, rest
  <2>5. Len(c) - m + 1 = Len(c) - i /\ \A n \in 1..Len(c) - i : m + n - 1 = i + n
    BY <2>1, <1>1, <1>2
  <2>6. rest \in Seq(Entry)
    BY <2>3, <2>4
  <2>7. Len(rest) = Len(c) - i
    <3>1. PICK N \in Nat : N = Len(c)
      BY <1>1
    <3>2. (IF m <= N THEN N - m + 1 ELSE 0) = N - i
      BY <2>1, <3>1, <1>2
    <3>3. Len(rest) = IF m <= N THEN N - m + 1 ELSE 0
      BY <2>3, <2>4, <3>1, Zenon
    <3>. QED BY <3>1, <3>2, <3>3
  <2>8. \A n \in 1..Len(c) - i : rest[n] = c[i + n]
    BY <2>3, <2>4, <2>5
  <2>. QED BY <2>6, <2>7, <2>8
<1>. DEFINE I == {n \in 1..Len(rest) : rest[n].key \in Dialogs}
<1>7. next = IF I # {} THEN Min(I) ELSE 0
  BY DEF SelectInSeq
<1>8. I \in SUBSET Nat
  BY <1>6
<1>. HIDE DEF rest
<1>9. I # {} => next \in I /\ \A n \in I : next <= n
  BY <1>7, <1>8, Smallest
<1>. HIDE DEF next
<1>. DEFINE j == IF next = 0 THEN Len(c) + 1 ELSE i + next
<1>10. I = {} => next = 0
  BY <1>7
<1>. HIDE DEF i, c
<1>11. /\ j \in i + 1..Len(c) + 1
       /\ \A m \in i + 1..j - 1 : c[m].key \notin Dialogs
       /\ j <= Len(c) => c[j].key \in Dialogs
  <2>1. CASE I = {}
    <3>1. \A m \in i + 1..Len(c) : c[m].key \notin Dialogs
      <4>. SUFFICES ASSUME NEW m \in i + 1..Len(c), c[m].key \in Dialogs PROVE FALSE
        OBVIOUS
      <4>1. m - i \in 1..Len(c) - i /\ i + (m - i) = m
        BY <1>1, <1>2
      <4>2. m - i \in I
        BY <4>1, <1>6
      <4>. QED BY <4>2, <2>1
    <3>. QED BY <3>1, <2>1, <1>1, <1>2, <1>10
  <2>2. CASE I # {}
    <3>1. next \in 1..Len(c) - i /\ rest[next].key \in Dialogs /\ \A n \in I : next <= n
      BY <2>2, <1>6, <1>9
    <3>2. j = i + next
      BY <3>1
    <3>3. c[j].key \in Dialogs
      BY <3>1, <3>2, <1>6
    <3>4. \A m \in i + 1..j - 1 : c[m].key \notin Dialogs
      <4>. SUFFICES ASSUME NEW m \in i + 1..j - 1, c[m].key \in Dialogs PROVE FALSE
        OBVIOUS
      <4>1. m - i \in 1..Len(c) - i /\ i + (m - i) = m /\ m - i < next
        BY <1>1, <1>2, <3>1, <3>2
      <4>2. m - i \in I
        BY <4>1, <1>6
      <4>. QED BY <4>1, <4>2, <3>1
    <3>. QED BY <3>1, <3>2, <3>3, <3>4, <1>1, <1>2
  <2>. QED BY <2>1, <2>2
<1>12. tail = SubSeq(c, j, Len(c))
  <2>1. CASE next = 0
    BY <2>1, <1>1, SubSeqEmpty
  <2>2. CASE next # 0
    BY <2>2
  <2>. QED BY <2>1, <2>2
<1>. HIDE DEF j
<1>13. z \in Seq(Entry) /\ Cut(c, z, i, j)
  BY <1>1, <1>2, <1>11, <1>12, Joined
<1>. HIDE DEF z, tail, q, o
<1>14. /\ q.ctrls = z /\ q.dialogList = RemoveFirst(o, d) /\ q.dialogCount = p.dialogCount - 1
       /\ q.made = p.made /\ q.shown = p.shown
  BY <1>5 DEF Register
<1>15. Len(RemoveFirst(o, d)) = p.dialogCount - 1 /\ p.dialogCount - 1 \in Nat
  <2>1. h \in Nat /\ Len(o) \in Nat /\ h <= Len(o) /\ h >= 1
    BY <1>1, <1>3
  <2>2. h + 1 - h = 1
    BY <2>1
  <2>. QED BY <1>4, <2>1, <2>2 DEF Cut, o
<1>16. q \in Register
  BY <1>4, <1>5, <1>13, <1>15 DEF Register
<1>17. /\ i \in DOMAIN p.ctrls /\ j \in i + 1..Len(p.ctrls) + 1
       /\ p.ctrls[i].key = d
       /\ \A m \in i + 1..j - 1 : p.ctrls[m].key \notin Dialogs
       /\ j <= Len(p.ctrls) => p.ctrls[j].key \in Dialogs
       /\ Cut(p.ctrls, q.ctrls, i, j)
  BY <1>1, <1>2, <1>11, <1>13, <1>14 DEF c
<1>18. \E h1 \in DOMAIN o : o[h1] = d /\ Cut(o, q.dialogList, h1, h1 + 1)
  BY <1>3, <1>4, <1>14
<1>19. Closed(p, q, d)
  BY <1>14, <1>15, <1>16, <1>17, <1>18 DEF o, Closed
<1>. QED BY <1>19 DEF q

-----------------------------------------------------------------------------
(* What a cut leaves of the order.                                         *)

\* f takes the positions of a cut to their positions in the whole.
Origin(f, c, e, i, j) ==
    /\ f \in [DOMAIN e -> DOMAIN c]
    /\ \A n \in DOMAIN e : e[n] = c[f[n]] /\ f[n] \notin i..j - 1
    /\ \A m, n \in DOMAIN e : m < n <=> f[m] < f[n]
    /\ \A k \in DOMAIN c : k \notin i..j - 1 => \E n \in DOMAIN e : f[n] = k

\* There is such a function: a cut keeps the order of what it leaves.
LEMMA CutMap ==
    ASSUME NEW S, NEW c \in Seq(S), NEW e \in Seq(S),
           NEW i \in 1..Len(c), NEW j \in i + 1..Len(c) + 1, Cut(c, e, i, j)
    PROVE  \E f : Origin(f, c, e, i, j)
<1>. DEFINE f == [n \in DOMAIN e |-> IF n < i THEN n ELSE n + (j - i)]
<1>1. /\ Len(c) \in Nat /\ Len(e) \in Nat /\ i \in Nat /\ j \in Nat
      /\ DOMAIN c = 1..Len(c) /\ DOMAIN e = 1..Len(e) /\ Len(e) = Len(c) - (j - i)
  BY DEF Cut
<1>2. f \in [DOMAIN e -> DOMAIN c]
  BY <1>1
<1>3. \A n \in DOMAIN e : f[n] = IF n < i THEN n ELSE n + (j - i)
  OBVIOUS
<1>4. \A n \in DOMAIN e : e[n] = c[f[n]]
  BY <1>1, <1>3 DEF Cut
<1>. HIDE DEF f
<1>5. \A n \in DOMAIN e : f[n] \notin i..j - 1
  BY <1>1, <1>3
<1>6. \A m, n \in DOMAIN e : m < n <=> f[m] < f[n]
  BY <1>1, <1>3
<1>7. ASSUME NEW k \in DOMAIN c, k \notin i..j - 1
      PROVE  \E n \in DOMAIN e : f[n] = k
  <2>1. CASE k < i
    BY <2>1, <1>1, <1>3, <1>7
  <2>2. CASE ~(k < i)
    <3>1. k - (j - i) \in DOMAIN e /\ ~(k - (j - i) < i) /\ (k - (j - i)) + (j - i) = k
      BY <2>2, <1>1, <1>7
    <3>. QED BY <3>1, <1>3
  <2>. QED BY <2>1, <2>2
<1>. QED BY <1>2, <1>4, <1>5, <1>6, <1>7 DEF Origin

\* An id that had one entry has at most one, and one outside the cut is still there.
LEMMA CutEntries ==
    ASSUME NEW c \in Seq(Entry), NEW e \in Seq(Entry),
           NEW i \in 1..Len(c), NEW j \in i + 1..Len(c) + 1, Cut(c, e, i, j),
           NEW k \in Keys
    PROVE  /\ Once(c, k) => Once(e, k)
           /\ Has(e, k) => Has(c, k)
           /\ \A m \in DOMAIN c : c[m].key = k /\ m \notin i..j - 1 => Has(e, k)
<1>1. PICK f : Origin(f, c, e, i, j)
  BY CutMap
<1>2. /\ f \in [DOMAIN e -> DOMAIN c]
      /\ \A n \in DOMAIN e : e[n] = c[f[n]] /\ f[n] \notin i..j - 1
      /\ \A m, n \in DOMAIN e : m < n <=> f[m] < f[n]
      /\ \A h \in DOMAIN c : h \notin i..j - 1 => \E n \in DOMAIN e : f[n] = h
  BY <1>1 DEF Origin
<1>3. ASSUME Once(c, k), NEW m \in DOMAIN e, NEW n \in DOMAIN e, e[m].key = k, e[n].key = k
      PROVE  m = n
  <2>1. f[m] = f[n]
    BY <1>2, <1>3 DEF Once
  <2>2. m \in Nat /\ n \in Nat /\ f[n] \in Nat
    BY <1>2
  <2>. QED BY <1>2, <2>1, <2>2
<1>4. Once(c, k) => Once(e, k)
  BY <1>3 DEF Once
<1>. QED BY <1>2, <1>4 DEF Has

\* What stands in a place stands there after a cut that reaches from a dialog to the
\* next, or is of no dialog.
LEMMA CutHome ==
    ASSUME NEW c \in Seq(Entry), NEW e \in Seq(Entry),
           NEW i \in 1..Len(c), NEW j \in i + 1..Len(c) + 1, Cut(c, e, i, j),
           \A m \in i + 1..j - 1 : c[m].key \notin Dialogs,
           c[i].key \in Dialogs /\ j <= Len(c) => c[j].key \in Dialogs,
           NEW b, AtHome(c, b)
    PROVE  AtHome(e, b)
<1>. SUFFICES ASSUME NEW n \in DOMAIN e, NEW a \in Places, e[n].key \in Within(a) \ b
              PROVE  StandsIn(e, n, a)
  BY DEF AtHome
<1>1. PICK f : Origin(f, c, e, i, j)
  BY CutMap
<1>2. /\ f \in [DOMAIN e -> DOMAIN c]
      /\ \A m \in DOMAIN e : e[m] = c[f[m]] /\ f[m] \notin i..j - 1
      /\ \A k, m \in DOMAIN e : k < m <=> f[k] < f[m]
      /\ \A m \in DOMAIN c : m \notin i..j - 1 => \E k \in DOMAIN e : f[k] = m
  BY <1>1 DEF Origin
<1>3. /\ Len(c) \in Nat /\ Len(e) \in Nat /\ i \in Nat /\ j \in Nat
      /\ DOMAIN c = 1..Len(c) /\ DOMAIN e = 1..Len(e)
  OBVIOUS
<1>4. StandsIn(c, f[n], a)
  BY <1>2 DEF AtHome
<1>5. \A m \in 1..n : m \in DOMAIN e /\ f[m] \in 1..f[n]
  <2>. SUFFICES ASSUME NEW m \in 1..n PROVE m \in DOMAIN e /\ f[m] \in 1..f[n]
    OBVIOUS
  <2>1. m \in DOMAIN e /\ n \in DOMAIN e /\ ~(n < m)
    BY <1>3
  <2>2. ~(f[n] < f[m]) /\ f[n] \in 1..Len(c) /\ f[m] \in 1..Len(c)
    BY <2>1, <1>2, <1>3
  <2>. QED BY <2>1, <2>2, <1>3
<1>6. CASE a = Page
  <2>1. \A m \in 1..f[n] : c[m].key \notin Dialogs
    BY <1>4, <1>6 DEF StandsIn
  <2>2. \A m \in 1..n : e[m].key \notin Dialogs
    BY <2>1, <1>2, <1>5
  <2>. QED BY <2>2, <1>6 DEF StandsIn
<1>7. CASE a # Page
  <2>1. PICK h \in 1..f[n] : c[h].key = a /\ \A m \in h + 1..f[n] : c[m].key \notin Dialogs
    BY <1>4, <1>7 DEF StandsIn
  <2>2. a \in Dialogs /\ f[n] \in 1..Len(c) /\ h \in DOMAIN c
    BY <1>2, <1>3, <1>7 DEF Places
  <2>3. h \notin i..j - 1
    <3>. SUFFICES ASSUME h \in i..j - 1 PROVE FALSE
      OBVIOUS
    <3>1. h = i
      <4>1. h = i \/ h \in i + 1..j - 1
        BY <1>3
      <4>. QED BY <4>1, <2>1, <2>2
    <3>2. f[n] \notin i..j - 1
      BY <1>2
    <3>3. j \in h + 1..f[n] /\ j <= Len(c)
      BY <3>1, <3>2, <2>2, <1>3
    <3>. QED BY <3>1, <3>3, <2>1, <2>2
  <2>4. PICK m0 \in DOMAIN e : f[m0] = h
    BY <1>2, <2>2, <2>3
  <2>5. m0 \in 1..n
    <3>1. ~(f[n] < f[m0])
      BY <2>2, <2>4
    <3>2. ~(n < m0)
      BY <3>1, <1>2
    <3>. QED BY <3>2, <1>3
  <2>6. ASSUME NEW m \in m0 + 1..n PROVE e[m].key \notin Dialogs
    <3>1. m \in 1..n /\ m0 < m
      BY <1>3
    <3>2. m \in DOMAIN e /\ f[m] \in 1..f[n] /\ f[m0] < f[m]
      BY <3>1, <1>2, <1>5
    <3>3. f[m] \in h + 1..f[n]
      BY <3>2, <2>2, <2>4, <1>3
    <3>. QED BY <3>2, <3>3, <1>2, <2>1
  <2>7. e[m0].key = a
    BY <1>2, <2>1, <2>4
  <2>. QED BY <2>5, <2>6, <2>7, <1>7 DEF StandsIn
<1>. QED BY <1>6, <1>7

\* A cut that takes out no dialog leaves the stack.
LEMMA CutStack ==
    ASSUME NEW c \in Seq(Entry), NEW e \in Seq(Entry), NEW o \in Seq(Dialogs),
           NEW i \in 1..Len(c), NEW j \in i + 1..Len(c) + 1, Cut(c, e, i, j),
           \A m \in i..j - 1 : c[m].key \notin Dialogs,
           Stacked(c, o)
    PROVE  Stacked(e, o)
<1>1. PICK f : Origin(f, c, e, i, j)
  BY CutMap
<1>2. /\ f \in [DOMAIN e -> DOMAIN c]
      /\ \A n \in DOMAIN e : e[n] = c[f[n]] /\ f[n] \notin i..j - 1
      /\ \A m, n \in DOMAIN e : m < n <=> f[m] < f[n]
  BY <1>1 DEF Origin
<1>3. \A d \in Dialogs : Has(e, d) <=> Has(c, d)
  <2>. SUFFICES ASSUME NEW d \in Dialogs PROVE Has(e, d) <=> Has(c, d)
    OBVIOUS
  <2>1. d \in Keys
    BY DEF Keys
  <2>2. /\ Has(e, d) => Has(c, d)
        /\ \A m \in DOMAIN c : c[m].key = d /\ m \notin i..j - 1 => Has(e, d)
    BY <2>1, CutEntries
  <2>. QED BY <2>2 DEF Has
<1>4. \A m, n \in DOMAIN e : \A h, k \in DOMAIN o :
         e[m].key = o[h] /\ e[n].key = o[k] => (m < n <=> h < k)
  BY <1>2 DEF Stacked
<1>. QED BY <1>3, <1>4 DEF Stacked

\* A dialog of the stack has one entry.
LEMMA OneEntry ==
    ASSUME NEW c \in Seq(Entry), NEW o \in Seq(Dialogs), Stacked(c, o), NEW d \in Range(o)
    PROVE  Once(c, d)
<1>1. PICK h \in DOMAIN o : o[h] = d
  BY DEF Range
<1>2. h \in Nat /\ \A m \in DOMAIN c : m \in Nat
  OBVIOUS
<1>3. ASSUME NEW m \in DOMAIN c, NEW n \in DOMAIN c, c[m].key = d, c[n].key = d
      PROVE  m = n
  <2>1. (m < n <=> h < h) /\ (n < m <=> h < h)
    BY <1>1, <1>3 DEF Stacked
  <2>. QED BY <2>1, <1>2
<1>. QED BY <1>3 DEF Once

\* A cut from a dialog to the next takes that dialog from the stack.
LEMMA CutDialog ==
    ASSUME NEW c \in Seq(Entry), NEW e \in Seq(Entry), NEW o \in Seq(Dialogs), NEW o1 \in Seq(Dialogs),
           NEW i \in 1..Len(c), NEW j \in i + 1..Len(c) + 1, Cut(c, e, i, j),
           \A m \in i + 1..j - 1 : c[m].key \notin Dialogs,
           NEW h \in DOMAIN o, Cut(o, o1, h, h + 1), c[i].key = o[h], IsInjective(o),
           Stacked(c, o)
    PROVE  Stacked(e, o1) /\ IsInjective(o1) /\ ~Has(e, o[h]) /\ o[h] \notin Range(o1)
<1>1. PICK f : Origin(f, c, e, i, j)
  BY CutMap
<1>2. /\ f \in [DOMAIN e -> DOMAIN c]
      /\ \A n \in DOMAIN e : e[n] = c[f[n]] /\ f[n] \notin i..j - 1
      /\ \A m, n \in DOMAIN e : m < n <=> f[m] < f[n]
  BY <1>1 DEF Origin
<1>3. h \in 1..Len(o) /\ h + 1 \in h + 1..Len(o) + 1 /\ h..h + 1 - 1 = {h}
  OBVIOUS
<1>4. PICK g : Origin(g, o, o1, h, h + 1)
  BY <1>3, CutMap
<1>5. /\ g \in [DOMAIN o1 -> DOMAIN o]
      /\ \A n \in DOMAIN o1 : o1[n] = o[g[n]] /\ g[n] # h
      /\ \A m, n \in DOMAIN o1 : m < n <=> g[m] < g[n]
      /\ \A k \in DOMAIN o : k # h => \E n \in DOMAIN o1 : g[n] = k
  <2>1. /\ g \in [DOMAIN o1 -> DOMAIN o]
        /\ \A n \in DOMAIN o1 : o1[n] = o[g[n]] /\ g[n] \notin h..h + 1 - 1
        /\ \A m, n \in DOMAIN o1 : m < n <=> g[m] < g[n]
        /\ \A k \in DOMAIN o : k \notin h..h + 1 - 1 => \E n \in DOMAIN o1 : g[n] = k
    BY <1>4 DEF Origin
  <2>2. \A k : k \in h..h + 1 - 1 <=> k = h
    BY <1>3
  <2>. QED BY <2>1, <2>2
<1>6. o[h] \notin Range(o1)
  BY <1>5 DEF IsInjective, Range
<1>7. IsInjective(o1)
  <2>. SUFFICES ASSUME NEW m \in DOMAIN o1, NEW n \in DOMAIN o1, o1[m] = o1[n]
                PROVE  m = n
    BY DEF IsInjective
  <2>1. g[m] = g[n] /\ g[m] \in Nat
    BY <1>5 DEF IsInjective
  <2>2. m \in Nat /\ n \in Nat
    OBVIOUS
  <2>. QED BY <1>5, <2>1, <2>2
<1>8. \A m \in DOMAIN c : c[m].key = o[h] => m = i
  <2>1. o[h] \in Range(o)
    BY DEF Range
  <2>2. Once(c, o[h])
    BY <2>1, OneEntry
  <2>. QED BY <2>2 DEF Once
<1>9. i \in i..j - 1
  OBVIOUS
<1>10. ~Has(e, o[h])
  BY <1>2, <1>8, <1>9 DEF Has
<1>11. ASSUME NEW d \in Dialogs, d # o[h]
       PROVE  Has(e, d) <=> d \in Range(o1)
  <2>1. Has(c, d) <=> d \in Range(o)
    BY DEF Stacked
  <2>2. d \in Range(o) <=> d \in Range(o1)
    <3>1. ASSUME NEW k \in DOMAIN o, o[k] = d
          PROVE  \E n \in DOMAIN o1 : o1[n] = d
      <4>1. PICK n \in DOMAIN o1 : g[n] = k
        BY <1>5, <1>11, <3>1
      <4>. QED BY <4>1, <1>5, <3>1
    <3>2. ASSUME NEW n \in DOMAIN o1, o1[n] = d
          PROVE  \E k \in DOMAIN o : o[k] = d
      BY <1>5, <3>2
    <3>. QED BY <3>1, <3>2 DEF Range
  <2>3. d \in Keys
    BY DEF Keys
  <2>4. \A m \in i..j - 1 : c[m].key # d
    <3>. SUFFICES ASSUME NEW m \in i..j - 1, c[m].key = d PROVE FALSE
      OBVIOUS
    <3>1. m = i \/ m \in i + 1..j - 1
      OBVIOUS
    <3>. QED BY <3>1, <1>11
  <2>5. Has(e, d) <=> Has(c, d)
    <3>1. /\ Has(e, d) => Has(c, d)
          /\ \A m \in DOMAIN c : c[m].key = d /\ m \notin i..j - 1 => Has(e, d)
      BY <2>3, CutEntries
    <3>. QED BY <3>1, <2>4 DEF Has
  <2>. QED BY <2>1, <2>2, <2>5
<1>12. \A m, n \in DOMAIN e : \A k, l \in DOMAIN o1 :
          e[m].key = o1[k] /\ e[n].key = o1[l] => (m < n <=> k < l)
  <2>. SUFFICES ASSUME NEW m \in DOMAIN e, NEW n \in DOMAIN e, NEW k \in DOMAIN o1, NEW l \in DOMAIN o1,
                       e[m].key = o1[k], e[n].key = o1[l]
                PROVE  m < n <=> k < l
    OBVIOUS
  <2>1. c[f[m]].key = o[g[k]] /\ c[f[n]].key = o[g[l]]
    BY <1>2, <1>5
  <2>2. f[m] \in DOMAIN c /\ f[n] \in DOMAIN c /\ g[k] \in DOMAIN o /\ g[l] \in DOMAIN o
    BY <1>2, <1>5
  <2>3. f[m] < f[n] <=> g[k] < g[l]
    BY <2>1, <2>2 DEF Stacked
  <2>. QED BY <2>3, <1>2, <1>5
<1>13. \A d \in Dialogs : Has(e, d) <=> d \in Range(o1)
  BY <1>6, <1>10, <1>11
<1>. QED BY <1>6, <1>7, <1>10, <1>12, <1>13 DEF Stacked

\* Every id belongs to a place.
LEMMA HasPlace ==
    ASSUME NEW k \in Ids
    PROVE  \E a \in Places : k \in Within(a)
<1>1. CASE \E a \in Places : k \in Range(Content[a])
  BY <1>1 DEF Within
<1>2. CASE \E g \in Groups : k \in Range(Panel[g])
  <2>1. PICK g \in Groups : k \in Range(Panel[g])
    BY <1>2
  <2>2. PICK a \in Places : g \in Range(Content[a])
    BY ControlMgrAssumption
  <2>. QED BY <2>1, <2>2 DEF Within
<1>. QED BY <1>1, <1>2 DEF Ids

\* An entry stands in one place.
LEMMA StandsOne ==
    ASSUME NEW c \in Seq(Entry), NEW i \in DOMAIN c, NEW a \in Places, StandsIn(c, i, a),
           NEW h \in 1..i, c[h].key \in Dialogs, \A m \in h + 1..i : c[m].key \notin Dialogs
    PROVE  a = c[h].key
<1>1. i \in Nat /\ h \in Nat /\ h <= i
  OBVIOUS
<1>2. a # Page
  BY DEF StandsIn
<1>3. PICK j \in 1..i : c[j].key = a /\ \A m \in j + 1..i : c[m].key \notin Dialogs
  BY <1>2 DEF StandsIn
<1>4. a \in Dialogs
  BY <1>2 DEF Places
<1>5. ~(j < h)
  <2>. SUFFICES ASSUME j < h PROVE FALSE
    OBVIOUS
  <2>1. h \in j + 1..i
    BY <1>1
  <2>. QED BY <2>1, <1>3
<1>6. ~(h < j)
  <2>. SUFFICES ASSUME h < j PROVE FALSE
    OBVIOUS
  <2>1. j \in h + 1..i
    BY <1>1
  <2>. QED BY <2>1, <1>3, <1>4
<1>7. j = h
  BY <1>1, <1>5, <1>6
<1>. QED BY <1>3, <1>7

-----------------------------------------------------------------------------
(* The inductive invariant holds at first, and after each thing the server *)
(* asks of the page.                                                       *)

\* A registered dialog is closed: all that was loaded in it goes from the page and from
\* the register, and nothing else.
LEMMA CloseInv ==
    ASSUME NEW p, NEW o, NEW w, NEW b, Inv(p, o, w, b), NEW d \in Dialogs, Has(p.ctrls, d)
    PROVE  Inv(RemoveDialog(Hide(p, {d} \cup Within(d)), d), RemoveFirst(o, d), w \ Within(d), b)
<1>. DEFINE gone == {d} \cup Within(d)
            r    == Hide(p, gone)
            q    == RemoveDialog(r, d)
            o1   == RemoveFirst(o, d)
            c    == p.ctrls
            e    == q.ctrls
<1>1. Sound(p, o) /\ Stacked(c, o) /\ AtHome(c, b) /\ Single(c) /\ Told(p, w, b) /\ Reached(p, b)
      /\ w \subseteq Inner /\ b \subseteq Inner
  BY DEF Inv
<1>2. /\ p \in Register /\ o \in Seq(Dialogs) /\ IsInjective(o)
      /\ p.dialogList = o /\ p.dialogCount = Len(o)
  BY <1>1 DEF Sound
<1>3. /\ r \in Register /\ r.dialogList = p.dialogList /\ r.dialogCount = p.dialogCount
      /\ r.ctrls = p.ctrls /\ r.made = p.made
      /\ \A k \in Keys : r.shown[k] = IF k \in gone THEN Null ELSE p.shown[k]
  BY <1>2, HideShape
<1>4. d \in Range(o)
  BY <1>1 DEF Stacked
<1>. HIDE DEF r
<1>5. /\ q \in Register /\ q.dialogList = o1
      /\ q.dialogCount = Len(q.dialogList)
      /\ \E h \in DOMAIN o : o[h] = d /\ Cut(o, q.dialogList, h, h + 1)
      /\ q.made = r.made /\ q.shown = r.shown
      /\ \E i \in DOMAIN r.ctrls : \E j \in i + 1..Len(r.ctrls) + 1 :
            /\ r.ctrls[i].key = d
            /\ \A m \in i + 1..j - 1 : r.ctrls[m].key \notin Dialogs
            /\ j <= Len(r.ctrls) => r.ctrls[j].key \in Dialogs
            /\ Cut(r.ctrls, q.ctrls, i, j)
  <2>1. /\ Has(r.ctrls, d) /\ IsInjective(r.dialogList) /\ d \in Range(r.dialogList)
        /\ r.dialogCount = Len(r.dialogList) /\ r.dialogList = o
    BY <1>2, <1>3, <1>4
  <2>2. Closed(r, q, d)
    BY <1>3, <2>1, RemoveDialogShape
  <2>. QED BY <2>1, <2>2 DEF Closed
<1>. HIDE DEF q
<1>6. PICK h \in DOMAIN o : o[h] = d /\ Cut(o, o1, h, h + 1)
  BY <1>5
<1>7. PICK i \in DOMAIN c : \E j \in i + 1..Len(c) + 1 :
         /\ c[i].key = d
         /\ \A m \in i + 1..j - 1 : c[m].key \notin Dialogs
         /\ j <= Len(c) => c[j].key \in Dialogs
         /\ Cut(c, e, i, j)
  BY <1>3, <1>5
<1>8. PICK j \in i + 1..Len(c) + 1 :
         /\ c[i].key = d
         /\ \A m \in i + 1..j - 1 : c[m].key \notin Dialogs
         /\ j <= Len(c) => c[j].key \in Dialogs
         /\ Cut(c, e, i, j)
  BY <1>7
<1>9. /\ c \in Seq(Entry) /\ e \in Seq(Entry) /\ o1 \in Seq(Dialogs)
      /\ DOMAIN c = 1..Len(c) /\ DOMAIN e = 1..Len(e) /\ Len(c) \in Nat /\ Len(e) \in Nat
      /\ i \in Nat /\ j \in Nat /\ i \in 1..Len(c)
  <2>1. /\ c \in Seq(Entry) /\ Len(c) \in Nat /\ DOMAIN c = 1..Len(c)
    BY <1>2, EntryFacts
  <2>2. /\ e \in Seq(Entry) /\ Len(e) \in Nat /\ DOMAIN e = 1..Len(e)
    BY <1>5, EntryFacts
  <2>3. o1 \in Seq(Dialogs)
    BY <1>5 DEF Register
  <2>. HIDE DEF c, e, o1
  <2>4. i \in Nat /\ j \in Nat /\ i \in 1..Len(c)
    BY <2>1
  <2>. QED BY <2>1, <2>2, <2>3, <2>4
<1>. HIDE DEF c, e, o1
<1>10. /\ Stacked(e, o1) /\ IsInjective(o1) /\ ~Has(e, d)
  <2>1. c[i].key = o[h] /\ i \in 1..Len(c) /\ j \in i + 1..Len(c) + 1
    BY <1>6, <1>9, <1>8
  <2>2. \A m \in i + 1..j - 1 : c[m].key \notin Dialogs
    BY <1>8
  <2>3. Cut(c, e, i, j) /\ Cut(o, o1, h, h + 1)
    BY <1>6, <1>8
  <2>4. Stacked(e, o1) /\ IsInjective(o1) /\ ~Has(e, o[h])
    BY <1>1, <1>2, <1>9, <2>1, <2>2, <2>3, CutDialog
  <2>. QED BY <2>4, <1>6
<1>11. AtHome(e, b)
  BY <1>1, <1>8, <1>9, CutHome
<1>12. \A k \in Keys : /\ Once(c, k) => Once(e, k)
                       /\ Has(e, k) => Has(c, k)
                       /\ \A m \in DOMAIN c : c[m].key = k /\ m \notin i..j - 1 => Has(e, k)
  BY <1>8, <1>9, CutEntries
<1>13. Single(e)
  BY <1>1, <1>12 DEF Single
<1>14. PICK f : Origin(f, c, e, i, j)
  BY <1>8, <1>9, CutMap
<1>15. /\ f \in [DOMAIN e -> DOMAIN c]
       /\ \A n \in DOMAIN e : e[n] = c[f[n]] /\ f[n] \notin i..j - 1
  BY <1>14 DEF Origin
<1>16. ASSUME NEW k \in Within(d) \ b PROVE ~Has(e, k)
  <2>. SUFFICES ASSUME NEW n \in DOMAIN e, e[n].key = k PROVE FALSE
    BY DEF Has
  <2>1. c[f[n]].key = k /\ f[n] \in 1..Len(c) /\ f[n] \notin i..j - 1
    BY <1>9, <1>15
  <2>2. d \in Places /\ d # Page
    BY InnerFacts DEF Places
  <2>3. StandsIn(c, f[n], d)
    BY <1>1, <1>9, <2>1, <2>2 DEF AtHome
  <2>4. PICK m \in 1..f[n] : c[m].key = d /\ \A l \in m + 1..f[n] : c[l].key \notin Dialogs
    BY <2>2, <2>3 DEF StandsIn
  <2>5. m = i
    <3>1. Once(c, d)
      BY <1>1, <1>2, <1>4, <1>9, OneEntry
    <3>2. m \in DOMAIN c /\ i \in DOMAIN c
      BY <1>9, <2>1
    <3>. QED BY <3>1, <3>2, <1>8, <2>4 DEF Once
  <2>6. j \in m + 1..f[n] /\ j <= Len(c)
    BY <2>1, <2>4, <2>5, <1>9, <1>8
  <2>. QED BY <2>4, <2>6, <1>8
<1>17. \A k \in Keys : q.made[k] = p.made[k] /\ q.shown[k] = IF k \in gone THEN Null ELSE p.shown[k]
  BY <1>3, <1>5
<1>18. Sound(q, o1)
  <2>1. \A n \in DOMAIN e : e[n].obj <= q.made[e[n].key]
    <3>. SUFFICES ASSUME NEW n \in DOMAIN e PROVE e[n].obj <= q.made[e[n].key]
      OBVIOUS
    <3>1. e[n] = c[f[n]] /\ f[n] \in DOMAIN c
      BY <1>15
    <3>2. c[f[n]].obj <= p.made[c[f[n]].key]
      BY <3>1, <1>1 DEF Sound, c
    <3>3. c[f[n]].key \in Keys
      BY <3>1, <1>2, EntryFacts DEF c
    <3>. QED BY <3>1, <3>2, <3>3, <1>17
  <2>2. \A k \in Keys : p.made[k] <= MaxMade /\ p.shown[k] \in {Null, p.made[k]}
    BY <1>1 DEF Sound
  <2>3. \A k \in Keys : q.made[k] <= MaxMade /\ q.shown[k] \in {Null, q.made[k]}
    BY <2>2, <1>17
  <2>. QED BY <2>1, <2>3, <1>5, <1>9, <1>10 DEF Sound, e
<1>19. Told(q, w \ Within(d), b)
  <2>. SUFFICES ASSUME NEW k \in Keys \ ((w \ Within(d)) \cup b)
                PROVE  /\ Once(e, k)
                       /\ \A n \in DOMAIN e : e[n].key = k => e[n].obj = q.shown[k]
    BY DEF Told, e
  <2>1. CASE k \in gone
    <3>1. ~Has(e, k)
      BY <2>1, <1>10, <1>16
    <3>. QED BY <3>1 DEF Has, Once
  <2>2. CASE k \notin gone
    <3>1. k \in Keys \ (w \cup b)
      BY <2>2
    <3>2. Once(c, k) /\ \A n \in DOMAIN c : c[n].key = k => c[n].obj = p.shown[k]
      BY <3>1, <1>1 DEF Told, c
    <3>3. q.shown[k] = p.shown[k]
      BY <2>2, <1>17
    <3>. QED BY <3>2, <3>3, <1>12, <1>15
  <2>. QED BY <2>1, <2>2
<1>20. Reached(q, b)
  <2>. SUFFICES ASSUME NEW k \in Keys \ b, q.shown[k] # Null
                PROVE  Has(e, k)
    BY DEF Reached, e
  <2>1. k \notin gone /\ p.shown[k] # Null
    BY <1>17
  <2>2. PICK m \in DOMAIN c : c[m].key = k
    BY <1>1, <2>1 DEF Reached, Has, c
  <2>3. m \notin i..j - 1
    <3>. SUFFICES ASSUME m \in i..j - 1 PROVE FALSE
      OBVIOUS
    <3>1. m # i
      BY <2>1, <2>2, <1>8
    <3>2. m \in i + 1..j - 1
      BY <3>1, <1>9
    <3>3. k \in Ids
      BY <3>2, <2>2, <1>8 DEF Keys
    <3>4. PICK a \in Places : k \in Within(a)
      BY <3>3, HasPlace
    <3>5. StandsIn(c, m, a)
      BY <3>4, <2>2, <1>1 DEF AtHome
    <3>6. i \in 1..m /\ \A l \in i + 1..m : c[l].key \notin Dialogs
      BY <3>2, <1>8, <1>9
    <3>7. a = c[i].key
      BY <3>5, <3>6, <1>8, <1>9, StandsOne
    <3>. QED BY <3>4, <3>7, <1>8, <2>1
  <2>. QED BY <2>2, <2>3, <1>12
<1>21. w \ Within(d) \subseteq Inner
  BY <1>1
<1>. QED BY <1>1, <1>10, <1>11, <1>13, <1>18, <1>19, <1>20, <1>21 DEF Inv, q, r, o1, e

\* A group goes from the page with its panel, whose entries stay.
LEMMA RemoveGroupInv ==
    ASSUME NEW p, NEW o, NEW w, NEW b, Inv(p, o, w, b), NEW g \in Groups, Has(p.ctrls, g)
    PROVE  Inv(RemoveCtrl(Hide(p, {g} \cup Range(Panel[g])), g), o,
               w \cup {k \in Range(Panel[g]) : Get(p, k) # Null}, b)
<1>. DEFINE gone == {g} \cup Range(Panel[g])
            r    == Hide(p, gone)
            q    == RemoveCtrl(r, g)
            w1   == w \cup {k \in Range(Panel[g]) : Get(p, k) # Null}
            c    == p.ctrls
            e    == q.ctrls
<1>1. Sound(p, o) /\ Stacked(c, o) /\ AtHome(c, b) /\ Single(c) /\ Told(p, w, b) /\ Reached(p, b)
      /\ w \subseteq Inner /\ b \subseteq Inner
  BY DEF Inv
<1>2. /\ p \in Register /\ o \in Seq(Dialogs) /\ IsInjective(o)
      /\ p.dialogList = o /\ p.dialogCount = Len(o)
  BY <1>1 DEF Sound
<1>3. /\ r \in Register /\ r.dialogList = p.dialogList /\ r.dialogCount = p.dialogCount
      /\ r.ctrls = p.ctrls /\ r.made = p.made
      /\ \A k \in Keys : r.shown[k] = IF k \in gone THEN Null ELSE p.shown[k]
  BY <1>2, HideShape
<1>4. g \in Keys \ Inner /\ g \notin Dialogs /\ Range(Panel[g]) \subseteq Inner
  BY PanelFacts
<1>5. Once(c, g)
  BY <1>1, <1>4 DEF Single
<1>6. PICK i \in DOMAIN c : c[i].key = g
  BY DEF Has
<1>. HIDE DEF r
<1>7. /\ q \in Register /\ q.dialogList = r.dialogList /\ q.dialogCount = r.dialogCount
      /\ q.made = r.made /\ q.shown = r.shown
      /\ Cut(c, e, i, i + 1)
  BY <1>3, <1>5, <1>6, RemoveCtrlShape
<1>. HIDE DEF q
<1>8. /\ c \in Seq(Entry) /\ e \in Seq(Entry)
      /\ DOMAIN c = 1..Len(c) /\ Len(c) \in Nat /\ i \in Nat /\ i \in 1..Len(c)
      /\ i + 1 \in i + 1..Len(c) + 1
  BY <1>2, <1>7, EntryFacts
<1>9. /\ \A m \in i..i + 1 - 1 : c[m].key \notin Dialogs
      /\ \A m \in i + 1..i + 1 - 1 : c[m].key \notin Dialogs
      /\ \A m : m \in i..i + 1 - 1 <=> m = i
  <2>1. \A m : m \in i..i + 1 - 1 <=> m = i
    BY <1>8
  <2>2. \A m : m \notin i + 1..i + 1 - 1
    BY <1>8
  <2>. QED BY <2>1, <2>2, <1>4, <1>6
<1>. HIDE DEF c, e
<1>10. Stacked(e, o)
  BY <1>1, <1>2, <1>7, <1>8, <1>9, CutStack
<1>11. AtHome(e, b)
  BY <1>1, <1>4, <1>6, <1>7, <1>8, <1>9, CutHome
<1>12. \A k \in Keys : /\ Once(c, k) => Once(e, k)
                       /\ Has(e, k) => Has(c, k)
                       /\ \A m \in DOMAIN c : c[m].key = k /\ m \notin i..i + 1 - 1 => Has(e, k)
  BY <1>7, <1>8, CutEntries
<1>13. Single(e)
  BY <1>1, <1>12 DEF Single
<1>14. PICK f : Origin(f, c, e, i, i + 1)
  BY <1>7, <1>8, CutMap
<1>15. /\ f \in [DOMAIN e -> DOMAIN c]
       /\ \A n \in DOMAIN e : e[n] = c[f[n]] /\ f[n] # i
  BY <1>9, <1>14 DEF Origin
<1>16. ~Has(e, g)
  BY <1>5, <1>6, <1>15 DEF Has, Once
<1>17. \A k \in Keys : q.made[k] = p.made[k] /\ q.shown[k] = IF k \in gone THEN Null ELSE p.shown[k]
  BY <1>3, <1>7
<1>18. Sound(q, o)
  <2>1. \A n \in DOMAIN e : e[n].obj <= q.made[e[n].key]
    <3>. SUFFICES ASSUME NEW n \in DOMAIN e PROVE e[n].obj <= q.made[e[n].key]
      OBVIOUS
    <3>1. e[n] = c[f[n]] /\ f[n] \in DOMAIN c
      BY <1>15
    <3>2. c[f[n]].obj <= p.made[c[f[n]].key]
      BY <3>1, <1>1 DEF Sound, c
    <3>3. c[f[n]].key \in Keys
      BY <3>1, <1>2, EntryFacts DEF c
    <3>. QED BY <3>1, <3>2, <3>3, <1>17
  <2>2. \A k \in Keys : p.made[k] <= MaxMade /\ p.shown[k] \in {Null, p.made[k]}
    BY <1>1 DEF Sound
  <2>3. \A k \in Keys : q.made[k] <= MaxMade /\ q.shown[k] \in {Null, q.made[k]}
    BY <2>2, <1>17
  <2>. QED BY <2>1, <2>3, <1>2, <1>3, <1>7 DEF Sound, e
<1>19. Told(q, w1, b)
  <2>. SUFFICES ASSUME NEW k \in Keys \ (w1 \cup b)
                PROVE  /\ Once(e, k)
                       /\ \A n \in DOMAIN e : e[n].key = k => e[n].obj = q.shown[k]
    BY DEF Told, e
  <2>1. CASE k \in gone
    <3>1. ~Has(e, k)
      <4>1. CASE k = g
        BY <4>1, <1>16
      <4>2. CASE k \in Range(Panel[g])
        <5>1. ~Has(p.ctrls, k)
          BY <4>2, <1>2, GetIs
        <5>. QED BY <5>1, <1>12 DEF c
      <4>. QED BY <2>1, <4>1, <4>2
    <3>. QED BY <3>1 DEF Has, Once
  <2>2. CASE k \notin gone
    <3>1. k \in Keys \ (w \cup b)
      OBVIOUS
    <3>2. Once(c, k) /\ \A n \in DOMAIN c : c[n].key = k => c[n].obj = p.shown[k]
      BY <3>1, <1>1 DEF Told, c
    <3>3. q.shown[k] = p.shown[k]
      BY <2>2, <1>17
    <3>. QED BY <3>2, <3>3, <1>12, <1>15
  <2>. QED BY <2>1, <2>2
<1>20. Reached(q, b)
  <2>. SUFFICES ASSUME NEW k \in Keys \ b, q.shown[k] # Null
                PROVE  Has(e, k)
    BY DEF Reached, e
  <2>1. k \notin gone /\ p.shown[k] # Null
    BY <1>17
  <2>2. PICK m \in DOMAIN c : c[m].key = k
    BY <1>1, <2>1 DEF Reached, Has, c
  <2>3. m # i
    BY <2>1, <2>2, <1>6
  <2>. QED BY <2>2, <2>3, <1>9, <1>12
<1>21. w1 \subseteq Inner
  BY <1>1, <1>4
<1>. HIDE DEF w1
<1>22. Inv(q, o, w1, b)
  BY <1>1, <1>10, <1>11, <1>13, <1>18, <1>19, <1>20, <1>21 DEF Inv, e
<1>. QED BY <1>22 DEF q, r, w1

\* A tree of the page gets all its nodes anew.
LEMMA RebuildInv ==
    ASSUME NEW p, NEW o, NEW w, NEW b, Inv(p, o, w, b), NEW k \in Keys, Has(p.ctrls, k),
           p.made[k] < MaxMade
    PROVE  Inv(Replace(p, k), o, w, b)
<1>. DEFINE q == Replace(p, k)
            c == p.ctrls
            e == q.ctrls
<1>1. Sound(p, o) /\ Stacked(c, o) /\ AtHome(c, b) /\ Single(c) /\ Told(p, w, b) /\ Reached(p, b)
      /\ w \subseteq Inner /\ b \subseteq Inner
  BY DEF Inv
<1>2. /\ p \in Register /\ o \in Seq(Dialogs) /\ IsInjective(o)
      /\ p.dialogList = o /\ p.dialogCount = Len(o)
  BY <1>1 DEF Sound
<1>3. /\ q \in Register /\ q.dialogList = p.dialogList /\ q.dialogCount = p.dialogCount
      /\ DOMAIN e = DOMAIN c
      /\ \A i \in DOMAIN c :
            /\ e[i].key = c[i].key
            /\ e[i].obj = IF i = IndexOf(p, k) THEN p.made[k] + 1 ELSE c[i].obj
      /\ \A h \in Keys : /\ q.made[h]  = IF h = k THEN p.made[k] + 1 ELSE p.made[h]
                         /\ q.shown[h] = IF h = k THEN p.made[k] + 1 ELSE p.shown[h]
  BY <1>2, ReplaceShape
<1>4. IndexOf(p, k) \in DOMAIN c /\ c[IndexOf(p, k)].key = k
  BY <1>2, FirstEntry
<1>5. c \in Seq(Entry) /\ \A i \in DOMAIN c : c[i].key \in Keys /\ c[i].obj \in Nat
  BY <1>2, EntryFacts
<1>6. p.made \in [Keys -> Nat] /\ MaxMade \in Nat
  BY <1>2, ControlMgrAssumption DEF Register
<1>. HIDE DEF q, c, e
<1>7. \A i \in DOMAIN c : \A j \in 1..i : j \in DOMAIN c
  BY <1>5
<1>8. \A h \in Keys : (Has(e, h) <=> Has(c, h)) /\ (Once(c, h) => Once(e, h))
  BY <1>3 DEF Has, Once
<1>9. Stacked(e, o)
  <2>1. \A d \in Dialogs : Has(e, d) <=> d \in Range(o)
    BY <1>1, <1>8 DEF Stacked, Keys
  <2>2. \A i, j \in DOMAIN e : \A m, n \in DOMAIN o :
           e[i].key = o[m] /\ e[j].key = o[n] => (i < j <=> m < n)
    BY <1>1, <1>3 DEF Stacked
  <2>. QED BY <2>1, <2>2 DEF Stacked
<1>10. AtHome(e, b)
  <2>. SUFFICES ASSUME NEW i \in DOMAIN c, NEW a \in Places, c[i].key \in Within(a) \ b
                PROVE  StandsIn(e, i, a)
    BY <1>3 DEF AtHome
  <2>1. StandsIn(c, i, a)
    BY <1>1 DEF AtHome
  <2>2. \A j \in 1..i : e[j].key = c[j].key
    BY <1>3, <1>7
  <2>3. \A j \in 1..i : \A m \in j + 1..i : m \in 1..i
    BY <1>5
  <2>. QED BY <2>1, <2>2, <2>3 DEF StandsIn
<1>11. Single(e)
  BY <1>1, <1>8 DEF Single
<1>12. Told(q, w, b)
  <2>. SUFFICES ASSUME NEW h \in Keys \ (w \cup b)
                PROVE  /\ Once(e, h)
                       /\ \A n \in DOMAIN e : e[n].key = h => e[n].obj = q.shown[h]
    BY DEF Told, e
  <2>1. Once(c, h) /\ \A n \in DOMAIN c : c[n].key = h => c[n].obj = p.shown[h]
    BY <1>1 DEF Told, c
  <2>2. \A n \in DOMAIN c : c[n].key = h => (n = IndexOf(p, k) <=> h = k)
    BY <2>1, <1>4 DEF Once
  <2>. QED BY <2>1, <2>2, <1>3, <1>8
<1>13. Reached(q, b)
  <2>. SUFFICES ASSUME NEW h \in Keys \ b, q.shown[h] # Null
                PROVE  Has(e, h)
    BY DEF Reached, e
  <2>1. CASE h = k
    BY <2>1, <1>8 DEF c
  <2>2. CASE h # k
    BY <2>2, <1>1, <1>3, <1>8 DEF Reached, c
  <2>. QED BY <2>1, <2>2
<1>14. Sound(q, o)
  <2>1. \A n \in DOMAIN e : e[n].obj <= q.made[e[n].key]
    <3>. SUFFICES ASSUME NEW n \in DOMAIN c PROVE e[n].obj <= q.made[e[n].key]
      BY <1>3
    <3>1. c[n].obj <= p.made[c[n].key] /\ c[n].key \in Keys
      BY <1>1, <1>5 DEF Sound, c
    <3>2. /\ e[n].key = c[n].key
          /\ e[n].obj = IF n = IndexOf(p, k) THEN p.made[k] + 1 ELSE c[n].obj
      BY <1>3
    <3>3. q.made[c[n].key] = IF c[n].key = k THEN p.made[k] + 1 ELSE p.made[c[n].key]
      BY <3>1, <1>3
    <3>4. p.made[c[n].key] \in Nat /\ p.made[k] \in Nat /\ c[n].obj \in Nat
      BY <3>1, <1>5, <1>6
    <3>5. CASE n = IndexOf(p, k)
      BY <3>2, <3>3, <3>4, <3>5, <1>4
    <3>6. CASE n # IndexOf(p, k)
      BY <3>1, <3>2, <3>3, <3>4, <3>6
    <3>. QED BY <3>5, <3>6
  <2>2. \A h \in Keys : q.made[h] <= MaxMade /\ q.shown[h] \in {Null, q.made[h]}
    <3>1. \A h \in Keys : p.made[h] <= MaxMade /\ p.shown[h] \in {Null, p.made[h]}
      BY <1>1 DEF Sound
    <3>. QED BY <3>1, <1>3, <1>6
  <2>. QED BY <2>1, <2>2, <1>2, <1>3 DEF Sound, e
<1>15. Inv(q, o, w, b)
  BY <1>1, <1>9, <1>10, <1>11, <1>12, <1>13, <1>14 DEF Inv, e
<1>. QED BY <1>15 DEF q

\* q is p with one new entry behind the others for each id of K.
Grown(p, q, K) ==
    /\ q \in Register
    /\ \A k \in Keys : /\ q.made[k] = p.made[k] + (IF k \in K THEN 1 ELSE 0)
                       /\ q.shown[k] = IF k \in K THEN q.made[k] ELSE p.shown[k]
    /\ Len(p.ctrls) <= Len(q.ctrls)
    /\ \A n \in 1..Len(p.ctrls) : q.ctrls[n] = p.ctrls[n]
    /\ \A n \in Len(p.ctrls) + 1..Len(q.ctrls) :
          q.ctrls[n].key \in K /\ q.ctrls[n].obj = q.made[q.ctrls[n].key]
    /\ \A k \in K : \E n \in Len(p.ctrls) + 1..Len(q.ctrls) : q.ctrls[n].key = k
    /\ \A m, n \in Len(p.ctrls) + 1..Len(q.ctrls) : q.ctrls[m].key = q.ctrls[n].key => m = n

\* Scripts that name each id once let the register grow.
LEMMA PutAllGrown ==
    ASSUME NEW p \in Register, NEW ks \in Seq(Keys), IsInjective(ks)
    PROVE  Grown(p, PutAll(p, ks), Range(ks))
<1>. DEFINE q == PutAll(p, ks)
            L == Len(p.ctrls)
<1>1. /\ q \in Register
      /\ \A k \in Keys :
            /\ q.made[k] = p.made[k] + (IF k \in Range(ks) THEN 1 ELSE 0)
            /\ q.shown[k] = IF k \in Range(ks) THEN q.made[k] ELSE p.shown[k]
      /\ Len(q.ctrls) = L + Len(ks)
      /\ \A i \in 1..L : q.ctrls[i] = p.ctrls[i]
      /\ \A i \in 1..Len(ks) : q.ctrls[L + i].key = ks[i]
      /\ \A i \in 1..Len(ks) : q.ctrls[L + i].obj = q.made[ks[i]]
  BY PutAllShape
<1>2. L \in Nat /\ Len(ks) \in Nat /\ DOMAIN ks = 1..Len(ks)
  BY EntryFacts
<1>. HIDE DEF q, L
<1>3. ASSUME NEW n \in L + 1..Len(q.ctrls)
      PROVE  /\ n - L \in DOMAIN ks /\ q.ctrls[n].key = ks[n - L]
             /\ q.ctrls[n].obj = q.made[ks[n - L]]
  <2>1. n - L \in 1..Len(ks) /\ L + (n - L) = n
    BY <1>1, <1>2
  <2>. QED BY <2>1, <1>1, <1>2
<1>4. \A n \in L + 1..Len(q.ctrls) : q.ctrls[n].key \in Range(ks)
                                     /\ q.ctrls[n].obj = q.made[q.ctrls[n].key]
  BY <1>3 DEF Range
<1>5. ASSUME NEW k \in Range(ks)
      PROVE  \E n \in L + 1..Len(q.ctrls) : q.ctrls[n].key = k
  <2>1. PICK i \in 1..Len(ks) : ks[i] = k
    BY <1>2 DEF Range
  <2>2. L + i \in L + 1..Len(q.ctrls)
    BY <1>1, <1>2
  <2>. QED BY <2>1, <2>2, <1>1
<1>6. ASSUME NEW m \in L + 1..Len(q.ctrls), NEW n \in L + 1..Len(q.ctrls),
             q.ctrls[m].key = q.ctrls[n].key
      PROVE  m = n
  <2>1. ks[m - L] = ks[n - L] /\ m - L \in DOMAIN ks /\ n - L \in DOMAIN ks
    BY <1>3, <1>6
  <2>2. m - L = n - L
    BY <2>1 DEF IsInjective
  <2>. QED BY <2>2, <1>2
<1>7. L <= Len(q.ctrls)
  BY <1>1, <1>2
<1>8. Grown(p, q, Range(ks))
  BY <1>1, <1>4, <1>5, <1>6, <1>7 DEF Grown, L
<1>. QED BY <1>8 DEF q

\* So does a dialog, with its content.
LEMMA PutDialogGrown ==
    ASSUME NEW p \in Register, NEW d \in Dialogs
    PROVE  Grown(p, PutDialog(p, d), {d} \cup Range(Content[d]))
<1>. DEFINE q   == PutDialog(p, d)
            L   == Len(p.ctrls)
            ks  == Content[d]
            new == {d} \cup Range(ks)
<1>1. /\ q \in Register
      /\ \A k \in Keys :
            /\ q.made[k] = p.made[k] + (IF k \in new THEN 1 ELSE 0)
            /\ q.shown[k] = IF k \in new THEN q.made[k] ELSE p.shown[k]
      /\ Len(q.ctrls) = L + 1 + Len(ks)
      /\ \A i \in 1..L : q.ctrls[i] = p.ctrls[i]
      /\ q.ctrls[L + 1].key = d /\ q.ctrls[L + 1].obj = q.made[d]
      /\ \A i \in 1..Len(ks) :
            /\ q.ctrls[L + 1 + i].key = ks[i]
            /\ q.ctrls[L + 1 + i].obj = q.made[ks[i]]
  BY PutDialogShape
<1>2. /\ ks \in Seq(Keys) /\ IsInjective(ks) /\ d \notin Range(ks)
  BY ContentFacts DEF Places
<1>3. L \in Nat /\ Len(ks) \in Nat /\ DOMAIN ks = 1..Len(ks)
  BY <1>2, EntryFacts
<1>. HIDE DEF q, L, ks
<1>4. ASSUME NEW n \in L + 1..Len(q.ctrls), n # L + 1
      PROVE  /\ n - (L + 1) \in DOMAIN ks /\ q.ctrls[n].key = ks[n - (L + 1)]
             /\ q.ctrls[n].obj = q.made[ks[n - (L + 1)]]
  <2>1. Len(q.ctrls) = L + 1 + Len(ks)
    BY <1>1
  <2>2. n - (L + 1) \in 1..Len(ks) /\ L + 1 + (n - (L + 1)) = n
    BY <2>1, <1>3, <1>4
  <2>. QED BY <2>2, <1>1, <1>3
<1>5. \A n \in L + 1..Len(q.ctrls) : q.ctrls[n].key \in new
                                     /\ q.ctrls[n].obj = q.made[q.ctrls[n].key]
  <2>. SUFFICES ASSUME NEW n \in L + 1..Len(q.ctrls)
                PROVE  q.ctrls[n].key \in new /\ q.ctrls[n].obj = q.made[q.ctrls[n].key]
    OBVIOUS
  <2>1. CASE n = L + 1
    BY <2>1, <1>1
  <2>2. CASE n # L + 1
    <3>1. n - (L + 1) \in DOMAIN ks
      BY <2>2, <1>4
    <3>2. ks[n - (L + 1)] \in Range(ks)
      BY <3>1 DEF Range
    <3>. QED BY <2>2, <3>2, <1>4
  <2>. QED BY <2>1, <2>2
<1>6. ASSUME NEW k \in new
      PROVE  \E n \in L + 1..Len(q.ctrls) : q.ctrls[n].key = k
  <2>1. CASE k = d
    <3>1. L + 1 \in L + 1..Len(q.ctrls)
      BY <1>1, <1>3
    <3>. QED BY <2>1, <3>1, <1>1
  <2>2. CASE k \in Range(ks)
    <3>1. PICK i \in 1..Len(ks) : ks[i] = k
      BY <2>2, <1>3 DEF Range
    <3>2. L + 1 + i \in L + 1..Len(q.ctrls)
      BY <1>1, <1>3
    <3>. QED BY <3>1, <3>2, <1>1
  <2>. QED BY <2>1, <2>2
<1>7. ASSUME NEW m \in L + 1..Len(q.ctrls), NEW n \in L + 1..Len(q.ctrls),
             q.ctrls[m].key = q.ctrls[n].key
      PROVE  m = n
  <2>1. \A l \in L + 1..Len(q.ctrls) : l # L + 1 => q.ctrls[l].key # d
    <3>. SUFFICES ASSUME NEW l \in L + 1..Len(q.ctrls), l # L + 1 PROVE q.ctrls[l].key # d
      OBVIOUS
    <3>1. l - (L + 1) \in DOMAIN ks /\ q.ctrls[l].key = ks[l - (L + 1)]
      BY <1>4
    <3>2. ks[l - (L + 1)] \in Range(ks)
      BY <3>1 DEF Range
    <3>. QED BY <3>1, <3>2, <1>2
  <2>2. CASE m = L + 1 \/ n = L + 1
    BY <2>1, <2>2, <1>1, <1>7
  <2>3. CASE m # L + 1 /\ n # L + 1
    <3>1. m - (L + 1) = n - (L + 1)
      BY <2>3, <1>2, <1>4, <1>7 DEF IsInjective
    <3>. QED BY <3>1, <1>3
  <2>. QED BY <2>2, <2>3
<1>8. L <= Len(q.ctrls)
  BY <1>1, <1>3
<1>. HIDE DEF new
<1>9. Grown(p, q, new)
  BY <1>1, <1>5, <1>6, <1>7, <1>8 DEF Grown, L
<1>. QED BY <1>9 DEF q, new, ks

\* What is new in q has no other entry, or may be loaded twice, and stands at home, or
\* may be behind a dialog.
Fits(p, q, K, w, b) ==
    /\ \A k \in K : p.made[k] < MaxMade
    /\ \A k \in K : Has(p.ctrls, k) => k \in w \cup b
    /\ \A n \in Len(p.ctrls) + 1..Len(q.ctrls) : \A a \in Places :
          q.ctrls[n].key \in Within(a) \ b => StandsIn(q.ctrls, n, a)

\* A register that has grown by what fits is right.
LEMMA GrownInv ==
    ASSUME NEW p, NEW o, NEW w, NEW b, Inv(p, o, w, b),
           NEW q, NEW K \in SUBSET Keys, Grown(p, q, K),
           NEW o1 \in Seq(Dialogs), IsInjective(o1), Stacked(q.ctrls, o1),
           q.dialogList = o1, q.dialogCount = Len(o1),
           NEW w1, w \subseteq w1, w1 \subseteq Inner,
           NEW b1, b \subseteq b1, b1 \subseteq Inner,
           Fits(p, q, K, w1, b1)
    PROVE  Inv(q, o1, w1, b1)
<1>. DEFINE c == p.ctrls
            e == q.ctrls
            L == Len(c)
            New == L + 1..Len(e)
<1>1. Sound(p, o) /\ AtHome(c, b) /\ Single(c) /\ Told(p, w, b) /\ Reached(p, b)
  BY DEF Inv
<1>2. p \in Register
  BY <1>1 DEF Sound
<1>3. /\ q \in Register
      /\ \A k \in Keys : /\ q.made[k] = p.made[k] + (IF k \in K THEN 1 ELSE 0)
                         /\ q.shown[k] = IF k \in K THEN q.made[k] ELSE p.shown[k]
      /\ L <= Len(e)
      /\ \A n \in 1..L : e[n] = c[n]
      /\ \A n \in New : e[n].key \in K /\ e[n].obj = q.made[e[n].key]
      /\ \A k \in K : \E n \in New : e[n].key = k
      /\ \A m, n \in New : e[m].key = e[n].key => m = n
  BY DEF Grown
<1>4. /\ c \in Seq(Entry) /\ e \in Seq(Entry) /\ L \in Nat /\ Len(e) \in Nat
      /\ DOMAIN c = 1..L /\ DOMAIN e = 1..Len(e)
      /\ \A n \in DOMAIN c : c[n].key \in Keys
  BY <1>2, <1>3, EntryFacts
<1>. HIDE DEF c, e, L
<1>5. \A n \in DOMAIN e : n \in DOMAIN c \/ n \in New
  BY <1>4
<1>6. \A n \in DOMAIN c : n \in DOMAIN e
  BY <1>3, <1>4
<1>7. \A n \in New : n \in DOMAIN e
  BY <1>3, <1>4
<1>8. ASSUME NEW k \in Keys, k \in K => ~Has(c, k)
      PROVE  Once(c, k) => Once(e, k)
  <2>. SUFFICES ASSUME Once(c, k), NEW m \in DOMAIN e, NEW n \in DOMAIN e, e[m].key = k, e[n].key = k
                PROVE  m = n
    BY DEF Once
  <2>1. CASE k \in K
    <3>1. m \in New /\ n \in New
      BY <2>1, <1>3, <1>4, <1>5, <1>8 DEF Has
    <3>. QED BY <3>1, <1>3
  <2>2. CASE k \notin K
    <3>1. m \in DOMAIN c /\ n \in DOMAIN c
      BY <2>2, <1>3, <1>5
    <3>. QED BY <3>1, <1>3, <1>4 DEF Once
  <2>. QED BY <2>1, <2>2
<1>9. AtHome(e, b1)
  <2>. SUFFICES ASSUME NEW n \in DOMAIN e, NEW a \in Places, e[n].key \in Within(a) \ b1
                PROVE  StandsIn(e, n, a)
    BY DEF AtHome
  <2>1. CASE n \in DOMAIN c
    <3>1. StandsIn(c, n, a)
      BY <2>1, <1>1, <1>3, <1>4 DEF AtHome
    <3>2. \A j \in 1..n : e[j] = c[j]
      BY <2>1, <1>3, <1>4
    <3>3. \A j \in 1..n : \A m \in j + 1..n : m \in 1..n
      BY <1>4
    <3>. QED BY <3>1, <3>2, <3>3 DEF StandsIn
  <2>2. CASE n \in New
    BY <2>2 DEF Fits, e, L, c
  <2>. QED BY <2>1, <2>2, <1>5
<1>10. Single(e)
  <2>. SUFFICES ASSUME NEW k \in Keys \ Inner PROVE Once(e, k)
    BY DEF Single
  <2>1. k \in K => ~Has(c, k)
    BY DEF Fits, c
  <2>. QED BY <2>1, <1>1, <1>8 DEF Single
<1>11. Told(q, w1, b1)
  <2>. SUFFICES ASSUME NEW k \in Keys \ (w1 \cup b1)
                PROVE  /\ Once(e, k)
                       /\ \A n \in DOMAIN e : e[n].key = k => e[n].obj = q.shown[k]
    BY DEF Told, e
  <2>1. k \in K => ~Has(c, k)
    BY DEF Fits, c
  <2>2. Once(c, k) /\ \A n \in DOMAIN c : c[n].key = k => c[n].obj = p.shown[k]
    BY <1>1 DEF Told, c
  <2>3. ASSUME NEW n \in DOMAIN e, e[n].key = k
        PROVE  e[n].obj = q.shown[k]
    <3>1. CASE n \in New
      BY <2>3, <3>1, <1>3
    <3>2. CASE n \in DOMAIN c
      <4>1. c[n].key = k /\ e[n].obj = p.shown[k]
        BY <2>2, <2>3, <3>2, <1>3, <1>4
      <4>2. k \notin K
        BY <2>1, <3>2, <4>1 DEF Has
      <4>. QED BY <4>1, <4>2, <1>3
    <3>. QED BY <3>1, <3>2, <1>5
  <2>. QED BY <2>1, <2>2, <2>3, <1>8
<1>12. Reached(q, b1)
  <2>. SUFFICES ASSUME NEW k \in Keys \ b1, q.shown[k] # Null
                PROVE  Has(e, k)
    BY DEF Reached, e
  <2>1. CASE k \in K
    BY <2>1, <1>3, <1>7 DEF Has
  <2>2. CASE k \notin K
    <3>1. Has(c, k)
      BY <2>2, <1>1, <1>3 DEF Reached, c
    <3>. QED BY <3>1, <1>3, <1>4, <1>6 DEF Has
  <2>. QED BY <2>1, <2>2
<1>13. \A k \in Keys : p.made[k] \in Nat
  BY <1>2 DEF Register
<1>14. Sound(q, o1)
  <2>1. \A n \in DOMAIN e : e[n].obj <= q.made[e[n].key]
    <3>. SUFFICES ASSUME NEW n \in DOMAIN e PROVE e[n].obj <= q.made[e[n].key]
      OBVIOUS
    <3>1. CASE n \in New
      <4>1. e[n].key \in Keys
        BY <3>1, <1>3
      <4>2. q.made[e[n].key] \in Nat
        BY <4>1, <1>3 DEF Register
      <4>. QED BY <3>1, <4>2, <1>3
    <3>2. CASE n \in DOMAIN c
      <4>1. c[n].obj <= p.made[c[n].key] /\ c[n].key \in Keys
        BY <3>2, <1>1, <1>4 DEF Sound, c
      <4>2. c[n].obj \in Nat
        BY <3>2, <1>2, EntryFacts DEF c
      <4>3. p.made[c[n].key] \in Nat /\ p.made[c[n].key] <= q.made[c[n].key]
        BY <4>1, <1>3, <1>13
      <4>4. q.made[c[n].key] \in Nat
        BY <4>1, <1>3 DEF Register
      <4>5. e[n] = c[n]
        BY <3>2, <1>3, <1>4
      <4>. QED BY <4>1, <4>2, <4>3, <4>4, <4>5
    <3>. QED BY <3>1, <3>2, <1>5
  <2>2. \A k \in Keys : q.made[k] <= MaxMade /\ q.shown[k] \in {Null, q.made[k]}
    <3>. SUFFICES ASSUME NEW k \in Keys
                  PROVE  q.made[k] <= MaxMade /\ q.shown[k] \in {Null, q.made[k]}
      OBVIOUS
    <3>1. p.made[k] <= MaxMade /\ p.shown[k] \in {Null, p.made[k]}
      BY <1>1 DEF Sound
    <3>2. CASE k \in K
      <4>1. p.made[k] < MaxMade
        BY <3>2 DEF Fits
      <4>. QED BY <3>2, <4>1, <1>3, <1>13, ControlMgrAssumption
    <3>3. CASE k \notin K
      <4>1. q.made[k] = p.made[k]
        BY <3>3, <1>3, <1>13
      <4>. QED BY <3>1, <3>3, <4>1, <1>3
    <3>. QED BY <3>2, <3>3
  <2>. QED BY <2>1, <2>2, <1>3 DEF Sound, e
<1>. QED BY <1>9, <1>10, <1>11, <1>12, <1>14 DEF Inv, e

\* A dialog that is not open is opened.
LEMMA PutDialogInv ==
    ASSUME NEW p, NEW o, NEW w, NEW b, Inv(p, o, w, b), NEW d \in Dialogs, d \notin Range(o),
           \A k \in {d} \cup Range(Content[d]) : p.made[k] < MaxMade
    PROVE  Inv(PutDialog(p, d), Append(o, d), w, b)
<1>. DEFINE q  == PutDialog(p, d)
            K  == {d} \cup Range(Content[d])
            o1 == Append(o, d)
            c  == p.ctrls
            e  == q.ctrls
            L  == Len(c)
<1>1. Sound(p, o) /\ Stacked(c, o) /\ AtHome(c, b) /\ w \subseteq Inner /\ b \subseteq Inner
  BY DEF Inv
<1>2. /\ p \in Register /\ o \in Seq(Dialogs) /\ IsInjective(o)
      /\ p.dialogList = o /\ p.dialogCount = Len(o)
  BY <1>1 DEF Sound
<1>3. /\ Grown(p, q, K) /\ q.dialogCount = p.dialogCount + 1 /\ q.dialogList = Append(p.dialogList, d)
      /\ Len(e) = L + 1 + Len(Content[d])
      /\ e[L + 1].key = d
  <2>1. Grown(p, q, K)
    BY <1>2, PutDialogGrown
  <2>2. /\ q.dialogCount = p.dialogCount + 1 /\ q.dialogList = Append(p.dialogList, d)
        /\ Len(e) = L + 1 + Len(Content[d])
        /\ e[L + 1].key = d
    <3>1. p \in Register
      BY <1>2
    <3>2. /\ PutDialog(p, d).dialogCount = p.dialogCount + 1
          /\ PutDialog(p, d).dialogList = Append(p.dialogList, d)
      BY <3>1, PutDialogShape
    <3>3. Len(PutDialog(p, d).ctrls) = Len(p.ctrls) + 1 + Len(Content[d])
      BY <3>1, PutDialogShape
    <3>4. PutDialog(p, d).ctrls[Len(p.ctrls) + 1].key = d
      BY <3>1, PutDialogShape
    <3>. QED BY <3>2, <3>3, <3>4
  <2>. QED BY <2>1, <2>2
<1>4. /\ d \in Places /\ d # Page /\ K \subseteq Keys
      /\ Content[d] \in Seq(Keys) /\ Range(Content[d]) \subseteq Within(d)
      /\ Range(Content[d]) \subseteq Ids \ Inner /\ Range(Content[d]) \cap Dialogs = {}
  <2>1. d \in Places /\ d # Page /\ d \in Keys
    BY InnerFacts DEF Places, Keys
  <2>. QED BY <2>1, ContentFacts DEF Keys
<1>. HIDE DEF q
<1>5. /\ c \in Seq(Entry) /\ e \in Seq(Entry) /\ L \in Nat /\ Len(e) \in Nat
      /\ DOMAIN c = 1..L /\ DOMAIN e = 1..Len(e) /\ Len(Content[d]) \in Nat
      /\ q \in Register
  <2>1. q \in Register
    BY <1>3 DEF Grown
  <2>2. c \in Seq(Entry) /\ L \in Nat /\ DOMAIN c = 1..L
    BY <1>2, EntryFacts
  <2>3. e \in Seq(Entry) /\ Len(e) \in Nat /\ DOMAIN e = 1..Len(e)
    BY <2>1, EntryFacts
  <2>4. Len(Content[d]) \in Nat
    BY <1>4
  <2>. QED BY <2>1, <2>2, <2>3, <2>4
<1>6. /\ o1 \in Seq(Dialogs) /\ Len(o1) = Len(o) + 1 /\ DOMAIN o1 = 1..Len(o) + 1
      /\ \A n \in 1..Len(o) : o1[n] = o[n]
      /\ o1[Len(o) + 1] = d
      /\ Len(o) \in Nat /\ DOMAIN o = 1..Len(o)
  BY <1>2, AppendProperties
<1>7. /\ \A n \in 1..L : e[n] = c[n]
      /\ \A n \in L + 1..Len(e) : e[n].key \in K
      /\ \A m, n \in L + 1..Len(e) : e[m].key = e[n].key => m = n
  BY <1>3 DEF Grown
<1>. HIDE DEF c, e, L, o1
<1>8. \A n \in DOMAIN o : o[n] # d
  BY DEF Range
<1>9. IsInjective(o1)
  <2>. SUFFICES ASSUME NEW m \in DOMAIN o1, NEW n \in DOMAIN o1, o1[m] = o1[n]
                PROVE  m = n
    BY DEF IsInjective
  <2>1. m \in DOMAIN o \/ m = Len(o) + 1
    BY <1>6
  <2>2. n \in DOMAIN o \/ n = Len(o) + 1
    BY <1>6
  <2>3. CASE m \in DOMAIN o /\ n \in DOMAIN o
    BY <2>3, <1>2, <1>6 DEF IsInjective
  <2>4. CASE ~(m \in DOMAIN o /\ n \in DOMAIN o)
    BY <2>1, <2>2, <2>4, <1>6, <1>8
  <2>. QED BY <2>3, <2>4
<1>10. ~Has(c, d)
  BY <1>1 DEF Stacked
<1>11. L + 1 <= Len(e) /\ L < Len(e)
  <2>1. PICK z \in Nat : Len(e) = L + 1 + z
    BY <1>3, <1>5
  <2>2. L \in Nat
    BY <1>5
  <2>. QED BY <2>1, <2>2
<1>12. L + 1 \in L + 1..Len(e) /\ L + 1 \in DOMAIN e
  BY <1>5, <1>11
<1>13. \A n \in DOMAIN e : n \in DOMAIN c \/ n \in L + 1..Len(e)
  BY <1>5
<1>14. \A n \in L + 1..Len(e) : e[n].key \in Dialogs => n = L + 1
  <2>. SUFFICES ASSUME NEW n \in L + 1..Len(e), e[n].key \in Dialogs PROVE n = L + 1
    OBVIOUS
  <2>1. e[n].key = d
    BY <1>4, <1>7
  <2>. QED BY <2>1, <1>3, <1>7, <1>12
<1>15. \A n \in DOMAIN c : n \in DOMAIN e /\ e[n] = c[n]
  BY <1>5, <1>7, <1>11
<1>16. ASSUME NEW a \in Dialogs PROVE Has(e, a) <=> a \in Range(o1)
  <2>1. CASE a = d
    <3>1. Has(e, d)
      BY <1>3, <1>12 DEF Has
    <3>2. Len(o) + 1 \in DOMAIN o1
      BY <1>6
    <3>. QED BY <2>1, <3>1, <3>2, <1>6 DEF Range
  <2>2. CASE a # d
    <3>1. Has(e, a) <=> Has(c, a)
      <4>1. ASSUME NEW n \in DOMAIN e, e[n].key = a PROVE n \in DOMAIN c
        BY <4>1, <2>2, <1>3, <1>13, <1>14
      <4>. QED BY <4>1, <1>15 DEF Has
    <3>2. a \in Range(o1) <=> a \in Range(o)
      <4>1. ASSUME NEW n \in DOMAIN o1, o1[n] = a PROVE n \in DOMAIN o
        BY <4>1, <2>2, <1>6
      <4>2. \A n \in DOMAIN o : n \in DOMAIN o1 /\ o1[n] = o[n]
        BY <1>6
      <4>. QED BY <4>1, <4>2 DEF Range
    <3>. QED BY <3>1, <3>2, <1>1 DEF Stacked
  <2>. QED BY <2>1, <2>2
<1>17. ASSUME NEW i \in DOMAIN e, NEW m \in DOMAIN o1, e[i].key = o1[m]
       PROVE  \/ i \in DOMAIN c /\ m \in DOMAIN o /\ c[i].key = o[m]
              \/ i = L + 1 /\ m = Len(o) + 1
  <2>1. o1[m] \in Dialogs
    BY <1>6
  <2>2. CASE i \in DOMAIN c
    <3>1. c[i].key # d
      BY <2>2, <1>10 DEF Has
    <3>2. m # Len(o) + 1
      BY <3>1, <2>2, <1>6, <1>15, <1>17
    <3>3. m \in DOMAIN o
      BY <3>2, <1>6
    <3>. QED BY <3>3, <2>2, <1>6, <1>15, <1>17
  <2>3. CASE i \in L + 1..Len(e)
    <3>1. i = L + 1
      BY <2>1, <2>3, <1>14, <1>17
    <3>2. m \notin DOMAIN o
      BY <3>1, <1>3, <1>6, <1>8, <1>17
    <3>. QED BY <3>1, <3>2, <1>6
  <2>. QED BY <2>2, <2>3, <1>13
<1>18. ASSUME NEW i \in DOMAIN e, NEW j \in DOMAIN e, NEW m \in DOMAIN o1, NEW n \in DOMAIN o1,
              e[i].key = o1[m], e[j].key = o1[n]
       PROVE  i < j <=> m < n
  <2>1. \/ i \in DOMAIN c /\ m \in DOMAIN o /\ c[i].key = o[m]
        \/ i = L + 1 /\ m = Len(o) + 1
    BY <1>17, <1>18
  <2>2. \/ j \in DOMAIN c /\ n \in DOMAIN o /\ c[j].key = o[n]
        \/ j = L + 1 /\ n = Len(o) + 1
    BY <1>17, <1>18
  <2>3. CASE i \in DOMAIN c /\ m \in DOMAIN o /\ c[i].key = o[m]
    <3>1. CASE j \in DOMAIN c /\ n \in DOMAIN o /\ c[j].key = o[n]
      BY <2>3, <3>1, <1>1 DEF Stacked
    <3>2. CASE j = L + 1 /\ n = Len(o) + 1
      BY <2>3, <3>2, <1>5, <1>6
    <3>. QED BY <3>1, <3>2, <2>2
  <2>4. CASE i = L + 1 /\ m = Len(o) + 1
    <3>1. CASE j \in DOMAIN c /\ n \in DOMAIN o /\ c[j].key = o[n]
      BY <2>4, <3>1, <1>5, <1>6
    <3>2. CASE j = L + 1 /\ n = Len(o) + 1
      BY <2>4, <3>2, <1>5, <1>6
    <3>. QED BY <3>1, <3>2, <2>2
  <2>. QED BY <2>1, <2>3, <2>4
<1>19. Stacked(e, o1)
  BY <1>16, <1>18 DEF Stacked
<1>20. ASSUME NEW k \in K PROVE ~Has(c, k)
  <2>1. CASE k = d
    BY <2>1, <1>10
  <2>2. CASE k \in Range(Content[d])
    <3>. SUFFICES ASSUME NEW i \in DOMAIN c, c[i].key = k PROVE FALSE
      BY DEF Has
    <3>1. c[i].key \in Within(d) \ b
      BY <2>2, <1>1, <1>4
    <3>2. StandsIn(c, i, d)
      BY <3>1, <1>1, <1>4 DEF AtHome
    <3>3. PICK j \in 1..i : c[j].key = d
      BY <3>2, <1>4 DEF StandsIn
    <3>. QED BY <3>3, <1>5, <1>10 DEF Has
  <2>. QED BY <2>1, <2>2
<1>21. ASSUME NEW n \in L + 1..Len(e), NEW a \in Places, e[n].key \in Within(a) \ b
       PROVE  StandsIn(e, n, a)
  <2>1. e[n].key # d
    <3>1. Within(a) \subseteq Ids /\ d \notin Ids
      BY InnerFacts, ControlMgrAssumption
    <3>. QED BY <3>1, <1>21
  <2>2. e[n].key \in Within(d)
    BY <2>1, <1>4, <1>7
  <2>3. a = d
    BY <2>2, <1>4, <1>21, OnePlace
  <2>4. L + 1 \in 1..n /\ \A m \in L + 1 + 1..n : m \in L + 1..Len(e) /\ m # L + 1
    BY <1>5
  <2>5. \A m \in L + 1 + 1..n : e[m].key \notin Dialogs
    BY <2>4, <1>14
  <2>. QED BY <2>3, <2>4, <2>5, <1>3, <1>4 DEF StandsIn
<1>22. q.dialogList = o1 /\ q.dialogCount = Len(o1)
  BY <1>2, <1>3, <1>6 DEF o1
<1>23. \A k \in K : Has(p.ctrls, k) => k \in w \cup b
  BY <1>20 DEF c
<1>24. \A n \in Len(p.ctrls) + 1..Len(q.ctrls) : \A a \in Places :
          q.ctrls[n].key \in Within(a) \ b => StandsIn(q.ctrls, n, a)
  BY <1>21 DEF c, e, L
<1>25. Stacked(q.ctrls, o1)
  BY <1>19 DEF e
<1>26. \A k \in K : p.made[k] < MaxMade
  OBVIOUS
<1>. HIDE DEF K
<1>27. Fits(p, q, K, w, b)
  BY <1>23, <1>24, <1>26 DEF Fits
<1>28. Inv(q, o1, w, b)
  BY <1>1, <1>3, <1>4, <1>6, <1>9, <1>22, <1>25, <1>27, GrownInv
<1>. QED BY <1>28 DEF q, o1

\* Nothing is on a page whose scripts have not begun.
LEMMA BlankInv == Inv(Blank, <<>>, {}, {})
<1>1. /\ Blank.ctrls = <<>> /\ Blank.dialogList = <<>> /\ Blank.dialogCount = 0
      /\ \A k \in Keys : Blank.shown[k] = Null /\ Blank.made[k] = 0
  BY DEF Blank
<1>2. Blank \in Register
  <2>1. <<>> \in Seq(Entry) /\ <<>> \in Seq(Dialogs)
    OBVIOUS
  <2>2. [k \in Keys |-> Null] \in [Keys -> Nat] /\ [k \in Keys |-> 0] \in [Keys -> Nat]
    BY DEF Null
  <2>. QED BY <2>1, <2>2 DEF Blank, Register
<1>3. DOMAIN <<>> = {} /\ Len(<<>>) = 0
  OBVIOUS
<1>4. Sound(Blank, <<>>)
  BY <1>1, <1>2, <1>3, ControlMgrAssumption DEF Sound, IsInjective
<1>5. Stacked(<<>>, <<>>) /\ AtHome(<<>>, {}) /\ Single(<<>>)
  BY <1>3 DEF Stacked, AtHome, Single, Has, Once, Range
<1>6. Told(Blank, {}, {}) /\ Reached(Blank, {})
  BY <1>1, <1>3 DEF Told, Reached, Once
<1>. QED BY <1>1, <1>4, <1>5, <1>6 DEF Inv

\* A page without dialogs is right when its scripts have run.
LEMMA PageInv ==
    /\ Inv(PutAll(Blank, Content[Page]), <<>>, {}, {})
    /\ \A k \in Keys : k \notin Range(Content[Page]) => PutAll(Blank, Content[Page]).made[k] = 0
<1>. DEFINE q == PutAll(Blank, Content[Page])
            K == Range(Content[Page])
            e == q.ctrls
<1>1. Page \in Places /\ Page \notin Dialogs
  BY ControlMgrAssumption DEF Places
<1>2. /\ Content[Page] \in Seq(Keys) /\ IsInjective(Content[Page])
      /\ K \subseteq Within(Page) /\ K \cap Dialogs = {} /\ K \subseteq Keys
  BY <1>1, ContentFacts DEF Keys
<1>3. Blank \in Register
  BY BlankInv DEF Inv, Sound
<1>4. /\ Blank.ctrls = <<>> /\ Blank.dialogList = <<>> /\ Blank.dialogCount = 0
      /\ \A k \in Keys : Blank.made[k] = 0
      /\ Len(<<>>) = 0 /\ DOMAIN <<>> = {}
  BY DEF Blank
<1>5. Grown(Blank, q, K)
  BY <1>2, <1>3, PutAllGrown
<1>6. q.dialogList = <<>> /\ q.dialogCount = 0
  <2>1. q.dialogList = Blank.dialogList /\ q.dialogCount = Blank.dialogCount
    BY <1>2, <1>3, PutAllShape
  <2>. QED BY <2>1, <1>4
<1>. HIDE DEF q
<1>7. e \in Seq(Entry) /\ Len(e) \in Nat /\ DOMAIN e = 1..Len(e) /\ q \in Register
  <2>1. q \in Register
    BY <1>5 DEF Grown
  <2>. QED BY <2>1, EntryFacts
<1>8. \A n \in DOMAIN e : e[n].key \in K
  <2>1. \A n \in Len(Blank.ctrls) + 1..Len(e) : e[n].key \in K
    BY <1>5 DEF Grown
  <2>. QED BY <2>1, <1>4, <1>7
<1>. HIDE DEF e
<1>9. Stacked(e, <<>>)
  BY <1>2, <1>4, <1>8 DEF Stacked, Has, Range
<1>10. ASSUME NEW n \in DOMAIN e, NEW a \in Places, e[n].key \in Within(a)
       PROVE  StandsIn(e, n, a)
  <2>1. a = Page
    BY <1>1, <1>2, <1>8, <1>10, OnePlace
  <2>2. \A j \in 1..n : j \in DOMAIN e
    BY <1>7
  <2>3. \A j \in 1..n : e[j].key \notin Dialogs
    BY <2>2, <1>2, <1>8
  <2>. QED BY <2>1, <2>3 DEF StandsIn
<1>11. \A n \in Len(Blank.ctrls) + 1..Len(q.ctrls) : \A a \in Places :
          q.ctrls[n].key \in Within(a) \ {} => StandsIn(q.ctrls, n, a)
  BY <1>4, <1>7, <1>10 DEF e
<1>12. \A k \in K : Blank.made[k] < MaxMade
  BY <1>2, <1>4, ControlMgrAssumption
<1>13. \A k \in K : Has(Blank.ctrls, k) => k \in {} \cup {}
  BY <1>4 DEF Has
<1>14. \A k \in Keys : k \notin K => q.made[k] = 0
  BY <1>4, <1>5 DEF Grown
<1>15. <<>> \in Seq(Dialogs) /\ IsInjective(<<>>) /\ Stacked(q.ctrls, <<>>)
  BY <1>4, <1>9 DEF e, IsInjective
<1>. HIDE DEF K
<1>16. PICK o \in Seq(Dialogs) : o = <<>>
  BY <1>15
<1>17. PICK w \in SUBSET Inner : w = {}
  OBVIOUS
<1>18. Inv(Blank, o, w, w)
  BY <1>16, <1>17, BlankInv
<1>19. /\ IsInjective(o) /\ Stacked(q.ctrls, o) /\ q.dialogList = o /\ q.dialogCount = Len(o)
  BY <1>4, <1>6, <1>15, <1>16
<1>20. Inv(q, o, w, w)
  <2>1. K \in SUBSET Keys
    BY <1>2
  <2>2. \A k \in K : Has(Blank.ctrls, k) => k \in w \cup w
    BY <1>13
  <2>3. \A n \in Len(Blank.ctrls) + 1..Len(q.ctrls) : \A a \in Places :
           q.ctrls[n].key \in Within(a) \ w => StandsIn(q.ctrls, n, a)
    BY <1>11, <1>17
  <2>4. Fits(Blank, q, K, w, w)
    BY <2>2, <2>3, <1>12 DEF Fits
  <2>. QED BY <2>1, <2>4, <1>5, <1>18, <1>19, GrownInv
<1>. QED BY <1>14, <1>16, <1>17, <1>20 DEF q, K

\* A panel is loaded.  Its controls stand at home unless a dialog is open over their
\* place; then their ids are in behind.
LEMMA LoadPanelInv ==
    ASSUME ControlInv, NEW g \in Groups, Has(mgr.ctrls, g),
           \A k \in Range(Panel[g]) : mgr.made[k] < MaxMade
    PROVE  Inv(PutAll(mgr, Panel[g]), open,
               worn \cup {k \in Range(Panel[g]) : Get(mgr, k) # Null},
               behind \cup (IF Over(g) = {} THEN {} ELSE Range(Panel[g])))
<1>. DEFINE q  == PutAll(mgr, Panel[g])
            K  == Range(Panel[g])
            w1 == worn \cup {k \in K : Get(mgr, k) # Null}
            b1 == behind \cup (IF Over(g) = {} THEN {} ELSE K)
            c  == mgr.ctrls
            e  == q.ctrls
            L  == Len(c)
<1>1. /\ Sound(mgr, open) /\ Stacked(c, open) /\ AtHome(c, behind)
      /\ worn \subseteq Inner /\ behind \subseteq Inner
  BY DEF ControlInv, Inv
<1>2. /\ mgr \in Register /\ open \in Seq(Dialogs) /\ IsInjective(open)
      /\ mgr.dialogList = open /\ mgr.dialogCount = Len(open)
  BY <1>1 DEF Sound
<1>3. /\ Panel[g] \in Seq(Keys) /\ IsInjective(Panel[g]) /\ K \subseteq Inner /\ K \cap Dialogs = {}
      /\ g \in Keys \ Inner /\ g \notin Dialogs
      /\ \A a \in Places : g \in Range(Content[a]) => K \subseteq Within(a)
  BY PanelFacts
<1>4. Grown(mgr, q, K)
  BY <1>2, <1>3, PutAllGrown
<1>5. q.dialogList = open /\ q.dialogCount = Len(open)
  <2>1. q.dialogList = mgr.dialogList /\ q.dialogCount = mgr.dialogCount
    BY <1>2, <1>3, PutAllShape
  <2>. QED BY <2>1, <1>2
<1>. HIDE DEF q
<1>6. /\ c \in Seq(Entry) /\ L \in Nat /\ DOMAIN c = 1..L /\ q \in Register
      /\ e \in Seq(Entry) /\ Len(e) \in Nat /\ DOMAIN e = 1..Len(e)
  <2>1. q \in Register
    BY <1>4 DEF Grown
  <2>. QED BY <2>1, <1>2, EntryFacts
<1>7. /\ L <= Len(e) /\ \A n \in 1..L : e[n] = c[n]
      /\ \A n \in L + 1..Len(e) : e[n].key \in K
  BY <1>4 DEF Grown
<1>. HIDE DEF c, e, L
<1>8. /\ \A n \in DOMAIN e : e[n].key \in Dialogs => n \in DOMAIN c
      /\ \A n \in DOMAIN c : n \in DOMAIN e /\ e[n] = c[n]
  <2>1. \A n \in DOMAIN e : n \in DOMAIN c \/ n \in L + 1..Len(e)
    BY <1>6
  <2>. QED BY <2>1, <1>3, <1>6, <1>7
<1>9. Stacked(e, open)
  <2>1. \A d \in Dialogs : Has(e, d) <=> Has(c, d)
    BY <1>8 DEF Has
  <2>2. ASSUME NEW i \in DOMAIN e, NEW j \in DOMAIN e, NEW m \in DOMAIN open, NEW n \in DOMAIN open,
               e[i].key = open[m], e[j].key = open[n]
        PROVE  i < j <=> m < n
    <3>1. open[m] \in Dialogs /\ open[n] \in Dialogs
      BY <1>2
    <3>2. i \in DOMAIN c /\ j \in DOMAIN c /\ c[i].key = open[m] /\ c[j].key = open[n]
      BY <3>1, <2>2, <1>8
    <3>. QED BY <3>2, <1>1 DEF Stacked
  <2>. QED BY <2>1, <2>2, <1>1 DEF Stacked
<1>10. \A k \in K : Has(c, k) => k \in w1 \cup b1
  BY <1>2, GetIs DEF c
<1>11. ASSUME NEW n \in L + 1..Len(e), NEW a \in Places, e[n].key \in Within(a) \ b1
       PROVE  StandsIn(e, n, a)
  <2>1. Over(g) = {}
    BY <1>7, <1>11
  <2>2. PICK h \in Places : g \in Range(Content[h])
    BY ControlMgrAssumption
  <2>3. a = h
    BY <2>2, <1>3, <1>7, <1>11, OnePlace
  <2>4. \A j \in 1..n : j \in DOMAIN e
    BY <1>6
  <2>5. CASE a = Page
    <3>1. Range(open) = {}
      BY <2>1, <2>2, <2>3, <2>5 DEF Over
    <3>2. \A j \in DOMAIN c : c[j].key \notin Dialogs
      BY <3>1, <1>1 DEF Stacked, Has
    <3>. QED BY <3>2, <2>4, <2>5, <1>8 DEF StandsIn
  <2>6. CASE a # Page
    <3>1. a \in Dialogs /\ g \in Range(Content[a])
      BY <2>2, <2>3, <2>6 DEF Places
    <3>2. g \notin Range(Content[Page])
      BY <2>6, <3>1, OnePlace, ContentFacts DEF Places
    <3>3. \A d \in Dialogs : g \in Range(Content[d]) => d = a
      BY <3>1, OnePlace, ContentFacts DEF Places
    <3>. DEFINE I == {m \in 1..Len(open) : g \in Range(Content[open[m]])}
                i == SelectInSeq(open, LAMBDA d : g \in Range(Content[d]))
    <3>4. i = IF I # {} THEN Min(I) ELSE 0
      BY DEF SelectInSeq
    <3>5. PICK i0 \in DOMAIN c : c[i0].key = g
      BY DEF Has, c
    <3>6. StandsIn(c, i0, a)
      <4>1. g \in Within(a) \ behind
        BY <3>1, <1>1, <1>3, ContentFacts
      <4>. QED BY <4>1, <3>5, <1>1 DEF AtHome
    <3>7. PICK j0 \in DOMAIN c : c[j0].key = a
      BY <3>6, <2>6, <1>6 DEF StandsIn
    <3>8. PICK h0 \in DOMAIN open : open[h0] = a
      BY <3>1, <3>7, <1>1 DEF Stacked, Has, Range
    <3>9. Len(open) \in Nat /\ DOMAIN open = 1..Len(open)
      BY <1>2
    <3>10. h0 \in I
      BY <3>1, <3>8, <3>9
    <3>11. I \in SUBSET Nat
      BY <3>9
    <3>12. i \in I
      BY <3>4, <3>10, <3>11, Smallest
    <3>13. i \in 1..Len(open) /\ open[i] = a
      <4>1. i \in 1..Len(open) /\ g \in Range(Content[open[i]])
        BY <3>12
      <4>. QED BY <4>1, <3>3, <3>9, <1>2
    <3>14. {open[j] : j \in i + 1..Len(open)} = {}
      BY <2>1, <3>2 DEF Over
    <3>. HIDE DEF i, I
    <3>15. i = Len(open)
      <4>1. PICK z \in Nat : z = Len(open) /\ i \in 1..z
        BY <3>9, <3>13
      <4>2. i + 1 \notin i + 1..z
        BY <3>14, <4>1
      <4>3. i = z
        BY <4>1, <4>2
      <4>. QED BY <4>1, <4>3
    <3>16. ASSUME NEW m \in DOMAIN c, j0 < m PROVE c[m].key \notin Dialogs
      <4>. SUFFICES ASSUME c[m].key \in Dialogs PROVE FALSE
        OBVIOUS
      <4>1. PICK k \in DOMAIN open : open[k] = c[m].key
        BY <1>1 DEF Stacked, Has, Range
      <4>2. i < k
        BY <4>1, <3>7, <3>9, <3>13, <3>16, <1>1 DEF Stacked
      <4>. QED BY <4>1, <4>2, <3>9, <3>15
    <3>17. j0 \in 1..n
      BY <3>7, <1>6
    <3>18. ASSUME NEW m \in j0 + 1..n PROVE e[m].key \notin Dialogs
      <4>1. m \in DOMAIN e /\ j0 < m
        BY <3>17, <1>6
      <4>. QED BY <4>1, <3>16, <1>8
    <3>. QED BY <3>7, <3>17, <3>18, <2>6, <1>8 DEF StandsIn
  <2>. QED BY <2>5, <2>6
<1>12. w1 \subseteq Inner /\ b1 \subseteq Inner /\ worn \subseteq w1 /\ behind \subseteq b1
  BY <1>1, <1>3
<1>13. K \in SUBSET Keys
  BY <1>3, InnerFacts
<1>14. \A k \in K : Has(mgr.ctrls, k) => k \in w1 \cup b1
  BY <1>10 DEF c
<1>15. \A n \in Len(mgr.ctrls) + 1..Len(q.ctrls) : \A a \in Places :
          q.ctrls[n].key \in Within(a) \ b1 => StandsIn(q.ctrls, n, a)
  BY <1>11 DEF c, e, L
<1>16. Stacked(q.ctrls, open)
  BY <1>9 DEF e
<1>17. Inv(mgr, open, worn, behind) /\ \A k \in K : mgr.made[k] < MaxMade
  BY DEF ControlInv
<1>. HIDE DEF K, w1, b1
<1>18. Inv(q, open, w1, b1)
  <2>1. open \in Seq(Dialogs) /\ IsInjective(open)
    BY <1>2
  <2>2. Fits(mgr, q, K, w1, b1)
    BY <1>14, <1>15, <1>17 DEF Fits
  <2>. QED BY <2>1, <2>2, <1>4, <1>5, <1>12, <1>13, <1>16, <1>17, GrownInv
<1>. QED BY <1>18 DEF q, w1, b1, K

\* Dialogs not among o were not opened since the scripts of the page began.
Unopened(p, o) ==
    \A d \in Dialogs : d \notin Range(o) => \A k \in {d} \cup Range(Content[d]) : p.made[k] = 0

\* The pages on the way to reopening the dialogs s, one after the other.
Reopening(f, s, n) ==
    f = [m \in 0..n |-> IF m = 0 THEN PutAll(Blank, Content[Page]) ELSE PutDialog(f[m - 1], s[m])]

\* There is such a sequence of pages, whatever the number of dialogs.
LEMMA ReopeningExists ==
    ASSUME NEW s, NEW N \in Nat
    PROVE  \E f : Reopening(f, s, N)
<1>. DEFINE A == PutAll(Blank, Content[Page])
            I == {n \in Nat : \A f : ~Reopening(f, s, n)}
<1>. SUFFICES ASSUME I # {} PROVE FALSE
  OBVIOUS
<1>1. PICK n \in Nat : n \in I /\ \A y \in I : n <= y
  <2>1. I \in SUBSET Nat
    OBVIOUS
  <2>. HIDE DEF I
  <2>. QED BY <2>1, Smallest
<1>2. CASE n = 0
  <2>. DEFINE f == [m \in 0..0 |-> A]
  <2>1. \A m \in 0..0 : m = 0
    OBVIOUS
  <2>2. f = [m \in 0..0 |-> IF m = 0 THEN A ELSE PutDialog(f[m - 1], s[m])]
    BY <2>1, Zenon
  <2>3. Reopening(f, s, 0)
    BY <2>2 DEF Reopening
  <2>. QED BY <2>3, <1>1, <1>2
<1>3. CASE n # 0
  <2>1. n - 1 \in Nat /\ ~(n <= n - 1)
    BY <1>3
  <2>2. PICK g : Reopening(g, s, n - 1)
    BY <2>1, <1>1
  <2>3. g = [m \in 0..n - 1 |-> IF m = 0 THEN A ELSE PutDialog(g[m - 1], s[m])]
    BY <2>2 DEF Reopening
  <2>. DEFINE f == [m \in 0..n |-> IF m = n THEN PutDialog(g[n - 1], s[n]) ELSE g[m]]
  <2>. HIDE DEF A
  <2>4. ASSUME NEW m \in 0..n
        PROVE  f[m] = IF m = 0 THEN A ELSE PutDialog(f[m - 1], s[m])
    <3>1. CASE m = n
      <4>1. n - 1 \in 0..n /\ n - 1 # n /\ n \in 0..n
        BY <1>3
      <4>2. f[n - 1] = g[n - 1] /\ f[n] = PutDialog(g[n - 1], s[n])
        BY <4>1, Zenon
      <4>. QED BY <4>2, <3>1, <1>3
    <3>2. CASE m # n /\ m # 0
      <4>1. m - 1 \in 0..n /\ m - 1 # n /\ m \in 0..n - 1
        BY <3>2
      <4>2. f[m - 1] = g[m - 1] /\ f[m] = g[m]
        BY <4>1, <3>2, Zenon
      <4>3. g[m] = PutDialog(g[m - 1], s[m])
        BY <2>3, <4>1, <3>2, Zenon
      <4>. QED BY <4>2, <4>3, <3>2
    <3>3. CASE m # n /\ m = 0
      <4>1. m \in 0..n - 1
        BY <3>3
      <4>2. f[m] = g[m]
        BY <3>3, Zenon
      <4>3. g[m] = A
        BY <2>3, <4>1, <3>3, Zenon
      <4>. QED BY <4>2, <4>3, <3>3
    <3>. QED BY <3>1, <3>2, <3>3
  <2>5. f = [m \in 0..n |-> f[m]]
    OBVIOUS
  <2>. HIDE DEF f
  <2>6. f = [m \in 0..n |-> IF m = 0 THEN A ELSE PutDialog(f[m - 1], s[m])]
    BY <2>4, <2>5, Zenon
  <2>7. Reopening(f, s, n)
    BY <2>6 DEF Reopening, A
  <2>. QED BY <2>7, <1>1
<1>. QED BY <1>2, <1>3

\* The page is right after each dialog that is opened again.
LEMMA ReopeningInv ==
    ASSUME NEW s \in Seq(Dialogs), IsInjective(s), NEW f, Reopening(f, s, Len(s))
    PROVE  Inv(f[Len(s)], s, {}, {})
<1>. DEFINE A    == PutAll(Blank, Content[Page])
            o(n) == SubSeq(s, 1, n)
            N    == Len(s)
            P(n) == Inv(f[n], o(n), {}, {}) /\ Unopened(f[n], o(n))
            I    == {n \in 0..N : ~P(n)}
<1>1. N \in Nat /\ DOMAIN s = 1..N
  OBVIOUS
<1>2. f = [m \in 0..N |-> IF m = 0 THEN A ELSE PutDialog(f[m - 1], s[m])]
  BY DEF Reopening
<1>3. o(N) = s
  BY SubSeqFull
<1>4. P(0)
  <2>1. f[0] = A
    BY <1>1, <1>2
  <2>2. o(0) = <<>>
    BY SubSeqEmpty
  <2>3. Unopened(A, <<>>)
    <3>. SUFFICES ASSUME NEW d \in Dialogs, NEW k \in {d} \cup Range(Content[d]) PROVE A.made[k] = 0
      BY DEF Unopened
    <3>1. d \in Places /\ Page \in Places /\ d # Page
      BY ControlMgrAssumption DEF Places
    <3>2. d \notin Range(Content[Page])
      BY <3>1, ContentFacts
    <3>3. Range(Content[d]) \cap Range(Content[Page]) = {}
      BY <3>1, ContentFacts, OnePlace
    <3>4. k \in Keys /\ k \notin Range(Content[Page])
      BY <3>1, <3>2, <3>3, ContentFacts DEF Keys
    <3>. QED BY <3>4, PageInv
  <2>. HIDE DEF A
  <2>. QED BY <2>1, <2>2, <2>3, PageInv DEF A
<1>5. ASSUME NEW n \in 1..N, P(n - 1)
      PROVE  P(n)
  <2>. DEFINE p == f[n - 1]
              d == s[n]
  <2>1. f[n] = PutDialog(p, d) /\ d \in Dialogs
    BY <1>1, <1>2
  <2>2. o(n) = Append(o(n - 1), d)
    <3>1. o(n) = o(n - 1) \o <<d>>
      BY <1>1, SubSeqRecursiveSecond
    <3>2. o(n - 1) \in Seq(Dialogs)
      BY <1>5 DEF Inv, Sound
    <3>. QED BY <3>1, <3>2, <2>1, AppendIsConcat
  <2>3. d \notin Range(o(n - 1))
    <3>1. \A m \in 1..n - 1 : s[m] \in Dialogs /\ s[m] # d
      BY <1>1 DEF IsInjective
    <3>2. PICK z \in Nat : z = n - 1
      BY <1>1
    <3>3. /\ SubSeq(s, 1, z) \in Seq(Dialogs)
          /\ Len(SubSeq(s, 1, z)) = IF 1 <= z THEN z - 1 + 1 ELSE 0
          /\ \A i \in 1..z - 1 + 1 : SubSeq(s, 1, z)[i] = s[1 + i - 1]
      BY <3>1, <3>2, SubSeqProperties
    <3>4. Len(SubSeq(s, 1, z)) = z /\ \A i \in 1..z : SubSeq(s, 1, z)[i] = s[i]
      BY <3>2, <3>3
    <3>5. DOMAIN SubSeq(s, 1, z) = 1..z
      BY <3>3, <3>4
    <3>6. d \notin Range(SubSeq(s, 1, z))
      BY <3>1, <3>2, <3>4, <3>5 DEF Range
    <3>. QED BY <3>2, <3>6
  <2>4. Inv(p, o(n - 1), {}, {}) /\ Unopened(p, o(n - 1)) /\ p \in Register
    BY <1>5 DEF Inv, Sound
  <2>. HIDE DEF p, d, o
  <2>5. \A k \in {d} \cup Range(Content[d]) : p.made[k] < MaxMade
    BY <2>1, <2>3, <2>4, ControlMgrAssumption DEF Unopened
  <2>6. Inv(PutDialog(p, d), Append(o(n - 1), d), {}, {})
    BY <2>1, <2>3, <2>4, <2>5, PutDialogInv
  <2>7. o(n - 1) \in Seq(Dialogs)
    BY <2>4 DEF Inv, Sound
  <2>8. Range(o(n - 1)) \cup {d} = Range(Append(o(n - 1), d))
    BY <2>1, <2>7, AppendProperties DEF Range
  <2>9. Unopened(PutDialog(p, d), Append(o(n - 1), d))
    <3>. SUFFICES ASSUME NEW h \in Dialogs, h \notin Range(Append(o(n - 1), d)),
                         NEW k \in {h} \cup Range(Content[h])
                  PROVE  PutDialog(p, d).made[k] = 0
      BY DEF Unopened
    <3>1. h # d /\ h \notin Range(o(n - 1))
      BY <2>8
    <3>2. h \in Places /\ d \in Places
      BY <2>1 DEF Places
    <3>3. k \in Keys
      BY <3>2, ContentFacts DEF Keys
    <3>4. h \notin Range(Content[d]) /\ d \notin Range(Content[h])
      BY <2>1, <3>2, ContentFacts
    <3>5. Range(Content[h]) \cap Range(Content[d]) = {}
      BY <3>1, <3>2, ContentFacts, OnePlace
    <3>6. k \notin {d} \cup Range(Content[d])
      BY <3>1, <3>4, <3>5
    <3>7. PutDialog(p, d).made[k] = p.made[k] + 0
      BY <2>1, <2>4, <3>3, <3>6, PutDialogGrown DEF Grown
    <3>8. p.made[k] = 0
      BY <2>4, <3>1 DEF Unopened
    <3>. QED BY <3>7, <3>8
  <2>. QED BY <2>1, <2>2, <2>6, <2>9
<1>. HIDE DEF P
<1>6. I = {}
  <2>. SUFFICES ASSUME I # {} PROVE FALSE
    OBVIOUS
  <2>1. I \in SUBSET Nat
    OBVIOUS
  <2>2. PICK n \in I : \A y \in I : n <= y
    <3>. HIDE DEF I
    <3>. QED BY <2>1, Smallest
  <2>3. n \in 0..N /\ ~P(n) /\ n # 0
    BY <1>4
  <2>4. n \in 1..N /\ n - 1 \in 0..N /\ ~(n <= n - 1)
    BY <2>3, <1>1
  <2>5. P(n - 1)
    BY <2>2, <2>4
  <2>. QED BY <2>3, <2>4, <2>5, <1>5
<1>7. P(N)
  BY <1>1, <1>6
<1>. HIDE DEF o
<1>. QED BY <1>3, <1>7 DEF P

-----------------------------------------------------------------------------
(* The theorems.                                                           *)

\* At first.
LEMMA InitInv == Init => ControlInv
  BY PageInv DEF Init, ControlInv

\* A dialog is opened.
LEMMA OpenStep == ASSUME ControlInv, NEW d \in Dialogs, Open(d) PROVE ControlInv'
<1>1. Inv(PutDialog(mgr, d), Append(open, d), worn, behind)
  <2>1. \A k \in {d} \cup Range(Content[d]) : mgr.made[k] < MaxMade
    BY DEF Open, CanMake
  <2>2. d \notin Range(open) /\ Inv(mgr, open, worn, behind)
    BY DEF Open, ControlInv
  <2>. QED BY <2>1, <2>2, PutDialogInv
<1>2. mgr' = PutDialog(mgr, d) /\ open' = Append(open, d) /\ worn' = worn /\ behind' = behind
  BY DEF Open
<1>. QED BY <1>1, <1>2 DEF ControlInv

\* The server asks for a dialog to be closed, which may be closed already.
LEMMA CloseStep == ASSUME ControlInv, NEW d \in Dialogs, Close(d) PROVE ControlInv'
<1>1. Inv(mgr, open, worn, behind) /\ mgr \in Register
  BY DEF ControlInv, Inv, Sound
<1>2. CASE Get(mgr, d) # Null
  <2>1. Has(mgr.ctrls, d)
    BY <1>1, <1>2, GetIs
  <2>2. Inv(RemoveDialog(Hide(mgr, {d} \cup Within(d)), d), RemoveFirst(open, d),
            worn \ Within(d), behind)
    BY <1>1, <2>1, CloseInv
  <2>3. /\ mgr' = RemoveDialog(Hide(mgr, {d} \cup Within(d)), d)
        /\ open' = RemoveFirst(open, d) /\ worn' = worn \ Within(d) /\ behind' = behind
    BY <1>2 DEF Close
  <2>. QED BY <2>2, <2>3 DEF ControlInv
<1>3. CASE Get(mgr, d) = Null
  <2>1. ~Has(mgr.ctrls, d)
    BY <1>1, <1>3, GetIs
  <2>2. /\ Sound(mgr, open) /\ Stacked(mgr.ctrls, open) /\ AtHome(mgr.ctrls, behind)
        /\ Told(mgr, worn, behind) /\ Reached(mgr, behind) /\ worn \subseteq Inner
    BY <1>1 DEF Inv
  <2>3. d \notin Range(open)
    BY <2>1, <2>2 DEF Stacked
  <2>4. RemoveFirst(open, d) = open
    <3>1. \A i \in 1..Len(open) : i \in DOMAIN open
      BY <2>2 DEF Sound
    <3>. QED BY <3>1, <2>3 DEF RemoveFirst, Range
  <2>5. mgr' = mgr /\ open' = open /\ worn' = worn \ Within(d) /\ behind' = behind
    BY <1>3, <2>4 DEF Close
  <2>6. Told(mgr, worn \ Within(d), behind)
    <3>. SUFFICES ASSUME NEW k \in Keys \ ((worn \ Within(d)) \cup behind)
                  PROVE  /\ Once(mgr.ctrls, k)
                         /\ \A i \in DOMAIN mgr.ctrls :
                               mgr.ctrls[i].key = k => mgr.ctrls[i].obj = mgr.shown[k]
      BY DEF Told
    <3>1. CASE k \in Within(d)
      <4>1. d \in Places /\ d # Page
        BY InnerFacts DEF Places
      <4>2. ~Has(mgr.ctrls, k)
        <5>. SUFFICES ASSUME NEW i \in DOMAIN mgr.ctrls, mgr.ctrls[i].key = k PROVE FALSE
          BY DEF Has
        <5>1. StandsIn(mgr.ctrls, i, d)
          BY <2>2, <3>1, <4>1 DEF AtHome
        <5>2. PICK j \in 1..i : mgr.ctrls[j].key = d
          BY <4>1, <5>1 DEF StandsIn
        <5>3. j \in DOMAIN mgr.ctrls
          BY <1>1, EntryFacts
        <5>. QED BY <2>1, <5>2, <5>3 DEF Has
      <4>. QED BY <4>2 DEF Has, Once
    <3>2. CASE k \notin Within(d)
      BY <2>2, <3>2 DEF Told
    <3>. QED BY <3>1, <3>2
  <2>7. Inv(mgr, open, worn \ Within(d), behind)
    BY <1>1, <2>2, <2>6 DEF Inv
  <2>. QED BY <2>5, <2>7 DEF ControlInv
<1>. QED BY <1>2, <1>3

\* A panel is loaded.
LEMMA LoadPanelStep == ASSUME ControlInv, NEW g \in Groups, LoadPanel(g) PROVE ControlInv'
<1>1. Has(mgr.ctrls, g)
  BY GetIs DEF LoadPanel, ControlInv, Inv, Sound
<1>2. \A k \in Range(Panel[g]) : mgr.made[k] < MaxMade
  BY DEF LoadPanel, CanMake
<1>3. Inv(PutAll(mgr, Panel[g]), open,
          worn \cup {k \in Range(Panel[g]) : Get(mgr, k) # Null},
          behind \cup (IF Over(g) = {} THEN {} ELSE Range(Panel[g])))
  BY <1>1, <1>2, LoadPanelInv
<1>4. /\ mgr' = PutAll(mgr, Panel[g]) /\ open' = open
      /\ worn' = worn \cup {k \in Range(Panel[g]) : Get(mgr, k) # Null}
      /\ behind' = behind \cup (IF Over(g) = {} THEN {} ELSE Range(Panel[g]))
  BY DEF LoadPanel
<1>. QED BY <1>3, <1>4 DEF ControlInv

\* A group is removed.
LEMMA RemoveGroupStep == ASSUME ControlInv, NEW g \in Groups, RemoveGroup(g) PROVE ControlInv'
<1>1. Has(mgr.ctrls, g)
  BY GetIs DEF RemoveGroup, ControlInv, Inv, Sound
<1>2. Inv(RemoveCtrl(Hide(mgr, {g} \cup Range(Panel[g])), g), open,
          worn \cup {k \in Range(Panel[g]) : Get(mgr, k) # Null}, behind)
  BY <1>1, RemoveGroupInv DEF ControlInv
<1>3. /\ mgr' = RemoveCtrl(Hide(mgr, {g} \cup Range(Panel[g])), g) /\ open' = open
      /\ worn' = worn \cup {k \in Range(Panel[g]) : Get(mgr, k) # Null} /\ behind' = behind
  BY DEF RemoveGroup
<1>. QED BY <1>2, <1>3 DEF ControlInv

\* A tree is rebuilt.
LEMMA RebuildStep == ASSUME ControlInv, NEW k \in Trees, RebuildTree(k) PROVE ControlInv'
<1>1. Has(mgr.ctrls, k)
  BY GetIs DEF RebuildTree, ControlInv, Inv, Sound
<1>2. k \in Keys /\ mgr.made[k] < MaxMade
  BY ControlMgrAssumption DEF RebuildTree, CanMake, Keys
<1>3. Inv(Replace(mgr, k), open, worn, behind)
  BY <1>1, <1>2, RebuildInv DEF ControlInv
<1>4. mgr' = Replace(mgr, k) /\ open' = open /\ worn' = worn /\ behind' = behind
  BY DEF RebuildTree
<1>. QED BY <1>3, <1>4 DEF ControlInv

\* The user comes back, and the page is built anew.
LEMMA ReturnStep == ASSUME ControlInv, Return PROVE ControlInv'
<1>. DEFINE N    == Len(open)
            page == CHOOSE f : f = [n \in 0..Len(open) |->
                      IF n = 0 THEN PutAll(Blank, Content[Page]) ELSE PutDialog(f[n - 1], open[n])]
<1>1. mgr' = page[N] /\ worn' = {} /\ behind' = {} /\ open' = open
  BY DEF Return
<1>2. open \in Seq(Dialogs) /\ IsInjective(open) /\ N \in Nat
  BY DEF ControlInv, Inv, Sound
<1>3. \E f : f = [n \in 0..Len(open) |->
                      IF n = 0 THEN PutAll(Blank, Content[Page]) ELSE PutDialog(f[n - 1], open[n])]
  BY <1>2, ReopeningExists DEF Reopening
<1>4. Reopening(page, open, N)
  BY <1>3, Zenon DEF Reopening
<1>. HIDE DEF page
<1>5. Inv(page[N], open, {}, {})
  BY <1>2, <1>4, ReopeningInv
<1>. QED BY <1>1, <1>5 DEF ControlInv

\* Every state that can be reached has its register in order.
LEMMA ControlInvariant == Spec => []ControlInv
<1>1. ControlInv /\ [Next]_vars => ControlInv'
  <2>. SUFFICES ASSUME ControlInv, [Next]_vars PROVE ControlInv'
    OBVIOUS
  <2>1. CASE UNCHANGED vars
    BY <2>1 DEF vars, ControlInv
  <2>2. CASE \E d \in Dialogs : Open(d) \/ Close(d)
    BY <2>2, OpenStep, CloseStep
  <2>3. CASE \E g \in Groups : LoadPanel(g) \/ RemoveGroup(g)
    BY <2>3, LoadPanelStep, RemoveGroupStep
  <2>4. CASE \E k \in Trees : RebuildTree(k)
    BY <2>4, RebuildStep
  <2>5. CASE Return
    BY <2>5, ReturnStep
  <2>. QED BY <2>1, <2>2, <2>3, <2>4, <2>5 DEF Next
<1>. QED BY InitInv, <1>1, PTL DEF Spec

\* The variables keep their types, however often the server asks.  A register that is
\* told to take out a dialog it does not hold would count below zero (closeDialog asks).
THEOREM TypesKept == Spec => []TypeOK
<1>1. ControlInv => TypeOK
  <2>. SUFFICES ASSUME ControlInv PROVE TypeOK
    OBVIOUS
  <2>1. /\ Sound(mgr, open) /\ worn \subseteq Inner /\ behind \subseteq Inner
    BY DEF ControlInv, Inv
  <2>2. /\ mgr \in Register /\ open \in Seq(Dialogs)
        /\ mgr.dialogList = open /\ mgr.dialogCount \in Nat
        /\ mgr.made \in [Keys -> Nat]
    BY <2>1 DEF Sound, Register
  <2>3. DOMAIN mgr = DOMAIN Blank
    BY <2>2 DEF Register, Blank
  <2>4. \A i \in DOMAIN mgr.ctrls : /\ mgr.ctrls[i].key \in Keys
                                    /\ mgr.ctrls[i].obj \in 1..mgr.made[mgr.ctrls[i].key]
    <3>. SUFFICES ASSUME NEW i \in DOMAIN mgr.ctrls
                  PROVE  /\ mgr.ctrls[i].key \in Keys
                         /\ mgr.ctrls[i].obj \in 1..mgr.made[mgr.ctrls[i].key]
      OBVIOUS
    <3>1. mgr.ctrls[i].key \in Keys /\ mgr.ctrls[i].obj \in Nat \ {0}
      BY <2>2, EntryFacts
    <3>2. mgr.ctrls[i].obj <= mgr.made[mgr.ctrls[i].key]
      BY <2>1 DEF Sound
    <3>3. mgr.made[mgr.ctrls[i].key] \in Nat
      BY <2>2, <3>1
    <3>. QED BY <3>1, <3>2, <3>3
  <2>5. Range(open) \subseteq Dialogs
    BY <2>2 DEF Range
  <2>6. \A k \in Keys : mgr.made[k] \in 0..MaxMade /\ mgr.shown[k] \in {Null, mgr.made[k]}
    BY <2>1, <2>2, ControlMgrAssumption DEF Sound
  <2>7. worn \subseteq Ids /\ behind \subseteq Ids
    BY <2>1, InnerFacts
  <2>. QED BY <2>2, <2>3, <2>4, <2>5, <2>6, <2>7 DEF TypeOK
<1>. QED BY <1>1, ControlInvariant, PTL

\* On every page, and however dialogs are stacked, closed out of order, loaded again and
\* reopened: what the register finds for an id is the object on display, for the ids
\* loaded once and with nothing open over their place (put, get, removeDialog).
THEOREM FoundIsDisplayed == Spec => []RegisterIsDisplay
<1>1. ControlInv => RegisterIsDisplay
  <2>. SUFFICES ASSUME ControlInv, NEW k \in Keys \ (worn \cup behind)
                PROVE  Get(mgr, k) = mgr.shown[k]
    BY DEF RegisterIsDisplay
  <2>1. mgr \in Register /\ Told(mgr, worn, behind) /\ Reached(mgr, behind)
    BY DEF ControlInv, Inv, Sound
  <2>2. CASE Has(mgr.ctrls, k)
    BY <2>1, <2>2, GetIs DEF Told
  <2>3. CASE ~Has(mgr.ctrls, k)
    BY <2>1, <2>3, GetIs DEF Reached
  <2>. QED BY <2>2, <2>3
<1>. QED BY <1>1, ControlInvariant, PTL

\* No closing of another dialog, and no removal of another control, takes the entry of a
\* control on display, loaded again or not, if nothing was open over its place.
THEOREM AlwaysReachable == Spec => []StillReachable
<1>1. ControlInv => StillReachable
  BY GetIs DEF ControlInv, Inv, Sound, Reached, StillReachable
<1>. QED BY <1>1, ControlInvariant, PTL

\* The count of dialogs is that of the open ones, and the dialog that getTopDialog
\* returns is the object on display of the one opened last.
THEOREM TopIsTop == Spec => []TopDialogIsTop
<1>1. ControlInv => TopDialogIsTop
  <2>. SUFFICES ASSUME ControlInv PROVE TopDialogIsTop
    OBVIOUS
  <2>1. /\ mgr \in Register /\ open \in Seq(Dialogs)
        /\ mgr.dialogList = open /\ mgr.dialogCount = Len(open)
        /\ Told(mgr, worn, behind) /\ Reached(mgr, behind)
        /\ worn \subseteq Inner /\ behind \subseteq Inner
    BY DEF ControlInv, Inv, Sound
  <2>2. CASE open = <<>>
    BY <2>1, <2>2 DEF TopDialogIsTop, GetTopDialog
  <2>3. CASE open # <<>>
    <3>1. Len(open) \in Nat \ {0}
      BY <2>1, <2>3, EmptySeq
    <3>2. Last(open) \in Dialogs
      BY <2>1, <3>1 DEF Last
    <3>3. Last(open) \in Keys \ (worn \cup behind)
      BY <2>1, <3>2, InnerFacts DEF Keys
    <3>4. Get(mgr, Last(open)) = mgr.shown[Last(open)]
      <4>1. CASE Has(mgr.ctrls, Last(open))
        BY <2>1, <3>3, <4>1, GetIs DEF Told
      <4>2. CASE ~Has(mgr.ctrls, Last(open))
        BY <2>1, <3>3, <4>2, GetIs DEF Reached
      <4>. QED BY <4>1, <4>2
    <3>. QED BY <2>1, <2>3, <3>1, <3>4 DEF TopDialogIsTop, GetTopDialog
  <2>. QED BY <2>2, <2>3
<1>. QED BY <1>1, ControlInvariant, PTL
=============================================================================
