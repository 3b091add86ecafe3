------------------------- MODULE SCD2HistoryProofs -------------------------
(***************************************************************************)
(* Theorems about SCD2History, for any set of keys, values, batches and    *)
(* runs.                                                                   *)
(***************************************************************************)
EXTENDS SCD2History, FiniteSetTheorems, TLAPS

-----------------------------------------------------------------------------
(* One row.  The table h with the current version of x's key expired and   *)
(* x's version added is a chain again.                                     *)

Good(h) == h \subseteq Version /\ (\A v \in h : v.from # 0) /\ IsChain(h) /\ ValuesDiffer(h)

CurrentIn(h, x) == {v \in h : v.key = x.key /\ v.current}

Changed(h, x) ==
  (h \ CurrentIn(h, x)) \cup {Expire(v, x.at) : v \in CurrentIn(h, x)} \cup {NewVersion(x)}

\* What a row must be, in the table it is applied to.
Fits(h, x) ==
  /\ x.key \in Key /\ x.value \in Value /\ x.at \in Nat \ {0}
  /\ \A v \in h : v.key = x.key => v.from # x.at
  /\ \A v \in CurrentIn(h, x) : v.value # x.value /\ v.from < x.at

LEMMA ExpiredFields ==
  ASSUME NEW v \in Version, NEW at \in Nat
  PROVE  /\ Expire(v, at) \in Version
         /\ Expire(v, at).key = v.key
         /\ Expire(v, at).value = v.value
         /\ Expire(v, at).from = v.from
         /\ Expire(v, at).until = at
         /\ Expire(v, at).current = FALSE
  BY DEF Expire, Version

LEMMA NewFields ==
  ASSUME NEW x, x.key \in Key, x.value \in Value, x.at \in Nat
  PROVE  /\ NewVersion(x) \in Version
         /\ NewVersion(x).key = x.key
         /\ NewVersion(x).value = x.value
         /\ NewVersion(x).from = x.at
         /\ NewVersion(x).until = 0
         /\ NewVersion(x).current = TRUE
  BY DEF NewVersion, Version

\* Everything a chain has of the key ends before a row that fits.
LEMMA EndsBefore ==
  ASSUME NEW h, Good(h), NEW x, Fits(h, x), NEW v \in h, v.key = x.key
  PROVE  v.from < x.at /\ (~v.current => v.until < x.at)
<1>1. PICK c \in h : c.key = v.key /\ c.current
  BY DEF Good, IsChain
<1>2. c.from < x.at
  BY <1>1 DEF Fits, CurrentIn
<1>3. CASE v = c
  BY <1>1, <1>2, <1>3
<1>4. CASE v # c
  <2>1. v.from # c.from /\ (c.from < v.from => ~c.current)
    BY <1>1, <1>4 DEF Good, IsChain
  <2>2. v.from < c.from
    BY <1>1, <2>1 DEF Good, Version
  <2>3. v.until <= c.from
    BY <1>1, <1>4, <2>2 DEF Good, IsChain
  <2> QED
    BY <1>2, <2>2, <2>3 DEF Good, Version, Fits
<1> QED
  BY <1>3, <1>4

LEMMA ChangeKeepsGood ==
  ASSUME NEW h, Good(h), NEW x, Fits(h, x)
  PROVE  Good(Changed(h, x))
<1> DEFINE cur == CurrentIn(h, x)
           n == NewVersion(x)
           g == Changed(h, x)
<1>1. /\ n \in Version /\ n.key = x.key /\ n.value = x.value /\ n.from = x.at
      /\ n.until = 0 /\ n.current = TRUE
  BY NewFields DEF Fits
<1>2. \A v \in cur : LET e == Expire(v, x.at) IN
        /\ v \in h /\ v.key = x.key /\ v.current
        /\ e \in Version /\ e.key = v.key /\ e.value = v.value /\ e.from = v.from
        /\ e.until = x.at /\ e.current = FALSE
  BY ExpiredFields DEF CurrentIn, Good, Fits
<1>3. \A v \in h : v.key = x.key => v.from < x.at /\ (~v.current => v.until < x.at)
  BY EndsBefore
<1>4. x.at \in Nat /\ x.at # 0
  BY DEF Fits
<1>5. \A v \in g : \/ v \in h /\ (v.key = x.key => ~v.current)
                   \/ \E c \in cur : v = Expire(c, x.at)
                   \/ v = n
  BY DEF Changed, CurrentIn
<1>6. \A v \in h : \E w \in g : w.key = v.key /\ w.from = v.from
  BY <1>2 DEF Changed
<1>7. \A v, w \in cur : v = w
  BY DEF CurrentIn, Good, IsChain, Version
<1>8. g \subseteq Version /\ \A v \in g : v.from # 0
  BY <1>1, <1>2, <1>4, <1>5 DEF Good
<1>9. ASSUME NEW v \in g
      PROVE  v.current <=> v.until = 0
  BY <1>1, <1>2, <1>4, <1>5 DEF Good, IsChain
<1>10. ASSUME NEW v \in g, ~v.current
       PROVE  v.from < v.until /\ \E w \in g : w.key = v.key /\ w.from = v.until
  <2>1. CASE v \in h
    BY <2>1, <1>10, <1>6 DEF Good, IsChain
  <2>2. ASSUME NEW c \in cur, v = Expire(c, x.at)
        PROVE  v.from < v.until /\ v.key = n.key /\ n.from = v.until
    BY <2>2, <1>1, <1>2, <1>3
  <2>3. n \in g
    BY DEF Changed
  <2> QED
    BY <2>1, <2>2, <2>3, <1>1, <1>5, <1>10
<1>11. ASSUME NEW v \in g
       PROVE  \E w \in g : w.key = v.key /\ w.current
  <2>1. CASE v.key = x.key
    BY <2>1, <1>1 DEF Changed
  <2>2. CASE v.key # x.key
    <3>1. v \in h
      BY <2>2, <1>1, <1>2, <1>5
    <3>2. PICK w \in h : w.key = v.key /\ w.current
      BY <3>1 DEF Good, IsChain
    <3> QED
      BY <3>2, <2>2 DEF Changed, CurrentIn
  <2> QED
    BY <2>1, <2>2
<1>12. ASSUME NEW v \in g, NEW w \in g, w.key = v.key, w # v
       PROVE  w.from # v.from /\ (v.from < w.from => ~v.current /\ v.until <= w.from)
  <2>1. CASE v.key # x.key
    <3>1. v \in h /\ w \in h
      BY <2>1, <1>12, <1>1, <1>2, <1>5
    <3> QED
      BY <3>1, <1>12 DEF Good, IsChain
  <2>2. CASE v.key = x.key /\ v = n
    <3>1. w.from < x.at
      BY <2>2, <1>12, <1>2, <1>3, <1>5
    <3> QED
      BY <3>1, <2>2, <1>1, <1>4, <1>8 DEF Version
  <2>3. CASE v.key = x.key /\ w = n
    <3>1. v.from < x.at /\ ~v.current /\ v.until <= x.at
      BY <2>3, <1>12, <1>2, <1>3, <1>4, <1>5, <1>8 DEF Version
    <3> QED
      BY <3>1, <2>3, <1>1, <1>8 DEF Version
  <2>4. CASE v.key = x.key /\ v \in h /\ ~v.current /\ w \in h /\ ~w.current
    BY <2>4, <1>12 DEF Good, IsChain
  <2>5. ASSUME v.key = x.key, v \in h, ~v.current, NEW c \in cur, w = Expire(c, x.at)
        PROVE  w.from # v.from /\ (v.from < w.from => ~v.current /\ v.until <= w.from)
    <3>1. c \in h /\ c.key = v.key /\ c # v
      BY <2>5, <1>2
    <3>2. c.from # v.from /\ (v.from < c.from => ~v.current /\ v.until <= c.from)
      BY <3>1, <2>5 DEF Good, IsChain
    <3> QED
      BY <3>2, <2>5, <1>2
  <2>6. ASSUME v.key = x.key, w \in h, ~w.current, NEW c \in cur, v = Expire(c, x.at)
        PROVE  w.from # v.from /\ (v.from < w.from => ~v.current /\ v.until <= w.from)
    <3>1. c \in h /\ c.key = w.key /\ c # w /\ c.current
      BY <2>6, <1>2, <1>12
    <3>2. w.from # c.from /\ (c.from < w.from => ~c.current)
      BY <3>1, <2>6 DEF Good, IsChain
    <3> QED
      BY <3>1, <3>2, <2>6, <1>2
  <2>7. ASSUME NEW c \in cur, NEW d \in cur, v = Expire(c, x.at), w = Expire(d, x.at)
        PROVE  FALSE
    BY <2>7, <1>7, <1>12
  <2> QED
    BY <2>1, <2>2, <2>3, <2>4, <2>5, <2>6, <2>7, <1>5, <1>12
<1>13. IsChain(g)
  BY <1>9, <1>10, <1>11, <1>12 DEF IsChain
<1>14. ASSUME NEW v \in g, NEW w \in g, v.key = w.key, v.until = w.from
       PROVE  v.value # w.value
  <2>0. v.until # 0 /\ ~v.current
    BY <1>14, <1>8, <1>9
  <2>1. CASE v.key # x.key
    <3>1. v \in h /\ w \in h
      BY <2>1, <1>14, <1>1, <1>2, <1>5
    <3> QED
      BY <3>1, <1>14 DEF Good, ValuesDiffer
  <2>2. CASE v.key = x.key /\ v \in h
    <3>1. v.until < x.at
      BY <2>0, <2>2, <1>3
    <3>2. w # n
      BY <3>1, <1>1, <1>4, <1>14
    <3>3. PICK u \in h : u.key = w.key /\ u.from = w.from /\ u.value = w.value
      BY <3>2, <1>2, <1>5
    <3> QED
      BY <3>3, <2>2, <1>14 DEF Good, ValuesDiffer
  <2>3. ASSUME NEW c \in cur, v = Expire(c, x.at)
        PROVE  v.value # w.value
    <3>1. w.from = x.at /\ v.key = x.key
      BY <2>3, <1>2, <1>14
    <3>2. w = n
      BY <3>1, <1>2, <1>3, <1>4, <1>5, <1>14
    <3> QED
      BY <3>2, <2>3, <1>1, <1>2 DEF Fits
  <2> QED
    BY <2>0, <2>1, <2>2, <2>3, <1>1, <1>5
<1> QED
  BY <1>8, <1>13, <1>14 DEF Good, ValuesDiffer

\* No version is rewritten.
LEMMA ChangeExtends ==
  ASSUME NEW h, NEW g, Good(g), Extends(h, g), NEW x, Fits(g, x)
  PROVE  Extends(h, Changed(g, x))
<1> SUFFICES ASSUME NEW v \in h
             PROVE  \/ v \in Changed(g, x)
                    \/ v.current /\ \E w \in Changed(g, x) :
                                      v.from < w.until /\ w = Expire(v, w.until)
  BY DEF Extends
<1>1. ASSUME NEW c \in CurrentIn(g, x)
      PROVE  /\ c.current /\ c.from < x.at
             /\ Expire(c, x.at) \in Changed(g, x)
             /\ Expire(c, x.at).until = x.at
  BY ExpiredFields DEF Good, Fits, CurrentIn, Changed
<1>2. CASE v \in g
  BY <1>1, <1>2 DEF Changed
<1>3. ASSUME v.current, NEW w \in g, v.from < w.until, w = Expire(v, w.until), v \notin g
      PROVE  w \in Changed(g, x)
  <2>1. w.until # 0
    BY <1>3, ExpiredFields DEF Good, IsChain, Version, Expire
  <2>2. ~w.current
    BY <2>1 DEF Good, IsChain
  <2> QED
    BY <2>2 DEF Changed, CurrentIn
<1> QED
  BY <1>2, <1>3 DEF Extends

\* The rows before it stay in the history, and it is there itself.
LEMMA ChangeReflects ==
  ASSUME NEW h, Good(h), NEW x, Fits(h, x)
  PROVE  /\ Reflected(x, Changed(h, x))
         /\ \A y \in Row :
              Reflected(y, h) /\ (y.key = x.key /\ y.value # x.value => y.at < x.at)
                => Reflected(y, Changed(h, x))
<1>1. Reflected(x, Changed(h, x))
  BY NewFields DEF Reflected, Changed, Fits
<1>2. ASSUME NEW y \in Row, Reflected(y, h),
             y.key = x.key /\ y.value # x.value => y.at < x.at
      PROVE  Reflected(y, Changed(h, x))
  <2>1. PICK v \in h : v.key = y.key /\ v.value = y.value /\ (v.until = 0 \/ y.at < v.until)
    BY <1>2 DEF Reflected
  <2>2. CASE v \notin CurrentIn(h, x)
    BY <2>1, <2>2 DEF Reflected, Changed
  <2>3. CASE v \in CurrentIn(h, x)
    <3>1. /\ Expire(v, x.at) \in Changed(h, x) /\ Expire(v, x.at).key = y.key
          /\ Expire(v, x.at).value = y.value /\ Expire(v, x.at).until = x.at
      BY <2>1, <2>3, ExpiredFields DEF Changed, Good, Fits
    <3>2. y.at < x.at
      BY <1>2, <2>1, <2>3 DEF CurrentIn, Fits
    <3> QED
      BY <3>1, <3>2 DEF Reflected
  <2> QED
    BY <2>2, <2>3
<1> QED
  BY <1>1, <1>2

\* Applied again to what it has left, a row that was dealt with changes nothing:
\* it is found at its time, is no change, or is late.
Settled(x, h) ==
  \/ \E v \in h : v.key = x.key /\ v.from = x.at
  \/ \E c \in CurrentIn(h, x) : c.value = x.value \/ x.at <= c.from

LEMMA ChangeSettles ==
  ASSUME NEW h, Good(h), NEW x, Fits(h, x)
  PROVE  /\ Settled(x, Changed(h, x))
         /\ \A y \in Row : Settled(y, h) /\ (y.key = x.key => y.at <= x.at)
              => Settled(y, Changed(h, x))
<1> DEFINE n == NewVersion(x)
<1>1. /\ n \in Changed(h, x) /\ n.key = x.key /\ n.value = x.value /\ n.from = x.at
      /\ n.current
  BY NewFields DEF Changed, Fits
<1>2. Settled(x, Changed(h, x))
  BY <1>1 DEF Settled
<1>3. ASSUME NEW y \in Row, Settled(y, h), y.key = x.key => y.at <= x.at
      PROVE  Settled(y, Changed(h, x))
  <2>1. CASE y.key = x.key
    BY <2>1, <1>1, <1>3 DEF Settled, CurrentIn
  <2>2. CASE y.key # x.key
    <3>1. \A v \in h : v.key = y.key => v \in Changed(h, x)
      BY <2>2 DEF Changed, CurrentIn
    <3> QED
      BY <3>1, <1>3 DEF Settled, CurrentIn
  <2> QED
    BY <2>1, <2>2
<1> QED
  BY <1>2, <1>3

LEMMA KeptIsSettled ==
  ASSUME NEW r \in Run, NEW x \in Row, Unchanged(r, x)
  PROVE  Settled(x, View(r))
  BY DEF Unchanged, Exact, Current, Settled, CurrentIn

LEMMA SettledChangesNothing ==
  ASSUME NEW r \in Run, NEW x \in Row, Settled(x, View(r))
  PROVE  Refused(r, x) \/ Unchanged(r, x)
  BY DEF Refused, Unchanged, Exact, Current, Settled, CurrentIn

LEMMA KeptIsReflected ==
  ASSUME TypeOK, NEW r \in Run, Good(View(r)), NEW x \in Row, Unchanged(r, x)
  PROVE  Reflected(x, View(r))
<1>1. CASE \E v \in Exact(r, x) : v.value = x.value
  BY <1>1 DEF Exact, Reflected, Good, IsChain, Version, Row
<1>2. CASE \E c \in Current(r, x) : c.value = x.value
  BY <1>2 DEF Current, Reflected, Good, IsChain
<1> QED
  BY <1>1, <1>2 DEF Unchanged

LEMMA ChangedFits ==
  ASSUME TypeOK, NEW r \in Run, Good(View(r)), NEW x \in Row, x.at # 0,
         ~Refused(r, x), ~Unchanged(r, x)
  PROVE  Fits(View(r), x) /\ Current(r, x) = CurrentIn(View(r), x)
<1>1. Current(r, x) = CurrentIn(View(r), x)
  BY DEF Current, CurrentIn
<1>2. Exact(r, x) = {}
  BY DEF Refused, Unchanged
<1>3. \A v \in View(r) : v.key = x.key => v.from # x.at
  BY <1>2 DEF Exact
<1>4. \A c \in Current(r, x) : c.value # x.value /\ ~(x.at <= c.from)
  BY <1>2 DEF Refused, Unchanged
<1>5. \A c \in Current(r, x) : c.from \in Nat
  BY DEF Current, Good, Version
<1>6. x.key \in Key /\ x.value \in Value /\ x.at \in Nat \ {0}
  BY DEF Refused, Row
<1>7. \A c \in Current(r, x) : c.from < x.at
  BY <1>4, <1>5, <1>6
<1> QED
  BY <1>1, <1>3, <1>4, <1>6, <1>7 DEF Fits

-----------------------------------------------------------------------------
(* The inductive invariant: the committed table and the table each         *)
(* transaction sees are chains, the second extends the first and has the   *)
(* rows dealt with; only the holder of the lock has written anything.      *)

TypeInv == TypeOK

LockInv ==
  /\ \A r \in Run : pc[r] = "apply" <=> lock = r
  /\ \A r \in Run : pc[r] # "apply" => closed[r] = {} /\ added[r] = {}

RowsInv ==
  \A r \in Run :
    /\ todo[r] \subseteq batch[r]
    /\ pc[r] # "apply" => todo[r] = {}
    /\ pc[r] \in {"staged", "apply"} =>
         batch[r] \in Batches /\ \A x \in batch[r] : x.at # 0

Progressed(r) ==
  /\ \A x \in batch[r] \ todo[r] : /\ Contested(x, batch[r]) \/ Reflected(x, View(r))
                                   /\ Settled(x, View(r))
  /\ \A x \in batch[r] \ todo[r], y \in todo[r] : y.key = x.key => x.at <= y.at

ViewInv ==
  /\ Good(history)
  /\ \A r \in Run : Good(View(r)) /\ Extends(history, View(r))
  /\ \A r \in Run : pc[r] = "apply" => Progressed(r)

\* A transaction that publishes the batch committed last has changed nothing.
LastInv ==
  /\ last # None => \A x \in last : Settled(x, history)
  /\ \A r \in Run : pc[r] = "apply" /\ batch[r] = last => View(r) = history

Inv == TypeInv /\ LockInv /\ RowsInv /\ ViewInv /\ LastInv

LEMMA InitInv == Init => Inv
<1> SUFFICES ASSUME Init PROVE Inv
  OBVIOUS
<1>1. Good({}) /\ Extends({}, {})
  BY DEF Good, IsChain, ValuesDiffer, Extends
<1>2. \A r \in Run : View(r) = {}
  BY DEF Init, View
<1> QED
  BY <1>1, <1>2, NoneAssumption
  DEF Init, Inv, TypeInv, TypeOK, LockInv, RowsInv, ViewInv, LastInv

LEMMA GoodExtendsItself == \A h : Extends(h, h)
  BY DEF Extends

\* A publication that ends without a commit leaves what was.
LEMMA RollBackInv ==
  ASSUME Inv, NEW r \in Run, RollBack(r), batch' \in [Run -> SUBSET Row],
         \A q \in Run \ {r} : batch'[q] = batch[q]
  PROVE  Inv'
<1> USE DEF Inv, TypeInv
<1>1. TypeOK'
  BY DEF TypeOK, RollBack
<1>2. LockInv'
  BY NoneAssumption DEF LockInv, TypeOK, RollBack
<1>3. RowsInv'
  BY DEF RowsInv, TypeOK, RollBack
<1>4. history' = history /\ View(r)' = history
  BY DEF View, TypeOK, RollBack
<1>5. ASSUME NEW q \in Run, q # r
      PROVE  /\ View(q)' = View(q) /\ pc'[q] = pc[q] /\ todo'[q] = todo[q]
             /\ batch'[q] = batch[q]
  BY <1>5 DEF View, TypeOK, RollBack
<1>6. pc'[r] = "failed"
  BY DEF TypeOK, RollBack
<1>7. ASSUME NEW q \in Run, q # r, pc'[q] = "apply"
      PROVE  Progressed(q)'
  <2>1. Progressed(q)
    BY <1>5, <1>7 DEF ViewInv
  <2> QED
    BY <1>5, <1>7, <2>1 DEF Progressed
<1>8. ViewInv'
  BY <1>4, <1>5, <1>6, <1>7, GoodExtendsItself DEF ViewInv
<1>9. LastInv'
  BY <1>4, <1>5, <1>6 DEF LastInv, RollBack
<1> QED
  BY <1>1, <1>2, <1>3, <1>8, <1>9

LEMMA NextInv == Inv /\ [Next]_vars => Inv'
<1> SUFFICES ASSUME Inv, [Next]_vars PROVE Inv'
  OBVIOUS
<1> USE DEF Inv, TypeInv
<1>1. ASSUME NEW r \in Run, NEW b \in Batches, Stage(r, b)
      PROVE  Inv'
  <2>0. b \in SUBSET Row /\ batch' = [batch EXCEPT ![r] = b] /\ pc[r] = "idle"
    BY <1>1, BatchAssumption DEF Stage
  <2>1. CASE RollBack(r)
    BY <2>0, <2>1, RollBackInv DEF TypeOK
  <2>2. CASE /\ \A x \in b : x.at # 0
             /\ pc' = [pc EXCEPT ![r] = "staged"]
             /\ UNCHANGED <<history, lock, txVars, last>>
    <3>1. TypeOK'
      BY <2>0, <2>2 DEF TypeOK, txVars
    <3>2. LockInv'
      BY <2>0, <2>2, NoneAssumption DEF LockInv, TypeOK, txVars
    <3>3. RowsInv'
      BY <2>0, <2>2 DEF RowsInv, TypeOK, txVars
    <3>4. \A q \in Run : View(q)' = View(q) /\ history' = history
      BY <2>2 DEF View, txVars
    <3>5. ASSUME NEW q \in Run, pc'[q] = "apply"
          PROVE  Progressed(q)'
      <4>1. q # r /\ pc[q] = "apply"
        BY <2>0, <2>2, <3>5 DEF TypeOK
      <4>2. Progressed(q) /\ todo'[q] = todo[q] /\ batch'[q] = batch[q]
        BY <4>1, <2>0, <2>2 DEF ViewInv, TypeOK, txVars
      <4> QED
        BY <3>4, <4>2 DEF Progressed
    <3>6. ViewInv'
      BY <3>4, <3>5, <2>2 DEF ViewInv
    <3>7. LastInv'
      BY <2>0, <2>2, <3>4 DEF LastInv, TypeOK
    <3> QED
      BY <3>1, <3>2, <3>3, <3>6, <3>7
  <2> QED
    BY <1>1, <2>1, <2>2 DEF Stage
<1>2. ASSUME NEW r \in Run, LockTable(r) PROVE Inv'
  <2>1. TypeOK'
    BY <1>2 DEF LockTable, TypeOK
  <2>2. LockInv'
    BY <1>2, NoneAssumption DEF LockInv, LockTable, TypeOK
  <2>3. RowsInv'
    BY <1>2 DEF RowsInv, LockTable, TypeOK
  <2>4. \A q \in Run : View(q)' = View(q) /\ history' = history
    BY <1>2 DEF View, LockTable
  <2>5. ASSUME NEW q \in Run, pc'[q] = "apply"
        PROVE  Progressed(q)'
    <3>1. CASE q = r
      BY <3>1, <1>2 DEF Progressed, LockTable, TypeOK
    <3>2. CASE q # r
      <4>1. Progressed(q) /\ todo'[q] = todo[q] /\ batch'[q] = batch[q]
        BY <3>2, <2>5, <1>2 DEF ViewInv, LockTable, TypeOK
      <4> QED
        BY <2>4, <4>1 DEF Progressed
    <3> QED
      BY <3>1, <3>2
  <2>6. ViewInv'
    BY <2>4, <2>5 DEF ViewInv
  <2>7. View(r) = history
    BY <1>2 DEF View, LockTable, LockInv
  <2>8. LastInv'
    BY <1>2, <2>4, <2>7 DEF LastInv, LockTable, TypeOK
  <2> QED
    BY <2>1, <2>2, <2>3, <2>6, <2>8
<1>3. ASSUME NEW r \in Run, NEW x \in todo[r], KeepRow(r, x) PROVE Inv'
  <2>0. x \in batch[r] /\ x \in Row /\ pc[r] = "apply"
    BY <1>3 DEF KeepRow, RowsInv, TypeOK
  <2>1. TypeOK'
    BY <1>3 DEF KeepRow, TypeOK
  <2>2. LockInv'
    BY <1>3 DEF LockInv, KeepRow, TypeOK
  <2>3. RowsInv'
    BY <1>3, <2>0 DEF RowsInv, KeepRow, TypeOK
  <2>4. \A q \in Run : View(q)' = View(q) /\ history' = history
    BY <1>3 DEF View, KeepRow
  <2>5. Progressed(r)'
    BY <1>3, <2>0, <2>4, KeptIsReflected, KeptIsSettled
    DEF Progressed, ViewInv, KeepRow, Due, TypeOK
  <2>6. ASSUME NEW q \in Run, q # r, pc'[q] = "apply"
        PROVE  Progressed(q)'
    <3>1. Progressed(q) /\ todo'[q] = todo[q] /\ batch'[q] = batch[q]
      BY <2>6, <1>3 DEF ViewInv, KeepRow, TypeOK
    <3> QED
      BY <2>4, <3>1 DEF Progressed
  <2>7. ViewInv'
    BY <2>4, <2>5, <2>6 DEF ViewInv
  <2>8. LastInv'
    BY <1>3, <2>4 DEF LastInv, KeepRow
  <2> QED
    BY <2>1, <2>2, <2>3, <2>7, <2>8
<1>4. ASSUME NEW r \in Run, NEW x \in todo[r], RefuseRow(r, x) PROVE Inv'
  BY <1>4, RollBackInv DEF RefuseRow, TypeOK
<1>5. ASSUME NEW r \in Run, NEW x \in todo[r], ChangeRow(r, x) PROVE Inv'
  <2>0. x \in batch[r] /\ x \in Row /\ pc[r] = "apply" /\ x.at # 0
    BY <1>5 DEF ChangeRow, RowsInv, TypeOK
  <2>1. Fits(View(r), x) /\ Current(r, x) = CurrentIn(View(r), x)
    BY <1>5, <2>0, ChangedFits DEF ChangeRow, ViewInv
  <2>2. View(r)' = Changed(View(r), x) /\ history' = history
    BY <1>5, <2>1 DEF View, ChangeRow, Changed, TypeOK, Current
  <2>3. Good(View(r)') /\ Extends(history, View(r)')
    BY <2>0, <2>1, <2>2, ChangeKeepsGood, ChangeExtends DEF ViewInv
  <2>4. TypeOK'
    <3>1. closed' \in [Run -> SUBSET Version]
      BY <1>5 DEF ChangeRow, TypeOK
    <3>2. added' \in [Run -> SUBSET Version]
      <4>1. \A v \in Current(r, x) : Expire(v, x.at) \in Version
        BY <2>0, ExpiredFields DEF Current, ViewInv, Good, Row
      <4>2. NewVersion(x) \in Version
        BY <2>1, NewFields DEF Fits
      <4>3. added[r] \subseteq Version
        BY DEF TypeOK
      <4> QED
        BY <1>5, <4>1, <4>2, <4>3 DEF ChangeRow, TypeOK
    <3>3. counts' \in [Run -> [inserted : Nat, expired : Nat]]
      BY <1>5 DEF ChangeRow, TypeOK
    <3> QED
      BY <1>5, <3>1, <3>2, <3>3 DEF ChangeRow, TypeOK
  <2>5. LockInv'
    BY <1>5 DEF LockInv, ChangeRow, TypeOK
  <2>6. RowsInv'
    BY <1>5, <2>0 DEF RowsInv, ChangeRow, TypeOK
  <2>7. ASSUME NEW q \in Run, q # r
        PROVE  View(q)' = View(q) /\ (pc'[q] = "apply" => Progressed(q)')
    <3>1. View(q)' = View(q)
      BY <1>5, <2>7 DEF View, ChangeRow, TypeOK
    <3>2. ASSUME pc'[q] = "apply" PROVE Progressed(q)'
      <4>1. Progressed(q) /\ todo'[q] = todo[q] /\ batch'[q] = batch[q]
        BY <2>7, <3>2, <1>5 DEF ViewInv, ChangeRow, TypeOK
      <4> QED
        BY <3>1, <4>1 DEF Progressed
    <3> QED
      BY <3>1, <3>2
  <2>8. Progressed(r)'
    <3>1. batch' = batch /\ todo'[r] = todo[r] \ {x} /\ Due(r, x)
      BY <1>5 DEF ChangeRow, TypeOK
    <3>2. Progressed(r)
      BY <2>0 DEF ViewInv
    <3>3. \A y \in batch[r] \ todo[r] : /\ y \in Row /\ y.at \in Nat /\ x.at \in Nat
                                        /\ Contested(y, batch[r]) \/ Reflected(y, View(r))
                                        /\ Settled(y, View(r))
                                        /\ y.key = x.key => y.at <= x.at
      BY <2>0, <3>2 DEF Progressed, TypeOK, Row
    <3>4. \A y \in batch[r] \ todo'[r] : Settled(y, View(r)')
      BY <2>0, <2>1, <2>2, <3>1, <3>3, ChangeSettles DEF ViewInv
    \* A row of the key at this time and with another value contests x.
    <3>6. ASSUME NEW y \in batch[r] \ todo'[r]
          PROVE  Contested(y, batch[r]) \/ Reflected(y, View(r)')
      <4>1. CASE y = x
        BY <4>1, <2>1, <2>2, ChangeReflects DEF ViewInv
      <4>2. CASE y # x /\ y.key = x.key /\ y.value # x.value /\ ~(y.at < x.at)
        <5>1. y.at = x.at
          BY <4>2, <3>1, <3>3, <3>6
        <5> QED
          BY <4>2, <5>1, <2>0 DEF Contested
      <4>3. CASE y # x /\ (y.key = x.key /\ y.value # x.value => y.at < x.at)
        <5>1. y \in batch[r] \ todo[r]
          BY <4>3, <3>1, <3>6
        <5> QED
          BY <4>3, <5>1, <3>3, <2>1, <2>2, ChangeReflects DEF ViewInv
      <4> QED
        BY <4>1, <4>2, <4>3
    <3>5. \A y \in batch[r] \ todo'[r], z \in todo'[r] : z.key = y.key => y.at <= z.at
      BY <3>1, <3>2 DEF Progressed, Due
    <3> QED
      BY <3>1, <3>4, <3>5, <3>6 DEF Progressed
  <2>9. ViewInv'
    BY <2>2, <2>3, <2>7, <2>8 DEF ViewInv
  <2>10. batch[r] # last
    <3> SUFFICES ASSUME batch[r] = last PROVE FALSE
      OBVIOUS
    <3>1. last # None
      BY <2>0, NoneAssumption DEF RowsInv
    <3>2. Settled(x, View(r))
      BY <2>0, <3>1 DEF LastInv
    <3> QED
      BY <2>0, <3>2, <1>5, SettledChangesNothing DEF ChangeRow
  <2>11. LastInv'
    BY <1>5, <2>2, <2>7, <2>10 DEF LastInv, ChangeRow
  <2> QED
    BY <2>4, <2>5, <2>6, <2>9, <2>11
<1>6. ASSUME NEW r \in Run, Commit(r) PROVE Inv'
  <2>1. TypeOK'
    BY <1>6 DEF Commit, TypeOK, View
  <2>2. LockInv'
    BY <1>6, NoneAssumption DEF LockInv, Commit, TypeOK
  <2>3. RowsInv'
    BY <1>6 DEF RowsInv, Commit, TypeOK
  <2>4. history' = View(r) /\ Good(View(r))
    BY <1>6 DEF Commit, ViewInv
  <2>5. \A q \in Run : pc'[q] # "apply"
    BY <1>6 DEF Commit, LockInv, TypeOK
  <2>6. \A q \in Run : View(q)' = history'
    BY <2>2, <2>5 DEF LockInv, View
  <2>7. ViewInv'
    BY <2>4, <2>5, <2>6, GoodExtendsItself DEF ViewInv
  <2>8. LastInv'
    BY <1>6, <2>4, <2>5 DEF LastInv, Commit, ViewInv, Progressed
  <2> QED
    BY <2>1, <2>2, <2>3, <2>7, <2>8
<1>7. ASSUME NEW r \in Run, Abort(r) PROVE Inv'
  BY <1>7, RollBackInv DEF Abort, TypeOK
<1>8. CASE UNCHANGED vars
  <2>1. TypeOK' /\ LockInv' /\ RowsInv'
    BY <1>8 DEF vars, txVars, TypeOK, LockInv, RowsInv
  <2>2. \A q \in Run : View(q)' = View(q)
    BY <1>8 DEF vars, txVars, View
  <2>3. \A q \in Run : Progressed(q)' <=> Progressed(q)
    BY <1>8, <2>2 DEF vars, txVars, Progressed
  <2>4. ViewInv'
    BY <1>8, <2>2, <2>3 DEF vars, ViewInv
  <2>5. LastInv'
    BY <1>8, <2>2 DEF vars, LastInv
  <2> QED
    BY <2>1, <2>4, <2>5
<1> QED
  BY <1>1, <1>2, <1>3, <1>4, <1>5, <1>6, <1>7, <1>8 DEF Next

LEMMA InvHolds == Spec => []Inv
  BY InitInv, NextInv, PTL DEF Spec

-----------------------------------------------------------------------------
(* Results *)

\* Every variable of the publications keeps its type.
THEOREM HistoryTypeCorrect == Spec => []TypeOK
<1>1. Inv => TypeOK
  BY DEF Inv, TypeInv
<1> QED
  BY <1>1, InvHolds, PTL

\* Whatever publications race or fail, the versions of a key form a chain.
THEOREM ChainCorrect == Spec => []HistoryIsChain
<1>1. Inv => HistoryIsChain
  BY DEF Inv, ViewInv, Good, HistoryIsChain
<1> QED
  BY <1>1, InvHolds, PTL

\* Versions that follow each other differ in the tracked values.
THEOREM DifferCorrect == Spec => []VersionsDiffer
<1>1. Inv => VersionsDiffer
  BY DEF Inv, ViewInv, Good, VersionsDiffer
<1> QED
  BY <1>1, InvHolds, PTL

LEMMA HistoryStep ==
  ASSUME Inv, Next
  PROVE  \/ history' = history /\ \A r \in Run : pc'[r] = "done" => pc[r] = "done"
         \/ \E r \in Run : Commit(r)
<1>1. ASSUME NEW r \in Run, RollBack(r)
      PROVE  history' = history /\ \A q \in Run : pc'[q] = "done" => pc[q] = "done"
  BY <1>1 DEF RollBack, Inv, TypeInv, TypeOK
<1>2. ASSUME NEW r \in Run, NEW b \in Batches, Stage(r, b)
      PROVE  history' = history /\ \A q \in Run : pc'[q] = "done" => pc[q] = "done"
  BY <1>1, <1>2 DEF Stage, Inv, TypeInv, TypeOK
<1>3. ASSUME NEW r \in Run, NEW x \in todo[r],
             LockTable(r) \/ KeepRow(r, x) \/ ChangeRow(r, x)
      PROVE  history' = history /\ \A q \in Run : pc'[q] = "done" => pc[q] = "done"
  BY <1>3 DEF LockTable, KeepRow, ChangeRow, Inv, TypeInv, TypeOK
<1>4. ASSUME NEW r \in Run, LockTable(r)
      PROVE  history' = history /\ \A q \in Run : pc'[q] = "done" => pc[q] = "done"
  BY <1>4 DEF LockTable, Inv, TypeInv, TypeOK
<1> QED
  BY <1>1, <1>2, <1>3, <1>4 DEF Next, RefuseRow, Abort

\* No publication rewrites a version.
THEOREM NeverRewrittenCorrect == Spec => NeverRewritten
<1>1. Inv /\ [Next]_vars => [Extends(history, history')]_vars
  <2> SUFFICES ASSUME Inv, Next PROVE Extends(history, history')
    OBVIOUS
  <2>1. CASE history' = history
    BY <2>1, GoodExtendsItself
  <2>2. ASSUME NEW r \in Run, Commit(r) PROVE Extends(history, history')
    BY <2>2 DEF Commit, Inv, ViewInv
  <2> QED
    BY <2>1, <2>2, HistoryStep
<1> QED
  BY <1>1, InvHolds, PTL DEF Spec, NeverRewritten

\* A publication that commits has put every row of its batch into the history,
\* in a version that has not ended at the row's time (postgres.py:843-900).
THEOREM ReflectedCorrect == Spec => BatchIsReflected
<1> DEFINE A == \A r \in Run : pc[r] = "apply" /\ pc'[r] = "done"
                  => \A x \in batch[r] : Contested(x, batch[r]) \/ Reflected(x, history')
<1>1. Inv /\ [Next]_vars => [A]_vars
  <2> SUFFICES ASSUME Inv, Next, NEW r \in Run, pc[r] = "apply", pc'[r] = "done",
                      NEW x \in batch[r]
               PROVE  Contested(x, batch[r]) \/ Reflected(x, history')
    OBVIOUS
  <2>1. PICK q \in Run : Commit(q)
    BY HistoryStep
  <2>2. q = r
    BY <2>1 DEF Commit, Inv, LockInv
  <2> QED
    BY <2>1, <2>2 DEF Commit, Inv, ViewInv, Progressed
<1> QED
  BY <1>1, InvHolds, PTL DEF Spec, BatchIsReflected

\* A rerun of the batch committed last changes nothing.
THEOREM RerunCorrect == Spec => RerunChangesNothing
<1> DEFINE A == \A r \in Run :
                  pc[r] = "apply" /\ pc'[r] = "done" /\ batch[r] = last => history' = history
<1>1. Inv /\ [Next]_vars => [A]_vars
  <2> SUFFICES ASSUME Inv, Next, NEW r \in Run, pc[r] = "apply", pc'[r] = "done",
                      batch[r] = last
               PROVE  history' = history
    OBVIOUS
  <2>1. PICK q \in Run : history' = history \/ Commit(q)
    BY HistoryStep
  <2>2. CASE Commit(q)
    BY <2>2 DEF Commit, Inv, LockInv, LastInv
  <2> QED
    BY <2>1, <2>2
<1> QED
  BY <1>1, InvHolds, PTL DEF Spec, RerunChangesNothing

-----------------------------------------------------------------------------
(* What the publications report                                            *)

Now(h) == {v \in h : v.current}

Past(h) == {v \in h : ~v.current}

LEMMA TogetherWithOne ==
  ASSUME NEW runs, NEW r, r \notin runs, NEW n, NEW m, m[r] \in Nat,
         \A s \in runs : m[s] = n[s],
         IsFiniteSet(Together(runs, n))
  PROVE  /\ IsFiniteSet(Together(runs \cup {r}, m))
         /\ Cardinality(Together(runs \cup {r}, m)) = Cardinality(Together(runs, n)) + m[r]
<1> DEFINE old == Together(runs, n)
           new == {r} \X (1..m[r])
<1>1. Together(runs \cup {r}, m) = old \cup new
  BY DEF Together
<1>2. old \cap new = {}
  BY DEF Together
<1>3. IsFiniteSet(new) /\ Cardinality(new) = m[r]
  <2>1. IsFiniteSet({r}) /\ Cardinality({r}) = 1
    BY FS_Singleton
  <2>2. IsFiniteSet(1..m[r]) /\ Cardinality(1..m[r]) = m[r]
    BY FS_Interval
  <2>3. IsFiniteSet(new) /\ Cardinality(new) = Cardinality({r}) * Cardinality(1..m[r])
    BY <2>1, <2>2, FS_Product, Zenon
  <2>4. 1 * m[r] = m[r]
    OBVIOUS
  <2> QED
    BY <2>1, <2>2, <2>3, <2>4
<1>4. /\ IsFiniteSet(old \cup new)
      /\ Cardinality(old \cup new)
           = Cardinality(old) + Cardinality(new) - Cardinality(old \cap new)
  BY <1>3, FS_Union, Zenon
<1>5. Cardinality(old) \in Nat /\ Cardinality(old \cap new) = 0
  BY <1>2, FS_CardinalityType, FS_EmptySet
<1>6. old = Together(runs, n)
  OBVIOUS
<1> HIDE DEF old, new
<1>7. Cardinality(old \cup new) = Cardinality(old) + m[r]
  BY <1>3, <1>4, <1>5
<1> QED
  BY <1>1, <1>4, <1>6, <1>7, Zenon

(* A row that starts a key adds one current version, a row that changes    *)
(* one adds one closed version.                                            *)
LEMMA ChangeCounts ==
  ASSUME NEW h, Good(h), IsFiniteSet(h), NEW x, Fits(h, x)
  PROVE  /\ IsFiniteSet(Changed(h, x))
         /\ CurrentIn(h, x) = {} =>
              /\ Cardinality(Now(Changed(h, x))) = Cardinality(Now(h)) + 1
              /\ Cardinality(Past(Changed(h, x))) = Cardinality(Past(h))
         /\ CurrentIn(h, x) # {} =>
              /\ Cardinality(Now(Changed(h, x))) = Cardinality(Now(h))
              /\ Cardinality(Past(Changed(h, x))) = Cardinality(Past(h)) + 1
<1> DEFINE n == NewVersion(x)
           g == Changed(h, x)
<1>1. n.key = x.key /\ n.from = x.at /\ n.current = TRUE
  BY NewFields DEF Fits
<1>2. n \notin h
  BY <1>1 DEF Fits
<1>3. /\ IsFiniteSet(Now(h)) /\ IsFiniteSet(Past(h))
      /\ Cardinality(Now(h)) \in Nat /\ Cardinality(Past(h)) \in Nat
  <2>1. Now(h) \in SUBSET h /\ Past(h) \in SUBSET h
    BY DEF Now, Past
  <2> QED
    BY <2>1, FS_Subset, FS_CardinalityType
<1>4. g = Now(g) \cup Past(g)
  BY DEF Now, Past
<1>5. CASE CurrentIn(h, x) = {}
  <2>1. g = h \cup {n}
    BY <1>5 DEF Changed
  <2>2. Now(g) = Now(h) \cup {n} /\ Past(g) = Past(h) /\ n \notin Now(h)
    BY <1>1, <1>2, <2>1 DEF Now, Past
  <2>3. IsFiniteSet(g)
    BY <2>1, FS_AddElement
  <2>4. Cardinality(Now(h) \cup {n}) = Cardinality(Now(h)) + 1
    BY <1>3, <2>2, FS_AddElement
  <2> QED
    BY <1>5, <2>2, <2>3, <2>4
<1>6. CASE CurrentIn(h, x) # {}
  <2>1. PICK c \in CurrentIn(h, x) : TRUE
    BY <1>6
  <2> DEFINE e == Expire(c, x.at)
  <2>2. c \in h /\ c.key = x.key /\ c.current /\ c \in Version
    BY <2>1 DEF CurrentIn, Good
  <2>3. CurrentIn(h, x) = {c}
    BY <2>1 DEF CurrentIn, Good, IsChain, Version
  <2>4. e.key = c.key /\ e.from = c.from /\ e.current = FALSE
    BY <2>2, ExpiredFields DEF Fits
  <2>5. e \notin h
    <3> SUFFICES ASSUME e \in h
                 PROVE  FALSE
      OBVIOUS
    <3>1. e # c
      BY <2>2, <2>4
    <3> QED
      BY <2>2, <2>4, <3>1 DEF Good, IsChain
  <2>6. g = (h \ {c}) \cup {e} \cup {n}
    BY <2>3 DEF Changed
  <2> HIDE DEF e, n, g
  <2>7. /\ Now(g) = (Now(h) \ {c}) \cup {n} /\ c \in Now(h) /\ n \notin Now(h) \ {c}
        /\ Past(g) = Past(h) \cup {e} /\ e \notin Past(h)
    BY <1>1, <1>2, <2>2, <2>4, <2>5, <2>6 DEF Now, Past
  <2>8. /\ IsFiniteSet(Now(h) \ {c})
        /\ Cardinality(Now(h) \ {c}) = Cardinality(Now(h)) - 1
    BY <1>3, <2>7, FS_RemoveElement
  <2>9. /\ IsFiniteSet(Now(g)) /\ IsFiniteSet(Past(g))
        /\ Cardinality(Now(g)) = Cardinality(Now(h))
        /\ Cardinality(Past(g)) = Cardinality(Past(h)) + 1
    <3>1. /\ IsFiniteSet((Now(h) \ {c}) \cup {n})
          /\ Cardinality((Now(h) \ {c}) \cup {n}) = Cardinality(Now(h) \ {c}) + 1
      BY <2>7, <2>8, FS_AddElement
    <3>2. /\ IsFiniteSet(Past(h) \cup {e})
          /\ Cardinality(Past(h) \cup {e}) = Cardinality(Past(h)) + 1
      BY <1>3, <2>7, FS_AddElement
    <3> QED
      BY <1>3, <2>7, <2>8, <3>1, <3>2
  <2>10. IsFiniteSet(g)
    BY <1>4, <2>9, FS_Union
  <2> QED
    BY <1>6, <2>9, <2>10 DEF g
<1> QED
  BY <1>5, <1>6

Done == {r \in Run : pc[r] = "done"}

Inserted == [r \in Done |-> counts[r].inserted]

Expired == [r \in Done |-> counts[r].expired]

(* The table is finite, and a transaction that holds the lock has counted  *)
(* by how much the table it sees is ahead of the committed one.            *)
CountInv ==
  /\ IsFiniteSet(history)
  /\ IsFiniteSet(Together(Done, Inserted)) /\ IsFiniteSet(Together(Done, Expired))
  /\ CountsExplainHistory
  /\ \A r \in Run :
       /\ pc[r] \in {"idle", "staged"} => counts[r].inserted = 0 /\ counts[r].expired = 0
       /\ pc[r] = "apply" =>
            /\ IsFiniteSet(View(r))
            /\ Cardinality(Now(View(r))) = Cardinality(Now(history)) + counts[r].inserted
            /\ Cardinality(Past(View(r))) = Cardinality(Past(history)) + counts[r].expired

LEMMA CountInit == Init => CountInv
<1> SUFFICES ASSUME Init
             PROVE  CountInv
  OBVIOUS
<1>1. Done = {} /\ history = {}
  BY DEF Init, Done
<1>2. \A n : Together({}, n) = {}
  BY DEF Together
<1>3. IsFiniteSet({}) /\ Cardinality({}) = 0
  BY FS_EmptySet
<1>4. CountsExplainHistory
  BY <1>1, <1>2 DEF CountsExplainHistory, Done
<1> QED
  BY <1>1, <1>2, <1>3, <1>4 DEF Init, CountInv

\* A step that commits nothing leaves what is committed as it is counted.
LEMMA CountFrame ==
  ASSUME CountInv, history' = history,
         \A r \in Run : pc'[r] = "done" <=> pc[r] = "done",
         \A r \in Run : pc[r] = "done" => counts'[r] = counts[r],
         \A r \in Run :
           /\ pc'[r] \in {"idle", "staged"} => counts'[r].inserted = 0 /\ counts'[r].expired = 0
           /\ pc'[r] = "apply" =>
                /\ IsFiniteSet(View(r)')
                /\ Cardinality(Now(View(r)')) = Cardinality(Now(history)) + counts'[r].inserted
                /\ Cardinality(Past(View(r)')) = Cardinality(Past(history)) + counts'[r].expired
  PROVE  CountInv'
<1>1. Done' = Done
  BY DEF Done
<1>2. Inserted' = Inserted /\ Expired' = Expired
  BY <1>1 DEF Inserted, Expired, Done
<1>3. CountsExplainHistory <=>
        /\ Cardinality(Now(history)) = Cardinality(Together(Done, Inserted))
        /\ Cardinality(Past(history)) = Cardinality(Together(Done, Expired))
  BY DEF CountsExplainHistory, Now, Past, Done, Inserted, Expired
<1>4. CountsExplainHistory' <=>
        /\ Cardinality(Now(history')) = Cardinality(Together(Done', Inserted'))
        /\ Cardinality(Past(history')) = Cardinality(Together(Done', Expired'))
  BY DEF CountsExplainHistory, Now, Past, Done, Inserted, Expired
<1> QED
  BY <1>1, <1>2, <1>3, <1>4 DEF CountInv, Now, Past

LEMMA CountRollBack ==
  ASSUME Inv, CountInv, NEW r \in Run, pc[r] \in {"idle", "staged", "apply"}, RollBack(r)
  PROVE  CountInv'
<1> USE DEF Inv, TypeInv
<1>1. \A q \in Run : q # r => /\ pc'[q] = pc[q] /\ counts'[q] = counts[q]
                              /\ View(q)' = View(q)
  BY DEF RollBack, TypeOK, View
<1>2. pc'[r] = "failed" /\ history' = history
  BY DEF RollBack, TypeOK
<1> QED
  BY <1>1, <1>2, CountFrame DEF CountInv

LEMMA CountNext == Inv /\ CountInv /\ [Next]_vars => CountInv'
<1> SUFFICES ASSUME Inv, CountInv, [Next]_vars
             PROVE  CountInv'
  OBVIOUS
<1> USE DEF Inv, TypeInv
<1>1. ASSUME NEW r \in Run, NEW b \in Batches, Stage(r, b)
      PROVE  CountInv'
  <2>1. CASE RollBack(r)
    BY <1>1, <2>1, CountRollBack DEF Stage
  <2>2. CASE /\ pc' = [pc EXCEPT ![r] = "staged"]
             /\ UNCHANGED <<history, lock, txVars, last>>
    <3>1. \A q \in Run : View(q)' = View(q) /\ counts'[q] = counts[q]
      BY <2>2 DEF View, txVars
    <3>2. \A q \in Run : pc'[q] = IF q = r THEN "staged" ELSE pc[q]
      BY <2>2 DEF TypeOK
    <3>3. pc[r] = "idle" /\ history' = history
      BY <1>1, <2>2 DEF Stage
    <3> QED
      BY <3>1, <3>2, <3>3, CountFrame DEF CountInv
  <2> QED
    BY <1>1, <2>1, <2>2 DEF Stage
<1>2. ASSUME NEW r \in Run, LockTable(r)
      PROVE  CountInv'
  <2>1. \A q \in Run : View(q)' = View(q) /\ counts'[q] = counts[q]
    BY <1>2 DEF View, LockTable
  <2>2. \A q \in Run : pc'[q] = IF q = r THEN "apply" ELSE pc[q]
    BY <1>2 DEF LockTable, TypeOK
  <2>3. /\ pc[r] = "staged" /\ history' = history /\ View(r) = history
        /\ counts[r].inserted = 0 /\ counts[r].expired = 0
    BY <1>2 DEF LockTable, LockInv, View, CountInv
  <2>4. Cardinality(Now(history)) \in Nat /\ Cardinality(Past(history)) \in Nat
    <3>1. Now(history) \in SUBSET history /\ Past(history) \in SUBSET history
      BY DEF Now, Past
    <3> QED
      BY <3>1, FS_Subset, FS_CardinalityType DEF CountInv
  <2> QED
    BY <2>1, <2>2, <2>3, <2>4, CountFrame DEF CountInv
<1>3. ASSUME NEW r \in Run, NEW x \in todo[r], KeepRow(r, x)
      PROVE  CountInv'
  <2>1. \A q \in Run : View(q)' = View(q) /\ counts'[q] = counts[q] /\ pc'[q] = pc[q]
    BY <1>3 DEF View, KeepRow
  <2>2. history' = history
    BY <1>3 DEF KeepRow
  <2> QED
    BY <2>1, <2>2, CountFrame DEF CountInv
<1>4. ASSUME NEW r \in Run, NEW x \in todo[r], RefuseRow(r, x)
      PROVE  CountInv'
  BY <1>4, CountRollBack DEF RefuseRow
<1>5. ASSUME NEW r \in Run, NEW x \in todo[r], ChangeRow(r, x)
      PROVE  CountInv'
  <2>1. x \in Row /\ pc[r] = "apply" /\ x.at # 0
    BY <1>5 DEF ChangeRow, RowsInv, TypeOK
  <2>2. Fits(View(r), x) /\ Current(r, x) = CurrentIn(View(r), x)
    BY <1>5, <2>1, ChangedFits DEF ChangeRow, ViewInv
  <2>3. View(r)' = Changed(View(r), x) /\ history' = history
    BY <1>5, <2>2 DEF View, ChangeRow, Changed, TypeOK, Current
  <2>4. \A q \in Run : q # r => /\ View(q)' = View(q) /\ counts'[q] = counts[q]
    BY <1>5 DEF View, ChangeRow, TypeOK
  <2>5. pc' = pc
    BY <1>5 DEF ChangeRow
  <2>6. /\ CurrentIn(View(r), x) = {} => /\ counts'[r].inserted = counts[r].inserted + 1
                                         /\ counts'[r].expired = counts[r].expired
        /\ CurrentIn(View(r), x) # {} => /\ counts'[r].inserted = counts[r].inserted
                                         /\ counts'[r].expired = counts[r].expired + 1
    BY <1>5, <2>2 DEF ChangeRow, TypeOK
  <2>7. counts[r].inserted \in Nat /\ counts[r].expired \in Nat
    BY DEF TypeOK
  <2>8. /\ IsFiniteSet(View(r))
        /\ Cardinality(Now(View(r))) = Cardinality(Now(history)) + counts[r].inserted
        /\ Cardinality(Past(View(r))) = Cardinality(Past(history)) + counts[r].expired
    BY <2>1 DEF CountInv
  <2>9. Cardinality(Now(history)) \in Nat /\ Cardinality(Past(history)) \in Nat
    <3>1. Now(history) \in SUBSET history /\ Past(history) \in SUBSET history
      BY DEF Now, Past
    <3> QED
      BY <3>1, FS_Subset, FS_CardinalityType DEF CountInv
  <2>10. Good(View(r))
    BY DEF ViewInv
  <2>11. /\ IsFiniteSet(View(r)')
         /\ Cardinality(Now(View(r)')) = Cardinality(Now(history)) + counts'[r].inserted
         /\ Cardinality(Past(View(r)')) = Cardinality(Past(history)) + counts'[r].expired
    <3>1. CASE CurrentIn(View(r), x) = {}
      BY <2>2, <2>3, <2>6, <2>7, <2>8, <2>9, <2>10, <3>1, ChangeCounts
    <3>2. CASE CurrentIn(View(r), x) # {}
      BY <2>2, <2>3, <2>6, <2>7, <2>8, <2>9, <2>10, <3>2, ChangeCounts
    <3> QED
      BY <3>1, <3>2
  <2> QED
    BY <2>1, <2>3, <2>4, <2>5, <2>11, CountFrame DEF CountInv
<1>6. ASSUME NEW r \in Run, Commit(r)
      PROVE  CountInv'
  <2>1. pc[r] = "apply" /\ history' = View(r) /\ counts' = counts
    BY <1>6 DEF Commit
  <2>2. Done' = Done \cup {r} /\ r \notin Done
    BY <1>6 DEF Commit, Done, TypeOK
  <2>3. /\ Inserted'[r] = counts[r].inserted /\ Expired'[r] = counts[r].expired
        /\ counts[r].inserted \in Nat /\ counts[r].expired \in Nat
        /\ \A s \in Done : Inserted'[s] = Inserted[s] /\ Expired'[s] = Expired[s]
    BY <2>1, <2>2 DEF Inserted, Expired, TypeOK
  <2>4. /\ IsFiniteSet(Together(Done', Inserted'))
        /\ Cardinality(Together(Done', Inserted'))
             = Cardinality(Together(Done, Inserted)) + counts[r].inserted
    <3>1. /\ r \notin Done /\ Inserted'[r] \in Nat /\ IsFiniteSet(Together(Done, Inserted))
          /\ \A s \in Done : Inserted'[s] = Inserted[s]
      BY <2>2, <2>3 DEF CountInv
    <3>2. PICK n, m : n = Inserted /\ m = Inserted'
      OBVIOUS
    <3>3. /\ r \notin Done /\ m[r] \in Nat /\ IsFiniteSet(Together(Done, n))
          /\ \A s \in Done : m[s] = n[s]
      BY <3>1, <3>2
    <3>4. /\ IsFiniteSet(Together(Done \cup {r}, m))
          /\ Cardinality(Together(Done \cup {r}, m))
               = Cardinality(Together(Done, n)) + m[r]
      BY <3>3, TogetherWithOne
    <3> QED
      BY <2>2, <2>3, <3>2, <3>4
  <2>5. /\ IsFiniteSet(Together(Done', Expired'))
        /\ Cardinality(Together(Done', Expired'))
             = Cardinality(Together(Done, Expired)) + counts[r].expired
    <3>1. /\ r \notin Done /\ Expired'[r] \in Nat /\ IsFiniteSet(Together(Done, Expired))
          /\ \A s \in Done : Expired'[s] = Expired[s]
      BY <2>2, <2>3 DEF CountInv
    <3>2. PICK n, m : n = Expired /\ m = Expired'
      OBVIOUS
    <3>3. /\ r \notin Done /\ m[r] \in Nat /\ IsFiniteSet(Together(Done, n))
          /\ \A s \in Done : m[s] = n[s]
      BY <3>1, <3>2
    <3>4. /\ IsFiniteSet(Together(Done \cup {r}, m))
          /\ Cardinality(Together(Done \cup {r}, m))
               = Cardinality(Together(Done, n)) + m[r]
      BY <3>3, TogetherWithOne
    <3> QED
      BY <2>2, <2>3, <3>2, <3>4
  <2>6. /\ IsFiniteSet(history')
        /\ Cardinality(Now(history')) = Cardinality(Now(history)) + counts[r].inserted
        /\ Cardinality(Past(history')) = Cardinality(Past(history)) + counts[r].expired
    BY <2>1 DEF CountInv, Now, Past
  <2>7. /\ Cardinality(Now(history)) = Cardinality(Together(Done, Inserted))
        /\ Cardinality(Past(history)) = Cardinality(Together(Done, Expired))
    BY DEF CountInv, CountsExplainHistory, Now, Past, Done, Inserted, Expired
  <2>8. CountsExplainHistory'
    BY <2>4, <2>5, <2>6, <2>7 DEF CountsExplainHistory, Now, Past, Done, Inserted, Expired
  <2>9. \A q \in Run : pc'[q] # "apply" /\ (pc'[q] \in {"idle", "staged"} => pc[q] = pc'[q])
    BY <1>6 DEF Commit, LockInv, TypeOK
  <2> QED
    BY <2>1, <2>4, <2>5, <2>6, <2>8, <2>9 DEF CountInv
<1>7. ASSUME NEW r \in Run, Abort(r)
      PROVE  CountInv'
  BY <1>7, CountRollBack DEF Abort
<1>8. CASE UNCHANGED vars
  <2>1. \A q \in Run : View(q)' = View(q)
    BY <1>8 DEF vars, txVars, View
  <2> QED
    BY <1>8, <2>1, CountFrame DEF vars, txVars, CountInv
<1> QED
  BY <1>1, <1>2, <1>3, <1>4, <1>5, <1>6, <1>7, <1>8 DEF Next

\* The counts of the publications that have committed add up to the table:
\* rows_inserted to its keys, rows_expired to its closed versions (postgres.py:892).
THEOREM CountsCorrect == Spec => []CountsExplainHistory
<1>1. Init => Inv /\ CountInv
  BY InitInv, CountInit
<1>2. Inv /\ CountInv /\ [Next]_vars => (Inv /\ CountInv)'
  BY NextInv, CountNext
<1>3. CountInv => CountsExplainHistory
  BY DEF CountInv
<1> QED
  BY <1>1, <1>2, <1>3, PTL DEF Spec

-----------------------------------------------------------------------------
(* Publications are as good as serial *)

\* The table and the rows the publication under way works on.
Working == IF lock = None THEN history ELSE View(lock)

Pending == IF lock = None THEN {} ELSE todo[lock]

LEMMA Holder ==
  ASSUME Inv, NEW r \in Run, pc[r] = "apply"
  PROVE  lock = r /\ lock # None /\ Working = View(r) /\ Pending = todo[r]
BY NoneAssumption DEF Inv, LockInv, Working, Pending

\* Whoever does not hold the lock changes nothing of that.
LEMMA Outside ==
  ASSUME Inv, NEW r \in Run, lock # r, UNCHANGED <<history, lock>>,
         \A q \in Run \ {r} : /\ closed'[q] = closed[q] /\ added'[q] = added[q]
                              /\ todo'[q] = todo[q]
  PROVE  UNCHANGED <<Working, Pending>>
BY DEF Inv, TypeInv, TypeOK, Working, Pending, View

LEMMA RollBackGivesUp ==
  ASSUME Inv, NEW r \in Run, RollBack(r)
  PROVE  [Serial!SerialNext]_(Serial!serialVars)
<1>1. history' = history
  BY DEF RollBack
<1>2. CASE lock = r
  <2>1. lock' = None /\ lock # None
    BY <1>2, NoneAssumption DEF RollBack
  <2>2. Serial!GiveUp
    BY <1>1, <2>1 DEF Serial!GiveUp
  <2> QED
    BY <2>2 DEF Serial!SerialNext
<1>3. CASE lock # r
  <2>1. lock' = lock
    BY <1>3 DEF RollBack
  <2>2. UNCHANGED <<Working, Pending>>
    BY <1>1, <1>3, <2>1, Outside DEF RollBack, Inv, TypeInv, TypeOK
  <2> QED
    BY <1>1, <2>1, <2>2 DEF Serial!serialVars, Working, Pending
<1> QED
  BY <1>2, <1>3

LEMMA RowIsTaken ==
  ASSUME Inv, NEW r \in Run, pc[r] = "apply", NEW x \in todo[r], Due(r, x), ~ Refused(r, x),
         todo' = [todo EXCEPT ![r] = @ \ {x}], UNCHANGED <<history, lock>>
  PROVE  Serial!Take(x) /\ x \in Pending
<1>1. /\ lock = r /\ lock # None /\ Pending = todo[r]
      /\ lock' # None /\ Pending' = todo[r] \ {x}
  BY Holder DEF Pending, Inv, TypeInv, TypeOK
<1>2. x.key # None
  BY DEF Refused
<1> QED
  BY <1>1, <1>2 DEF Serial!Take, Due, Pending

LEMMA KeptIsRepeated ==
  ASSUME Inv, NEW r \in Run, NEW x \in todo[r], KeepRow(r, x)
  PROVE  Serial!SerialNext
<1>1. Serial!Take(x) /\ x \in Pending
  BY RowIsTaken DEF KeepRow
<1>2. Working = View(r) /\ Working' = Working
  BY Holder DEF KeepRow, Working, View
<1>3. Serial!NothingNew(x)
  <2>1. \A v \in View(r) : v.key = x.key /\ v.from = x.at => v.value = x.value
    BY DEF KeepRow, Refused, Exact
  <2>2. \E v \in View(r) : v.key = x.key /\ v.value = x.value /\ (v.from = x.at \/ v.current)
    BY DEF KeepRow, Unchanged, Exact, Current
  <2> QED
    BY <1>2, <2>1, <2>2 DEF Serial!NothingNew, Serial!Versions, Serial!Says, Working
<1>4. Serial!Repeat(x)
  BY <1>1, <1>2, <1>3 DEF Serial!Repeat, Working
<1> QED
  BY <1>1, <1>4 DEF Serial!SerialNext, Pending

LEMMA ChangedIsNewer ==
  ASSUME Inv, NEW r \in Run, NEW x \in todo[r], ChangeRow(r, x)
  PROVE  Serial!SerialNext
<1>1. Serial!Take(x) /\ x \in Pending
  BY RowIsTaken DEF ChangeRow
<1>2. Working = View(r) /\ Working' = View(r)'
  BY Holder DEF ChangeRow, Working
<1>3. x \in Row /\ x.at # 0
  BY DEF Inv, RowsInv, ChangeRow, TypeInv, TypeOK
<1>4. Good(View(r)) /\ Fits(View(r), x) /\ Current(r, x) = CurrentIn(View(r), x)
  BY <1>3, ChangedFits DEF Inv, TypeInv, ViewInv, ChangeRow
<1>5. Serial!CurrentVersions(x) = Current(r, x)
  BY <1>2 DEF Serial!CurrentVersions, Serial!Versions, Current, Working
<1>6. Serial!Newer(x)
  <2>1. \A v \in View(r) : v.key = x.key => v.from < x.at /\ (~ v.current => v.until < x.at)
    BY <1>4, EndsBefore
  <2>2. \A v \in Current(r, x) : v.value # x.value
    BY <1>4 DEF Fits
  <2> QED
    BY <1>2, <1>5, <2>1, <2>2 DEF Serial!Newer, Serial!Versions, Working
<1>7. View(r)' = (View(r) \ Current(r, x)) \union {NewVersion(x)}
                   \union {Expire(v, x.at) : v \in Current(r, x)}
  <2> DEFINE now == Current(r, x)
             news == {Expire(v, x.at) : v \in now} \union {NewVersion(x)}
  <2>1. /\ closed'[r] = closed[r] \union (now \intersect history)
        /\ added'[r] = (added[r] \ now) \union news
        /\ history' = history
    BY DEF ChangeRow, Inv, TypeInv, TypeOK
  <2>2. now \subseteq View(r)
    BY DEF Current
  <2> HIDE DEF now, news
  <2>3. View(r)' = (View(r) \ now) \union news
    BY <2>1, <2>2 DEF View
  <2> QED
    BY <2>3 DEF now, news
<1>8. Serial!Change(x)
  <2>1. Serial!Opened(x) = NewVersion(x)
    BY DEF Serial!Opened, NewVersion
  <2>2. \A v : Serial!Ended(v, x) = Expire(v, x.at)
    BY DEF Serial!Ended, Expire
  <2>3. Working' = (Working \ Serial!CurrentVersions(x)) \union {Serial!Opened(x)}
                     \union {Serial!Ended(v, x) : v \in Serial!CurrentVersions(x)}
    BY <1>2, <1>5, <1>7, <2>1, <2>2
  <2> QED
    BY <1>1, <1>6, <2>3 DEF Serial!Change, Working
<1> QED
  BY <1>1, <1>8 DEF Serial!SerialNext, Pending

LEMMA SerialStep == Inv /\ [Next]_vars => [Serial!SerialNext]_(Serial!serialVars)
<1> SUFFICES ASSUME Inv, [Next]_vars
             PROVE  [Serial!SerialNext]_(Serial!serialVars)
  OBVIOUS
<1>1. CASE UNCHANGED vars
  BY <1>1 DEF vars, txVars, Serial!serialVars, View
<1>2. ASSUME NEW r \in Run, NEW b \in Batches, Stage(r, b)
      PROVE  [Serial!SerialNext]_(Serial!serialVars)
  <2>1. CASE RollBack(r)
    BY <2>1, RollBackGivesUp
  <2>2. CASE ~ RollBack(r)
    BY <1>2, <2>2 DEF Stage, txVars, Serial!serialVars, View
  <2> QED
    BY <2>1, <2>2
<1>3. ASSUME NEW r \in Run, LockTable(r)
      PROVE  Serial!SerialNext
  <2>1. batch[r] \in Batches /\ \A x \in batch[r] : x.at # 0
    BY <1>3 DEF LockTable, Inv, RowsInv
  <2>2. lock = None /\ lock' = r /\ r # None
    BY <1>3, NoneAssumption DEF LockTable
  <2>3. View(r) = history /\ View(r)' = history /\ todo'[r] = batch[r] /\ history' = history
    BY <1>3 DEF LockTable, View, Inv, LockInv, TypeInv, TypeOK
  <2>4. Serial!Begin(batch[r])
    BY <2>1, <2>2, <2>3 DEF Serial!Begin, View
  <2> QED
    BY <2>1, <2>4 DEF Serial!SerialNext
<1>4. ASSUME NEW r \in Run, Commit(r)
      PROVE  Serial!SerialNext
  <2>1. lock = r /\ lock # None /\ Working = View(r) /\ Pending = todo[r]
    BY <1>4, Holder DEF Commit
  <2>2. history' = View(r) /\ lock' = None /\ todo[r] = {}
    BY <1>4, <2>1 DEF Commit
  <2>3. Serial!Publish
    BY <2>1, <2>2 DEF Serial!Publish, Working, Pending
  <2> QED
    BY <2>3 DEF Serial!SerialNext
<1> QED
  BY <1>1, <1>2, <1>3, <1>4, KeptIsRepeated, ChangedIsNewer, RollBackGivesUp
  DEF Next, RefuseRow, Abort

(* However publications race, fail and die, the history becomes what       *)
(* publications one after another, whole or not at all, would make of it   *)
(* (postgres.py:811, 835).                                                 *)
THEOREM SerialImplemented == Spec => HistoryIsSerial
<1>1. Init => Serial!SerialInit
  BY DEF Init, Serial!SerialInit
<1>2. Inv /\ [Next]_vars => [Serial!SerialNext]_(Serial!serialVars)
  BY SerialStep
<1> QED
  BY <1>1, <1>2, InvHolds, PTL DEF Spec, HistoryIsSerial, Serial!SerialSpec
=============================================================================
